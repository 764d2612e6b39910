# Verification of semantic-pubsub-jev

semantic-pubsub-jev is a publish/subscribe service in which a subscriber states in words
what it cares about, and a language model ("Jev") decides for each published message who
receives it. These TLA+ modules model the program's own logic: the registry of interests
in Redis, the refresher that keeps it alive, the budget guard and the retrying client in
front of the model's API, the judge and the record it leaves, the ring and the channels of
the console, its page, the shutdown of the process, and the harness of the measurements.
TLC checks them on small instances; TLAPS proves every property of the passing runs but the
four liveness properties for every value of the constants, some under a hypothesis that
section 5 names, and that the compositions implement the parts they are around.

Paths below are relative to `src/`.

## 1. The system

    sockets --> go-ws-server (bus, external) --> judge --> limiter --> client --> Jev API
       |              |        ^                   |
       |         hooks|        | Candidates        | record
       v              v        |                   v
    interest   app: OnConnect, |               recorder --> SSE --> console page
    frames     OnDisconnect    |                   ^
       |              |     interest store         | bare publish
       +--------------+---->  (Redis)  <------ console API
                      |        ^   ^
                  refresher ---+   +--- demonstration seeding

| Component | Source | State | Operations |
| --- | --- | --- | --- |
| Interest store | `internal/interest/interest.go` | three kinds of Redis key, each with a TTL: interest, index of a topic, topics of a connection | Set, Candidates, Drop, Refresh, Topics |
| App and refresher | `internal/app/app.go`, `refresher.go`, `main.go` | the ids of the sockets this instance holds; a ticker; whether it is to stop | OnConnect, OnDisconnect, interest handler, refreshAll, Run with its shutdown |
| Seeding | `internal/app/seed.go` | none of its own | seedDemoSubscribers |
| Limiter | `internal/budget/budget.go` | spend, calls of the last minute, the tripped flag | Ask (reserve, call, record), Stats, Remaining |
| Jev client | `internal/jev/jev.go` | none between calls; attempt and wait within one | Ask, attempt, backoff, sleep |
| Judges | `internal/judge/judge.go`, `keyword.go` | totals for Stats | Judge |
| Recorder | `internal/judge/recorder.go` | ring, next, seq, the viewers' channels | add, Recent, Subscribe and its release |
| Console API | `internal/web/web.go` | none of its own | publish, subscribers, stream, config, runs |
| Console page | `internal/web/static/app.js` | the list of records it shows; the selected topic, the topics offered and the list of subscribers | boot, stream, selectTopic, createTopic, loadSubs, addSub, removeSub, rendering |
| Measurement | `internal/measure/`, `cmd/measure/` | observations, the file of raw responses | RunStability, RunBatch, RunWording, analyseRecorded |
| Bus and socket server | go-ws-server, not in the repository | | calls the hooks, the candidate source, the judge |
| Demo client, Findings page | `cmd/demo`, static text | | |

What is hard in each, and what makes it right:

- **Store.** No operation but Set is atomic: Candidates takes three commands, Drop two,
  Refresh a pipeline that is not a transaction. Any number of instances run them at the
  same time on the same keys, and keys expire under them. Right means: a live interest is
  found by every lookup; an index or a connection set never expires under what it lists;
  what was dropped stays gone.
- **App and refresher.** Sweeps are late, fail for some connections or half way through
  one, and work from a snapshot of the ids; instances die, or stop, and then the sweeps
  end before the sockets do. Right means: an open socket's interests stay, and a gone one's
  go, with or without a Drop; an interrupted process ends.
- **Seeding.** Check, then write, by several instances and beside users.
- **Limiter.** The checks and the claim are in the lock, the call and its cost are not.
  Right means: the overshoot of the spend is bounded, no window holds more calls than the
  ceiling, and no slot leaks.
- **Client.** Answers, waits and deadlines come due together. Right means: no request too
  many or too early, every call ends, none fails without a reason. Retries happen inside
  one slot of the limiter.
- **Recorder.** The ring wraps; sends happen outside the lock, to channels that may be
  full, or closed. Right means: Recent is the newest records in order; a viewer misses only
  what did not fit; a publisher is never held up or brought down by a viewer.
- **Judge and console.** Two independent lookups around one publish, a judge that may
  answer some candidates only, or fail. Right means: the feed shows each publish once, and
  what it shows is what was delivered.
- **Page.** It never waits for a response; callbacks act on whatever the page is by then.
  Right means: the feed has no record twice, the panel shows the topic that is selected, and
  a default name is nobody else's.
- **Measurement.** A projection against a ceiling; paced requests against the limiter's
  window; missing answers; a run that breaks off. Right means: a run that is let through is
  not refused half way, its file holds what it saw, and a reported change is one.

`PROJECT.json` lists each hazard at its line with the properties that cover it, and a note
where none does.

## 2. The modules

| Module | Models | Builds on |
| --- | --- | --- |
| `InterestStore` | the store, one action per Redis command | |
| `InterestLifecycle` | sockets, hooks, refresher, crash, graceful stop, console ids | extends `InterestStore` |
| `Subscriptions` | what an instance promises its sockets, abstractly | implemented by `InterestLifecycle` |
| `Seeding` | several seeders, users | extends `InterestStore` |
| `Limiter` | reserve and Ask | |
| `JevClient` | the client's attempts, waits and deadline | |
| `LimitedJev` | the limiter around the client, as `buildJudge` wires them | extends `Limiter`, an instance of `JevClient` |
| `Recorder` | ring, channels, send loop, viewers | |
| `RecordLog` | the abstract log that Recent shows | implemented by `Recorder` |
| `ConsoleFeed` | the page's feed: fetch, stream, reconnection | extends `Recorder` |
| `ConsolePublish` | a publish from console to feed, with either judge | |
| `ServerRun` | the run of the process and its shutdown around the publishes | extends `ConsolePublish` |
| `ConsolePanel` | the page's panel: topics, subscribers, additions, removals | |
| `Measurement` | a measurement command: flags, projection, run, file, reports | an instance of `Limiter` with one caller |
| `InterestStoreProofs`, `JevClientProofs`, `MeasurementProofs` | theorems | extend their module |
| `InterestLifecycleProofs`, `SeedingProofs` | theorems | extend their module and `InterestStoreProofs` |
| `LimitedJevProofs` | theorems | extends `LimitedJev`, and so `Limiter`; an instance of `JevClientProofs` |
| `ConsoleFeedProofs` | theorems | extends `ConsoleFeed`, and so `Recorder` |
| `ConsoleProofs` | theorems | extends `ServerRun` and `ConsolePanel` |
| `MC...` | small instances: symmetry and sequences a `.cfg` cannot write | extend their module |

How state and actions correspond to the code:

- **`InterestStore`.** `predicate`, `index`, `topicsOf` are the values of the keys
  `int:`, `idx:`, `conn:`; `interestTTL`, `indexTTL`, `connTTL` their remaining lifetimes,
  0 for a key that does not exist. `call[w]` is what a goroutine has read and not yet
  acted on; other goroutines' commands come between its own. Set and Drop's second half
  are MULTI/EXEC transactions and single actions. Refresh's pipeline is one action per
  EXPIRE, in an order of topics that is left open as it is in Go, each interest before its
  index and the connection set last. `Abandon` is any failure, and with `PipelineBreaks` a
  pipeline stops between two commands. `Tick` is time: it does not pass in the middle of a
  pipeline (its commands leave in one write). `raced` is a history: the calls on whose
  keys a Set came in between. A key is a pair, as if joining topic and id with a colon
  were injective; a `KeyPrefix` changes nothing. Topics reads only and is left out.
- **`InterestLifecycle`.** `Connect`, `Register`, `Disconnect` with `StartDrop` and
  `FinishDrop` are the hooks; `StartSweep`, `RefreshNext`, `RefreshStep`, `RefreshDone`,
  `RefreshFails` the refresher, which runs in a worker of its own; `due` and `fired` the
  ticker with its one-place channel. The console's ids are tracked by no refresher. `Crash`
  takes every socket without a Drop; `Stop` is the end of Run's context, at which the refresher
  returns at its next select and the server closes its sockets, each with its OnDisconnect,
  within `Drain` ticks. The socket server is assumed to finish a socket's frames before it
  calls OnDisconnect.
- **`Subscriptions`.** Sockets and what lookups may find of them, one step per event: a socket
  opens, wants something, leaves; what a gone one wanted vanishes bit by bit. It has no keys,
  no TTLs and no sweeps: `ImplementsSubscriptions` maps the store's routable interests to it.
- **`Limiter`.** `Check` and `Claim` are the two halves of reserve with the lock held
  (`Unlocked` for the others), apart because the code reads the clock twice; `Record` and
  `CallFails` follow the call. A call is its index in `claimed`; `recent` is `l.recent`.
- **`JevClient`.** `requests` is the history of one call's attempts. An answer is "ok",
  "retry" (429, 5xx), "fatal" (another status) or "broken" (no answer, unreadable).
  A tick is 250 ms. `Expire` is the end of the context and may come at any moment.
- **`LimitedJev`.** `Reserve`, `Call`, `Proceed` and `Finish` are the limiter's Ask around a call of the
  client's; both have one clock. `http` and `afterTrip` are histories of what left for the API.
- **`Recorder`.** `Add` is `add` up to the unlock; `Send`, `SkipFull`, `SendClosed` are one
  turn of the loop over the copied channels, in any order (the list comes from a map).
- **`ConsoleFeed`.** `Snapshot` is the handler of `/api/decisions`, `Show` the page's callback that
  shows the response and creates the EventSource, `Open` the stream's Subscribe, `PageReceive`
  the handler's receive and the page's onmessage in one (frames in the network are as good as
  in the channel: a break may lose them), `Break` a broken connection, after which the handler's
  release (`Other`) may take its time. `lost` and `displaced` are histories.
- **`ConsolePublish`.** `Look`, `Route`, then a judge, then the bus's `Deliver` to one after
  the other of those chosen (`Chosen`), then `Finish`. `Refuse` is an error of `PublishTopic`: at its lookup,
  or after the judgment, when nobody, some or all may have got the message. `delivered` is who
  did; `records` is what the console knows. `InterestsChange` may come anywhere. A score is its place in
  a short range. `ShownAsDelivered` is what the page marks, by the score and not by the judge's decision.
- **`ServerRun`.** `Interrupt` ends the context; `Shutdown` is what follows `broker.Run`, for an
  interrupt or an error; `Timeout` the context of `httpSrv.Shutdown`; `End` its return. A publish
  that was accepted goes on until the process ends.
- **`ConsolePanel`.** `open` holds the page's requests, each in a slot of its own: sent by
  `ChooseTopic`, `CreateTopic`, `SubmitAdd`, `ClickRemove` or a callback, served by `Serve...`, and
  acted on by `Answer...`, in any order; any of them may fail. `registry` is the store as the handlers see
  it. A list is "newest", "old" (a later one was asked for) or "stale" (others changed the topic
  since it was read, or a request failed that may have); the feed, the messages and what is typed are left out.
  `untidy` is a history: a default name was given while the page was not at rest, a name of
  its form was typed, or something was removed.
- **`Measurement`.** `ReadFlags`, then `DryRun`, `Decline` or `Begin`; `Pace`, `Reserve`, then `Answer`
  or `Refused`. A probability is its place in a short range, means are compared without a
  division. `Projected` is the estimate that the command compares with the ceiling. `SumTo` and `Picked` are
  the loops that add up and that collect, as recursive functions; `Sorted` is `sort.Ints`. `Cell` and
  `Unstable` are the explorer's view of the file.

The operators marked `mutated` are plausible bugs in the definition they precede; no
specification uses them. Each property that holds is broken by one of them under the
same configuration (`PROJECT.json`, "mutants").

## 3. What the runs check

Runs that pass, with the reason their bounds reach the interesting cases:

| Run | Shows | Bounds |
| --- | --- | --- |
| `store` | If pipelines run to their end (`PipelineBreaks = FALSE`): an index and a connection set outlive what they list (`IndexOutlivesInterests`, `ConnOutlivesInterests`); a live interest drops out of its index only through a prune, and out of its connection's set only through a Drop, that a Set overlapped (`HiddenOnlyByRacingPrune`, `OrphanedOnlyByRacingDrop`). A pipeline that stops half way leaves the index, or the set, to expire under a live interest; the last two properties name that as the one other way, and what it comes to is `lifecycle`'s question. | Two topics and two connections: a Refresh that has done one topic and not the other, an index shared by two connections with different lifetimes. TTL 3: fresh, ageing and about to expire. One worker: each race here is of one call with Sets, and the theorems cover any number of workers. |
| `lifecycle` | What an open socket registered stays routable and owned (`OpenSocketsKeepInterests`); a gone one's is dead after one TTL and the sweep's lag (`GoneSocketsExpire`), never comes back (`NoResurrection`), and in the end is gone from every key (`GoneSocketsLeaveNoTrace`). Together: what lookups find is what `Subscriptions` promises (`ImplementsSubscriptions`). | One socket and one console id on its topic, which keeps the shared index alive: the case in which only a prune removes the gone socket. TTL 7 gives the code's interval of TTL/3 = 2; a sweep may end 1 tick late, one refresh may fail, half way too, and a server that stops closes its sockets within 1 tick: 2 intervals, the lag and the drain still fit in the TTL. With TTL 6 they do not: the margin of the code's comment is for one of the two, a missed cycle or a slow stop. |
| `seeding` | A seeder overwrites what a user registered only if it came after the seeder's lookup or was hidden by a racing prune (`OverwritesAreRaces`). | Two seeders, so that they also race each other, one user goroutine, two ids, expiry at TTL 2. |
| `client` | `RetriesJustified`, `WaitsHonoured`, `OutcomeExplained` and, under fairness, `CallEnds`. | The default of two retries; a Retry-After of nothing, of 3 ticks and of more than the clock; no header. Calls share no state, so one caller is all there is. |
| `limited` | Spend and open exposure stay below the ceiling and one call for each concurrent caller (`ExposureBounded`); any MaxCalls + 1 calls take a window (`RateBounded`); it refuses for rate exactly when the window is full (`RefusesExactlyWhenFull`). At the API: requests within a window, and after the breaker tripped, are bounded by slots times attempts (`RequestRateBounded`, `RequestsAfterTrip`). | Two callers, one slot, one retry, calls that cost 0 or 1 against a ceiling of 1, a clock of three windows, so the slot is claimed, forgotten and claimed again and the breaker trips while the other caller is in flight. The theorems cover any number of callers and slots. |
| `feed` | Recent is the newest records in order (`RecentIsNewest`), which is the abstract log of `RecordLog` (`ImplementsLog`); the page shows no record twice (`FeedHasNoDuplicates`), lacks only what fell into a gap of its connection (`FeedMissesOnlyGaps`), and fewer older records stand in front of one than there are publishers (`FeedDisorderBounded`); a send loop ends though no viewer receives (`AddFinishes`). | Four records in a ring of two, a feed of two and a channel of three: the ring wraps, the feed drops its oldest, the channel fills. Two publishers overtake each other. Two channels: the page reconnects, while its old channel, or another viewer's, is full or closes. In the code the feed holds 50 and the ring 100: how far the ring goes beyond the feed never reaches the page. |
| `publish` | A publish that ends and was not disturbed leaves one record if the model judged it, a bare one if nobody was there and the console's lookup said so, and none otherwise: none if the keyword judge decided it or its judgment failed (`UndisturbedPublishesAreRecorded`); two records mean that interests changed in between (`DoubleRecordsAreRaces`); of what the model judged nobody gets more than the record shows as delivered, and everybody as much unless the publish is refused after its judgment (`NoDeliveryOnAGap`); an interrupted process ends (`ProcessEnds`). | One message, as publishes share nothing but the interests, which change at any time anyhow; three subscribers, so one is unanswered while another is delivered to and a third is not; scores below and at the threshold; both judges; a viewer who never leaves; with and without a console. |
| `panel` | At rest the panel shows the topic that is selected, unless an older list came in after the newest one (`PanelShowsTopic`); an unnamed addition replaces nobody as long as nothing was removed or named alike (`DefaultNamesAreFresh`). | Two topics, one of them not configured, two ids, three requests at a time: two lists overtake each other while an addition is open, and the answer of an addition sends two more. |
| `measurement` | A paced run is never refused for its rate (`PacedRunsAreNotRefused`), nor for its spend while it keeps to the projection (`RunsWithinEstimateAreNotRefused`); the file reproduces the run's observations, of an unfinished run too (`ReplayAgrees`); flips, changes of decision and disagreements are changes of an answer (`ChangesCrossTheThreshold`). | Flags that are out of order, over the ceiling, too small for the anchors, or too few; a projection that is exactly the ceiling of 14; two sizes of two repeats, two interests either of which may go unanswered, and `-repeats 0`; the ceiling is two calls in three ticks, and a request may be late by a tick. |

Deadlock is not checked: each of these systems may stop, because the counters and clocks
of the instances end (`MaxClock`, `MaxSeq`), because all keys may be gone and nobody come,
or because a run is over. `MaxClock`, `MaxSeq`, `Lag`, `MaxMisses`, `Drain`, `Slack` are the bounds; the
first two only end a behaviour, the others are assumptions on the environment
without which the properties that depend on them do not hold.

### Runs that find a violation

- **`recorder_closed`, `NoPublisherPanics`.** `add` copies the channels under the lock and
  sends after it; a viewer that leaves in between closes its channel, and the send
  panics, `default` or not (`internal/judge/recorder.go:86`, `:145`). `recorder.go:83`: "a
  stalled viewer must never hold up a publish".
- **`store_lookup`, `LookupComplete`.** Candidates prunes ids it found dead one round trip
  earlier. A Set in between makes the id live, and the prune takes it out of the index
  again: it stays live, is refreshed, and no lookup finds it until the next Set
  (`internal/interest/interest.go:145`). The comment (`:107-109`) says the index converges on
  the truth.
- **`publish_feed`, `FeedTellsNobodyFromNoMatch`.** A judgment that left every candidate
  unanswered is recorded with an empty list, which the page shows as "no subscribers"
  (`internal/web/static/app.js:245`). `README.md:137-139` says these are different facts.

### Where code and comments part, without a run of its own

The properties above are stated as the code has them. The words differ in these places:

- `internal/budget/budget.go:133` bounds the overshoot by "a single request"; it is one call
  for each concurrent caller (`ExposureBounded`), each of up to 1 + MaxRetries requests.
- `budget.go:143-145`: a failed call keeps its slot since "a retry storm is exactly what the
  rate ceiling exists to stop"; the client's own retries are inside one slot
  (`RequestRateBounded` has the factor).
- `interest.go:182`: Drop "removes every interest held by a connection"; not one whose Set
  comes between its two halves (`OrphanedOnlyByRacingDrop`).
- `interest.go:150`, Topics: also lists topics whose interests have all expired.
- `refresher.go:42`: the one-second floor takes the margin from a TTL below three seconds.
- `seed.go:43-44` says seeding never overwrites; it may, in the races `OverwritesAreRaces` names.
- `web.go:183-185` keeps the feed "honest". With the keyword judge a publish that reaches
  subscribers leaves no record (`keyword.go:25-60` has no recorder), so the feed shows only
  those that reached nobody; a publish whose judgment failed leaves none either, nor does
  one to nobody if the console's lookup failed; and one whose interests change between the
  two lookups leaves none or two.
- `judge.go:194` records a judgment before anything is delivered, and `web.go:191-196` takes
  nothing back: a publish refused after its judgment stays in the feed with deliveries that
  did not happen, or not all, while its publisher is told that it failed (`NoDeliveryOnAGap`
  bounds what was delivered by what is shown, and has equality only for a publish that ends).
- `app.js:408-411`: records added between the response and the opening of the stream, or while
  EventSource reconnects, never reach the feed, although by `README.md:114-115` the decision that
  routed a message "appears in the feed" (`FeedMissesOnlyGaps` names the gaps); a boot whose
  fetch fails opens no stream at all.
- `keyword.go:50-52` says the keyword score meets "the same threshold logic"; any hit delivers.
- `batch.go:269`: a case without an answer at the first size is compared with a baseline
  of zero and "not delivered"; `ChangesCrossTheThreshold` leaves it out.
- `README.md:107` speaks of three subscribers on each default topic; `seed.go:25-38` has two.
- `README.md:145` says seeding "only ever writes to topics that have none": see `OverwritesAreRaces`.
- `app.go:252-254`: the usage is reported before the console has finished; publishes that are
  judged while it shuts down are not in the report.
- `app.js:137-140`: the answer of an addition empties the form, with what was typed since.
- `app.js:130`: the default name is the number of subscribers shown and one, which after a
  removal may be the name of another, whose predicate it then replaces; and DELETE of an id
  (`web.go:153`) takes it off every topic, not only the one shown.
- `jev.go:341`: from the 36th retry on the doubling overflows to a wait below zero, before the
  limit of 8 s is applied; `ClientAssumption` excludes so many.
- `cmd/measure/main.go:269`, `stability.go:132`: a threshold of zero or below means the default in a run, and itself in
  `-analyse`; `-repeats 0` is projected as no request at all and runs the default number.
- `cmd/measure/main.go:292`: a size given twice is run twice and its first observations are
  lost; `MeasurementAssumption` excludes it.

## 4. Fairness

- `FairLifecycleSpec`: time passes, the refresher's goroutine runs, a Drop that began
  commits or fails (weak fairness: Go schedules goroutines that can run, and Redis calls
  return). Publishes to a topic keep coming, and not every lookup and prune fails (strong
  fairness): the code prunes only in lookups, so without publishes a trace remains while
  others keep the index alive. This is the premise of the comment "converges". A server that
  stops closes its sockets (`Closing`).
- `FairClientSpec`: a call's context ends in the end (the bus gives every judgment a
  deadline, `JUDGE_TIMEOUT_MS`), and a goroutine with something to do does it. Nothing is
  assumed of the API: `Succeed`, `Retry` and an unprompted `Fail` need never happen.
- `ServerSpec`: a broker whose context has ended returns (external), the timer of Shutdown fires,
  and Run returns when it can. Nothing is assumed of viewers or of publishes in flight, nor that
  there is an interrupt.
- `FeedSpec`: a send loop that can go on goes on (there is nothing in it that blocks). Nothing is
  assumed of viewers, of the page or of its connection.

## 5. What is proved

All for any constants that satisfy the modules' assumptions: positive sizes and lifetimes
(`StoreAssumption`, `RecorderAssumption`, `FeedAssumption`), a maximal cost (`LimiterAssumption`), no
more retries than the doubling allows (`ClientAssumption`), a threshold a score can reach
(`PublishAssumption`), a pace that covers the window, messages to ask about, and sizes of
which none is zero or there twice (`MeasurementAssumption`), sockets, seeders and the refresher among the connections and goroutines of
the store (`LifecycleAssumption`, `SeedingAssumption`); and where something is counted, finitely
many publishers (`FeedAssumption`) and ids (`PanelAssumption`).

- **`InterestStoreProofs`.** Type correctness; `KeysConsistent` (a key exists exactly as long as
  it holds something and has time left); `PruneIsStale` and `DropHasReadAll` (what a call has
  read is still true unless a Set overlapped it); then, if pipelines run to their end
  (`~PipelineBreaks`), `IndexOutlivesInterests` and `ConnOutlivesInterests`. From them
  `HiddenOnlyByRacingPrune` and `OrphanedOnlyByRacingDrop`, which need no premise because they
  allow for expiry where pipelines may stop, and only there; `NoResurrection` has neither. The invariants build on each other in this order: an index is inductively longer lived than its
  members because Set gives both a full TTL, expiry takes one tick from each, and a
  refresh that has renewed an interest has its index pending (`Extending`), which is why
  the premise is needed: a pipeline that stops between the two leaves the index behind,
  and it then depends on the next sweep (`lifecycle`, with `PipelineBreaks = TRUE`, shows that
  one comes in time).
- **`LimitedJevProofs`, the limiter.** Type correctness; `ExposureBounded`, from the fact that a call can only
  start while the spend is below the ceiling, and each step trades exposure for spend;
  `SpendBounded`; `RateBounded`, through `RateInv`: claims are in the order of time, one
  caller at most is between check and claim and what it checked still holds, and a call
  that was forgotten is out of the window. Then the call that claims comes a window after
  the one MaxCalls before it, since otherwise that one and all since would still be
  remembered, more than the check allows. `RefusesExactlyWhenFull`, since what was forgotten is out of the
  window; `TrippedIsFinal`.
- **`LimitedJevProofs`, around the client.** Each step of the limiter around the client is a step of the limiter or
  a stutter, so `ExposureBounded` and `RateBounded` hold at the API however the client retries; and
  the client's invariant (`IInv` of `JevClientProofs`) is kept by the composition. Two bounds are
  about the requests themselves, which no single part counts.
  `RequestsAfterTrip`: `TripInv` names a set of pairs of a caller and an attempt, one for each
  request that left after the breaker tripped, all of callers that were in flight then; the caller
  that tripped it is not among them. That is why the bound has one caller less. The theorem asks
  for at least one caller and for no fewer than no attempts: otherwise nothing leaves and the
  product is negative.
  `RequestRateBounded`: the state does not say which call a request was of, so `HasHistory` says
  that there is a history which does (`History`): each request has the claim it belongs to, which
  attempt of it it is, how many claims had been made before it, and which calls were in flight
  then. Requests `i` to `j` are distinct attempts of the calls claimed between them and of those in
  flight at `i` (`Crowded`), so there can be only so many (`Crowd`); if they left within a window,
  so did the claims between them, and of those there are fewer than the ceiling by `RateBounded`.
- **`JevClientProofs`.** Type correctness, `RetriesJustified`, `WaitsHonoured` and `OutcomeExplained`, from what a
  call's place says of its requests (`CallInv`: all but the last were answered with "retry", and
  while the call is ready or waits the last one too, with an attempt left) and of the time since
  (`WaitInv`: a call that waits does so until the backoff is over, a call that is ready has
  waited). Calls share nothing, so each step is looked at for its caller alone (`Others`).
- **`SeedingProofs`.** `OverwritesAreRaces`, for any number of instances that seed at a time, whatever of
  their commands fail. The invariant is what a seeder knows of its topic as long as no user has
  registered there since its lookup began (`Knows`): that lookup has in hand every interest of a
  user that lookups find, and once it has found nothing there is none. Other instances, drops,
  prunes and expiry keep it, since every step of the store but Set only makes interests
  unroutable (`OnlyLess`), and other seeders only set the demonstration's. So what such a seeder
  overwrites was not routable: a prune had hidden it.
- **`MeasurementProofs`, the limiter.** `PacedRunsAreNotRefused`, for any experiment, sizes and repeats, any
  ceiling and any interval and slack that cover a window. A request claims its slot
  within the slack after it was due, and the next is due an interval after it at least; so claims
  lie as far back as `Spaced` says, whatever the calls took (`PaceInv`). Those still in the window when a
  request is due are then fewer than the ceiling, with the request itself no more than it.
  The limiter's own theorems are not needed: they say when it refuses, not that it need not.
  `RunsWithinEstimateAreNotRefused`: requests come in batches, one for each size, so the estimates of
  fewer than all come to less than the projection (`FewerCostLess`: after `n` requests they are
  what the full batches cost and the rest of one), and the projection was compared with the ceiling
  before the run began (`BudgetInv`). A run is a client of the limiter (`MeasurementUsesLimiter`),
  and as it makes one call at a time, one that costs more than its estimate passes the ceiling by
  less than one call (`OvershootIsOneCall`).
- **`MeasurementProofs`, the reports.** Sums, the probabilities picked from a file and `FlattenSeq` are defined
  by recursion. `SetInduction` is induction stated of a set: a set that holds 0 and the successor of each of its
  numbers holds all, for were `N` missing, adding one would be a one-to-one map of a finite set into
  itself that misses 0, against the pigeonhole principle of the library. With it `RecursionExists`
  says that a function defined by recursion over `0 .. n` exists, and `SumsAgree`, `PicksAgree` that
  there is one only; the lemmas after that say what one more term, line or answer adds.
  `ReplayAgrees`: `ReplayInv` has, beside that equation itself, what makes it inductive: the sizes
  are distinct, and a size has answers only once the run has come to it. An answer is therefore
  added to the last size that has any, and appending it there is appending it to the whole
  (`FlatAppend`), which is what its line does to the picks (`AnalysedNext`, `CellNext`).
  `ChangesCrossTheThreshold` follows from the types in `ReplayInv`: a sum of terms on one
  side of the threshold is on that side (`SumBounds`), so a mean has an answer on its own
  side (`MeanFact`), and none or all of the answers are delivered exactly if the set of those that are
  is empty or the whole (`DeliveredFact`).
- **`ConsoleProofs`, the publishes.** Type correctness; `RecordsExplained` and `Recorded` (a record is the
  judge's or the console's, and there is one of each exactly when it should be) with
  `LookupsAgree` (the two lookups agree unless the interests changed in between) give
  `UndisturbedPublishesAreRecorded` and `DoubleRecordsAreRaces`. `NoDeliveryOnAGap` adds `DecisionsJust` (a decision is
  about a candidate, and delivers exactly at the threshold) and `DeliveriesJust` (nobody gets a message
  before it is judged, nobody but the chosen, and all of them if the publish ends). A run of the
  process implements a publish's specification, so all three hold while it stops.
- **`ConsoleFeedProofs`.** First the recorder: type correctness; `RecentIsNewest`, through
  `RingInv`, which says at which place of the ring each record is; that the ring implements
  `RecordLog` under `window <- Recent(0)`; and `SendInv`, of the channels: what is in one, or on its
  way to one, has been added, and is on its way from one publisher at most. Then the page:
  `ConsoleFeed` implements `Recorder`: the page and its connections do
  nothing that `Recorder` does not allow a viewer, so what is proved of the ring holds of what
  the page fetches. `FeedInv` gives `FeedTypeOK`, `FeedHasNoDuplicates`,
  `FeedDisorderBounded` and `FeedMissesOnlyGaps`, none of which is inductive alone. `FlowInv` says
  that a record is in one place at a time: shown or queued, still to come from a publisher, or
  lost; so what comes was not there before. `DisorderInv` counts, with the older records in front of
  a record, those still to come, since any of them may end up there: each has a publisher of its
  own in its send loop, and the record that is being added has another. That is why
  `FeedAssumption` says that there are finitely many publishers.
- **`InterestLifecycleProofs`.** The instance over the store, for any sockets, console ids, topics,
  workers and lifetimes. `LifecycleTypes`: types, and which calls each goroutine can be in (`Roles`).
  `OpenSocketsKeepInterests` has one hypothesis, `Timing`: a sweep ends before the next one is due,
  and the refreshes that may fail in a row, a late sweep and the drain of a server that stops fit
  into the TTL. The run's constants satisfy it (1 < 2 and 2 * 2 + 1 + 1 < 7); as the interval is a
  third of the TTL, it leaves room for one miss in a row, and for none below a TTL of three seconds,
  where the interval is a second all the same. The invariant, `LifeInv`, has four parts.
  `Ownership`: until it goes a socket is in an index, and in what a lookup has read, only with what
  it still holds, and no prune or drop is after it; that is why the races of the store do not hurt
  it. `Keeping`: each of the three keys of an interest has more time left than passes in the worst
  case before it is renewed (`Need`). `Renewing`: what a refresh under way does not find in its list
  has been renewed since the sweep began, but for the index it still has to renew. `Ticker`: the
  ticker does not fire again before a sweep is over. The store alone promises none of this: nothing
  there says that a refresh ever comes.
  `GoneSocketsExpire` (`Expiring`) needs no `Timing`. `NoResurrection` is lifted from the store:
  each step of the instance but a crash is a step of the store, and a crash changes no key.
  `SubscriptionsImplemented`, under `Timing`: every step of the instance is a step of
  `Subscriptions` or changes nothing that it shows.
- **`ConsoleProofs`, the panel.** `PanelTypeOK` and `PanelShowsTopic`, from `PanelInv`: a list that is shown
  or on its way is of the selected topic unless it is known to be old (`ListInv`), and the newest is
  true unless a write of this page has been served and not answered (`TruthInv`); before a topic is
  selected nothing is listed or removed (`EmptyInv`). At rest no write is under way, which is why
  the property is about rest. `DefaultNamesAreFresh` adds `NameInv`: while nothing untidy has happened
  the ids of each topic are compact, and the one default name that may be on its way is above
  them, even if ids of another form are registered meanwhile. It counts ids, so
  `PanelAssumption` says that there are finitely many.

Only model-checked: liveness (`CallEnds`, `AddFinishes`, `GoneSocketsLeaveNoTrace`, `ProcessEnds`), which the
prover cannot do under fairness. The library's theorems of induction take an operator as a
parameter, which the installed provers cannot instantiate; where induction over data is needed
(`MeasurementProofs`) it goes through `SetInduction`.

## 6. Not modelled

Environment parsing (`main.go`) and the building of the parts (`New`, which returns early on
errors before anything runs), the demo client, the Findings page and styles: I/O in a fixed
order or layout. Of the page: sample messages, the publish button's state, rendering. The
wording of questions, the decoding of payloads, token prices and floating-point statistics:
no property depends on them. Read-only operations (Topics, Stats, Remaining, runs). The bus
and Redis are external and modelled as the code relies on them; the writes of the measurement
file are assumed to succeed (the code ignores when they do not).

## 7. Plan

The publishes together with the store: a lookup of `InterestStore` in place of the topic's
interests that `ConsolePublish` reads at once.
