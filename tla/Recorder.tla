------------------------------ MODULE Recorder ------------------------------
(***************************************************************************)
(* internal/judge/recorder.go: the ring of recent judgments and the        *)
(* channels that stream new ones to the console's viewers.                 *)
(*                                                                         *)
(* A publish adds its record under the mutex, copies the list of channels, *)
(* unlocks, and only then sends to each channel without blocking.  A       *)
(* viewer's handler (stream in internal/web/web.go) subscribes, receives,  *)
(* and on its way out removes and closes its channel under the mutex.      *)
(* A record is its sequence number: what is in it does not matter here.    *)
(***************************************************************************)
EXTENDS Naturals, Sequences, FiniteSets

CONSTANTS Publishers,   \* goroutines that add records
          Viewers,      \* calls of Subscribe, each with its channel
          Size,         \* how many records the ring holds
          Buffer,       \* how many a channel holds
          MaxSeq        \* bound: how many records are added

ASSUME RecorderAssumption ==
    /\ Size \in Nat \ {0}
    /\ Buffer \in Nat \ {0}
    /\ MaxSeq \in Nat

VARIABLES
    ring, next, seq,   \* as in the code; next counts from 0
    channel,           \* the state of each viewer's channel
    queue,             \* what is in each channel
    sending,           \* the send loop of each publisher: record, channels left
    panicked           \* publishers that sent on a closed channel

vars == <<ring, next, seq, channel, queue, sending, panicked>>

NoSend == [rec |-> 0, to |-> {}]

TypeOK ==
    /\ seq \in 0 .. MaxSeq
    /\ ring \in Seq(1 .. MaxSeq) /\ Len(ring) <= Size
    /\ next \in 0 .. Size - 1
    /\ channel \in [Viewers -> {"none", "open", "closed"}]
    /\ queue \in [Viewers -> Seq(1 .. MaxSeq)]
    /\ sending \in [Publishers -> [rec : 0 .. MaxSeq, to : SUBSET Viewers]]
    /\ panicked \in SUBSET Publishers

Init ==
    /\ ring = <<>> /\ next = 0 /\ seq = 0
    /\ channel = [v \in Viewers |-> "none"]
    /\ queue = [v \in Viewers |-> <<>>]
    /\ sending = [p \in Publishers |-> NoSend]
    /\ panicked = {}

subs == {v \in Viewers : channel[v] = "open"}

RecentFirst(n) ==      \* mutated: the limit takes the oldest
    LET out == IF Len(ring) < Size
               THEN ring
               ELSE SubSeq(ring, next + 1, Size) \o SubSeq(ring, 1, next)
    IN  IF n > 0 /\ Len(out) > n THEN SubSeq(out, 1, n) ELSE out

\* What Recent(n) returns; 0 asks for everything.
Recent(n) ==
    LET out == IF Len(ring) < Size
               THEN ring
               ELSE SubSeq(ring, next + 1, Size) \o SubSeq(ring, 1, next)
    IN  IF n > 0 /\ Len(out) > n THEN SubSeq(out, Len(out) - n + 1, Len(out)) ELSE out

-----------------------------------------------------------------------------
AddInPlace(p) ==      \* mutated: next does not move
    /\ sending[p] = NoSend /\ p \notin panicked
    /\ seq < MaxSeq
    /\ seq' = seq + 1
    /\ IF Len(ring) < Size
       THEN ring' = Append(ring, seq')
       ELSE ring' = [ring EXCEPT ![next + 1] = seq']
    /\ sending' = [sending EXCEPT ![p] = IF subs = {} THEN NoSend
                                         ELSE [rec |-> seq', to |-> subs]]
    /\ UNCHANGED <<next, channel, queue, panicked>>

(* add, up to the unlock.                                                   *)
Add(p) ==
    /\ sending[p] = NoSend /\ p \notin panicked
    /\ seq < MaxSeq
    /\ seq' = seq + 1
    /\ IF Len(ring) < Size
       THEN ring' = Append(ring, seq') /\ UNCHANGED next
       ELSE /\ ring' = [ring EXCEPT ![next + 1] = seq']
            /\ next' = (next + 1) % Size
    /\ sending' = [sending EXCEPT ![p] = IF subs = {} THEN NoSend
                                         ELSE [rec |-> seq', to |-> subs]]
    /\ UNCHANGED <<channel, queue, panicked>>

\* mutated: the loop does not move on.
SentAgain(p, v) == UNCHANGED sending

\* One turn of the send loop is over.
Sent(p, v) ==
    LET left == sending[p].to \ {v}
    IN  sending' = [sending EXCEPT ![p] = IF left = {} THEN NoSend
                                          ELSE [rec |-> sending[p].rec, to |-> left]]

SendFirst(p, v) ==      \* mutated: the newest record goes to the front
    /\ v \in sending[p].to
    /\ channel[v] = "open"
    /\ Len(queue[v]) < Buffer
    /\ queue' = [queue EXCEPT ![v] = <<sending[p].rec>> \o @]
    /\ Sent(p, v)
    /\ UNCHANGED <<ring, next, seq, channel, panicked>>

Send(p, v) ==
    /\ v \in sending[p].to
    /\ channel[v] = "open"
    /\ Len(queue[v]) < Buffer
    /\ queue' = [queue EXCEPT ![v] = Append(@, sending[p].rec)]
    /\ Sent(p, v)
    /\ UNCHANGED <<ring, next, seq, channel, panicked>>

SkipFullReturning(p, v) ==      \* mutated: return instead of the next channel
    /\ v \in sending[p].to
    /\ channel[v] = "open"
    /\ Len(queue[v]) = Buffer
    /\ sending' = [sending EXCEPT ![p] = NoSend]
    /\ UNCHANGED <<ring, next, seq, channel, queue, panicked>>

SkipFullBlocking(p, v) == FALSE      \* mutated: a send without a default

\* The select's default: the channel is full and the record is not sent.
SkipFull(p, v) ==
    /\ v \in sending[p].to
    /\ channel[v] = "open"
    /\ Len(queue[v]) = Buffer
    /\ Sent(p, v)
    /\ UNCHANGED <<ring, next, seq, channel, queue, panicked>>

\* A send on a closed channel panics, even in a select with a default.  What
\* was still to be sent is not.
SendClosed(p, v) ==
    /\ v \in sending[p].to
    /\ channel[v] = "closed"
    /\ panicked' = panicked \cup {p}
    /\ sending' = [sending EXCEPT ![p] = NoSend]
    /\ UNCHANGED <<ring, next, seq, channel, queue>>

-----------------------------------------------------------------------------
(* A viewer.                                                                *)
Subscribe(v) ==
    /\ channel[v] = "none"
    /\ channel' = [channel EXCEPT ![v] = "open"]
    /\ UNCHANGED <<ring, next, seq, queue, sending, panicked>>

Receive(v) ==
    /\ channel[v] = "open"
    /\ queue[v] # <<>>
    /\ queue' = [queue EXCEPT ![v] = Tail(@)]
    /\ UNCHANGED <<ring, next, seq, channel, sending, panicked>>

Release(v) ==
    /\ channel[v] = "open"
    /\ channel' = [channel EXCEPT ![v] = "closed"]
    /\ UNCHANGED <<ring, next, seq, queue, sending, panicked>>

SendLoop(p) == \E v \in Viewers : Send(p, v) \/ SkipFull(p, v) \/ SendClosed(p, v)

Next ==
    \/ \E p \in Publishers : Add(p) \/ SendLoop(p)
    \/ \E v \in Viewers : Subscribe(v) \/ Receive(v) \/ Release(v)

Spec == Init /\ [][Next]_vars

-----------------------------------------------------------------------------
(* Recent returns the newest records, oldest first, and no gaps: the ring   *)
(* evicts the oldest whatever its fill and the position of next.            *)
RecentIsNewest ==
    \A n \in 0 .. Size + 1 :
        LET held == IF seq < Size THEN seq ELSE Size
            len  == IF n > 0 /\ n < held THEN n ELSE held
        IN  Recent(n) = [i \in 1 .. len |-> seq - len + i]

(* The ring implements the log that RecordLog describes.                    *)
Log == INSTANCE RecordLog WITH last <- seq, window <- Recent(0)
ImplementsLog == Log!LogSpec

(* "A stalled viewer must never hold up a publish": every send loop ends,   *)
(* although no viewer ever need receive.                                    *)
AddFinishes ==
    \A p \in Publishers : sending[p] # NoSend ~> sending[p] = NoSend

(* The same comment, of a viewer that leaves: the publish goes on.          *)
NoPublisherPanics == panicked = {}
=============================================================================
