------------------------- MODULE ConsoleFeedProofs -------------------------
(***************************************************************************)
(* The recorder and the feed of the console page, for any sizes and any    *)
(* numbers of publishers and viewers.  First Recorder's ring and its send  *)
(* loops.  Then the page: every behaviour of ConsoleFeed is one of         *)
(* Recorder, so that what is proved of it holds with the page too, and the *)
(* page shows each record once, nearly in order, and misses only what fell *)
(* into a gap.                                                             *)
(***************************************************************************)
EXTENDS ConsoleFeed, FiniteSetTheorems, SequenceTheorems, TLAPS

-----------------------------------------------------------------------------
(* The recorder.                                                            *)

Held == IF seq < Size THEN seq ELSE Size

\* Where each record is in the ring: in front of next the newest, from next on
\* the oldest.
RingInv ==
    /\ seq \in Nat
    /\ ring \in Seq(Nat) /\ Len(ring) = Held
    /\ next \in 0 .. Size - 1
    /\ seq < Size => next = 0 /\ \A i \in 1 .. seq : ring[i] = i
    /\ seq >= Size =>
         \A i \in 1 .. Size :
            ring[i] = IF i <= next THEN seq - next + i ELSE seq - Size - next + i

\* Every step but Add leaves the ring alone.
LEMMA OnlyAddWrites ==
    ASSUME [Next]_vars
    PROVE  UNCHANGED <<ring, next, seq>> \/ \E p \in Publishers : Add(p)
<1>1. ASSUME NEW p \in Publishers, SendLoop(p) PROVE UNCHANGED <<ring, next, seq>>
  BY <1>1 DEF SendLoop, Send, SkipFull, SendClosed
<1>2. ASSUME NEW v \in Viewers, Subscribe(v) \/ Receive(v) \/ Release(v)
      PROVE  UNCHANGED <<ring, next, seq>>
  BY <1>2 DEF Subscribe, Receive, Release
<1> QED
  BY <1>1, <1>2 DEF Next, vars

\* next wraps at the end of the ring.
LEMMA Wrap ==
    ASSUME NEW n \in 0 .. Size - 1
    PROVE  (n + 1) % Size = IF n + 1 = Size THEN 0 ELSE n + 1
  BY RecorderAssumption

\* Adding a record keeps the ring in order.
LEMMA RingStep ==
    ASSUME RingInv, NEW p \in Publishers, Add(p)
    PROVE  RingInv'
<1>1. seq \in Nat /\ seq' = seq + 1 /\ Size \in Nat \ {0} /\ next \in 0 .. Size - 1
  BY RecorderAssumption DEF RingInv, Add
<1>2. CASE seq < Size
  <2>1. Len(ring) = seq /\ Len(ring) < Size /\ next = 0 /\ ring \in Seq(Nat)
    BY <1>1, <1>2 DEF RingInv, Held
  <2>2. ring' = Append(ring, seq + 1) /\ next' = 0
    BY <1>1, <2>1 DEF Add
  <2>3. ring' \in Seq(Nat) /\ Len(ring') = seq + 1
    BY <1>1, <2>1, <2>2
  <2>4. \A i \in 1 .. seq : ring[i] = i
    BY <1>2 DEF RingInv
  <2>5. \A i \in 1 .. seq + 1 : ring'[i] = i
    BY <1>1, <2>1, <2>2, <2>4
  <2> QED
    BY <1>1, <1>2, <2>2, <2>3, <2>5 DEF RingInv, Held
<1>3. CASE seq >= Size
  <2>1. Len(ring) = Size /\ ring \in Seq(Nat)
    BY <1>1, <1>3 DEF RingInv, Held
  <2>2. ring' = [ring EXCEPT ![next + 1] = seq + 1] /\ next' = (next + 1) % Size
    BY <1>1, <2>1 DEF Add
  <2>3. next' = IF next + 1 = Size THEN 0 ELSE next + 1
    BY <1>1, <2>2, Wrap
  <2>4. ring' \in Seq(Nat) /\ Len(ring') = Size
    BY <1>1, <2>1, <2>2
  <2>5. \A i \in 1 .. Size :
           ring[i] = IF i <= next THEN seq - next + i ELSE seq - Size - next + i
    BY <1>3 DEF RingInv
  <2>6. \A i \in 1 .. Size : ring'[i] = IF i = next + 1 THEN seq + 1 ELSE ring[i]
    BY <1>1, <2>1, <2>2
  <2>7. \A i \in 1 .. Size :
           ring'[i] = IF i <= next' THEN seq' - next' + i ELSE seq' - Size - next' + i
    BY <1>1, <2>3, <2>5, <2>6
  <2> QED
    BY <1>1, <1>3, <2>3, <2>4, <2>7 DEF RingInv, Held
<1> QED
  BY <1>1, <1>2, <1>3

\* The ring is in order in every reachable state.
LEMMA RingCorrect == Spec => []RingInv
<1>1. Init => RingInv
  BY RecorderAssumption DEF Init, RingInv, Held
<1>2. RingInv /\ [Next]_vars => RingInv'
  <2>1. ASSUME RingInv, UNCHANGED <<ring, next, seq>> PROVE RingInv'
    BY <2>1 DEF RingInv, Held
  <2> QED
    BY <2>1, RingStep, OnlyAddWrites
<1> QED
  BY <1>1, <1>2, PTL DEF Spec

\* A sequence is the function of its elements.
LEMMA SeqIsFunction ==
    ASSUME NEW S, NEW s \in Seq(S)
    PROVE  s = [i \in 1 .. Len(s) |-> s[i]]
  OBVIOUS

\* What is left of a sequence from the place behind n on.
LEMMA EndOfSeq ==
    ASSUME NEW s \in Seq(Nat), NEW n \in Nat, n < Len(s)
    PROVE  /\ SubSeq(s, n + 1, Len(s)) \in Seq(Nat)
           /\ Len(SubSeq(s, n + 1, Len(s))) = Len(s) - n
           /\ \A i \in 1 .. Len(s) - n : SubSeq(s, n + 1, Len(s))[i] = s[n + i]
  OBVIOUS

\* The whole of the ring, in the order Recent returns it.
LEMMA RecentAll ==
    ASSUME RingInv
    PROVE  Recent(0) = [i \in 1 .. Held |-> seq - Held + i]
<1>1. seq \in Nat /\ Size \in Nat \ {0} /\ next \in 0 .. Size - 1 /\ ring \in Seq(Nat)
  BY RecorderAssumption DEF RingInv
<1>2. CASE seq < Size
  BY <1>1, <1>2 DEF RingInv, Recent, Held
<1>3. CASE seq >= Size
  <2> DEFINE old == SubSeq(ring, next + 1, Size)
             new == SubSeq(ring, 1, next)
  <2>1. Len(ring) = Size /\ Held = Size
    BY <1>1, <1>3 DEF RingInv, Held
  <2>2. /\ old \in Seq(Nat) /\ Len(old) = Size - next
        /\ \A i \in 1 .. Size - next : old[i] = ring[next + i]
    <3>1. next \in Nat /\ next < Len(ring) /\ Len(ring) = Size
      BY <1>1, <2>1
    <3>2. /\ SubSeq(ring, next + 1, Len(ring)) \in Seq(Nat)
          /\ Len(SubSeq(ring, next + 1, Len(ring))) = Len(ring) - next
          /\ \A i \in 1 .. Len(ring) - next :
                SubSeq(ring, next + 1, Len(ring))[i] = ring[next + i]
      BY <1>1, <3>1, EndOfSeq
    <3> QED
      BY <3>1, <3>2
  <2>3. /\ new \in Seq(Nat) /\ Len(new) = next
        /\ \A i \in 1 .. next : new[i] = ring[i]
    BY <1>1, <2>1
  <2>4. Recent(0) = old \o new
    BY <1>1, <2>1 DEF Recent
  <2> HIDE DEF old, new
  <2>5. Len(old \o new) = Size /\ old \o new \in Seq(Nat)
    BY <1>1, <2>2, <2>3
  <2>6. \A i \in 1 .. Size :
           ring[i] = IF i <= next THEN seq - next + i ELSE seq - Size - next + i
    BY <1>3 DEF RingInv
  <2>7. ASSUME NEW i \in 1 .. Size PROVE (old \o new)[i] = seq - Size + i
    <3>1. CASE i <= Size - next
      <4>1. (old \o new)[i] = ring[next + i] /\ next + i \in 1 .. Size /\ ~(next + i <= next)
        BY <1>1, <2>2, <2>3, <3>1
      <4> QED
        BY <1>1, <2>6, <4>1
    <3>2. CASE i > Size - next
      <4>1. /\ (old \o new)[i] = ring[i - (Size - next)]
            /\ i - (Size - next) \in 1 .. Size /\ i - (Size - next) <= next
        BY <1>1, <2>2, <2>3, <3>2
      <4>2. ring[i - (Size - next)] = seq - next + (i - (Size - next))
        BY <2>6, <4>1
      <4>3. seq - next + (i - (Size - next)) = seq - Size + i
        BY <1>1
      <4> QED
        BY <4>1, <4>2, <4>3
    <3>3. i <= Size - next \/ i > Size - next
      BY <1>1
    <3> QED
      BY <3>1, <3>2, <3>3
  <2>8. old \o new = [i \in 1 .. Size |-> (old \o new)[i]]
    BY <2>5, SeqIsFunction
  <2> QED
    BY <2>1, <2>4, <2>7, <2>8
<1> QED
  BY <1>1, <1>2, <1>3

\* And what it returns of it when it is asked for n records.
LEMMA RecentNewest ==
    ASSUME RingInv, NEW n \in Nat
    PROVE  LET len == IF n > 0 /\ n < Held THEN n ELSE Held
           IN  Recent(n) = [i \in 1 .. len |-> seq - len + i]
<1>1. seq \in Nat /\ Held \in Nat
  BY RecorderAssumption DEF RingInv, Held
<1>2. Recent(0) = [i \in 1 .. Held |-> seq - Held + i]
  BY RecentAll
<1>3. Recent(n) = IF n > 0 /\ Len(Recent(0)) > n
                  THEN SubSeq(Recent(0), Len(Recent(0)) - n + 1, Len(Recent(0)))
                  ELSE Recent(0)
  BY DEF Recent
<1>4. Recent(0) \in Seq(Int) /\ Len(Recent(0)) = Held
  BY <1>1, <1>2
<1>5. CASE n > 0 /\ n < Held
  <2> DEFINE s == SubSeq(Recent(0), Held - n + 1, Held)
  <2>1. s \in Seq(Int) /\ Len(s) = n /\ \A i \in 1 .. n : s[i] = Recent(0)[Held - n + i]
    BY <1>1, <1>4, <1>5
  <2>2. \A i \in 1 .. n : s[i] = seq - n + i
    BY <1>1, <1>2, <1>5, <2>1
  <2>3. Recent(n) = s
    BY <1>3, <1>4, <1>5
  <2> HIDE DEF s
  <2> QED
    BY <1>1, <1>5, <2>1, <2>2, <2>3
<1>6. CASE ~(n > 0 /\ n < Held)
  BY <1>1, <1>2, <1>3, <1>4, <1>6
<1> QED
  BY <1>5, <1>6

(* Recent(n) is the newest n records, or all the ring holds, oldest first.  *)
THEOREM RecentCorrect == Spec => []RecentIsNewest
<1>1. RingInv => RecentIsNewest
  <2> SUFFICES ASSUME RingInv, NEW n \in 0 .. Size + 1
               PROVE  LET len == IF n > 0 /\ n < Held THEN n ELSE Held
                      IN  Recent(n) = [i \in 1 .. len |-> seq - len + i]
    BY DEF RecentIsNewest, Held
  <2>1. n \in Nat
    BY RecorderAssumption
  <2> QED
    BY <2>1, RecentNewest
<1> QED
  BY <1>1, RingCorrect, PTL

-----------------------------------------------------------------------------
(* The send loops.  A record is on its way from one publisher only, to      *)
(* channels that have been opened.                                          *)
SendInv ==
    /\ \A p \in Publishers : sending[p].to # {} => sending[p].rec \in 1 .. seq
    /\ \A p, q \in Publishers :
          sending[p].to # {} /\ sending[q].to # {} /\ sending[p].rec = sending[q].rec => p = q
    /\ \A p \in Publishers : \A v \in sending[p].to : channel[v] # "none"
    /\ \A v \in Viewers : channel[v] = "none" => queue[v] = <<>>

SendTypes == [rec : 0 .. MaxSeq, to : SUBSET Viewers]

\* What a turn of a send loop leaves of it.
LEMMA SentStep ==
    ASSUME TypeOK, NEW p \in Publishers, NEW v \in Viewers, v \in sending[p].to, Sent(p, v)
    PROVE  /\ sending' \in [Publishers -> SendTypes]
           /\ \A q \in Publishers \ {p} : sending'[q] = sending[q]
           /\ sending'[p].to = sending[p].to \ {v}
           /\ sending'[p].to # {} => sending'[p].rec = sending[p].rec
<1>1. /\ sending \in [Publishers -> SendTypes]
      /\ NoSend \in SendTypes /\ NoSend.to = {}
  BY RecorderAssumption DEF TypeOK, NoSend, SendTypes
<1>2. [rec |-> sending[p].rec, to |-> sending[p].to \ {v}] \in SendTypes
  BY <1>1 DEF SendTypes
<1>3. CASE sending[p].to \ {v} = {}
  BY <1>1, <1>3 DEF Sent
<1>4. CASE sending[p].to \ {v} # {}
  BY <1>1, <1>2, <1>4 DEF Sent
<1> QED BY <1>3, <1>4

\* The end of a send loop by a panic.
LEMMA PanicStep ==
    ASSUME TypeOK, NEW p \in Publishers, sending' = [sending EXCEPT ![p] = NoSend]
    PROVE  /\ sending' \in [Publishers -> SendTypes]
           /\ \A q \in Publishers \ {p} : sending'[q] = sending[q]
           /\ sending'[p].to = {}
BY RecorderAssumption DEF TypeOK, NoSend, SendTypes

\* What a publisher has to send once it has added a record.
LEMMA AddStep ==
    ASSUME TypeOK, NEW p \in Publishers, Add(p)
    PROVE  /\ seq \in Nat /\ seq' = seq + 1 /\ seq' \in 1 .. MaxSeq
           /\ sending' \in [Publishers -> SendTypes]
           /\ \A q \in Publishers \ {p} : sending'[q] = sending[q]
           /\ sending[p].to = {} /\ sending'[p].to = subs
           /\ subs # {} => sending'[p].rec = seq'
<1>1. /\ seq \in Nat /\ MaxSeq \in Nat /\ seq < MaxSeq /\ seq' = seq + 1
      /\ sending \in [Publishers -> SendTypes] /\ subs \in SUBSET Viewers
      /\ NoSend \in SendTypes /\ NoSend.to = {} /\ sending[p] = NoSend
  BY RecorderAssumption DEF TypeOK, NoSend, SendTypes, Add, subs
<1>2. [rec |-> seq', to |-> subs] \in SendTypes
  BY <1>1 DEF SendTypes
<1>3. CASE subs = {}
  BY <1>1, <1>3 DEF Add
<1>4. CASE subs # {}
  BY <1>1, <1>2, <1>4 DEF Add
<1> QED BY <1>1, <1>3, <1>4

\* A record on its way was added, and is on no other publisher's way.
LEMMA OnTheWay ==
    ASSUME TypeOK, SendInv, NEW p \in Publishers, NEW v \in sending[p].to
    PROVE  /\ sending[p].rec \in 1 .. seq /\ sending[p].rec \in 1 .. MaxSeq
           /\ \A q \in Publishers : sending[q].to # {} /\ sending[q].rec = sending[p].rec => q = p
<1>1. seq \in Nat /\ seq <= MaxSeq /\ MaxSeq \in Nat
  BY RecorderAssumption DEF TypeOK
<1> QED BY <1>1 DEF SendInv

LEMMA TypeStep == TypeOK /\ SendInv /\ [Next]_vars => TypeOK'
<1> SUFFICES ASSUME TypeOK, SendInv, [Next]_vars PROVE TypeOK'
  OBVIOUS
<1>1. ASSUME NEW p \in Publishers, Add(p) PROVE TypeOK'
  <2>1. /\ ring \in Seq(1 .. MaxSeq) /\ Len(ring) <= Size
        /\ next \in 0 .. Size - 1 /\ Size \in Nat \ {0}
    BY RecorderAssumption DEF TypeOK
  <2>2. seq' \in 1 .. MaxSeq /\ sending' \in [Publishers -> SendTypes]
    BY <1>1, AddStep
  <2>3. ring' \in Seq(1 .. MaxSeq) /\ Len(ring') <= Size /\ next' \in 0 .. Size - 1
    <3>1. CASE Len(ring) < Size
      <4>1. ring' = Append(ring, seq') /\ next' = next
        BY <1>1, <3>1 DEF Add
      <4>2. ring' \in Seq(1 .. MaxSeq) /\ Len(ring') = Len(ring) + 1
        BY <2>1, <2>2, <4>1, AppendProperties
      <4>3. Len(ring) \in Nat
        BY <2>1
      <4> QED BY <2>1, <3>1, <4>1, <4>2, <4>3
    <3>2. CASE ~(Len(ring) < Size)
      <4>1. next' \in 0 .. Size - 1
        BY <1>1, <2>1, <3>2, Wrap DEF Add
      <4>2. ring' = [ring EXCEPT ![next + 1] = seq'] /\ next + 1 \in 1 .. Len(ring)
        BY <1>1, <2>1, <3>2 DEF Add
      <4>3. ring' \in Seq(1 .. MaxSeq) /\ Len(ring') = Len(ring)
        BY <2>1, <2>2, <4>2, ExceptSeq
      <4> QED BY <2>1, <4>1, <4>3
    <3> QED BY <3>1, <3>2
  <2> QED BY <1>1, <2>2, <2>3 DEF Add, TypeOK, SendTypes
<1>2. ASSUME NEW p \in Publishers, SendLoop(p) PROVE TypeOK'
  <2>1. PICK v \in Viewers : Send(p, v) \/ SkipFull(p, v) \/ SendClosed(p, v)
    BY <1>2 DEF SendLoop
  <2>2. CASE Send(p, v)
    <3>1. v \in sending[p].to /\ Sent(p, v)
      BY <2>2 DEF Send
    <3>2. sending' \in [Publishers -> SendTypes] /\ sending[p].rec \in 1 .. MaxSeq
      BY <3>1, SentStep, OnTheWay
    <3>3. queue' \in [Viewers -> Seq(1 .. MaxSeq)]
      <4>1. queue[v] \in Seq(1 .. MaxSeq)
        BY DEF TypeOK
      <4>2. Append(queue[v], sending[p].rec) \in Seq(1 .. MaxSeq)
        BY <3>2, <4>1, AppendProperties
      <4>3. queue' = [queue EXCEPT ![v] = Append(queue[v], sending[p].rec)]
        BY <2>2 DEF Send
      <4> QED BY <4>2, <4>3 DEF TypeOK
    <3> QED BY <2>2, <3>2, <3>3 DEF Send, TypeOK, SendTypes
  <2>3. CASE SkipFull(p, v)
    BY <2>3, SentStep DEF SkipFull, TypeOK, SendTypes
  <2>4. CASE SendClosed(p, v)
    BY <2>4, PanicStep DEF SendClosed, TypeOK, SendTypes
  <2> QED BY <2>1, <2>2, <2>3, <2>4
<1>3. ASSUME NEW v \in Viewers, Subscribe(v) \/ Receive(v) \/ Release(v) PROVE TypeOK'
  <2>1. CASE Receive(v)
    <3>1. queue' = [queue EXCEPT ![v] = Tail(queue[v])] /\ queue[v] # <<>>
      BY <2>1 DEF Receive
    <3>2. Tail(queue[v]) \in Seq(1 .. MaxSeq)
      BY <3>1 DEF TypeOK
    <3> QED BY <2>1, <3>1, <3>2 DEF Receive, TypeOK
  <2>2. CASE Subscribe(v) \/ Release(v)
    BY <2>2 DEF Subscribe, Release, TypeOK
  <2> QED BY <1>3, <2>1, <2>2
<1>4. CASE UNCHANGED vars
  BY <1>4 DEF vars, TypeOK
<1> QED BY <1>1, <1>2, <1>3, <1>4 DEF Next

LEMMA SendStep == TypeOK /\ SendInv /\ [Next]_vars => SendInv'
<1> SUFFICES ASSUME TypeOK, SendInv, [Next]_vars PROVE SendInv'
  OBVIOUS
<1>1. ASSUME NEW p \in Publishers, Add(p) PROVE SendInv'
  <2>1. /\ \A v \in subs : channel[v] # "none"
        /\ UNCHANGED <<channel, queue>>
    BY <1>1 DEF subs, Add
  <2>2. /\ seq \in Nat /\ seq' = seq + 1 /\ sending[p].to = {} /\ sending'[p].to = subs
        /\ \A q \in Publishers \ {p} : sending'[q] = sending[q]
        /\ subs # {} => sending'[p].rec = seq'
    BY <1>1, AddStep
  <2>3. \A q \in Publishers : sending'[q].to # {} => sending'[q].rec \in 1 .. seq'
    BY <2>2 DEF SendInv
  <2>4. ASSUME NEW q \in Publishers \ {p}, sending[q].to # {} PROVE sending[q].rec # seq'
    BY <2>2, <2>4 DEF SendInv
  <2>5. \A q, r \in Publishers :
           sending'[q].to # {} /\ sending'[r].to # {} /\ sending'[q].rec = sending'[r].rec
              => q = r
    BY <2>2, <2>4 DEF SendInv
  <2>6. \A q \in Publishers : \A v \in sending'[q].to : channel'[v] # "none"
    BY <2>1, <2>2 DEF SendInv
  <2> QED BY <2>1, <2>3, <2>5, <2>6 DEF SendInv
<1>2. ASSUME NEW p \in Publishers, SendLoop(p) PROVE SendInv'
  <2>1. PICK v \in Viewers : Send(p, v) \/ SkipFull(p, v) \/ SendClosed(p, v)
    BY <1>2 DEF SendLoop
  <2>2. CASE Send(p, v)
    <3>1. \A w \in Viewers : channel[w] = "none" => queue'[w] = queue[w]
      BY <2>2 DEF Send, TypeOK
    <3>2. v \in sending[p].to /\ Sent(p, v) /\ UNCHANGED <<seq, channel>>
      BY <2>2 DEF Send
    <3> QED BY <3>1, <3>2, SentStep DEF SendInv
  <2>3. CASE SkipFull(p, v)
    BY <2>3, SentStep DEF SkipFull, SendInv
  <2>4. CASE SendClosed(p, v)
    BY <2>4, PanicStep DEF SendClosed, SendInv
  <2> QED BY <2>1, <2>2, <2>3, <2>4
<1>3. ASSUME NEW v \in Viewers, Subscribe(v) \/ Receive(v) \/ Release(v) PROVE SendInv'
  <2>1. CASE Subscribe(v)
    BY <2>1 DEF Subscribe, SendInv, TypeOK
  <2>2. CASE Receive(v)
    BY <2>2 DEF Receive, SendInv, TypeOK
  <2>3. CASE Release(v)
    BY <2>3 DEF Release, SendInv, TypeOK
  <2> QED BY <1>3, <2>1, <2>2, <2>3
<1>4. CASE UNCHANGED vars
  BY <1>4 DEF vars, SendInv
<1> QED BY <1>1, <1>2, <1>3, <1>4 DEF Next

LEMMA InitSend == Init => TypeOK /\ SendInv
BY RecorderAssumption DEF Init, TypeOK, SendInv, NoSend

(* Types; what is in a channel, and on its way to one, has been added.      *)
THEOREM TypeCorrect == Spec => []TypeOK
BY InitSend, TypeStep, SendStep, PTL DEF Spec

(* A record is on its way from one publisher at most, and only to channels  *)
(* that have been opened; nothing is in a channel before.                   *)
THEOREM SendsCorrect == Spec => []SendInv
BY InitSend, TypeStep, SendStep, PTL DEF Spec

-----------------------------------------------------------------------------
(* The ring implements RecordLog.                                           *)

\* The whole of the ring is the newest records.
WholeRing == Recent(0) = [i \in 1 .. Held |-> seq - Held + i]

\* Adding a record to the ring adds it to the log, and the oldest leaves when
\* the ring is full.
LEMMA AddIsLogAdd ==
    ASSUME RingInv, WholeRing, WholeRing', NEW p \in Publishers, Add(p)
    PROVE  Log!LogAdd
<1> DEFINE w == Recent(0)
           longer == Append(w, seq + 1)
<1>1. seq \in Nat /\ seq' = seq + 1 /\ Size \in Nat \ {0}
  BY RecorderAssumption DEF RingInv, Add
<1>2. w = [i \in 1 .. Held |-> seq - Held + i] /\ Held \in Nat
  BY <1>1 DEF WholeRing, Held
<1>3. w' = [i \in 1 .. Held' |-> seq' - Held' + i]
  BY DEF WholeRing
<1>4. w \in Seq(Int) /\ Len(w) = Held
  BY <1>1, <1>2
<1> HIDE DEF w
<1>5. /\ longer \in Seq(Int) /\ Len(longer) = Held + 1
      /\ \A i \in 1 .. Held + 1 : longer[i] = seq - Held + i
  BY <1>1, <1>2, <1>4
<1> HIDE DEF longer
<1>6. w' = IF Len(longer) <= Size THEN longer ELSE Tail(longer)
  <2>1. CASE seq < Size
    <3>1. Held = seq /\ Held' = seq + 1 /\ Len(longer) <= Size
      BY <1>1, <1>5, <2>1 DEF Held
    <3>2. longer = [i \in 1 .. seq + 1 |-> longer[i]]
      BY <1>5, <3>1, SeqIsFunction
    <3>3. \A i \in 1 .. seq + 1 : longer[i] = seq' - Held' + i
      BY <1>1, <1>5, <3>1
    <3> QED
      BY <1>3, <3>1, <3>2, <3>3
  <2>2. CASE ~(seq < Size)
    <3>1. Held = Size /\ Held' = Size /\ Len(longer) = Size + 1
      BY <1>1, <1>5, <2>2 DEF Held
    <3>2. /\ Tail(longer) \in Seq(Int) /\ Len(Tail(longer)) = Size
          /\ \A i \in 1 .. Size : Tail(longer)[i] = longer[i + 1]
      BY <1>1, <1>5, <3>1
    <3>3. Tail(longer) = [i \in 1 .. Size |-> Tail(longer)[i]]
      BY <3>2, SeqIsFunction
    <3>4. \A i \in 1 .. Size : longer[i + 1] = seq' - Size + i
      BY <1>1, <1>5, <3>1
    <3>5. ~(Len(longer) <= Size)
      BY <1>1, <3>1
    <3>6. \A i \in 1 .. Size : Tail(longer)[i] = seq' - Size + i
      BY <3>2, <3>4
    <3> QED
      BY <1>3, <3>1, <3>3, <3>5, <3>6
  <2> QED
    BY <2>1, <2>2
<1> QED
  BY <1>1, <1>6 DEF Log!LogAdd, w, longer

\* What Recent shows is what the log promises.
THEOREM LogImplemented == Spec => ImplementsLog
<1>1. Init => Log!LogInit
  BY RecorderAssumption DEF Init, Log!LogInit, Recent
<1>2. RingInv /\ WholeRing /\ WholeRing' /\ [Next]_vars => [Log!LogAdd]_(Log!logVars)
  <2>1. ASSUME UNCHANGED <<ring, next, seq>> PROVE UNCHANGED Log!logVars
    BY <2>1 DEF Log!logVars, Recent
  <2> QED
    BY <2>1, AddIsLogAdd, OnlyAddWrites
<1>3. RingInv => WholeRing
  BY RecentAll DEF WholeRing
<1> QED
  BY <1>1, <1>2, <1>3, RingCorrect, PTL DEF Spec, ImplementsLog, Log!LogSpec

-----------------------------------------------------------------------------
(* The page, seen from the recorder.                                        *)

ConnOfStream == stage = "streaming" => conn \in Viewers

\* A streaming page has a connection.
LEMMA ConnStep ==
    ASSUME ConnOfStream, [FeedNext]_feedVars
    PROVE  ConnOfStream'
<1>1. CASE Snapshot \/ FetchFails \/ Show \/ Break
  BY <1>1 DEF ConnOfStream, Snapshot, FetchFails, Show, Break
<1>2. CASE PageReceive \/ UNCHANGED feedVars
  BY <1>2 DEF ConnOfStream, PageReceive, feedVars, page
<1>3. ASSUME NEW v \in Viewers, Open(v) \/ Other(v) PROVE ConnOfStream'
  BY <1>3 DEF ConnOfStream, Open, Other, page
<1>4. ASSUME NEW p \in Publishers, FeedAdd(p) \/ FeedSendLoop(p) PROVE ConnOfStream'
  BY <1>4 DEF ConnOfStream, FeedAdd, FeedSendLoop, FeedSend, FeedSkipFull,
              FeedSendClosed, page
<1> QED
  BY <1>1, <1>2, <1>3, <1>4 DEF FeedNext

\* A step of the page, or of the recorder beside it, is one of Recorder or
\* leaves the recorder alone.
LEMMA FeedStep ==
    ASSUME ConnOfStream, [FeedNext]_feedVars
    PROVE  [Next]_vars
<1>1. CASE Snapshot \/ FetchFails \/ Show \/ Break
  BY <1>1 DEF Snapshot, FetchFails, Show, Break
<1>2. CASE PageReceive
  BY <1>2 DEF ConnOfStream, PageReceive, Next
<1>3. ASSUME NEW v \in Viewers, Open(v) \/ Other(v) PROVE [Next]_vars
  BY <1>3 DEF Open, Other, Next
<1>4. ASSUME NEW p \in Publishers, FeedAdd(p) \/ FeedSendLoop(p) PROVE [Next]_vars
  BY <1>4 DEF FeedAdd, FeedSendLoop, FeedSend, FeedSkipFull, FeedSendClosed,
              SendLoop, Next
<1>5. CASE UNCHANGED feedVars
  BY <1>5 DEF feedVars
<1> QED
  BY <1>1, <1>2, <1>3, <1>4, <1>5 DEF FeedNext

(* The page takes no step that the recorder would not allow a viewer: with  *)
(* the page, the recorder behaves as Recorder says.                         *)
THEOREM RecorderImplemented == FeedSpec => Spec
<1>1. FeedInit => Init /\ ConnOfStream
  BY DEF FeedInit, ConnOfStream
<1>2. ConnOfStream /\ [FeedNext]_feedVars => ConnOfStream' /\ [Next]_vars
  BY ConnStep, FeedStep
<1> QED
  BY <1>1, <1>2, PTL DEF FeedSpec, Spec

(* What the page fetches is the newest records in order, whatever the       *)
(* publishers and the other viewers do.                                     *)
THEOREM FetchCorrect == FeedSpec => []RecentIsNewest
  BY RecorderImplemented, RecentCorrect, PTL
-----------------------------------------------------------------------------
(* What the page shows: the lemmas about the sequences it is made of.       *)

\* A channel and the feed behind it, newest arrival first.
Line(q, f) == Reverse(q) \o f

LEMMA LineType ==
    ASSUME NEW S, NEW q \in Seq(S), NEW f \in Seq(S)
    PROVE  Line(q, f) \in Seq(S) /\ Len(Line(q, f)) = Len(q) + Len(f)
BY DEF Line, Reverse

LEMMA LineElement ==
    ASSUME NEW S, NEW q \in Seq(S), NEW f \in Seq(S), NEW i \in 1 .. Len(q) + Len(f)
    PROVE  Line(q, f)[i] = IF i <= Len(q) THEN q[Len(q) - i + 1] ELSE f[i - Len(q)]
<1> DEFINE b == Reverse(q)
<1>1. /\ b \in Seq(S) /\ Len(b) = Len(q)
      /\ \A j \in 1 .. Len(q) : b[j] = q[Len(q) - j + 1]
  BY DEF Reverse
<1>2. Len(q) \in Nat /\ Len(f) \in Nat
  OBVIOUS
<1>3. Line(q, f) = b \o f
  BY DEF Line
<1> HIDE DEF b
<1>4. (b \o f)[i] = IF i <= Len(q) THEN b[i] ELSE f[i - Len(q)]
  BY <1>1
<1> QED BY <1>1, <1>2, <1>3, <1>4

\* A record that is sent stands in front.
LEMMA LineSend ==
    ASSUME NEW S, NEW q \in Seq(S), NEW f \in Seq(S), NEW r \in S
    PROVE  Line(Append(q, r), f) = <<r>> \o Line(q, f)
<1> DEFINE a == Append(q, r)
           l == Line(q, f)
           m == <<r>> \o l
<1>1. a \in Seq(S) /\ Len(a) = Len(q) + 1
  BY AppendProperties
<1>2. a[Len(q) + 1] = r /\ \A i \in 1 .. Len(q) : a[i] = q[i]
  BY AppendProperties
<1>3. Len(q) \in Nat /\ Len(f) \in Nat
  OBVIOUS
<1>4. l \in Seq(S) /\ Len(l) = Len(q) + Len(f)
  BY LineType
<1>5. \A i \in 1 .. Len(q) + Len(f) :
         l[i] = IF i <= Len(q) THEN q[Len(q) - i + 1] ELSE f[i - Len(q)]
  BY LineElement
<1> HIDE DEF a, l
<1>6. Line(a, f) \in Seq(S) /\ Len(Line(a, f)) = Len(a) + Len(f)
  BY <1>1, LineType
<1>7. \A i \in 1 .. Len(a) + Len(f) :
         Line(a, f)[i] = IF i <= Len(a) THEN a[Len(a) - i + 1] ELSE f[i - Len(a)]
  BY <1>1, LineElement
<1>8. m \in Seq(S) /\ Len(m) = 1 + Len(l)
  BY <1>4
<1>9. \A i \in 1 .. 1 + Len(l) : m[i] = IF i = 1 THEN r ELSE l[i - 1]
  BY <1>4
<1> HIDE DEF m
<1>10. ASSUME NEW i \in 1 .. 1 + Len(q) + Len(f) PROVE Line(a, f)[i] = m[i]
  <2>1. Line(a, f)[i] = IF i <= Len(q) + 1 THEN a[Len(q) + 1 - i + 1] ELSE f[i - (Len(q) + 1)]
    BY <1>1, <1>3, <1>7
  <2>2. m[i] = IF i = 1 THEN r ELSE l[i - 1]
    BY <1>3, <1>4, <1>9
  <2>3. CASE i = 1
    BY <1>2, <1>3, <2>1, <2>2, <2>3
  <2>4. CASE i > 1
    <3>1. i - 1 \in 1 .. Len(q) + Len(f) /\ i - (Len(q) + 1) = i - 1 - Len(q)
      BY <1>3, <2>4
    <3>2. l[i - 1] = IF i - 1 <= Len(q) THEN q[Len(q) - (i - 1) + 1] ELSE f[i - 1 - Len(q)]
      BY <1>5, <3>1
    <3>3. CASE i - 1 <= Len(q)
      <4>1. /\ Len(q) + 1 - i + 1 \in 1 .. Len(q) /\ i <= Len(q) + 1 /\ i # 1
            /\ Len(q) + 1 - i + 1 = Len(q) - (i - 1) + 1
        BY <1>3, <2>4, <3>3
      <4> QED BY <1>2, <2>1, <2>2, <3>2, <3>3, <4>1
    <3>4. CASE ~(i - 1 <= Len(q))
      <4>1. ~(i <= Len(q) + 1) /\ i # 1
        BY <1>3, <3>4
      <4> QED BY <2>1, <2>2, <3>1, <3>2, <3>4, <4>1
    <3> QED BY <3>3, <3>4
  <2> QED BY <1>3, <2>3, <2>4
<1>11. Len(Line(a, f)) = 1 + Len(q) + Len(f) /\ Len(m) = 1 + Len(q) + Len(f)
  BY <1>1, <1>3, <1>4, <1>6, <1>8
<1>12. Line(a, f) = m
  BY <1>6, <1>8, <1>10, <1>11, SeqEqual
<1> QED BY <1>12 DEF a, m, l

\* A record that is received moves from the channel to the feed: the line is
\* the same.
LEMMA LineReceive ==
    ASSUME NEW S, NEW q \in Seq(S), NEW f \in Seq(S), q # <<>>
    PROVE  Line(Tail(q), <<Head(q)>> \o f) = Line(q, f)
<1> DEFINE t == Tail(q)
           g == <<Head(q)>> \o f
           l == Line(q, f)
<1>1. Len(q) \in Nat /\ Len(f) \in Nat /\ Len(q) > 0
  OBVIOUS
<1>2. t \in Seq(S) /\ Len(t) = Len(q) - 1
  OBVIOUS
<1>3. \A i \in 1 .. Len(q) - 1 : t[i] = q[i + 1]
  OBVIOUS
<1>4. g \in Seq(S) /\ Len(g) = Len(f) + 1
  OBVIOUS
<1>5. \A i \in 1 .. Len(f) + 1 : g[i] = IF i = 1 THEN q[1] ELSE f[i - 1]
  OBVIOUS
<1>6. l \in Seq(S) /\ Len(l) = Len(q) + Len(f)
  BY LineType
<1>7. \A i \in 1 .. Len(q) + Len(f) :
         l[i] = IF i <= Len(q) THEN q[Len(q) - i + 1] ELSE f[i - Len(q)]
  BY LineElement
<1> HIDE DEF t, g, l
<1>8. Line(t, g) \in Seq(S) /\ Len(Line(t, g)) = Len(t) + Len(g)
  BY <1>2, <1>4, LineType
<1>9. \A i \in 1 .. Len(t) + Len(g) :
         Line(t, g)[i] = IF i <= Len(t) THEN t[Len(t) - i + 1] ELSE g[i - Len(t)]
  BY <1>2, <1>4, LineElement
<1>10. ASSUME NEW i \in 1 .. Len(q) + Len(f) PROVE Line(t, g)[i] = l[i]
  <2>1. Line(t, g)[i] = IF i <= Len(q) - 1 THEN t[Len(q) - 1 - i + 1] ELSE g[i - (Len(q) - 1)]
    BY <1>1, <1>2, <1>4, <1>9
  <2>2. l[i] = IF i <= Len(q) THEN q[Len(q) - i + 1] ELSE f[i - Len(q)]
    BY <1>7
  <2>3. CASE i <= Len(q) - 1
    <3>1. /\ Len(q) - 1 - i + 1 \in 1 .. Len(q) - 1
          /\ (Len(q) - 1 - i + 1) + 1 = Len(q) - i + 1 /\ i <= Len(q)
      BY <1>1, <2>3
    <3> QED BY <1>3, <2>1, <2>2, <2>3, <3>1
  <2>4. CASE ~(i <= Len(q) - 1)
    <3>1. /\ i - (Len(q) - 1) \in 1 .. Len(f) + 1 /\ i - (Len(q) - 1) - 1 = i - Len(q)
          /\ i <= Len(q) <=> i - (Len(q) - 1) = 1
          /\ i <= Len(q) => Len(q) - i + 1 = 1
      BY <1>1, <2>4
    <3>2. g[i - (Len(q) - 1)] = IF i - (Len(q) - 1) = 1 THEN q[1] ELSE f[i - (Len(q) - 1) - 1]
      BY <1>5, <3>1
    <3> QED BY <2>1, <2>2, <2>4, <3>1, <3>2
  <2> QED BY <2>3, <2>4
<1>11. Len(Line(t, g)) = Len(q) + Len(f)
  BY <1>1, <1>2, <1>4, <1>8
<1>12. Line(t, g) = l
  BY <1>6, <1>8, <1>10, <1>11, SeqEqual
<1> QED BY <1>12 DEF t, g, l

\* What is in the line is in the channel or in the feed.
LEMMA LineSet ==
    ASSUME NEW S, NEW q \in Seq(S), NEW f \in Seq(S)
    PROVE  ToSet(Line(q, f)) = ToSet(q) \cup ToSet(f)
<1>1. Len(q) \in Nat /\ Len(f) \in Nat
  OBVIOUS
<1>2. DOMAIN Line(q, f) = 1 .. Len(q) + Len(f) /\ DOMAIN q = 1 .. Len(q) /\ DOMAIN f = 1 .. Len(f)
  BY LineType
<1>3. ASSUME NEW i \in 1 .. Len(q) + Len(f) PROVE Line(q, f)[i] \in ToSet(q) \cup ToSet(f)
  <2>1. Line(q, f)[i] = IF i <= Len(q) THEN q[Len(q) - i + 1] ELSE f[i - Len(q)]
    BY LineElement
  <2>2. CASE i <= Len(q)
    <3>1. Len(q) - i + 1 \in DOMAIN q
      BY <1>1, <1>2, <2>2
    <3> QED BY <2>1, <2>2, <3>1 DEF ToSet
  <2>3. CASE ~(i <= Len(q))
    <3>1. i - Len(q) \in DOMAIN f
      BY <1>1, <1>2, <2>3
    <3> QED BY <2>1, <2>3, <3>1 DEF ToSet
  <2> QED BY <2>2, <2>3
<1>4. ASSUME NEW i \in 1 .. Len(q) PROVE q[i] \in ToSet(Line(q, f))
  <2>1. /\ Len(q) - i + 1 \in 1 .. Len(q) + Len(f) /\ Len(q) - i + 1 <= Len(q)
        /\ Len(q) - (Len(q) - i + 1) + 1 = i
    BY <1>1
  <2>2. Line(q, f)[Len(q) - i + 1] = q[i]
    BY <2>1, LineElement
  <2> QED BY <1>2, <2>1, <2>2 DEF ToSet
<1>5. ASSUME NEW i \in 1 .. Len(f) PROVE f[i] \in ToSet(Line(q, f))
  <2>1. /\ Len(q) + i \in 1 .. Len(q) + Len(f) /\ ~(Len(q) + i <= Len(q))
        /\ Len(q) + i - Len(q) = i
    BY <1>1
  <2>2. Line(q, f)[Len(q) + i] = f[i]
    BY <2>1, LineElement
  <2> QED BY <1>2, <2>1, <2>2 DEF ToSet
<1>6. ToSet(Line(q, f)) \subseteq ToSet(q) \cup ToSet(f)
  BY <1>2, <1>3 DEF ToSet
<1>7. ToSet(q) \subseteq ToSet(Line(q, f)) /\ ToSet(f) \subseteq ToSet(Line(q, f))
  BY <1>2, <1>4, <1>5 DEF ToSet
<1> QED BY <1>6, <1>7

Distinct(s) == \A i, j \in DOMAIN s : s[i] = s[j] => i = j

\* t is what stands in s from behind place k on.
Piece(t, s, k) ==
    /\ k \in Nat /\ k + Len(t) <= Len(s)
    /\ \A i \in 1 .. Len(t) : t[i] = s[k + i]

LEMMA PieceOf ==
    ASSUME NEW S, NEW s \in Seq(S), NEW t \in Seq(S), NEW k, Piece(t, s, k)
    PROVE  /\ Distinct(s) => Distinct(t)
           /\ ToSet(t) \subseteq ToSet(s)
<1>1. /\ k \in Nat /\ Len(t) \in Nat /\ Len(s) \in Nat /\ k + Len(t) <= Len(s)
      /\ DOMAIN s = 1 .. Len(s) /\ DOMAIN t = 1 .. Len(t)
  BY DEF Piece
<1>2. \A i \in 1 .. Len(t) : k + i \in 1 .. Len(s) /\ t[i] = s[k + i]
  BY <1>1 DEF Piece
<1>3. ASSUME Distinct(s) PROVE Distinct(t)
  <2> SUFFICES ASSUME NEW i \in 1 .. Len(t), NEW j \in 1 .. Len(t), t[i] = t[j] PROVE i = j
    BY <1>1 DEF Distinct
  <2>1. k + i = k + j
    BY <1>1, <1>2, <1>3 DEF Distinct
  <2> QED BY <1>1, <2>1
<1> QED BY <1>1, <1>2, <1>3 DEF ToSet

\* The feed is a piece of the line, and of distinct records the channel has none
\* of it.
LEMMA FeedOfLine ==
    ASSUME NEW S, NEW q \in Seq(S), NEW f \in Seq(S)
    PROVE  /\ Piece(f, Line(q, f), Len(q))
           /\ Distinct(Line(q, f)) => ToSet(q) \cap ToSet(f) = {}
<1>1. Len(q) \in Nat /\ Len(f) \in Nat
  OBVIOUS
<1>2. Len(Line(q, f)) = Len(q) + Len(f)
  BY LineType
<1>3. DOMAIN Line(q, f) = 1 .. Len(q) + Len(f) /\ DOMAIN q = 1 .. Len(q) /\ DOMAIN f = 1 .. Len(f)
  BY LineType
<1>4. ASSUME NEW i \in 1 .. Len(f)
      PROVE  Len(q) + i \in 1 .. Len(q) + Len(f) /\ Line(q, f)[Len(q) + i] = f[i]
  <2>1. /\ Len(q) + i \in 1 .. Len(q) + Len(f) /\ ~(Len(q) + i <= Len(q))
        /\ Len(q) + i - Len(q) = i
    BY <1>1
  <2> QED BY <2>1, LineElement
<1>5. ASSUME Distinct(Line(q, f)), NEW i \in 1 .. Len(q), NEW j \in 1 .. Len(f), q[i] = f[j]
      PROVE  FALSE
  <2>1. /\ Len(q) - i + 1 \in 1 .. Len(q) + Len(f) /\ Len(q) - i + 1 <= Len(q)
        /\ Len(q) - (Len(q) - i + 1) + 1 = i
    BY <1>1
  <2>2. Line(q, f)[Len(q) - i + 1] = q[i]
    BY <2>1, LineElement
  <2>3. Len(q) - i + 1 = Len(q) + j
    BY <1>3, <1>4, <1>5, <2>1, <2>2 DEF Distinct
  <2> QED BY <1>1, <2>3
<1> QED BY <1>1, <1>2, <1>3, <1>4, <1>5 DEF Piece, ToSet

\* What is left of a line when its last is taken off.
LEMMA FrontOf ==
    ASSUME NEW S, NEW s \in Seq(S), s # <<>>
    PROVE  /\ Front(s) \in Seq(S) /\ Len(Front(s)) = Len(s) - 1
           /\ Piece(Front(s), s, 0)
           /\ ToSet(s) = ToSet(Front(s)) \cup {Last(s)}
<1>1. Len(s) \in Nat /\ Len(s) > 0 /\ DOMAIN s = 1 .. Len(s)
  OBVIOUS
<1>2. Front(s) \in Seq(S) /\ Len(Front(s)) = Len(s) - 1
  BY <1>1 DEF Front
<1>3. \A i \in 1 .. Len(s) - 1 : Front(s)[i] = s[i]
  BY <1>1 DEF Front
<1>4. Piece(Front(s), s, 0)
  BY <1>1, <1>2, <1>3 DEF Piece
<1>5. DOMAIN Front(s) = 1 .. Len(s) - 1
  BY <1>2
<1>6. ToSet(Front(s)) \subseteq ToSet(s) /\ Last(s) \in ToSet(s)
  BY <1>1, <1>3, <1>5 DEF ToSet, Last
<1>7. ASSUME NEW i \in 1 .. Len(s) PROVE s[i] \in ToSet(Front(s)) \cup {Last(s)}
  <2>1. CASE i = Len(s)
    BY <2>1 DEF Last
  <2>2. CASE i < Len(s)
    <3>1. i \in 1 .. Len(s) - 1
      BY <1>1, <2>2
    <3> QED BY <1>3, <1>5, <3>1 DEF ToSet
  <2>3. i \in Nat /\ i <= Len(s) /\ Len(s) \in Nat
    OBVIOUS
  <2> QED BY <2>1, <2>2, <2>3
<1>8. ToSet(s) \subseteq ToSet(Front(s)) \cup {Last(s)}
  BY <1>1, <1>7 DEF ToSet
<1> QED BY <1>2, <1>4, <1>6, <1>8

\* The last of the feed is the last of the line.
LEMMA LineFront ==
    ASSUME NEW S, NEW q \in Seq(S), NEW f \in Seq(S), f # <<>>
    PROVE  /\ Line(q, f) \in Seq(S) \ {<<>>}
           /\ Line(q, Front(f)) = Front(Line(q, f))
           /\ Last(f) = Last(Line(q, f))
<1> DEFINE l == Line(q, f)
           g == Front(f)
<1>1. Len(q) \in Nat /\ Len(f) \in Nat /\ Len(f) > 0
  OBVIOUS
<1>2. l \in Seq(S) /\ Len(l) = Len(q) + Len(f)
  BY LineType
<1>3. \A i \in 1 .. Len(q) + Len(f) :
         l[i] = IF i <= Len(q) THEN q[Len(q) - i + 1] ELSE f[i - Len(q)]
  BY LineElement
<1>4. Front(f) \in Seq(S) /\ Len(Front(f)) = Len(f) - 1
  BY FrontOf
<1>5. \A i \in 1 .. Len(f) - 1 : g[i] = f[i]
  BY <1>1 DEF Front
<1>6. g \in Seq(S) /\ Len(g) = Len(f) - 1
  BY <1>4
<1> HIDE DEF l, g
<1>7. Line(q, g) \in Seq(S) /\ Len(Line(q, g)) = Len(q) + Len(g)
  BY <1>6, LineType
<1>8. \A i \in 1 .. Len(q) + Len(g) :
         Line(q, g)[i] = IF i <= Len(q) THEN q[Len(q) - i + 1] ELSE g[i - Len(q)]
  BY <1>6, LineElement
<1>9. Front(l) \in Seq(S) /\ Len(Front(l)) = Len(q) + Len(f) - 1
  BY <1>1, <1>2 DEF Front
<1>10. \A i \in 1 .. Len(q) + Len(f) - 1 : Front(l)[i] = l[i]
  BY <1>1, <1>2 DEF Front
<1>11. ASSUME NEW i \in 1 .. Len(q) + Len(g) PROVE Line(q, g)[i] = Front(l)[i]
  <2>1. i \in 1 .. Len(q) + Len(f) - 1
    BY <1>1, <1>6
  <2>2. Line(q, g)[i] = IF i <= Len(q) THEN q[Len(q) - i + 1] ELSE g[i - Len(q)]
    BY <1>8
  <2>3. Front(l)[i] = IF i <= Len(q) THEN q[Len(q) - i + 1] ELSE f[i - Len(q)]
    BY <1>1, <1>3, <1>10, <2>1
  <2>4. CASE ~(i <= Len(q))
    <3>1. i - Len(q) \in 1 .. Len(f) - 1
      BY <1>1, <2>1, <2>4
    <3> QED BY <1>5, <2>2, <2>3, <2>4, <3>1
  <2> QED BY <2>2, <2>3, <2>4
<1>12. Line(q, g) = Front(l)
  <2>1. Len(Line(q, g)) = Len(Front(l))
    BY <1>1, <1>6, <1>7, <1>9
  <2> QED BY <1>7, <1>9, <1>11, <2>1, SeqEqual
<1>13. Last(f) = Last(l)
  BY <1>1, <1>2, <1>3 DEF Last
<1>14. l # <<>>
  BY <1>1, <1>2
<1> QED BY <1>2, <1>12, <1>13, <1>14 DEF l, g

\* A new record in front.
LEMMA Push ==
    ASSUME NEW S, NEW s \in Seq(S), NEW r \in S
    PROVE  /\ <<r>> \o s \in Seq(S) /\ Piece(s, <<r>> \o s, 1)
           /\ Len(<<r>> \o s) = 1 + Len(s) /\ (<<r>> \o s)[1] = r
           /\ ToSet(<<r>> \o s) = ToSet(s) \cup {r}
           /\ Distinct(s) /\ r \notin ToSet(s) => Distinct(<<r>> \o s)
<1> DEFINE m == <<r>> \o s
<1>1. Len(s) \in Nat /\ DOMAIN s = 1 .. Len(s)
  OBVIOUS
<1>2. m \in Seq(S) /\ Len(m) = 1 + Len(s)
  OBVIOUS
<1>3. \A i \in 1 .. 1 + Len(s) : m[i] = IF i = 1 THEN r ELSE s[i - 1]
  OBVIOUS
<1> HIDE DEF m
<1>4. DOMAIN m = 1 .. 1 + Len(s)
  BY <1>1, <1>2
<1>5. Piece(s, m, 1) /\ m[1] = r
  BY <1>1, <1>2, <1>3 DEF Piece
<1>6. ToSet(s) \subseteq ToSet(m)
  BY <1>2, <1>5, PieceOf
<1>7. r \in ToSet(m)
  <2>1. 1 \in DOMAIN m
    BY <1>1, <1>4
  <2> QED BY <1>5, <2>1 DEF ToSet
<1>8. ASSUME NEW i \in 2 .. 1 + Len(s) PROVE m[i] = s[i - 1] /\ i - 1 \in DOMAIN s
  BY <1>1, <1>3
<1>9. ToSet(m) \subseteq ToSet(s) \cup {r}
  <2> SUFFICES ASSUME NEW i \in DOMAIN m PROVE m[i] \in ToSet(s) \cup {r}
    BY DEF ToSet
  <2>1. i = 1 \/ i \in 2 .. 1 + Len(s)
    BY <1>1, <1>4
  <2> QED BY <1>5, <1>8, <2>1 DEF ToSet
<1>10. ASSUME Distinct(s), r \notin ToSet(s) PROVE Distinct(m)
  <2> SUFFICES ASSUME NEW i \in DOMAIN m, NEW j \in DOMAIN m, m[i] = m[j] PROVE i = j
    BY DEF Distinct
  <2>1. (i = 1 \/ i \in 2 .. 1 + Len(s)) /\ (j = 1 \/ j \in 2 .. 1 + Len(s))
    BY <1>1, <1>4
  <2>2. CASE i = 1 /\ j \in 2 .. 1 + Len(s)
    BY <1>5, <1>8, <1>10, <2>2 DEF ToSet
  <2>3. CASE j = 1 /\ i \in 2 .. 1 + Len(s)
    BY <1>5, <1>8, <1>10, <2>3 DEF ToSet
  <2>4. CASE i \in 2 .. 1 + Len(s) /\ j \in 2 .. 1 + Len(s)
    <3>1. i - 1 = j - 1
      BY <1>8, <1>10, <2>4 DEF Distinct
    <3> QED BY <2>4, <3>1
  <2> QED BY <2>1, <2>2, <2>3, <2>4
<1> QED BY <1>2, <1>5, <1>6, <1>7, <1>9, <1>10 DEF m

-----------------------------------------------------------------------------
(* How far records overtake each other.                                     *)

\* The records that stand in front of the i-th of line a, or among those to
\* come, c, and are older than it.
Older(a, c, i) == {r \in {a[j] : j \in 1 .. i - 1} \cup c : r < a[i]}

Behind(a, c, n) == \A i \in 1 .. Len(a) : Cardinality(Older(a, c, i)) < n

LEMMA OlderFinite ==
    ASSUME NEW a \in Seq(Nat), NEW c \in SUBSET Nat, NEW i \in 1 .. Len(a)
    PROVE  IsFiniteSet(Older(a, c, i)) /\ Cardinality(Older(a, c, i)) \in Nat
<1>1. a[i] \in Nat /\ \A j \in 1 .. i - 1 : a[j] \in Nat
  OBVIOUS
<1>2. \A r \in Older(a, c, i) : r \in Nat /\ r < a[i]
  BY <1>1 DEF Older
<1>3. IsFiniteSet(0 .. a[i])
  <2>1. 0 \in Int /\ a[i] \in Int
    BY <1>1
  <2> QED BY <2>1, FS_Interval
<1>4. Older(a, c, i) \in SUBSET (0 .. a[i])
  BY <1>1, <1>2
<1>5. IsFiniteSet(Older(a, c, i))
  BY <1>3, <1>4, FS_Subset
<1> QED BY <1>5, FS_CardinalityType

\* A piece of a line with fewer to come is in no worse order.
LEMMA BehindPiece ==
    ASSUME NEW a \in Seq(Nat), NEW c \in SUBSET Nat, NEW b \in Seq(Nat), NEW d \in SUBSET c,
           NEW k, Piece(b, a, k), NEW n \in Nat, Behind(a, c, n)
    PROVE  Behind(b, d, n)
<1>1. k \in Nat /\ Len(a) \in Nat /\ Len(b) \in Nat /\ k + Len(b) <= Len(a)
  BY DEF Piece
<1> SUFFICES ASSUME NEW i \in 1 .. Len(b) PROVE Cardinality(Older(b, d, i)) < n
  BY DEF Behind
<1>2. k + i \in 1 .. Len(a) /\ b[i] = a[k + i]
  BY <1>1 DEF Piece
<1>3. ASSUME NEW j \in 1 .. i - 1 PROVE k + j \in 1 .. (k + i) - 1 /\ b[j] = a[k + j]
  <2>1. k + j \in 1 .. (k + i) - 1 /\ j \in 1 .. Len(b)
    BY <1>1
  <2> QED BY <2>1 DEF Piece
<1>4. Older(b, d, i) \in SUBSET Older(a, c, k + i)
  BY <1>2, <1>3 DEF Older
<1>5. IsFiniteSet(Older(a, c, k + i)) /\ Cardinality(Older(a, c, k + i)) \in Nat
  BY <1>2, OlderFinite
<1>6. Cardinality(Older(b, d, i)) <= Cardinality(Older(a, c, k + i))
  BY <1>4, <1>5, FS_Subset
<1>7. Cardinality(Older(b, d, i)) \in Nat
  BY <1>4, <1>5, FS_Subset, FS_CardinalityType
<1>8. Cardinality(Older(a, c, k + i)) < n
  BY <1>2 DEF Behind
<1> QED BY <1>5, <1>6, <1>7, <1>8

\* One of those to come arrives: it is older than those it stands in front of
\* as before, and those still to come may be older than it.
LEMMA BehindPush ==
    ASSUME NEW a \in Seq(Nat), NEW c \in SUBSET Nat, NEW r \in c, NEW n \in Nat,
           Behind(a, c, n), IsFiniteSet(c \ {r}), Cardinality(c \ {r}) < n
    PROVE  Behind(<<r>> \o a, c \ {r}, n)
<1> DEFINE b == <<r>> \o a
           d == c \ {r}
<1>1. Len(a) \in Nat /\ b \in Seq(Nat) /\ Len(b) = 1 + Len(a) /\ b[1] = r
  OBVIOUS
<1>2. \A i \in 1 .. Len(a) : b[1 + i] = a[i]
  OBVIOUS
<1> HIDE DEF b
<1> SUFFICES ASSUME NEW i \in 1 .. Len(b) PROVE Cardinality(Older(b, d, i)) < n
  BY DEF Behind, b
<1>3. Cardinality(Older(b, d, i)) \in Nat
  BY <1>1, OlderFinite
<1>4. CASE i = 1
  <2>1. {b[j] : j \in 1 .. i - 1} = {}
    BY <1>4
  <2>2. Older(b, d, i) \in SUBSET d
    BY <2>1 DEF Older
  <2>3. Cardinality(Older(b, d, i)) <= Cardinality(d) /\ Cardinality(d) \in Nat
    BY <2>2, FS_Subset, FS_CardinalityType
  <2> QED BY <1>3, <2>3
<1>5. CASE i > 1
  <2>1. i - 1 \in 1 .. Len(a) /\ b[i] = a[i - 1]
    <3>1. i - 1 \in 1 .. Len(a) /\ 1 + (i - 1) = i
      BY <1>1, <1>5
    <3> QED BY <1>2, <3>1
  <2>2. ASSUME NEW j \in 2 .. i - 1 PROVE j - 1 \in 1 .. (i - 1) - 1 /\ b[j] = a[j - 1]
    <3>1. j - 1 \in 1 .. (i - 1) - 1 /\ j - 1 \in 1 .. Len(a) /\ 1 + (j - 1) = j
      BY <1>1, <1>5
    <3> QED BY <1>2, <3>1
  <2>3. ASSUME NEW j \in 1 .. i - 1 PROVE b[j] \in {a[m] : m \in 1 .. (i - 1) - 1} \cup c
    <3>1. j = 1 \/ j \in 2 .. i - 1
      BY <1>1
    <3> QED BY <1>1, <2>2, <3>1
  <2>4. Older(b, d, i) \in SUBSET Older(a, c, i - 1)
    BY <2>1, <2>3 DEF Older
  <2>5. IsFiniteSet(Older(a, c, i - 1)) /\ Cardinality(Older(a, c, i - 1)) \in Nat
    BY <2>1, OlderFinite
  <2>6. Cardinality(Older(b, d, i)) <= Cardinality(Older(a, c, i - 1))
    BY <2>4, <2>5, FS_Subset
  <2>7. Cardinality(Older(a, c, i - 1)) < n
    BY <2>1 DEF Behind
  <2> QED BY <1>3, <2>5, <2>6, <2>7
<1>6. i = 1 \/ i > 1
  BY <1>1
<1> QED BY <1>4, <1>5, <1>6

\* A new record to come is older than none of the line.
LEMMA BehindGrow ==
    ASSUME NEW a \in Seq(Nat), NEW c, NEW r \in Nat, NEW n,
           \A i \in 1 .. Len(a) : a[i] < r, Behind(a, c, n)
    PROVE  Behind(a, c \cup {r}, n)
<1> SUFFICES ASSUME NEW i \in 1 .. Len(a) PROVE Cardinality(Older(a, c \cup {r}, i)) < n
  BY DEF Behind
<1>1. a[i] \in Nat /\ a[i] < r
  OBVIOUS
<1>2. Older(a, c \cup {r}, i) = Older(a, c, i)
  BY <1>1 DEF Older
<1> QED BY <1>2 DEF Behind

\* In distinct records, as many places as records are older.
LEMMA PlacesOfOlder ==
    ASSUME NEW a \in Seq(Nat), NEW c \in SUBSET Nat, Distinct(a), NEW i \in 1 .. Len(a)
    PROVE  /\ Cardinality({j \in 1 .. i - 1 : a[j] < a[i]}) <= Cardinality(Older(a, c, i))
           /\ Cardinality({j \in 1 .. i - 1 : a[j] < a[i]}) \in Nat
<1> DEFINE P == {j \in 1 .. i - 1 : a[j] < a[i]}
           f == [j \in P |-> a[j]]
<1>1. Len(a) \in Nat /\ DOMAIN a = 1 .. Len(a) /\ \A j \in P : j \in 1 .. Len(a)
  OBVIOUS
<1>2. f \in [P -> Older(a, c, i)]
  BY DEF Older
<1>3. \A x, y \in P : f[x] = f[y] => x = y
  BY <1>1 DEF Distinct
<1>4. f \in Injection(P, Older(a, c, i))
  BY <1>2, <1>3 DEF Injection, IsInjective
<1>5. IsFiniteSet(Older(a, c, i))
  BY OlderFinite
<1>6. IsFiniteSet(P) /\ Cardinality(P) <= Cardinality(Older(a, c, i))
  BY <1>4, <1>5, FS_Injection
<1> QED BY <1>6, FS_CardinalityType

-----------------------------------------------------------------------------
(* The records on their way to a viewer.                                    *)

LEMMA SendingAdd ==
    ASSUME TypeOK, NEW p \in Publishers, Add(p), NEW v \in Viewers
    PROVE  Sending(v)' = IF channel[v] = "open" THEN Sending(v) \cup {seq'} ELSE Sending(v)
<1>1. /\ \A q \in Publishers \ {p} : sending'[q] = sending[q]
      /\ sending[p].to = {} /\ sending'[p].to = subs
      /\ subs # {} => sending'[p].rec = seq'
  BY AddStep
<1>2. v \in subs <=> channel[v] = "open"
  BY DEF subs
<1>3. \A r : r \in Sending(v)' <=> \E q \in Publishers : v \in sending'[q].to /\ r = sending'[q].rec
  BY DEF Sending
<1>4. \A r : r \in Sending(v) <=> \E q \in Publishers : v \in sending[q].to /\ r = sending[q].rec
  BY DEF Sending
<1>5. CASE channel[v] = "open"
  <2>1. v \in sending'[p].to /\ sending'[p].rec = seq'
    BY <1>1, <1>2, <1>5
  <2>2. \A r : r \in Sending(v)' <=> r \in Sending(v) \/ r = seq'
    BY <1>1, <1>3, <1>4, <2>1
  <2> QED BY <1>5, <2>2
<1>6. CASE channel[v] # "open"
  <2>1. v \notin sending'[p].to /\ v \notin sending[p].to
    BY <1>1, <1>2, <1>6
  <2>2. \A r : r \in Sending(v)' <=> r \in Sending(v)
    BY <1>1, <1>3, <1>4, <2>1
  <2> QED BY <1>6, <2>2
<1> QED BY <1>5, <1>6

\* A turn of the send loop ends.
LEMMA SendingSent ==
    ASSUME TypeOK, SendInv, NEW p \in Publishers, NEW v \in Viewers,
           v \in sending[p].to, Sent(p, v), NEW w \in Viewers
    PROVE  Sending(w)' = IF w = v THEN Sending(w) \ {sending[p].rec} ELSE Sending(w)
<1>1. /\ \A q \in Publishers \ {p} : sending'[q] = sending[q]
      /\ sending'[p].to = sending[p].to \ {v}
      /\ sending'[p].to # {} => sending'[p].rec = sending[p].rec
  BY SentStep
<1>2. \A q \in Publishers : sending[q].to # {} /\ sending[q].rec = sending[p].rec => q = p
  BY OnTheWay
<1>3. \A r : r \in Sending(w)' <=> \E q \in Publishers : w \in sending'[q].to /\ r = sending'[q].rec
  BY DEF Sending
<1>4. \A r : r \in Sending(w) <=> \E q \in Publishers : w \in sending[q].to /\ r = sending[q].rec
  BY DEF Sending
<1>5. CASE w = v
  <2>1. w \notin sending'[p].to
    BY <1>1, <1>5
  <2>2. \A q \in Publishers \ {p} : w \in sending[q].to => sending[q].rec # sending[p].rec
    BY <1>2
  <2>3. \A r : r \in Sending(w)' <=> r \in Sending(w) /\ r # sending[p].rec
    BY <1>1, <1>3, <1>4, <2>1, <2>2
  <2> QED BY <1>5, <2>3
<1>6. CASE w # v
  <2>1. /\ w \in sending'[p].to <=> w \in sending[p].to
        /\ w \in sending'[p].to => sending'[p].rec = sending[p].rec
    BY <1>1, <1>6
  <2>2. \A r : r \in Sending(w)' <=> r \in Sending(w)
    BY <1>1, <1>3, <1>4, <2>1
  <2> QED BY <1>6, <2>2
<1> QED BY <1>5, <1>6

\* A send loop ends with a panic.
LEMMA SendingPanic ==
    ASSUME TypeOK, SendInv, NEW p \in Publishers, sending' = [sending EXCEPT ![p] = NoSend],
           NEW w \in Viewers
    PROVE  Sending(w)' = IF w \in sending[p].to THEN Sending(w) \ {sending[p].rec}
                         ELSE Sending(w)
<1>1. /\ \A q \in Publishers \ {p} : sending'[q] = sending[q]
      /\ sending'[p].to = {}
  BY PanicStep
<1>2. \A r : r \in Sending(w)' <=> \E q \in Publishers : w \in sending'[q].to /\ r = sending'[q].rec
  BY DEF Sending
<1>3. \A r : r \in Sending(w) <=> \E q \in Publishers : w \in sending[q].to /\ r = sending[q].rec
  BY DEF Sending
<1>4. CASE w \in sending[p].to
  <2>1. \A q \in Publishers \ {p} : w \in sending[q].to => sending[q].rec # sending[p].rec
    BY <1>4, OnTheWay
  <2>2. \A r : r \in Sending(w)' <=> r \in Sending(w) /\ r # sending[p].rec
    BY <1>1, <1>2, <1>3, <2>1
  <2> QED BY <1>4, <2>2
<1>5. CASE w \notin sending[p].to
  <2>1. \A r : r \in Sending(w)' <=> r \in Sending(w)
    BY <1>1, <1>2, <1>3, <1>5
  <2> QED BY <1>5, <2>1
<1> QED BY <1>4, <1>5

LEMMA SendingSame ==
    ASSUME UNCHANGED sending, NEW w
    PROVE  Sending(w)' = Sending(w)
BY DEF Sending

\* They have been added, and there are fewer of them than publishers when one
\* publisher has nothing for the viewer.
LEMMA SendingBound ==
    ASSUME TypeOK, SendInv, NEW v \in Viewers
    PROVE  Sending(v) \in SUBSET (1 .. seq) /\ Sending(v) \in SUBSET (1 .. MaxSeq)
BY OnTheWay DEF Sending

LEMMA SendingFewer ==
    ASSUME NEW p \in Publishers,
           NEW S, S \subseteq {sending[q].rec : q \in Publishers \ {p}}
    PROVE  IsFiniteSet(S) /\ Cardinality(S) < Cardinality(Publishers)
<1> DEFINE Q == Publishers \ {p}
           T == {sending[q].rec : q \in Q}
           f == [q \in Q |-> sending[q].rec]
<1>1. IsFiniteSet(Publishers) /\ Cardinality(Publishers) \in Nat
  BY FeedAssumption, FS_CardinalityType
<1>2. IsFiniteSet(Q) /\ Cardinality(Q) = Cardinality(Publishers) - 1
  BY <1>1, FS_RemoveElement
<1>3. f \in Surjection(Q, T)
  BY DEF Surjection
<1>4. IsFiniteSet(T) /\ Cardinality(T) <= Cardinality(Q)
  BY <1>2, <1>3, FS_Surjection
<1> HIDE DEF Q, T, f
<1>5. IsFiniteSet(S) /\ Cardinality(S) <= Cardinality(T)
  BY <1>4, FS_Subset DEF T, Q
<1>6. Cardinality(S) \in Nat /\ Cardinality(T) \in Nat
  BY <1>4, <1>5, FS_CardinalityType
<1> QED BY <1>1, <1>2, <1>4, <1>5, <1>6

-----------------------------------------------------------------------------
(* The page's types.                                                        *)

\* What the page fetches: records that were added, in order.
LEMMA Fetched ==
    ASSUME TypeOK, RingInv
    PROVE  /\ Recent(Cap) \in Seq(1 .. MaxSeq) /\ Len(Recent(Cap)) <= Cap
           /\ \A i \in 1 .. Len(Recent(Cap)) : Recent(Cap)[i] \in 1 .. seq
           /\ \A i, j \in 1 .. Len(Recent(Cap)) : i < j => Recent(Cap)[i] < Recent(Cap)[j]
<1> DEFINE len == IF Cap > 0 /\ Cap < Held THEN Cap ELSE Held
           rs == Recent(Cap)
<1>1. /\ seq \in Nat /\ Cap \in Nat \ {0} /\ MaxSeq \in Nat /\ seq <= MaxSeq
      /\ Held \in Nat /\ Held <= seq
  BY RecorderAssumption, FeedAssumption DEF TypeOK, Held
<1>2. len \in Nat /\ len <= Cap /\ len <= seq
  BY <1>1
<1>3. rs = [i \in 1 .. len |-> seq - len + i]
  BY <1>1, RecentNewest
<1> HIDE DEF len, rs
<1>4. \A i \in 1 .. len : seq - len + i \in 1 .. seq /\ seq - len + i \in 1 .. MaxSeq
  BY <1>1, <1>2
<1>5. rs \in Seq(1 .. MaxSeq) /\ Len(rs) = len
  BY <1>2, <1>3, <1>4
<1>6. \A i \in 1 .. len : rs[i] = seq - len + i
  BY <1>3
<1>7. \A i, j \in 1 .. len : i < j => rs[i] < rs[j]
  BY <1>1, <1>2, <1>6
<1>8. \A i \in 1 .. len : rs[i] \in 1 .. seq
  BY <1>4, <1>6
<1>9. Len(rs) <= Cap
  BY <1>2, <1>5
<1>10. Len(rs) = len
  BY <1>5
<1> QED BY <1>5, <1>7, <1>8, <1>9, <1>10 DEF rs

LEMMA ReverseType ==
    ASSUME NEW S, NEW s \in Seq(S)
    PROVE  /\ Reverse(s) \in Seq(S) /\ Len(Reverse(s)) = Len(s)
           /\ \A i \in 1 .. Len(s) : Reverse(s)[i] = s[Len(s) - i + 1]
BY DEF Reverse

LEMMA SeqSet ==
    ASSUME NEW S, NEW s \in Seq(S)
    PROVE  ToSet(s) \subseteq S
BY DEF ToSet

LEMMA FeedTypeStep ==
    ASSUME FeedTypeOK, SendInv, RingInv, [FeedNext]_feedVars
    PROVE  FeedTypeOK'
<1>1. TypeOK /\ ConnOfStream
  BY DEF FeedTypeOK, ConnOfStream
<1>2. TypeOK'
  BY <1>1, FeedStep, TypeStep
<1> DEFINE D == 1 .. MaxSeq
<1>3. 1 .. seq \subseteq D
  BY <1>1, RecorderAssumption DEF TypeOK
<1>4. CASE Snapshot
  <2>1. answer' \in Seq(D) /\ Len(answer') <= Cap
    BY <1>1, <1>4, Fetched DEF Snapshot
  <2>2. displaced' \in SUBSET D
    BY <1>3, <1>4 DEF Snapshot
  <2> QED BY <1>2, <1>4, <2>1, <2>2 DEF Snapshot, FeedTypeOK, Stages
<1>5. CASE FetchFails
  <2>1. answer' \in Seq(D) /\ Len(answer') <= Cap
    BY <1>5, FeedAssumption DEF FetchFails
  <2> QED BY <1>2, <1>5, <2>1 DEF FetchFails, FeedTypeOK, Stages
<1>6. CASE Show
  <2>1. feed' \in Seq(D) /\ Len(feed') <= Cap
    <3>1. answer \in Seq(D) /\ Len(answer) <= Cap /\ feed' = Reverse(answer)
      BY <1>6 DEF Show, FeedTypeOK
    <3>2. Reverse(answer) \in Seq(D) /\ Len(Reverse(answer)) = Len(answer)
      BY <3>1, ReverseType
    <3> QED BY <3>1, <3>2
  <2>2. answer' \in Seq(D) /\ Len(answer') <= Cap
    BY <1>6, FeedAssumption DEF Show
  <2> QED BY <1>2, <1>6, <2>1, <2>2 DEF Show, FeedTypeOK, Stages
<1>7. CASE PageReceive
  <2>1. stage = "streaming" /\ conn \in Viewers /\ queue[conn] # <<>>
    BY <1>1, <1>7 DEF PageReceive, Receive, ConnOfStream
  <2>2. Head(queue[conn]) \in D
    <3>1. queue[conn] \in Seq(D)
      BY <1>1, <2>1 DEF TypeOK
    <3> QED BY <2>1, <3>1, HeadTailProperties
  <2> DEFINE all == <<Head(queue[conn])>> \o feed
  <2>3. feed \in Seq(D) /\ Len(feed) <= Cap /\ Len(feed) \in Nat /\ Cap \in Nat
    BY FeedAssumption DEF FeedTypeOK
  <2>4. all \in Seq(D) /\ Len(all) = 1 + Len(feed)
    BY <2>2, <2>3, Push
  <2>5. IF Len(all) > Cap
        THEN feed' = Front(all) /\ displaced' = displaced \cup {Last(all)}
        ELSE feed' = all /\ UNCHANGED displaced
    BY <1>7 DEF PageReceive
  <2> HIDE DEF all
  <2>6. all # <<>>
    BY <2>3, <2>4
  <2>7. Front(all) \in Seq(D) /\ Len(Front(all)) = Len(all) - 1 /\ Last(all) \in D
    <3>1. ToSet(all) = ToSet(Front(all)) \cup {Last(all)}
      BY <2>4, <2>6, FrontOf
    <3>2. ToSet(all) \subseteq D
      BY <2>4, SeqSet
    <3> QED BY <2>4, <2>6, <3>1, <3>2, FrontOf
  <2>8. feed' \in Seq(D) /\ Len(feed') <= Cap
    BY <2>3, <2>4, <2>5, <2>7
  <2>9. displaced' \in SUBSET D
    BY <2>5, <2>7 DEF FeedTypeOK
  <2> QED BY <1>2, <1>7, <2>8, <2>9 DEF PageReceive, FeedTypeOK, Stages
<1>8. CASE Break
  <2>1. stage = "streaming" /\ conn \in Viewers
    BY <1>1, <1>8 DEF Break, ConnOfStream
  <2>2. ToSet(queue[conn]) \subseteq D
    BY <1>1, <2>1, SeqSet DEF TypeOK
  <2>3. Sending(conn) \subseteq D
    BY <1>1, <2>1, SendingBound
  <2>4. lost' \in SUBSET D
    BY <1>8, <2>2, <2>3 DEF Break, Lose, FeedTypeOK
  <2> QED BY <1>2, <1>8, <2>4 DEF Break, FeedTypeOK, Stages
<1>9. ASSUME NEW v \in Viewers, Open(v) PROVE FeedTypeOK'
  BY <1>2, <1>9, FeedAssumption DEF Open, FeedTypeOK, Stages
<1>10. ASSUME NEW v \in Viewers, Other(v) PROVE FeedTypeOK'
  BY <1>2, <1>10 DEF Other, page, FeedTypeOK
<1>11. ASSUME NEW p \in Publishers, FeedAdd(p) PROVE FeedTypeOK'
  <2>1. lost' \in SUBSET D
    BY <1>1, <1>11, AddStep DEF FeedAdd, Lose, FeedTypeOK
  <2> QED BY <1>2, <1>11, <2>1 DEF FeedAdd, FeedTypeOK
<1>12. ASSUME NEW p \in Publishers, FeedSendLoop(p) PROVE FeedTypeOK'
  <2>1. PICK v \in Viewers : FeedSend(p, v) \/ FeedSkipFull(p, v) \/ FeedSendClosed(p, v)
    BY <1>12 DEF FeedSendLoop
  <2>2. CASE FeedSend(p, v)
    BY <1>2, <2>2 DEF FeedSend, page, FeedTypeOK
  <2>3. CASE FeedSkipFull(p, v) \/ FeedSendClosed(p, v)
    <3>1. sending[p].rec \in D
      <4>1. v \in sending[p].to
        BY <2>3 DEF FeedSkipFull, FeedSendClosed, SkipFull, SendClosed
      <4> QED BY <1>1, <4>1, OnTheWay
    <3>2. lost' \in SUBSET D
      BY <2>3, <3>1 DEF FeedSkipFull, FeedSendClosed, Lose, FeedTypeOK
    <3> QED BY <1>2, <2>3, <3>2 DEF FeedSkipFull, FeedSendClosed, FeedTypeOK
  <2> QED BY <2>1, <2>2, <2>3
<1>13. CASE UNCHANGED feedVars
  BY <1>2, <1>13 DEF feedVars, page, FeedTypeOK
<1> QED
  BY <1>4, <1>5, <1>6, <1>7, <1>8, <1>9, <1>10, <1>11, <1>12, <1>13 DEF FeedNext

-----------------------------------------------------------------------------
(* What a step is to the line: Arrivals, with the records on their way to   *)
(* its channel, Coming, behind it.                                          *)

Coming == IF stage = "streaming" THEN Sending(conn) ELSE {}

\* The page has its response.
Covered == stage \in {"answered", "connecting", "streaming"}

PageInv ==
    /\ stage = "streaming" => channel[conn] = "open"
    /\ stage \in {"fetching", "answered"} => feed = <<>>
    /\ stage = "fetching" => lost = {}
    /\ seq > 0 => Publishers # {}

\* What the proofs about the line take for granted.
Ready == FeedTypeOK /\ SendInv /\ RingInv /\ PageInv

Same ==
    /\ Arrivals' = Arrivals /\ Coming' = Coming
    /\ UNCHANGED <<lost, displaced, seq>> /\ (Covered' => Covered)

Begins ==
    /\ Arrivals' = Reverse(Recent(Cap)) /\ Coming' = {} /\ lost = {}
    /\ displaced' = 1 .. seq \ ToSet(Recent(Cap)) /\ UNCHANGED <<lost, seq>>

Ends == Arrivals' = <<>> /\ Coming' = {} /\ lost' = {} /\ UNCHANGED seq /\ ~Covered'

Grows ==
    /\ seq' = seq + 1 /\ Arrivals' = Arrivals /\ UNCHANGED displaced /\ (Covered' => Covered)
    /\ \/ Coming' = Coming \cup {seq'} /\ UNCHANGED lost
       \/ Coming' = Coming /\ lost' = lost \cup {seq'}
       \/ Coming' = Coming /\ UNCHANGED lost /\ ~Covered

Arrives(r) ==
    /\ r \in Coming /\ Arrivals' = <<r>> \o Arrivals /\ Coming' = Coming \ {r}
    /\ IsFiniteSet(Coming') /\ Cardinality(Coming') < Cardinality(Publishers)
    /\ UNCHANGED <<lost, displaced, seq>> /\ (Covered' => Covered)

Skips(r) ==
    /\ r \in Coming /\ Arrivals' = Arrivals /\ Coming' = Coming \ {r}
    /\ lost' = lost \cup {r} /\ UNCHANGED <<displaced, seq>> /\ (Covered' => Covered)

Pops ==
    /\ Arrivals # <<>> /\ Arrivals' = Front(Arrivals) /\ Coming' = Coming
    /\ displaced' = displaced \cup {Last(Arrivals)} /\ UNCHANGED <<lost, seq>> /\ Covered

Breaks ==
    \E q \in Seq(1 .. MaxSeq) :
        /\ Arrivals = Line(q, feed) /\ Arrivals' = feed /\ Coming' = {}
        /\ lost' = lost \cup ToSet(q) \cup Coming /\ UNCHANGED <<displaced, seq>> /\ Covered

LEMMA OfStream ==
    ASSUME Ready, stage = "streaming"
    PROVE  /\ conn \in Viewers /\ channel[conn] = "open" /\ queue[conn] \in Seq(1 .. MaxSeq)
           /\ Arrivals = Line(queue[conn], feed) /\ Coming = Sending(conn)
BY DEF Ready, PageInv, FeedTypeOK, TypeOK, Arrivals, Line, Coming

LEMMA PageStep ==
    ASSUME Ready, Snapshot \/ FetchFails \/ Show
    PROVE  Begins \/ Ends \/ Same
<1>1. CASE Snapshot
  BY <1>1 DEF Snapshot, Begins, Ready, PageInv, Arrivals, Coming, vars
<1>2. CASE FetchFails
  BY <1>2 DEF FetchFails, Ends, Ready, PageInv, Arrivals, Coming, Covered, vars
<1>3. CASE Show
  BY <1>3 DEF Show, Same, Arrivals, Coming, Covered, vars
<1> QED BY <1>1, <1>2, <1>3

LEMMA OpenStep ==
    ASSUME Ready, NEW v \in Viewers, Open(v)
    PROVE  Same
<1>1. /\ stage = "connecting" /\ stage' = "streaming" /\ conn' = v
      /\ channel[v] = "none" /\ UNCHANGED <<answer, feed, lost, displaced, seq, queue, sending>>
  BY DEF Open, Subscribe
<1>2. queue[v] = <<>> /\ \A p \in Publishers : v \notin sending[p].to
  BY <1>1 DEF Ready, SendInv
<1>3. Arrivals = feed /\ Arrivals' = Line(<<>>, feed)
  BY <1>1, <1>2 DEF Arrivals, Line
<1>4. Line(<<>>, feed) = feed
  <2>1. feed \in Seq(1 .. MaxSeq) /\ Reverse(<<>>) = <<>>
    BY DEF Ready, FeedTypeOK, Reverse
  <2> QED BY <2>1, ConcatEmptySeq DEF Line
<1>5. Coming = {} /\ Coming' = {}
  <2>1. Sending(v)' = Sending(v) /\ Sending(v) = {}
    BY <1>1, <1>2 DEF Sending
  <2> QED BY <1>1, <2>1 DEF Coming
<1> QED BY <1>1, <1>3, <1>4, <1>5 DEF Same, Covered

LEMMA ReceiveStep ==
    ASSUME Ready, PageReceive
    PROVE  Same \/ Pops
<1> DEFINE q == queue[conn]
           all == <<Head(q)>> \o feed
           D == 1 .. MaxSeq
<1>1. /\ stage = "streaming" /\ q # <<>> /\ queue' = [queue EXCEPT ![conn] = Tail(@)]
      /\ UNCHANGED <<stage, conn, lost, seq, sending>>
  BY DEF PageReceive, Receive
<1>2. /\ conn \in Viewers /\ q \in Seq(D) /\ feed \in Seq(D)
      /\ Arrivals = Line(q, feed) /\ Coming = Sending(conn)
  BY <1>1, OfStream DEF Ready, FeedTypeOK
<1>3. queue'[conn] = Tail(q)
  BY <1>1, <1>2 DEF Ready, FeedTypeOK, TypeOK
<1>4. Arrivals' = Line(Tail(q), feed') /\ Coming' = Coming
  BY <1>1, <1>2, <1>3, SendingSame DEF Arrivals, Line, Coming
<1>5. Head(q) \in D /\ Tail(q) \in Seq(D)
  BY <1>1, <1>2, HeadTailProperties
<1>6. all \in Seq(D) /\ Len(all) = 1 + Len(feed) /\ Len(feed) \in Nat
  BY <1>2, <1>5, Push
<1>7. Arrivals = Line(Tail(q), all)
  BY <1>1, <1>2, LineReceive
<1>8. \/ feed' = Front(all) /\ displaced' = displaced \cup {Last(all)}
      \/ feed' = all /\ UNCHANGED displaced
  BY DEF PageReceive
<1> HIDE DEF q, all
<1>9. CASE feed' = all /\ UNCHANGED displaced
  BY <1>1, <1>4, <1>7, <1>9 DEF Same, Covered
<1>10. CASE feed' = Front(all) /\ displaced' = displaced \cup {Last(all)}
  <2>1. all # <<>>
    BY <1>6
  <2>2. Line(Tail(q), all) # <<>>
    BY <1>5, <1>6, <2>1, LineFront
  <2>3. Line(Tail(q), Front(all)) = Front(Line(Tail(q), all))
    BY <1>5, <1>6, <2>1, LineFront
  <2>4. Last(all) = Last(Line(Tail(q), all))
    <3>1. ASSUME NEW t \in Seq(D), NEW a \in Seq(D), a # <<>> PROVE Last(a) = Last(Line(t, a))
      BY <3>1, LineFront
    <3> QED BY <1>5, <1>6, <2>1, <3>1
  <2> QED BY <1>1, <1>4, <1>7, <1>10, <2>2, <2>3, <2>4 DEF Pops, Covered
<1> QED BY <1>8, <1>9, <1>10

LEMMA BreakStep ==
    ASSUME Ready, Break
    PROVE  Breaks
<1>1. stage = "streaming" /\ stage' = "connecting" /\ UNCHANGED <<feed, displaced, seq>>
  BY DEF Break, vars
<1>2. queue[conn] \in Seq(1 .. MaxSeq) /\ Arrivals = Line(queue[conn], feed) /\ Coming = Sending(conn)
  BY <1>1, OfStream
<1>3. Arrivals' = feed /\ Coming' = {}
  BY <1>1 DEF Arrivals, Coming
<1>4. lost' = lost \cup ToSet(queue[conn]) \cup Coming
  BY <1>2 DEF Break, Lose
<1> QED BY <1>1, <1>2, <1>3, <1>4 DEF Breaks, Covered

\* The recorder's steps.
LEMMA OtherStep ==
    ASSUME Ready, NEW v \in Viewers, Other(v)
    PROVE  Same
<1>1. /\ v # conn /\ UNCHANGED <<stage, conn, answer, feed, lost, displaced, seq, sending>>
      /\ \/ UNCHANGED queue
         \/ queue' = [queue EXCEPT ![v] = Tail(@)]
  BY DEF Other, Subscribe, Receive, Release, page
<1>2. Coming' = Coming
  BY <1>1 DEF Coming, Sending
<1>3. CASE stage = "streaming"
  <2>1. conn \in Viewers /\ Arrivals = Line(queue[conn], feed)
    BY <1>3, OfStream
  <2>2. queue'[conn] = queue[conn]
    BY <1>1, <2>1 DEF Ready, FeedTypeOK, TypeOK
  <2> QED BY <1>1, <1>2, <1>3, <2>2 DEF Arrivals, Same, Covered
<1>4. CASE stage # "streaming"
  BY <1>1, <1>2, <1>4 DEF Arrivals, Same, Covered
<1> QED BY <1>3, <1>4

LEMMA FeedAddStep ==
    ASSUME Ready, NEW p \in Publishers, FeedAdd(p)
    PROVE  Grows
<1>1. /\ Add(p) /\ TypeOK
      /\ UNCHANGED <<stage, conn, answer, feed, displaced, queue, channel>>
  BY DEF FeedAdd, Add, Ready, FeedTypeOK
<1>2. seq' = seq + 1 /\ Arrivals' = Arrivals /\ (Covered' => Covered)
  BY <1>1 DEF Add, Arrivals, Covered
<1>3. lost' = lost \cup (IF stage \in {"answered", "connecting"} THEN {seq'} ELSE {})
  BY DEF FeedAdd, Lose
<1>4. CASE stage = "streaming"
  <2>1. conn \in Viewers /\ channel[conn] = "open" /\ Coming = Sending(conn)
    BY <1>4, OfStream
  <2>2. Sending(conn)' = Sending(conn) \cup {seq'}
    <3>1. \A v \in Viewers :
             Sending(v)' = IF channel[v] = "open" THEN Sending(v) \cup {seq'} ELSE Sending(v)
      BY <1>1, SendingAdd
    <3>2. Sending(conn)' = {sending'[q].rec : q \in {q \in Publishers : conn \in sending'[q].to}}
      BY <1>1 DEF Sending
    <3>3. ASSUME NEW v \in Viewers, v = conn PROVE Sending(v)' = Sending(conn)'
      BY <3>2, <3>3 DEF Sending
    <3> QED BY <2>1, <3>1, <3>3
  <2>3. Coming' = Coming \cup {seq'} /\ UNCHANGED lost
    BY <1>1, <1>3, <1>4, <2>1, <2>2 DEF Coming
  <2> QED BY <1>1, <1>2, <2>3 DEF Grows
<1>5. CASE stage # "streaming"
  <2>1. Coming' = Coming
    BY <1>1, <1>5 DEF Coming
  <2> QED BY <1>1, <1>2, <1>3, <1>5, <2>1 DEF Grows, Covered
<1> QED BY <1>4, <1>5

LEMMA FeedSendStep ==
    ASSUME Ready, NEW p \in Publishers, NEW v \in Viewers, FeedSend(p, v)
    PROVE  Same \/ Arrives(sending[p].rec)
<1> DEFINE r == sending[p].rec
           D == 1 .. MaxSeq
<1>1. /\ v \in sending[p].to /\ Sent(p, v) /\ TypeOK /\ SendInv /\ NoConn \notin Viewers
      /\ queue' = [queue EXCEPT ![v] = Append(@, r)]
      /\ UNCHANGED <<stage, conn, answer, feed, lost, displaced, seq>>
  BY FeedAssumption DEF FeedSend, Send, page, Ready, FeedTypeOK
<1>2. ASSUME NEW w \in Viewers
      PROVE  /\ Sending(w)' = IF w = v THEN Sending(w) \ {r} ELSE Sending(w)
             /\ queue'[w] = IF w = v THEN Append(queue[w], r) ELSE queue[w]
  BY <1>1, SendingSent DEF TypeOK
<1>3. CASE stage # "streaming"
  BY <1>1, <1>3 DEF Same, Covered, Arrivals, Coming
<1>4. CASE stage = "streaming"
  <2>1. /\ conn \in Viewers /\ Coming = Sending(conn) /\ Arrivals = Line(queue[conn], feed)
        /\ queue[conn] \in Seq(D) /\ feed \in Seq(D) /\ conn' = conn /\ stage' = "streaming"
    BY <1>1, <1>4, OfStream DEF Ready, FeedTypeOK
  <2>2. Coming' = Sending(conn)' /\ Arrivals' = Line(queue'[conn], feed)
    BY <1>1, <2>1 DEF Coming, Arrivals, Line
  <2>3. ASSUME NEW w \in Viewers, w = conn PROVE Sending(w)' = Sending(conn)'
    BY <1>1, <2>3 DEF Sending
  <2>4. CASE conn # v
    BY <1>1, <1>2, <1>4, <2>1, <2>2, <2>3, <2>4 DEF Same, Covered
  <2>5. CASE conn = v
    <3>1. r \in D /\ r \in Sending(v)
      BY <1>1, OnTheWay DEF Sending
    <3>2. Coming' = Coming \ {r}
      BY <1>2, <2>1, <2>2, <2>3, <2>5
    <3>3. Arrivals' = <<r>> \o Arrivals
      <4>1. queue'[conn] = Append(queue[conn], r)
        BY <1>2, <2>1, <2>5
      <4>2. Line(Append(queue[conn], r), feed) = <<r>> \o Line(queue[conn], feed)
        BY <2>1, <3>1, LineSend
      <4> QED BY <2>1, <2>2, <4>1, <4>2
    <3>4. Coming' \subseteq {sending[q].rec : q \in Publishers \ {p}}
      BY <2>1, <2>5, <3>2 DEF Sending
    <3>5. IsFiniteSet(Coming') /\ Cardinality(Coming') < Cardinality(Publishers)
      BY <3>4, SendingFewer
    <3> QED BY <1>1, <1>4, <2>1, <2>5, <3>1, <3>2, <3>3, <3>5 DEF Arrives, Covered
  <2> QED BY <2>4, <2>5
<1> QED BY <1>3, <1>4

LEMMA SkipStep ==
    ASSUME Ready, NEW p \in Publishers, NEW v \in Viewers,
           FeedSkipFull(p, v) \/ FeedSendClosed(p, v)
    PROVE  Same \/ Skips(sending[p].rec)
<1> DEFINE r == sending[p].rec
<1>1. /\ v \in sending[p].to /\ TypeOK /\ SendInv /\ NoConn \notin Viewers
      /\ UNCHANGED <<stage, conn, answer, feed, displaced, seq, queue>>
  BY FeedAssumption DEF FeedSkipFull, FeedSendClosed, SkipFull, SendClosed, Ready, FeedTypeOK
<1>2. Arrivals' = Arrivals /\ (Covered' => Covered)
  BY <1>1 DEF Arrivals, Covered
<1>3. conn \in Viewers <=> stage = "streaming"
  BY <1>1 DEF Ready, FeedTypeOK
<1>4. PICK W \in SUBSET sending[p].to :
        /\ lost' = lost \cup (IF conn \in W THEN {r} ELSE {})
        /\ \A w \in Viewers : Sending(w)' = IF w \in W THEN Sending(w) \ {r} ELSE Sending(w)
  <2>1. CASE FeedSkipFull(p, v)
    <3>1. Sent(p, v) /\ lost' = lost \cup (IF conn \in {v} THEN {r} ELSE {})
      BY <2>1 DEF FeedSkipFull, SkipFull, Lose
    <3>2. \A w \in Viewers : Sending(w)' = IF w \in {v} THEN Sending(w) \ {r} ELSE Sending(w)
      BY <1>1, <3>1, SendingSent
    <3> QED BY <1>1, <3>1, <3>2
  <2>2. CASE FeedSendClosed(p, v)
    <3>1. /\ sending' = [sending EXCEPT ![p] = NoSend]
          /\ lost' = lost \cup (IF conn \in sending[p].to THEN {r} ELSE {})
      BY <2>2 DEF FeedSendClosed, SendClosed, Lose
    <3>2. \A w \in Viewers :
             Sending(w)' = IF w \in sending[p].to THEN Sending(w) \ {r} ELSE Sending(w)
      BY <1>1, <3>1, SendingPanic
    <3> QED BY <3>1, <3>2
  <2> QED BY <2>1, <2>2
<1>5. W \subseteq Viewers
  BY <1>1 DEF TypeOK
<1>6. CASE conn \in W
  <2>1. stage = "streaming" /\ conn \in Viewers /\ r \in Sending(conn)
    BY <1>3, <1>4, <1>5, <1>6 DEF Sending
  <2>2. ASSUME NEW w \in Viewers, w = conn PROVE Sending(w)' = Sending(conn)'
    BY <1>1, <2>2 DEF Sending
  <2>3. Coming = Sending(conn) /\ Coming' = Sending(conn) \ {r}
    BY <1>1, <1>4, <1>6, <2>1, <2>2 DEF Coming
  <2> QED BY <1>1, <1>2, <1>4, <1>6, <2>1, <2>3 DEF Skips
<1>7. CASE conn \notin W
  <2>1. Coming' = Coming
    <3>1. CASE stage = "streaming"
      <4>1. ASSUME NEW w \in Viewers, w = conn PROVE Sending(w)' = Sending(conn)'
        BY <1>1, <4>1 DEF Sending
      <4> QED BY <1>1, <1>3, <1>4, <1>7, <3>1, <4>1 DEF Coming
    <3>2. CASE stage # "streaming"
      BY <1>1, <3>2 DEF Coming
    <3> QED BY <3>1, <3>2
  <2> QED BY <1>1, <1>2, <1>4, <1>7, <2>1 DEF Same
<1> QED BY <1>6, <1>7

\* All there is.
LEMMA LineStep ==
    ASSUME Ready, [FeedNext]_feedVars
    PROVE  \/ Same \/ Begins \/ Ends \/ Grows \/ Pops \/ Breaks
           \/ \E r \in Coming : Arrives(r) \/ Skips(r)
<1>1. ASSUME NEW p \in Publishers, FeedSendLoop(p)
      PROVE  Same \/ \E r \in Coming : Arrives(r) \/ Skips(r)
  BY <1>1, FeedSendStep, SkipStep DEF FeedSendLoop, Arrives, Skips
<1>2. CASE UNCHANGED feedVars
  BY <1>2 DEF feedVars, vars, page, Same, Arrivals, Coming, Sending, Covered
<1> QED
  BY <1>1, <1>2, PageStep, OpenStep, ReceiveStep, BreakStep, OtherStep, FeedAddStep DEF FeedNext

LEMMA PageInvStep ==
    ASSUME Ready, [FeedNext]_feedVars
    PROVE  PageInv'
<1>1. PageInv /\ TypeOK /\ ConnOfStream /\ NoConn \notin Viewers
  BY FeedAssumption DEF Ready, FeedTypeOK, ConnOfStream
<1>2. CASE Snapshot \/ FetchFails \/ Show \/ Break
  BY <1>1, <1>2 DEF Snapshot, FetchFails, Show, Break, PageInv, vars
<1>3. CASE PageReceive
  BY <1>1, <1>3 DEF PageReceive, Receive, PageInv
<1>4. ASSUME NEW v \in Viewers, Open(v) PROVE PageInv'
  BY <1>1, <1>4 DEF Open, Subscribe, PageInv, TypeOK
<1>5. ASSUME NEW v \in Viewers, Other(v) PROVE PageInv'
  <2>1. stage = "streaming" => channel'[conn] = channel[conn]
    BY <1>1, <1>5 DEF Other, Subscribe, Receive, Release, TypeOK, ConnOfStream
  <2> QED BY <1>1, <1>5, <2>1 DEF Other, Subscribe, Receive, Release, page, PageInv
<1>6. ASSUME NEW p \in Publishers, FeedAdd(p) PROVE PageInv'
  BY <1>1, <1>6 DEF FeedAdd, Add, Lose, PageInv
<1>7. ASSUME NEW p \in Publishers, FeedSendLoop(p) PROVE PageInv'
  <2>1. PICK v \in Viewers : FeedSend(p, v) \/ FeedSkipFull(p, v) \/ FeedSendClosed(p, v)
    BY <1>7 DEF FeedSendLoop
  <2>2. CASE FeedSend(p, v)
    BY <1>1, <2>2 DEF FeedSend, Send, page, PageInv
  <2>3. CASE FeedSkipFull(p, v) \/ FeedSendClosed(p, v)
    <3>1. /\ sending[p].to \subseteq Viewers
          /\ UNCHANGED <<stage, conn, feed, channel, seq>>
      BY <1>1, <2>3 DEF FeedSkipFull, FeedSendClosed, SkipFull, SendClosed, TypeOK
    <3>2. stage = "fetching" => conn \notin Viewers
      BY <1>1 DEF Ready, FeedTypeOK
    <3>3. stage = "fetching" => lost' = lost
      BY <2>3, <3>1, <3>2 DEF FeedSkipFull, FeedSendClosed, Lose
    <3> QED BY <1>1, <3>1, <3>3 DEF PageInv
  <2> QED BY <2>1, <2>2, <2>3
<1>8. CASE UNCHANGED feedVars
  BY <1>1, <1>8 DEF feedVars, vars, page, PageInv
<1> QED
  BY <1>2, <1>3, <1>4, <1>5, <1>6, <1>7, <1>8 DEF FeedNext

-----------------------------------------------------------------------------
(* The invariant of the feed: each record that was added is in one place.   *)

FlowInv ==
    /\ Distinct(Arrivals) /\ ToSet(Arrivals) \subseteq 1 .. seq
    /\ Coming \cap ToSet(Arrivals) = {}
    /\ lost \cap (Coming \cup ToSet(Arrivals)) = {} /\ lost \subseteq 1 .. seq
    /\ Covered => 1 .. seq \subseteq ToSet(Arrivals) \cup Coming \cup lost \cup displaced

\* In front of a record, or to come, there are fewer older ones than publishers:
\* each is one that its publisher had not sent yet when the record was added.
DisorderInv == Behind(Arrivals, Coming, Cardinality(Publishers))

LEMMA LineTypes ==
    ASSUME Ready
    PROVE  /\ seq \in Nat /\ Arrivals \in Seq(1 .. MaxSeq) /\ Arrivals \in Seq(Nat)
           /\ Coming \in SUBSET (1 .. seq) /\ Coming \in SUBSET Nat
<1> DEFINE D == 1 .. MaxSeq
<1>1. /\ TypeOK /\ SendInv /\ seq \in Nat /\ answer \in Seq(D) /\ feed \in Seq(D)
      /\ D \subseteq Nat /\ 1 .. seq \subseteq Nat
  BY DEF Ready, FeedTypeOK, TypeOK
<1>2. CASE stage = "streaming"
  <2>1. /\ conn \in Viewers /\ queue[conn] \in Seq(D)
        /\ Arrivals = Line(queue[conn], feed) /\ Coming = Sending(conn)
    BY <1>2, OfStream
  <2> QED BY <1>1, <2>1, LineType, SendingBound, SeqMonotonic
<1>3. CASE stage # "streaming"
  <2>1. Coming = {}
    BY <1>3 DEF Coming
  <2>2. Arrivals \in Seq(D)
    BY <1>1, <1>3, ReverseType DEF Arrivals
  <2> QED BY <1>1, <2>1, <2>2, SeqMonotonic
<1> QED BY <1>2, <1>3

\* The response, newest first.
LEMMA Newest ==
    ASSUME Ready
    PROVE  LET rs == Reverse(Recent(Cap))
           IN  /\ rs \in Seq(Nat) /\ Distinct(rs)
               /\ ToSet(rs) = ToSet(Recent(Cap)) /\ ToSet(rs) \subseteq 1 .. seq
               /\ Behind(rs, {}, Cardinality(Publishers))
<1> DEFINE s == Recent(Cap)
           rs == Reverse(s)
<1>1. /\ s \in Seq(1 .. MaxSeq) /\ \A i \in 1 .. Len(s) : s[i] \in 1 .. seq
      /\ \A i, j \in 1 .. Len(s) : i < j => s[i] < s[j]
  BY Fetched DEF Ready, FeedTypeOK
<1> HIDE DEF s
<1>2. /\ rs \in Seq(1 .. MaxSeq) /\ Len(rs) = Len(s)
      /\ \A i \in 1 .. Len(s) : rs[i] = s[Len(s) - i + 1]
  BY <1>1, ReverseType
<1> HIDE DEF rs
<1>3. Len(s) \in Nat /\ DOMAIN s = 1 .. Len(s) /\ DOMAIN rs = 1 .. Len(s)
  BY <1>1, <1>2
<1>4. \A i \in 1 .. Len(s) : Len(s) - i + 1 \in 1 .. Len(s) /\ Len(s) - (Len(s) - i + 1) + 1 = i
  BY <1>3
<1>5. \A i \in 1 .. Len(s) : rs[i] \in 1 .. seq /\ rs[i] \in Nat
  BY <1>1, <1>2, <1>4
<1>6. rs \in Seq(Nat)
  <2>1. 1 .. MaxSeq \subseteq Nat
    OBVIOUS
  <2> QED BY <1>2, <2>1, SeqMonotonic
<1>7. ASSUME NEW i \in 1 .. Len(s), NEW j \in 1 .. Len(s), i < j PROVE rs[j] < rs[i]
  <2>1. Len(s) - j + 1 < Len(s) - i + 1
    BY <1>3, <1>7
  <2> QED BY <1>1, <1>2, <1>4, <2>1
<1>8. Distinct(rs)
  <2> SUFFICES ASSUME NEW i \in 1 .. Len(s), NEW j \in 1 .. Len(s), rs[i] = rs[j] PROVE i = j
    BY <1>3 DEF Distinct
  <2>1. ~(i < j) /\ ~(j < i)
    BY <1>5, <1>7
  <2> QED BY <1>3, <2>1
<1>9. ToSet(rs) = ToSet(s)
  <2>1. \A i \in 1 .. Len(s) : rs[i] \in ToSet(s)
    BY <1>2, <1>3, <1>4 DEF ToSet
  <2>2. \A i \in 1 .. Len(s) : s[i] \in ToSet(rs)
    <3> TAKE i \in 1 .. Len(s)
    <3>1. s[i] = rs[Len(s) - i + 1] /\ Len(s) - i + 1 \in DOMAIN rs
      BY <1>2, <1>3, <1>4
    <3> QED BY <3>1 DEF ToSet
  <2> QED BY <1>3, <2>1, <2>2 DEF ToSet
<1>10. ToSet(rs) \subseteq 1 .. seq
  BY <1>3, <1>5 DEF ToSet
<1>11. Behind(rs, {}, Cardinality(Publishers))
  <2> SUFFICES ASSUME NEW i \in 1 .. Len(s)
               PROVE  Cardinality(Older(rs, {}, i)) < Cardinality(Publishers)
    BY <1>2 DEF Behind
  <2>1. \A j \in 1 .. i - 1 : rs[i] < rs[j] /\ rs[j] \in Nat /\ rs[i] \in Nat
    BY <1>3, <1>5, <1>7
  <2>2. Older(rs, {}, i) = {}
    BY <2>1 DEF Older
  <2>3. Publishers # {}
    <3>1. rs[i] \in 1 .. seq /\ seq \in Nat
      BY <1>5 DEF Ready, FeedTypeOK, TypeOK
    <3>2. seq > 0
      BY <3>1
    <3> QED BY <3>2 DEF Ready, PageInv
  <2>4. IsFiniteSet(Publishers) /\ Cardinality(Publishers) \in Nat /\ Cardinality(Publishers) # 0
    BY <2>3, FeedAssumption, FS_EmptySet, FS_CardinalityType
  <2> QED BY <2>2, <2>4, FS_EmptySet
<1> QED BY <1>6, <1>8, <1>9, <1>10, <1>11 DEF rs, s

LEMMA FlowStep ==
    ASSUME Ready, FlowInv, [FeedNext]_feedVars
    PROVE  FlowInv'
<1>1. /\ seq \in Nat /\ Arrivals \in Seq(Nat) /\ Coming \subseteq 1 .. seq
      /\ feed \in Seq(1 .. MaxSeq)
  BY LineTypes DEF Ready, FeedTypeOK
<1>2. CASE Same
  BY <1>2 DEF FlowInv, Same
<1>3. CASE Begins
  <2>1. /\ Distinct(Arrivals') /\ ToSet(Arrivals') = ToSet(Recent(Cap))
        /\ ToSet(Arrivals') \subseteq 1 .. seq
    BY <1>3, Newest DEF Begins
  <2> QED BY <1>3, <2>1 DEF Begins, FlowInv
<1>4. CASE Ends
  <2>1. Distinct(Arrivals') /\ ToSet(Arrivals') = {}
    BY <1>4 DEF Ends, Distinct, ToSet
  <2> QED BY <1>4, <2>1 DEF Ends, FlowInv
<1>5. CASE Grows
  <2>1. seq' = seq + 1 /\ Arrivals' = Arrivals
    BY <1>5 DEF Grows
  <2>2. 1 .. seq' = (1 .. seq) \cup {seq'} /\ seq' \notin 1 .. seq
    BY <1>1, <2>1
  <2> QED BY <1>1, <1>5, <2>1, <2>2 DEF Grows, FlowInv
<1>6. CASE Pops
  <2>1. /\ ToSet(Arrivals) = ToSet(Arrivals') \cup {Last(Arrivals)}
        /\ Distinct(Arrivals')
    <3>1. Arrivals # <<>> /\ Arrivals' = Front(Arrivals)
      BY <1>6 DEF Pops
    <3>2. Front(Arrivals) \in Seq(Nat) /\ Piece(Front(Arrivals), Arrivals, 0)
      BY <1>1, <3>1, FrontOf
    <3>3. ToSet(Arrivals) = ToSet(Front(Arrivals)) \cup {Last(Arrivals)}
      BY <1>1, <3>1, FrontOf
    <3>4. Distinct(Front(Arrivals))
      BY <1>1, <3>2, PieceOf DEF FlowInv
    <3> QED BY <3>1, <3>3, <3>4
  <2> QED BY <1>6, <2>1 DEF Pops, FlowInv
<1>7. CASE Breaks
  <2>1. PICK q \in Seq(1 .. MaxSeq) :
           /\ Arrivals = Line(q, feed) /\ Arrivals' = feed /\ Coming' = {}
           /\ lost' = lost \cup ToSet(q) \cup Coming /\ UNCHANGED <<displaced, seq>> /\ Covered
    BY <1>7 DEF Breaks
  <2>2. ToSet(Arrivals) = ToSet(q) \cup ToSet(feed)
    BY <1>1, <2>1, LineSet
  <2>3. ToSet(q) \cap ToSet(feed) = {}
    BY <1>1, <2>1, FeedOfLine DEF FlowInv
  <2>4. Distinct(feed)
    <3>1. Piece(feed, Line(q, feed), Len(q)) /\ Line(q, feed) \in Seq(1 .. MaxSeq)
      BY <1>1, <2>1, FeedOfLine, LineType
    <3> QED BY <1>1, <2>1, <3>1, PieceOf DEF FlowInv
  <2> QED BY <1>1, <2>1, <2>2, <2>3, <2>4 DEF FlowInv
<1>8. ASSUME NEW r \in Coming, Arrives(r) PROVE FlowInv'
  <2>1. r \in Nat /\ r \notin ToSet(Arrivals) /\ Distinct(Arrivals)
    BY <1>1 DEF FlowInv
  <2>2. Distinct(Arrivals') /\ ToSet(Arrivals') = ToSet(Arrivals) \cup {r}
    BY <1>1, <1>8, <2>1, Push DEF Arrives
  <2> QED BY <1>1, <1>8, <2>2 DEF Arrives, FlowInv
<1>9. ASSUME NEW r \in Coming, Skips(r) PROVE FlowInv'
  BY <1>1, <1>9 DEF Skips, FlowInv
<1> QED
  BY <1>2, <1>3, <1>4, <1>5, <1>6, <1>7, <1>8, <1>9, LineStep

LEMMA DisorderStep ==
    ASSUME Ready, FlowInv, DisorderInv, [FeedNext]_feedVars
    PROVE  DisorderInv'
<1> DEFINE n == Cardinality(Publishers)
<1>1. /\ seq \in Nat /\ Arrivals \in Seq(Nat) /\ Coming \in SUBSET (1 .. seq)
      /\ Coming \in SUBSET Nat /\ n \in Nat
  BY LineTypes, FeedAssumption, FS_CardinalityType
<1>2. feed \in Seq(1 .. MaxSeq) /\ feed \in Seq(Nat)
  <2>1. feed \in Seq(1 .. MaxSeq) /\ 1 .. MaxSeq \subseteq Nat
    BY DEF Ready, FeedTypeOK
  <2> QED BY <2>1, SeqMonotonic
<1>3. ASSUME NEW k, Arrivals' \in Seq(Nat), Piece(Arrivals', Arrivals, k), Coming' \subseteq Coming
      PROVE  Behind(Arrivals', Coming', n)
  BY <1>1, <1>3, BehindPiece DEF DisorderInv
<1> HIDE DEF n
<1>4. Piece(Arrivals, Arrivals, 0)
  BY <1>1 DEF Piece
<1>5. CASE Same \/ \E r \in Coming : Skips(r)
  BY <1>1, <1>3, <1>4, <1>5 DEF Same, Skips, DisorderInv, n
<1>6. CASE Begins
  <2>1. Behind(Reverse(Recent(Cap)), {}, n)
    BY Newest DEF n
  <2> QED BY <1>6, <2>1 DEF Begins, DisorderInv, n
<1>7. CASE Ends
  BY <1>7 DEF Ends, DisorderInv, Behind
<1>8. CASE Grows
  <2>1. Arrivals' = Arrivals /\ seq' = seq + 1
    BY <1>8 DEF Grows
  <2>2. \A i \in 1 .. Len(Arrivals) : Arrivals[i] < seq'
    <3> TAKE i \in 1 .. Len(Arrivals)
    <3>1. Arrivals[i] \in ToSet(Arrivals)
      BY <1>1 DEF ToSet
    <3>2. Arrivals[i] \in 1 .. seq
      BY <3>1 DEF FlowInv
    <3> QED BY <1>1, <2>1, <3>2
  <2>3. Behind(Arrivals, Coming, n) /\ seq' \in Nat
    BY <1>1, <2>1 DEF DisorderInv, n
  <2>4. Behind(Arrivals, Coming \cup {seq'}, n)
    BY <1>1, <2>2, <2>3, BehindGrow
  <2> QED BY <1>8, <2>1, <2>3, <2>4 DEF Grows, DisorderInv, n
<1>9. CASE Pops
  <2>1. Arrivals # <<>> /\ Arrivals' = Front(Arrivals) /\ Coming' = Coming
    BY <1>9 DEF Pops
  <2>2. Front(Arrivals) \in Seq(Nat) /\ Piece(Front(Arrivals), Arrivals, 0)
    BY <1>1, <2>1, FrontOf
  <2> QED BY <1>3, <2>1, <2>2 DEF DisorderInv, n
<1>10. CASE Breaks
  <2>1. PICK q \in Seq(1 .. MaxSeq) :
           Arrivals = Line(q, feed) /\ Arrivals' = feed /\ Coming' = {}
    BY <1>10 DEF Breaks
  <2>2. Piece(feed, Line(q, feed), Len(q))
    BY <1>2, FeedOfLine
  <2> QED BY <1>2, <1>3, <2>1, <2>2 DEF DisorderInv, n
<1>11. ASSUME NEW r \in Coming, Arrives(r) PROVE DisorderInv'
  <2>1. /\ Arrivals' = <<r>> \o Arrivals /\ Coming' = Coming \ {r}
        /\ IsFiniteSet(Coming \ {r}) /\ Cardinality(Coming \ {r}) < n
        /\ Behind(Arrivals, Coming, n)
    BY <1>11 DEF Arrives, DisorderInv, n
  <2>2. Behind(<<r>> \o Arrivals, Coming \ {r}, n)
    BY <1>1, <2>1, BehindPush
  <2> QED BY <2>1, <2>2 DEF DisorderInv, n
<1> QED
  BY <1>5, <1>6, <1>7, <1>8, <1>9, <1>10, <1>11, LineStep

-----------------------------------------------------------------------------
FeedInv == Ready /\ FlowInv /\ DisorderInv

LEMMA FeedCorrect == FeedSpec => []FeedInv
<1>1. FeedInit => FeedInv
  <2> SUFFICES ASSUME FeedInit PROVE FeedInv
    OBVIOUS
  <2>1. TypeOK /\ SendInv /\ seq = 0
    BY InitSend DEF FeedInit, Init
  <2>2. Ready
    <3>1. RingInv
      BY RecorderAssumption DEF FeedInit, Init, RingInv, Held
    <3>2. PageInv
      BY <2>1 DEF FeedInit, PageInv
    <3>3. FeedTypeOK
      BY <2>1, FeedAssumption DEF FeedInit, FeedTypeOK, Stages
    <3> QED BY <2>1, <3>1, <3>2, <3>3 DEF Ready
  <2>3. Arrivals = <<>> /\ Coming = {} /\ ~Covered /\ lost = {}
    BY DEF FeedInit, Arrivals, Coming, Covered
  <2> QED BY <2>2, <2>3 DEF FeedInv, FlowInv, DisorderInv, Behind, Distinct, ToSet
<1>2. FeedInv /\ [FeedNext]_feedVars => FeedInv'
  <2> SUFFICES ASSUME FeedInv, [FeedNext]_feedVars PROVE FeedInv'
    OBVIOUS
  <2>1. Ready /\ TypeOK /\ SendInv /\ RingInv /\ ConnOfStream
    BY DEF FeedInv, Ready, FeedTypeOK, ConnOfStream
  <2>2. [Next]_vars
    BY <2>1, FeedStep
  <2>3. SendInv' /\ RingInv'
    <3>1. UNCHANGED <<ring, next, seq>> => RingInv'
      BY <2>1 DEF RingInv, Held
    <3> QED BY <2>1, <2>2, <3>1, SendStep, RingStep, OnlyAddWrites
  <2>4. Ready'
    BY <2>1, <2>3, FeedTypeStep, PageInvStep DEF FeedInv, Ready
  <2> QED BY <2>4, FlowStep, DisorderStep DEF FeedInv
<1> QED BY <1>1, <1>2, PTL DEF FeedSpec

(* The types of the page's state: it holds Cap records at most, and has a   *)
(* connection exactly while it streams.                                     *)
THEOREM FeedTypeCorrect == FeedSpec => []FeedTypeOK
<1>1. FeedInv => FeedTypeOK
  BY DEF FeedInv, Ready
<1> QED BY <1>1, FeedCorrect, PTL

(* No record is shown twice, although the response and the stream are asked *)
(* for apart; after a break the stream alone is opened anew.                *)
THEOREM NoDuplicates == FeedSpec => []FeedHasNoDuplicates
<1>1. FeedInv => FeedHasNoDuplicates
  BY DEF FeedInv, FlowInv, Distinct, FeedHasNoDuplicates
<1> QED BY <1>1, FeedCorrect, PTL

(* In front of a record there are fewer older ones than publishers.         *)
THEOREM DisorderIsBounded == FeedSpec => []FeedDisorderBounded
<1>1. FeedInv => FeedDisorderBounded
  <2> SUFFICES ASSUME FeedInv PROVE FeedDisorderBounded
    OBVIOUS
  <2>0. DOMAIN Arrivals = 1 .. Len(Arrivals)
    <3>1. Arrivals \in Seq(Nat)
      BY LineTypes DEF FeedInv
    <3> QED BY <3>1
  <2> SUFFICES ASSUME NEW i \in 1 .. Len(Arrivals)
               PROVE  Cardinality({j \in 1 .. i - 1 : Arrivals[j] < Arrivals[i]})
                         < Cardinality(Publishers)
    BY <2>0 DEF FeedDisorderBounded
  <2>1. Arrivals \in Seq(Nat) /\ Coming \in SUBSET Nat /\ Distinct(Arrivals)
    BY LineTypes DEF FeedInv, FlowInv
  <2>2. /\ Cardinality({j \in 1 .. i - 1 : Arrivals[j] < Arrivals[i]})
              <= Cardinality(Older(Arrivals, Coming, i))
        /\ Cardinality({j \in 1 .. i - 1 : Arrivals[j] < Arrivals[i]}) \in Nat
    BY <2>1, PlacesOfOlder
  <2>3. Cardinality(Older(Arrivals, Coming, i)) < Cardinality(Publishers)
    BY DEF FeedInv, DisorderInv, Behind
  <2>4. Cardinality(Older(Arrivals, Coming, i)) \in Nat /\ Cardinality(Publishers) \in Nat
    BY <2>1, OlderFinite, FeedAssumption, FS_CardinalityType
  <2> QED BY <2>2, <2>3, <2>4
<1> QED BY <1>1, FeedCorrect, PTL

(* Every record is in the feed or on its way there, unless newer ones       *)
(* displaced it or it fell into a gap: it was added while the page had no   *)
(* connection, was in or on its way to one that broke, met a full channel,  *)
(* or its publisher panicked.  What fell into a gap never turns up.         *)
THEOREM OnlyGapsAreMissed == FeedSpec => []FeedMissesOnlyGaps
<1>1. FeedInv => FeedMissesOnlyGaps
  BY DEF FeedInv, FlowInv, FeedMissesOnlyGaps, Covered, Coming
<1> QED BY <1>1, FeedCorrect, PTL
=============================================================================
