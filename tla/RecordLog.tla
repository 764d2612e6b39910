----------------------------- MODULE RecordLog -----------------------------
(***************************************************************************)
(* What internal/judge/recorder.go promises of Recent: the newest records, *)
(* at most Size of them, oldest first.  A record is its sequence number.   *)
(***************************************************************************)
EXTENDS Naturals, Sequences

CONSTANT Size

VARIABLES last,    \* the sequence number of the newest record
          window   \* the records that can still be read

logVars == <<last, window>>

LogInit == last = 0 /\ window = <<>>

LogAdd ==
    LET longer == Append(window, last + 1)
    IN  /\ last' = last + 1
        /\ window' = IF Len(longer) <= Size THEN longer ELSE Tail(longer)

LogSpec == LogInit /\ [][LogAdd]_logVars
=============================================================================
