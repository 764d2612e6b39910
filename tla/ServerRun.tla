----------------------------- MODULE ServerRun -----------------------------
(***************************************************************************)
(* The run of the process (run in main.go, Run in internal/app/app.go)     *)
(* around the console's publishes: an interrupt or an error stops the      *)
(* broker, the usage is logged, and then the console is shut down, which   *)
(* waits for the requests it still serves.  The streams among them end     *)
(* only when their viewers leave, so the wait is bounded.                  *)
(*                                                                         *)
(* That the broker returns from Run once its context is cancelled is the   *)
(* socket server's part, which is external.                                *)
(***************************************************************************)
EXTENDS ConsolePublish

CONSTANT Viewers

VARIABLES
    phase,      \* "serving", "interrupted", "closing" (the console) or "ended"
    listening,  \* the console accepts requests
    streams,    \* viewers whose stream is open
    waited      \* the wait of Shutdown has timed out

runVars    == <<phase, listening, streams, waited>>
serverVars == <<vars, runVars>>

ServerInit ==
    /\ Init
    /\ phase = "serving" /\ listening \in BOOLEAN   \* without an address there is no console
    /\ streams = {} /\ waited = FALSE

Running == phase # "ended"

InFlight == {m \in Messages : stage[m] \in {"looked", "judging", "routed"}}

\* The port is taken, or the listener fails: logged, and the broker goes on.
ConsoleFails ==
    /\ Running /\ listening
    /\ listening' = FALSE
    /\ UNCHANGED <<vars, phase, streams, waited>>

OpenStream(v) ==
    /\ Running /\ listening
    /\ streams' = streams \cup {v}
    /\ UNCHANGED <<vars, phase, listening, waited>>

LeaveStream(v) ==
    /\ Running /\ v \in streams
    /\ streams' = streams \ {v}
    /\ UNCHANGED <<vars, phase, listening, waited>>

\* A request that has been accepted goes on while the process runs.
ServePublish(m) ==
    /\ Running
    /\ stage[m] = "new" => listening
    /\ Publish(m)
    /\ UNCHANGED runVars

Interrupt ==
    /\ phase = "serving"
    /\ phase' = "interrupted"
    /\ UNCHANGED <<vars, listening, streams, waited>>

\* The broker has returned: Shutdown closes the console's listener.
Shutdown ==
    /\ phase \in {"serving", "interrupted"}
    /\ phase' = "closing" /\ listening' = FALSE
    /\ UNCHANGED <<vars, streams, waited>>

TimeoutNever == FALSE /\ UNCHANGED serverVars      \* mutated: Shutdown may wait forever

Timeout ==
    /\ phase = "closing" /\ ~waited
    /\ waited' = TRUE
    /\ UNCHANGED <<vars, phase, listening, streams>>

End ==
    /\ phase = "closing"
    /\ waited \/ (streams = {} /\ InFlight = {})
    /\ phase' = "ended"
    /\ UNCHANGED <<vars, listening, streams, waited>>

ServerNext ==
    \/ \E m \in Messages : ServePublish(m)
    \/ \E v \in Viewers : OpenStream(v) \/ LeaveStream(v)
    \/ ConsoleFails \/ Interrupt \/ Shutdown \/ Timeout \/ End
    \/ InterestsChange /\ UNCHANGED runVars

\* A broker that is interrupted stops, the timer fires and Run returns.  Nobody
\* has to leave a stream, and no request has to be answered.
ServerSpec ==
    /\ ServerInit /\ [][ServerNext]_serverVars
    /\ WF_serverVars(phase = "interrupted" /\ Shutdown)
    /\ WF_serverVars(Timeout) /\ WF_serverVars(End)

-----------------------------------------------------------------------------
(* Run's shutdown: once interrupted the process ends, although the viewers  *)
(* of the console keep their streams open and publishes hang in the judge.  *)
ProcessEnds == phase = "interrupted" ~> phase = "ended"
=============================================================================
