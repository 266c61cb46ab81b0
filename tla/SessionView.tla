----------------------------- MODULE SessionView -----------------------------
(***************************************************************************)
(* What a terminal pane promises its user about one SSH session: the life  *)
(* of a connection attempt as the connectionChanged and passwordRequired   *)
(* signals show it.  Every call that starts, replaces or ends a connection *)
(* opens a new attempt, and an attempt only moves forward: it is tried,    *)
(* succeeds at most once, and when it has failed nothing but a new attempt *)
(* makes the pane "connecting" or "connected" again.  One exception:       *)
(* a call left over from an earlier attempt may overwrite the latest one,  *)
(* which then shows anything until the next.                               *)
(***************************************************************************)
EXTENDS Naturals

VARIABLES
    attempt,   \* number of attempts opened so far
    view       \* what the pane shows for the latest one

vars == <<attempt, view>>

Views == {"off", "connecting", "connected", "failed", "prompt", "overwritten"}

Init == attempt = 0 /\ view = "off"

\* connectTo, connectWithPassword, disconnectFromHost or the idle timer.
NewAttempt ==
    /\ attempt' = attempt + 1
    /\ view' \in {"off", "connecting", "failed", "prompt"}

\* Progress of the latest attempt; prompts are for attempts that are over.
Advance ==
    /\ \/ view = "connecting" /\ view' \in {"connected", "failed", "prompt"}
       \/ view = "connected"  /\ view' = "failed"
       \/ view = "failed"     /\ view' = "prompt"
    /\ UNCHANGED attempt

\* A call of an earlier attempt writes into the latest one.
Overwrite == view' = "overwritten" /\ UNCHANGED attempt

Next == NewAttempt \/ Advance \/ Overwrite

Spec == Init /\ [][Next]_vars
=============================================================================
