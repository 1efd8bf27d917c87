---------------------------- MODULE TapiCallView ----------------------------
(***************************************************************************)
(* What the call state machine promises to TAPI: the life of each call, in *)
(* the call states of TAPI (OnSipTapiCall::GetTapiCallState).  A call      *)
(* appears once, moves forward only, and ends with the one notification    *)
(* that makes it idle and removes it; after that nothing is said of it.    *)
(* Its id is then never used again.                                        *)
(***************************************************************************)
EXTENDS Naturals

CONSTANT CallId             \* the ids of calls

VARIABLE view               \* the last notification for each call so far

\* A call is first seen as ringing here, as dialling out, or as dialled.
FirstStates == {"OFFERING", "DIALTONE", "PROCEEDING"}

LineCallStates == FirstStates \cup {"DIALING", "CONNECTED", "IDLE"}

\* How far a call has come.  The states of one rank exclude each other.
Rank(state) ==
    CASE state \in {"OFFERING", "DIALTONE"} -> 1
      [] state = "DIALING"    -> 2
      [] state = "PROCEEDING" -> 3
      [] state = "CONNECTED"  -> 4
      [] state = "IDLE"       -> 5

Calls == [state : LineCallStates, removed : BOOLEAN]

ViewInit == view = <<>>

\* A call that is new in a step is in a first state and not removed.
Appears(call) == call.state \in FirstStates /\ ~call.removed

\* What a step may do to a call: leave it, move it forward, or end it.
Advances(old, new) ==
    \/ new = old
    \/ /\ ~old.removed
       /\ new.state = old.state \/ Rank(new.state) > Rank(old.state)
       /\ new.removed <=> new.state = "IDLE"

\* One step of the state machine may notify of several calls.
ViewNext ==
    /\ view' \in [DOMAIN view' -> Calls]
    /\ DOMAIN view \subseteq DOMAIN view' /\ DOMAIN view' \subseteq CallId
    /\ \A c \in DOMAIN view : Advances(view[c], view'[c])
    /\ \A c \in DOMAIN view' \ DOMAIN view : Appears(view'[c])

ViewSpec == ViewInit /\ [][ViewNext]_view
=============================================================================
