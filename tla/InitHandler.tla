----------------------------- MODULE InitHandler -----------------------------
(***************************************************************************)
(* The state handler that brings a connection into service and keeps it    *)
(* there (OnSipInitStateHandler), and the worker that renews the           *)
(* authorisation and the subscription while the connection is in use       *)
(* (ReAuthorizeSubscribeWorker).  A handler is a record, its event handler *)
(* and its poll are operators from records to records.  A definition       *)
(* marked "Mutation" is no part of the model: it is a slip that a property *)
(* is shown to catch.                                                      *)
(***************************************************************************)
EXTENDS Naturals, FiniteSets

\* The states that the code assigns; Authorized is declared and never used.
InitStates ==
    {"NotSet", "PreLogin", "LoginError", "Authorizing", "AuthorizedError",
     "EnablingCallEvents", "OK", "EnabledCallError", "Disconnected",
     "ShuttingDown", "ShutDown"}

InitStatesTypes == {"NOTSET", "INPROGRESS", "OK", "FATAL", "DISCONNECTED", "SHUTDOWN"}

\* A connection that is shutting down still counts as in service.
GetInitStatesType(state) ==
    CASE state = "NotSet" -> "NOTSET"
      [] state \in {"PreLogin", "Authorizing", "EnablingCallEvents"} -> "INPROGRESS"
      [] state \in {"LoginError", "AuthorizedError", "EnabledCallError"} -> "FATAL"
      [] state \in {"ShuttingDown", "OK"} -> "OK"
      [] state = "Disconnected" -> "DISCONNECTED"
      [] OTHER -> "SHUTDOWN"

(* What the handler and its worker ask of the server.  An answer is told    *)
(* from the others by its context, or by the handler it was sent for.       *)
Requests == {"authorize", "subscribe", "unsubscribe", "reauthorize", "resubscribe"}

(* The worker: the step it is at, whether the answer to that step has come, *)
(* whether it was an error, whether the worker is older than its limit.     *)
Workers == [step : {"none", "authorizing", "subscribing"},
            answered : BOOLEAN, error : BOOLEAN, expired : BOOLEAN]

NoWorker == [step |-> "none", answered |-> FALSE, error |-> FALSE, expired |-> FALSE]

(* expired: longer in its state than GENERAL_COMMUNICATION_TIMEOUT.         *)
(* authDue: m_authTO.  The state "NotSet" stands for a list without handler.*)
InitHandlers == [state : InitStates, expired : BOOLEAN, authDue : BOOLEAN,
                 worker : Workers]

NoHandler == [state |-> "NotSet", expired |-> FALSE, authDue |-> FALSE,
              worker |-> NoWorker]

NewHandler == [NoHandler EXCEPT !.state = "PreLogin"]

AssignNewState(h, state) == [h EXCEPT !.state = state, !.expired = FALSE]

-----------------------------------------------------------------------------
(* IsYourEvent.                                                             *)

InitEvents == {"connect", "disconnect", "authorized", "authorizeError",
               "subscribed", "subscribeError", "shutdown", "unsubscribed"}

Accepts(h, e) ==
    \/ e \in {"disconnect", "shutdown"} /\ h.state # "NotSet"
    \/ e = "connect" /\ h.state = "PreLogin"
    \/ e \in {"authorized", "authorizeError"} /\ h.state = "Authorizing"
    \/ e \in {"subscribed", "subscribeError"} /\ h.state = "EnablingCallEvents"
    \/ e = "unsubscribed" /\ h.state = "ShuttingDown"

\* What the handler makes of an event that it accepts.
StateAfter(state, e) ==
    CASE e = "disconnect"     -> IF state = "PreLogin" THEN "LoginError"
                                                       ELSE "Disconnected"
      [] e = "connect"        -> "Authorizing"
      [] e = "authorized"     -> "EnablingCallEvents"
      [] e = "authorizeError" -> "AuthorizedError"
      [] e = "subscribed"     -> "OK"
      [] e = "subscribeError" -> "EnabledCallError"
      [] e = "shutdown"       -> "ShuttingDown"
      [] OTHER                -> "ShutDown"

HandleInitEvent(h, e) ==
    [AssignNewState(h, StateAfter(h.state, e)) EXCEPT
        !.authDue = @ /\ e # "subscribed"]

\* What an accepted event makes the handler send.
RequestsOf(e) ==
    CASE e = "connect"    -> {"authorize"}
      [] e = "authorized" -> {"subscribe"}
      [] e = "shutdown"   -> {"unsubscribe"}
      [] OTHER            -> {}

InitStillExists(h) == h.state # "ShutDown"

-----------------------------------------------------------------------------
(* The worker, and _handleReAuthorize, which drives it at each poll.        *)

\* IsComplete: the step that is answered is left, for the next or for good.
WorkerComplete(w) ==
    w.answered /\ (w.error \/ w.step = "subscribing")

WorkerAdvances(w) ==
    IF w.step = "authorizing" /\ w.answered /\ ~w.error
    THEN [w EXCEPT !.step = "subscribing", !.answered = FALSE]
    ELSE w

\* Mutation: an answer to the worker's subscription is waited for for ever.
HandleReAuthorizeUntimed(h) ==
    IF h.worker = NoWorker
    THEN [h EXCEPT !.worker.step = "authorizing"]
    ELSE IF WorkerComplete(h.worker)
    THEN [h EXCEPT !.worker = NoWorker, !.authDue = FALSE]
    ELSE [h EXCEPT !.worker = WorkerAdvances(h.worker)]

(* A renewal in steps: begin, go on, end with or without an error (the next *)
(* one is due later), or give the connection up when it takes too long.     *)
HandleReAuthorize(h) ==
    LET w == WorkerAdvances(h.worker)
    IN  IF h.worker = NoWorker
        THEN [h EXCEPT !.worker.step = "authorizing"]
        ELSE IF WorkerComplete(h.worker)
        THEN [h EXCEPT !.worker = NoWorker, !.authDue = FALSE]
        ELSE IF w.expired
        THEN [AssignNewState(h, "Disconnected") EXCEPT !.worker = NoWorker]
        ELSE [h EXCEPT !.worker = w]

\* Mutation: the last step of the login has no time limit.
TimedInitStatesButLast == {"PreLogin", "Authorizing", "ShuttingDown"}

TimedInitStates == {"PreLogin", "Authorizing", "EnablingCallEvents", "ShuttingDown"}

CheckInitTimeout(h) ==
    IF h.expired /\ h.state \in TimedInitStates
    THEN AssignNewState(h, "Disconnected") ELSE h

\* PollStateHandler.  The keep-alive ping changes nothing.
PollInitHandler(h) ==
    IF h.state = "OK" /\ h.authDue THEN HandleReAuthorize(h) ELSE CheckInitTimeout(h)

\* What the worker sends in a poll: a step's request when it enters the step.
RequestsOfPoll(h) ==
    CASE ~(h.state = "OK" /\ h.authDue)      -> {}
      [] h.worker = NoWorker                 -> {"reauthorize"}
      [] WorkerAdvances(h.worker) # h.worker -> {"resubscribe"}
      [] OTHER                               -> {}

\* PollStateHandler returns true, and the new state is notified.
PollChanges(h) == PollInitHandler(h).state # h.state

\* handleIqID or handleMessage of the worker whose step is answered.
AnswerWorker(h, error) ==
    [h EXCEPT !.worker.answered = TRUE, !.worker.error = error]
=============================================================================
