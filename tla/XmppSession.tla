----------------------------- MODULE XmppSession -----------------------------
(***************************************************************************)
(* The part of an OnSipXmpp object that the device's connection thread     *)
(* works with: the init state machine (its handlers, the handlers and the  *)
(* shutdown request that wait for its next poll), the last state that was  *)
(* notified, the notifications that have not been fetched, and the XMPP    *)
(* link below with the requests that the server has not answered.  A       *)
(* session is a record; what the thread calls are operators on sessions.   *)
(* A definition marked "Mutation" is no part of the model.                 *)
(***************************************************************************)
EXTENDS InitHandler, Sequences

(* The link: there is none, it is logging in, it is logged in, or gloox     *)
(* knows that it is lost.                                                   *)
Links == {"none", "login", "up", "down"}

Sessions == [stateHandlers   : Seq(InitHandlers),
             handlerRequests : Seq(InitHandlers),
             shutdownQueued  : BOOLEAN,
             lastInitState   : InitStates,
             initEvents      : SUBSET InitStates,
             unanswered      : SUBSET Requests,
             link            : Links]

\* A new OnSipTapi object.
NewSession == [stateHandlers   |-> <<>>,
               handlerRequests |-> <<>>,
               shutdownQueued  |-> FALSE,
               lastInitState   |-> "NotSet",
               initEvents      |-> {},
               unanswered      |-> {},
               link            |-> "none"]

(* Connect up to the call of gloox: ClearEvents, then Start, which empties  *)
(* the list of handlers but neither their queue nor the last state, and     *)
(* replaces the gloox client.                                               *)
Start(s) == [s EXCEPT !.initEvents      = {},
                      !.stateHandlers   = <<>>,
                      !.handlerRequests = Append(@, NewHandler),
                      !.unanswered      = {},
                      !.link            = "none"]

\* OnStateChange, up to OnSipTapi::InitStateChange.
InitStateChange(s, state) ==
    [s EXCEPT !.lastInitState = state, !.initEvents = @ \cup {state}]

FirstOf(S) == CHOOSE i \in S : \A j \in S : i <= j

Gone(hs) == {i \in DOMAIN hs : ~InitStillExists(hs[i])}

(* _checkStateHandlersExist.  It follows every event, and a poll ends no    *)
(* handler, so that there is at most one to remove.  The state of a handler *)
(* that is removed has been notified when it was entered.                   *)
WithoutGone(hs) ==
    LET i == FirstOf(Gone(hs))
    IN  IF Gone(hs) = {} THEN hs
                         ELSE SubSeq(hs, 1, i - 1) \o SubSeq(hs, i + 1, Len(hs))

CheckHandlersExist(s) == [s EXCEPT !.stateHandlers = WithoutGone(@)]

(* SignalEvent: the first handler that knows the event takes it.            *)
SignalInitEvent(s, e) ==
    LET takers == {i \in DOMAIN s.stateHandlers : Accepts(s.stateHandlers[i], e)}
        i == FirstOf(takers)
        h == HandleInitEvent(s.stateHandlers[i], e)
    IN  IF takers = {} THEN s
        ELSE CheckHandlersExist(InitStateChange(
                 [s EXCEPT !.stateHandlers[i] = h,
                           !.unanswered = @ \cup RequestsOf(e)],
                 h.state))

(* The handlers are polled in turn, up to the first whose state changes.    *)
PollHandlers(s) ==
    LET changed == {i \in DOMAIN s.stateHandlers : PollChanges(s.stateHandlers[i])}
        last    == IF changed = {} THEN Len(s.stateHandlers) ELSE FirstOf(changed)
        polled  == [s EXCEPT
                     !.stateHandlers = [i \in DOMAIN @ |->
                         IF i <= last THEN PollInitHandler(@[i]) ELSE @[i]],
                     !.unanswered = @ \cup
                         UNION {RequestsOfPoll(s.stateHandlers[i]) : i \in 1..last}]
    IN  CheckHandlersExist(
            IF changed = {} THEN polled
            ELSE InitStateChange(polled, polled.stateHandlers[last].state))

(* OnSipStateMachineBase::PollStateHandlers: the handlers that wait are     *)
(* added without a notice, the event that waits is signalled, and the       *)
(* handlers are polled.                                                     *)
PollStateHandlers(s) ==
    LET added == [s EXCEPT !.stateHandlers   = @ \o s.handlerRequests,
                           !.handlerRequests = <<>>,
                           !.shutdownQueued  = FALSE]
    IN  PollHandlers(IF s.shutdownQueued THEN SignalInitEvent(added, "shutdown")
                                         ELSE added)

\* Cleanup empties the list of handlers only, and deletes the gloox client.
Cleanup(s) == [s EXCEPT !.stateHandlers = <<>>, !.unanswered = {}, !.link = "none"]

AsyncShutdown(s) == [s EXCEPT !.shutdownQueued = TRUE]

IsShutdownComplete(s) == s.stateHandlers = <<>>

-----------------------------------------------------------------------------
(* gloox's recv.  "closed" is a disconnection that gloox makes itself, when *)
(* the server refuses the login or ends the stream: recv reports no error.  *)
(* "broken" is one that it is told of by the socket.                        *)

Receipts == [what : {"nothing", "login", "closed", "broken"}, error : {FALSE}]
            \cup [what : Requests, error : BOOLEAN]

\* What can arrive.  An answer to a worker's step that is gone is left out.
CanReceive(s, r) ==
    IF r.what \in Requests
    THEN /\ s.link = "up" /\ r.what \in s.unanswered
         /\ r.what = "reauthorize" => \E i \in DOMAIN s.stateHandlers :
                s.stateHandlers[i].worker.step = "authorizing"
         /\ r.what = "resubscribe" => \E i \in DOMAIN s.stateHandlers :
                s.stateHandlers[i].worker.step = "subscribing"
    ELSE CASE r.what = "nothing" -> TRUE
           [] r.what = "login"   -> s.link = "login"
           [] OTHER         -> s.link \in {"login", "up"}

\* The event that the machine is signalled for an answer to its own request.
EventOfAnswer(r) ==
    CASE r.what = "authorize"   -> IF r.error THEN "authorizeError" ELSE "authorized"
      [] r.what = "subscribe"   -> IF r.error THEN "subscribeError" ELSE "subscribed"
      [] OTHER                  -> "unsubscribed"

\* An answer to the worker that waits for it.
AnswerToWorker(s, r) ==
    [s EXCEPT !.stateHandlers = [i \in DOMAIN @ |->
        IF @[i].worker.step # "none" /\ ~@[i].worker.answered
        THEN AnswerWorker(@[i], r.error) ELSE @[i]]]

Receive(s, r) ==
    IF r.what \in Requests
    THEN LET t == [s EXCEPT !.unanswered = @ \ {r.what}]
         IN  IF r.what \in {"reauthorize", "resubscribe"}
             THEN AnswerToWorker(t, r)
             ELSE SignalInitEvent(t, EventOfAnswer(r))
    ELSE CASE r.what = "nothing" -> s
           [] r.what = "login"   -> SignalInitEvent([s EXCEPT !.link = "up"], "connect")
           [] OTHER         -> SignalInitEvent([s EXCEPT !.link = "down"], "disconnect")

\* recv reports an error.
ReceiveFails(s, r) == s.link = "down" \/ r.what = "broken"
=============================================================================
