-------------------------- MODULE XmppSession_proofs --------------------------
(***************************************************************************)
(* What the operators of XmppSession do to a session: they keep its types, *)
(* and outside a shutdown they keep Calm and OkIsReal, which say what the  *)
(* last notified state is worth.                                           *)
(***************************************************************************)
EXTENDS XmppSession, WellFoundedInduction, TLAPS

-----------------------------------------------------------------------------
(* Types.                                                                   *)

LEMMA FirstOfIs ==
    ASSUME NEW S, S \subseteq Nat, S # {}
    PROVE  FirstOf(S) \in S /\ \A j \in S : FirstOf(S) <= j
<1>1. PICK i \in S : \A j \in S : ~(<<j, i>> \in OpToRel(<, Nat))
  BY NatLessThanWellFounded, WFMin
<1>2. \A j \in S : ~(j < i)
  BY <1>1 DEF OpToRel
<1>3. \A j \in S : i <= j
  BY <1>2
<1>. QED
  BY <1>3 DEF FirstOf

LEMMA HandlerTypes ==
    ASSUME NEW h \in InitHandlers
    PROVE  /\ NewHandler \in InitHandlers
           /\ \A state \in InitStates : AssignNewState(h, state) \in InitHandlers
           /\ \A e \in InitEvents : HandleInitEvent(h, e) \in InitHandlers
           /\ PollInitHandler(h) \in InitHandlers
           /\ RequestsOfPoll(h) \subseteq Requests
           /\ \A error \in BOOLEAN : AnswerWorker(h, error) \in InitHandlers
<1>1. NewHandler \in InitHandlers
  BY DEF NewHandler, NoHandler, NoWorker, InitHandlers, InitStates, Workers
<1>2. ASSUME NEW state \in InitStates
      PROVE  AssignNewState(h, state) \in InitHandlers
  BY <1>2 DEF AssignNewState, InitHandlers
<1>3. ASSUME NEW e \in InitEvents
      PROVE  HandleInitEvent(h, e) \in InitHandlers
  <2>1. StateAfter(h.state, e) \in InitStates
    BY DEF StateAfter, InitStates
  <2>. DEFINE a == AssignNewState(h, StateAfter(h.state, e))
  <2>2. a \in InitHandlers
    BY <1>2, <2>1
  <2>. HIDE DEF a
  <2>3. [a EXCEPT !.authDue = @ /\ e # "subscribed"] \in InitHandlers
    BY <2>2 DEF InitHandlers
  <2>. QED
    BY <2>3 DEF HandleInitEvent, a
<1>4. WorkerAdvances(h.worker) \in Workers /\ NoWorker \in Workers
  BY DEF WorkerAdvances, NoWorker, Workers, InitHandlers
<1>5. HandleReAuthorize(h) \in InitHandlers
  <2>1. [h EXCEPT !.worker.step = "authorizing"] \in InitHandlers
    BY DEF InitHandlers, Workers
  <2>2. [h EXCEPT !.worker = NoWorker, !.authDue = FALSE] \in InitHandlers
    BY <1>4 DEF InitHandlers
  <2>3. [AssignNewState(h, "Disconnected") EXCEPT !.worker = NoWorker] \in InitHandlers
    BY <1>4 DEF InitHandlers, AssignNewState, InitStates
  <2>4. [h EXCEPT !.worker = WorkerAdvances(h.worker)] \in InitHandlers
    BY <1>4 DEF InitHandlers
  <2>. QED
    BY <2>1, <2>2, <2>3, <2>4 DEF HandleReAuthorize
<1>6. CheckInitTimeout(h) \in InitHandlers
  BY <1>2 DEF CheckInitTimeout, InitStates
<1>7. PollInitHandler(h) \in InitHandlers
  BY <1>5, <1>6 DEF PollInitHandler
<1>8. RequestsOfPoll(h) \subseteq Requests
  BY DEF RequestsOfPoll, Requests
<1>9. ASSUME NEW error \in BOOLEAN
      PROVE  AnswerWorker(h, error) \in InitHandlers
  BY <1>9 DEF AnswerWorker, InitHandlers, Workers
<1>. QED
  BY <1>1, <1>2, <1>3, <1>7, <1>8, <1>9
-----------------------------------------------------------------------------
(* Outside a shutdown.                                                      *)

\* The states of a handler that has not begun or has been given up, and the
\* states of the one that has taken the login.
Beginning == {"PreLogin", "LoginError", "Disconnected"}
Advanced  == {"Authorizing", "EnablingCallEvents", "OK", "AuthorizedError",
              "EnabledCallError"}

NoneAdvanced(s) ==
    \A i \in DOMAIN s.stateHandlers : s.stateHandlers[i].state \in Beginning

(* At most one handler has taken the login, the first that could.           *)
Calm(s) ==
    /\ ~s.shutdownQueued
    /\ s.lastInitState \notin {"ShuttingDown", "ShutDown"}
    /\ \A i \in DOMAIN s.handlerRequests : s.handlerRequests[i].state = "PreLogin"
    /\ \A i \in DOMAIN s.stateHandlers :
          /\ s.stateHandlers[i].state \in Beginning \cup Advanced
          /\ s.stateHandlers[i].state \in Advanced =>
                \A j \in DOMAIN s.stateHandlers \ {i} :
                    /\ s.stateHandlers[j].state \in Beginning
                    /\ j < i => s.stateHandlers[j].state # "PreLogin"
    /\ s.link \in {"none", "login"} => NoneAdvanced(s)

\* The last notified state is OK only with a link and a handler that is.
OkIsReal(s) ==
    s.lastInitState = "OK" =>
        /\ s.link = "up"
        /\ \E i \in DOMAIN s.stateHandlers : s.stateHandlers[i].state = "OK"

\* The login is over: nothing but its loss can be notified.
Established(s) ==
    /\ s.stateHandlers # <<>> /\ s.stateHandlers[1].state # "PreLogin"
    /\ \A i \in DOMAIN s.stateHandlers :
          s.stateHandlers[i].state \notin {"Authorizing", "EnablingCallEvents"}
    /\ s.link \in {"up", "down"}

-----------------------------------------------------------------------------
(* Types of sessions.                                                       *)

LEMMA SeqIsFunction ==
    ASSUME NEW S, NEW n \in Nat, NEW f \in [1 .. n -> S]
    PROVE  f \in Seq(S) /\ Len(f) = n /\ DOMAIN f = 1 .. n
  OBVIOUS

LEMMA ConcatIs ==
    ASSUME NEW S, NEW a \in Seq(S), NEW b \in Seq(S)
    PROVE  /\ \A i \in DOMAIN a : i \in DOMAIN (a \o b) /\ (a \o b)[i] = a[i]
           /\ \A i \in DOMAIN (a \o b) :
                 \/ i \in DOMAIN a
                 \/ /\ i - Len(a) \in DOMAIN b /\ (a \o b)[i] = b[i - Len(a)]
                    /\ \A j \in DOMAIN a : j < i
<1>1. /\ Len(a) \in Nat /\ Len(b) \in Nat
      /\ DOMAIN a = 1 .. Len(a) /\ DOMAIN b = 1 .. Len(b)
      /\ DOMAIN (a \o b) = 1 .. Len(a) + Len(b)
  OBVIOUS
<1>2. \A i \in 1 .. Len(a) + Len(b) :
          (a \o b)[i] = IF i <= Len(a) THEN a[i] ELSE b[i - Len(a)]
  OBVIOUS
<1>. DEFINE c == a \o b
<1>. HIDE DEF c
<1>3. DOMAIN c = 1 .. Len(a) + Len(b)
      /\ \A i \in 1 .. Len(a) + Len(b) :
            c[i] = IF i <= Len(a) THEN a[i] ELSE b[i - Len(a)]
  BY <1>1, <1>2 DEF c
<1>4. \A i \in DOMAIN a : i \in DOMAIN c /\ c[i] = a[i]
  BY <1>1, <1>3
<1>5. ASSUME NEW i \in DOMAIN c, i \notin DOMAIN a
      PROVE  /\ i - Len(a) \in DOMAIN b /\ c[i] = b[i - Len(a)]
             /\ \A j \in DOMAIN a : j < i
  BY <1>1, <1>3, <1>5
<1>. QED
  BY <1>4, <1>5 DEF c

LEMMA NewSessionType == NewSession \in Sessions
  BY DEF NewSession, Sessions, InitStates, Requests, Links

LEMMA StartType ==
    ASSUME NEW s \in Sessions
    PROVE  Start(s) \in Sessions
<1>1. Append(s.handlerRequests, NewHandler) \in Seq(InitHandlers)
  <2>1. NewHandler \in InitHandlers
    BY DEF NewHandler, NoHandler, NoWorker, InitHandlers, InitStates, Workers
  <2>. QED
    BY <2>1 DEF Sessions
<1>2. <<>> \in Seq(InitHandlers)
  OBVIOUS
<1>. QED
  BY <1>1, <1>2 DEF Start, Sessions, Links

LEMMA InitStateChangeType ==
    ASSUME NEW s \in Sessions, NEW state \in InitStates
    PROVE  InitStateChange(s, state) \in Sessions
  BY DEF InitStateChange, Sessions

LEMMA CheckHandlersExistType ==
    ASSUME NEW s \in Sessions
    PROVE  CheckHandlersExist(s) \in Sessions
<1>. DEFINE hs == s.stateHandlers
            i  == FirstOf(Gone(hs))
<1>1. hs \in Seq(InitHandlers)
  BY DEF Sessions
<1>2. WithoutGone(hs) \in Seq(InitHandlers)
  <2>1. CASE Gone(hs) = {}
    BY <1>1, <2>1 DEF WithoutGone
  <2>2. CASE Gone(hs) # {}
    <3>1. Gone(hs) \subseteq 1 .. Len(hs) /\ Gone(hs) \subseteq Nat
      BY <1>1 DEF Gone
    <3>2. i \in 1 .. Len(hs)
      BY <2>2, <3>1, FirstOfIs
    <3>3. WithoutGone(hs) = SubSeq(hs, 1, i - 1) \o SubSeq(hs, i + 1, Len(hs))
      BY <2>2 DEF WithoutGone
    <3>. HIDE DEF i, hs
    <3>4. SubSeq(hs, 1, i - 1) \in Seq(InitHandlers)
      BY <1>1, <3>2
    <3>5. SubSeq(hs, i + 1, Len(hs)) \in Seq(InitHandlers)
      BY <1>1, <3>2
    <3>. QED
      BY <3>3, <3>4, <3>5
  <2>. QED
    BY <2>1, <2>2
<1>. QED
  BY <1>2 DEF CheckHandlersExist, Sessions

\* The session in which the handler i has taken the event e.
Taken(s, i, e) ==
    LET h == HandleInitEvent(s.stateHandlers[i], e)
    IN  [s EXCEPT !.stateHandlers = [@ EXCEPT ![i] = h],
                  !.unanswered = @ \cup RequestsOf(e),
                  !.lastInitState = h.state,
                  !.initEvents = @ \cup {h.state}]

LEMMA TakenType ==
    ASSUME NEW s \in Sessions, NEW e \in InitEvents, NEW i \in DOMAIN s.stateHandlers
    PROVE  Taken(s, i, e) \in Sessions
<1>. DEFINE hs == s.stateHandlers
            h == HandleInitEvent(hs[i], e)
<1>1. hs \in Seq(InitHandlers) /\ i \in 1 .. Len(hs) /\ Len(hs) \in Nat
  BY DEF Sessions
<1>2. h \in InitHandlers
  <2>1. hs[i] \in InitHandlers
    BY <1>1
  <2>. HIDE DEF hs
  <2>. QED
    BY <2>1, HandlerTypes
<1>3. h.state \in InitStates
  BY <1>2 DEF InitHandlers
<1>4. RequestsOf(e) \subseteq Requests
  BY DEF RequestsOf, Requests
<1>. HIDE DEF h
<1>5. [hs EXCEPT ![i] = h] \in Seq(InitHandlers)
  BY <1>1, <1>2
<1>. QED
  BY <1>3, <1>4, <1>5 DEF Taken, Sessions, h

\* An event is taken by the first handler that accepts it, or by none.
LEMMA Signalled ==
    ASSUME NEW s \in Sessions, NEW e \in InitEvents
    PROVE  \/ /\ \A i \in DOMAIN s.stateHandlers : ~Accepts(s.stateHandlers[i], e)
              /\ SignalInitEvent(s, e) = s
           \/ \E i \in DOMAIN s.stateHandlers :
                 /\ Accepts(s.stateHandlers[i], e)
                 /\ \A j \in 1 .. i - 1 : ~Accepts(s.stateHandlers[j], e)
                 /\ SignalInitEvent(s, e) = CheckHandlersExist(Taken(s, i, e))
<1>. DEFINE takers == {i \in DOMAIN s.stateHandlers : Accepts(s.stateHandlers[i], e)}
            i == FirstOf(takers)
            h == HandleInitEvent(s.stateHandlers[i], e)
<1>1. s.stateHandlers \in Seq(InitHandlers)
  BY DEF Sessions
<1>2. CASE takers = {}
  <2>1. SignalInitEvent(s, e) = s
    BY <1>2 DEF SignalInitEvent
  <2>. QED
    BY <1>2, <2>1
<1>3. CASE takers # {}
  <2>1. takers \subseteq Nat
    BY <1>1
  <2>2. i \in takers /\ \A j \in takers : i <= j
    BY <1>3, <2>1, FirstOfIs
  <2>3. i \in DOMAIN s.stateHandlers /\ Accepts(s.stateHandlers[i], e)
    BY <2>2
  <2>4. \A j \in 1 .. i - 1 : ~Accepts(s.stateHandlers[j], e)
    <3>. SUFFICES ASSUME NEW j \in 1 .. i - 1, Accepts(s.stateHandlers[j], e)
                  PROVE  FALSE
      OBVIOUS
    <3>1. j \in DOMAIN s.stateHandlers /\ j < i
      BY <1>1, <2>3
    <3>2. j \in takers
      BY <3>1
    <3>3. i <= j
      BY <2>2, <3>2
    <3>4. i \in Nat /\ j \in Nat
      BY <2>1, <2>2, <3>2
    <3>. HIDE DEF i
    <3>. QED
      BY <3>1, <3>3, <3>4
  <2>5. SignalInitEvent(s, e) = CheckHandlersExist(InitStateChange(
                 [s EXCEPT !.stateHandlers[i] = h,
                           !.unanswered = @ \cup RequestsOf(e)],
                 h.state))
    BY <1>3 DEF SignalInitEvent
  <2>6. InitStateChange([s EXCEPT !.stateHandlers[i] = h,
                                  !.unanswered = @ \cup RequestsOf(e)], h.state)
        = Taken(s, i, e)
    <3>. HIDE DEF h
    <3>1. InitStateChange([s EXCEPT !.stateHandlers[i] = h,
                                    !.unanswered = @ \cup RequestsOf(e)], h.state)
          = [s EXCEPT !.stateHandlers = [@ EXCEPT ![i] = h],
                      !.unanswered = @ \cup RequestsOf(e),
                      !.lastInitState = h.state,
                      !.initEvents = @ \cup {h.state}]
      BY DEF InitStateChange, Sessions
    <3>. QED
      BY <3>1 DEF Taken, h
  <2>. HIDE DEF i
  <2>. QED
    BY <2>3, <2>4, <2>5, <2>6
<1>. QED
  BY <1>2, <1>3

LEMMA SignalInitEventType ==
    ASSUME NEW s \in Sessions, NEW e \in InitEvents
    PROVE  SignalInitEvent(s, e) \in Sessions
  BY Signalled, TakenType, CheckHandlersExistType

(* A poll, up to the check of the handlers: no handler changes its state,   *)
(* or one that is given up does, and its state is notified.                 *)
PolledTo(s, t) ==
    /\ t \in Sessions
    /\ DOMAIN t.stateHandlers = DOMAIN s.stateHandlers
    /\ t.handlerRequests = s.handlerRequests /\ t.shutdownQueued = s.shutdownQueued
    /\ t.link = s.link
    /\ \/ /\ t.lastInitState = s.lastInitState /\ t.initEvents = s.initEvents
          /\ \A i \in DOMAIN s.stateHandlers :
                t.stateHandlers[i].state = s.stateHandlers[i].state
       \/ \E i \in DOMAIN s.stateHandlers :
             /\ t.stateHandlers[i].state = "Disconnected"
             /\ t.lastInitState = "Disconnected"
             /\ t.initEvents = s.initEvents \cup {"Disconnected"}
             /\ \A j \in DOMAIN s.stateHandlers \ {i} :
                   t.stateHandlers[j].state = s.stateHandlers[j].state

LEMMA PollInitHandlerIs ==
    ASSUME NEW h \in InitHandlers
    PROVE  PollInitHandler(h).state \in {h.state, "Disconnected"}
<1>1. HandleReAuthorize(h).state \in {h.state, "Disconnected"}
  <2>1. [h EXCEPT !.worker.step = "authorizing"].state = h.state
    BY DEF InitHandlers
  <2>2. [h EXCEPT !.worker = NoWorker, !.authDue = FALSE].state = h.state
    BY DEF InitHandlers
  <2>3. [AssignNewState(h, "Disconnected") EXCEPT !.worker = NoWorker].state = "Disconnected"
    BY DEF InitHandlers, AssignNewState
  <2>4. [h EXCEPT !.worker = WorkerAdvances(h.worker)].state = h.state
    BY DEF InitHandlers
  <2>. QED
    BY <2>1, <2>2, <2>3, <2>4 DEF HandleReAuthorize
<1>2. CheckInitTimeout(h).state \in {h.state, "Disconnected"}
  BY DEF CheckInitTimeout, AssignNewState, InitHandlers
<1>. QED
  BY <1>1, <1>2 DEF PollInitHandler

LEMMA PollHandlersIs ==
    ASSUME NEW s \in Sessions
    PROVE  \E t : PolledTo(s, t) /\ PollHandlers(s) = CheckHandlersExist(t)
<1>. DEFINE hs      == s.stateHandlers
            changed == {i \in DOMAIN hs : PollChanges(hs[i])}
            last    == IF changed = {} THEN Len(hs) ELSE FirstOf(changed)
            new     == [i \in DOMAIN hs |->
                           IF i <= last THEN PollInitHandler(hs[i]) ELSE hs[i]]
            asked   == UNION {RequestsOfPoll(hs[i]) : i \in 1 .. last}
            polled  == [s EXCEPT !.stateHandlers = new, !.unanswered = @ \cup asked]
<1>1. hs \in Seq(InitHandlers) /\ Len(hs) \in Nat /\ DOMAIN hs = 1 .. Len(hs)
  BY DEF Sessions
<1>2. \A i \in DOMAIN hs : hs[i] \in InitHandlers
  BY <1>1
<1>3. last \in 0 .. Len(hs) /\ (changed # {} => last \in changed)
      /\ \A i \in changed : last <= i
  <2>1. changed \subseteq Nat /\ changed \subseteq 1 .. Len(hs)
    BY <1>1
  <2>. HIDE DEF changed
  <2>2. CASE changed = {}
    BY <1>1, <2>2
  <2>3. CASE changed # {}
    <3>1. FirstOf(changed) \in changed /\ \A i \in changed : FirstOf(changed) <= i
      BY <2>1, <2>3, FirstOfIs
    <3>2. last = FirstOf(changed)
      BY <2>3
    <3>3. last \in changed /\ \A i \in changed : last <= i
      BY <3>1, <3>2
    <3>. HIDE DEF last, hs
    <3>. QED
      BY <2>1, <3>3
  <2>. QED
    BY <2>2, <2>3
<1>4. new \in Seq(InitHandlers) /\ DOMAIN new = DOMAIN hs
  <2>. HIDE DEF last, hs
  <2>1. \A i \in DOMAIN hs : PollInitHandler(hs[i]) \in InitHandlers
    BY <1>2, HandlerTypes
  <2>2. new \in [1 .. Len(hs) -> InitHandlers]
    BY <1>1, <1>2, <2>1
  <2>. HIDE DEF new
  <2>. QED
    BY <1>1, <2>2, SeqIsFunction
<1>5. asked \subseteq Requests
  <2>1. \A i \in 1 .. last : RequestsOfPoll(hs[i]) \subseteq Requests
    <3>. HIDE DEF last, hs
    <3>. QED
      BY <1>1, <1>2, <1>3, HandlerTypes
  <2>. QED
    BY <2>1
<1>6. polled \in Sessions
  <2>. HIDE DEF new, asked
  <2>. QED
    BY <1>4, <1>5 DEF Sessions
<1>7. \A i \in DOMAIN hs : i \notin changed => new[i].state = hs[i].state
  BY DEF PollChanges
<1>8. \A i \in DOMAIN hs : i # last => new[i].state = hs[i].state
  <2>. SUFFICES ASSUME NEW i \in DOMAIN hs, i # last, i \in changed
                PROVE  new[i].state = hs[i].state
    BY <1>7
  <2>1. ~(i <= last)
    <3>1. last <= i /\ i \in Nat /\ last \in Nat
      BY <1>1, <1>3
    <3>. HIDE DEF last
    <3>. QED
      BY <3>1
  <2>. HIDE DEF last
  <2>. QED
    BY <2>1
<1>9. PollHandlers(s) = CheckHandlersExist(
          IF changed = {} THEN polled
          ELSE InitStateChange(polled, polled.stateHandlers[last].state))
  BY DEF PollHandlers
<1>10. polled.stateHandlers = new /\ polled.handlerRequests = s.handlerRequests
       /\ polled.shutdownQueued = s.shutdownQueued /\ polled.link = s.link
       /\ polled.lastInitState = s.lastInitState /\ polled.initEvents = s.initEvents
  <2>. HIDE DEF new, asked
  <2>. QED
    BY DEF Sessions
<1>. HIDE DEF polled, new, asked
<1>11. CASE changed = {}
  <2>1. PolledTo(s, polled)
    BY <1>4, <1>6, <1>7, <1>10, <1>11 DEF PolledTo
  <2>. QED
    BY <1>9, <1>11, <2>1
<1>12. CASE changed # {}
  <2>1. last \in changed /\ last \in DOMAIN hs
    BY <1>3, <1>12
  <2>2. new[last].state = "Disconnected"
    <3>1. new[last] = PollInitHandler(hs[last])
      <4>1. last \in DOMAIN hs /\ last <= last
        <5>. HIDE DEF hs, last
        <5>. QED
          BY <1>1, <2>1
      <4>. HIDE DEF hs, last
      <4>. QED
        BY <4>1 DEF new
    <3>2. PollInitHandler(hs[last]).state # hs[last].state
      <4>. HIDE DEF hs, last
      <4>1. PollChanges(hs[last])
        BY <2>1
      <4>. HIDE DEF changed
      <4>. QED
        BY <4>1 DEF PollChanges
    <3>3. PollInitHandler(hs[last]).state \in {hs[last].state, "Disconnected"}
      <4>1. hs[last] \in InitHandlers
        BY <1>2, <2>1
      <4>. HIDE DEF hs, last
      <4>. QED
        BY <4>1, PollInitHandlerIs
    <3>. QED
      BY <3>1, <3>2, <3>3
  <2>. DEFINE t == InitStateChange(polled, "Disconnected")
  <2>3. t \in Sessions /\ t.stateHandlers = new
        /\ t.handlerRequests = s.handlerRequests /\ t.shutdownQueued = s.shutdownQueued
        /\ t.link = s.link /\ t.lastInitState = "Disconnected"
        /\ t.initEvents = s.initEvents \cup {"Disconnected"}
    <3>1. t \in Sessions
      BY <1>6, InitStateChangeType DEF InitStates
    <3>. QED
      BY <1>6, <1>10, <3>1 DEF InitStateChange, Sessions
  <2>. HIDE DEF t
  <2>4. PolledTo(s, t)
    <3>1. \A j \in DOMAIN hs \ {last} : new[j].state = hs[j].state
      BY <1>8
    <3>. HIDE DEF last
    <3>. QED
      BY <1>4, <2>1, <2>2, <2>3, <3>1 DEF PolledTo
  <2>5. PollHandlers(s) = CheckHandlersExist(t)
    BY <1>9, <1>10, <1>12, <2>2 DEF t
  <2>. QED
    BY <2>4, <2>5
<1>. QED
  BY <1>11, <1>12

\* What PollStateHandlers adds before it signals and polls.
Added(s) ==
    [s EXCEPT !.stateHandlers   = @ \o s.handlerRequests,
              !.handlerRequests = <<>>,
              !.shutdownQueued  = FALSE]

LEMMA AddedType ==
    ASSUME NEW s \in Sessions
    PROVE  Added(s) \in Sessions
<1>1. s.stateHandlers \o s.handlerRequests \in Seq(InitHandlers)
  BY DEF Sessions
<1>2. <<>> \in Seq(InitHandlers)
  OBVIOUS
<1>. QED
  BY <1>1, <1>2 DEF Added, Sessions

LEMMA PollStateHandlersType ==
    ASSUME NEW s \in Sessions
    PROVE  PollStateHandlers(s) \in Sessions
<1>. DEFINE t == IF s.shutdownQueued THEN SignalInitEvent(Added(s), "shutdown")
                                     ELSE Added(s)
<1>1. t \in Sessions
  BY AddedType, SignalInitEventType DEF InitEvents
<1>2. PollStateHandlers(s) = PollHandlers(t)
  BY DEF PollStateHandlers, Added
<1>. HIDE DEF t
<1>. QED
  BY <1>1, <1>2, PollHandlersIs, CheckHandlersExistType DEF PolledTo

LEMMA AnswerToWorkerIs ==
    ASSUME NEW s \in Sessions, NEW r, r.error \in BOOLEAN
    PROVE  /\ AnswerToWorker(s, r) \in Sessions
           /\ DOMAIN AnswerToWorker(s, r).stateHandlers = DOMAIN s.stateHandlers
           /\ \A i \in DOMAIN s.stateHandlers :
                 AnswerToWorker(s, r).stateHandlers[i].state = s.stateHandlers[i].state
           /\ AnswerToWorker(s, r) =
                 [s EXCEPT !.stateHandlers = AnswerToWorker(s, r).stateHandlers]
<1>. DEFINE hs  == s.stateHandlers
            new == [i \in DOMAIN hs |->
                       IF hs[i].worker.step # "none" /\ ~hs[i].worker.answered
                       THEN AnswerWorker(hs[i], r.error) ELSE hs[i]]
<1>1. hs \in Seq(InitHandlers) /\ Len(hs) \in Nat /\ DOMAIN hs = 1 .. Len(hs)
  BY DEF Sessions
<1>2. \A i \in DOMAIN hs : hs[i] \in InitHandlers
  BY <1>1
<1>3. \A i \in DOMAIN hs : /\ AnswerWorker(hs[i], r.error) \in InitHandlers
                          /\ AnswerWorker(hs[i], r.error).state = hs[i].state
  <2>. HIDE DEF hs
  <2>1. \A i \in DOMAIN hs : AnswerWorker(hs[i], r.error) \in InitHandlers
    BY <1>2, HandlerTypes
  <2>2. \A i \in DOMAIN hs : AnswerWorker(hs[i], r.error).state = hs[i].state
    BY <1>2 DEF AnswerWorker, InitHandlers
  <2>. QED
    BY <2>1, <2>2
<1>4. new \in Seq(InitHandlers) /\ DOMAIN new = DOMAIN hs
  <2>. HIDE DEF hs
  <2>1. new \in [1 .. Len(hs) -> InitHandlers]
    BY <1>1, <1>2, <1>3
  <2>. HIDE DEF new
  <2>. QED
    BY <1>1, <2>1, SeqIsFunction
<1>5. \A i \in DOMAIN hs : new[i].state = hs[i].state
  BY <1>3
<1>6. AnswerToWorker(s, r) = [s EXCEPT !.stateHandlers = new]
  BY DEF AnswerToWorker
<1>. HIDE DEF new
<1>. QED
  BY <1>4, <1>5, <1>6 DEF Sessions

\* What a message or the lack of one makes of the session.
LEMMA ReceiveType ==
    ASSUME NEW s \in Sessions, NEW r \in Receipts
    PROVE  Receive(s, r) \in Sessions
<1>1. r.error \in BOOLEAN
  BY DEF Receipts
<1>2. CASE r.what \in Requests
  <2>. DEFINE t == [s EXCEPT !.unanswered = @ \ {r.what}]
  <2>1. t \in Sessions
    BY DEF Sessions
  <2>2. Receive(s, r) = IF r.what \in {"reauthorize", "resubscribe"}
                        THEN AnswerToWorker(t, r)
                        ELSE SignalInitEvent(t, EventOfAnswer(r))
    BY <1>2 DEF Receive
  <2>3. EventOfAnswer(r) \in InitEvents
    BY DEF EventOfAnswer, InitEvents
  <2>. HIDE DEF t
  <2>. QED
    BY <1>1, <2>1, <2>2, <2>3, AnswerToWorkerIs, SignalInitEventType
<1>3. CASE r.what \notin Requests
  <2>1. [s EXCEPT !.link = "up"] \in Sessions /\ [s EXCEPT !.link = "down"] \in Sessions
    BY DEF Sessions, Links
  <2>2. "connect" \in InitEvents /\ "disconnect" \in InitEvents
    BY DEF InitEvents
  <2>3. \/ Receive(s, r) = s
        \/ Receive(s, r) = SignalInitEvent([s EXCEPT !.link = "up"], "connect")
        \/ Receive(s, r) = SignalInitEvent([s EXCEPT !.link = "down"], "disconnect")
    BY <1>3 DEF Receive
  <2>. QED
    BY <2>1, <2>2, <2>3, SignalInitEventType
<1>. QED
  BY <1>2, <1>3

\* A clock of a handler changes nothing but that handler, and not its state.
LEMMA ClockType ==
    ASSUME NEW s \in Sessions, NEW i \in DOMAIN s.stateHandlers,
           NEW h \in InitHandlers
    PROVE  [s EXCEPT !.stateHandlers = [@ EXCEPT ![i] = h]] \in Sessions
<1>1. s.stateHandlers \in Seq(InitHandlers) /\ i \in DOMAIN s.stateHandlers
  BY DEF Sessions
<1>2. [s.stateHandlers EXCEPT ![i] = h] \in Seq(InitHandlers)
  BY <1>1
<1>. QED
  BY <1>2 DEF Sessions

-----------------------------------------------------------------------------
(* What keeps Calm and OkIsReal.                                            *)

\* Without a shutdown no handler is gone.
LEMMA NoneGone ==
    ASSUME NEW s \in Sessions,
           \A i \in DOMAIN s.stateHandlers :
               s.stateHandlers[i].state \in Beginning \cup Advanced
    PROVE  CheckHandlersExist(s) = s
<1>1. Gone(s.stateHandlers) = {}
  BY DEF Gone, InitStillExists, Beginning, Advanced
<1>2. WithoutGone(s.stateHandlers) = s.stateHandlers
  BY <1>1 DEF WithoutGone
<1>. QED
  BY <1>2 DEF CheckHandlersExist, Sessions

\* The handlers that a poll adds come last and have not begun.
LEMMA AddedIs ==
    ASSUME NEW s \in Sessions, Calm(s)
    PROVE  LET a == Added(s) IN
           /\ a \in Sessions /\ PollStateHandlers(s) = PollHandlers(a)
           /\ a.handlerRequests = <<>> /\ ~a.shutdownQueued
           /\ a.lastInitState = s.lastInitState /\ a.initEvents = s.initEvents
           /\ a.link = s.link
           /\ \A i \in DOMAIN s.stateHandlers : /\ i \in DOMAIN a.stateHandlers
                                             /\ a.stateHandlers[i] = s.stateHandlers[i]
           /\ \A i \in DOMAIN a.stateHandlers :
                 \/ i \in DOMAIN s.stateHandlers
                 \/ /\ a.stateHandlers[i].state = "PreLogin"
                    /\ \A j \in DOMAIN s.stateHandlers : j < i
<1>. DEFINE a == Added(s)
<1>1. a \in Sessions
  BY AddedType
<1>2. PollStateHandlers(s) = PollHandlers(a)
  BY DEF PollStateHandlers, Added, Calm
<1>3. /\ a.stateHandlers = s.stateHandlers \o s.handlerRequests
      /\ a.handlerRequests = <<>> /\ ~a.shutdownQueued
      /\ a.lastInitState = s.lastInitState /\ a.initEvents = s.initEvents
      /\ a.link = s.link
  BY DEF Added, Sessions
<1>4. s.stateHandlers \in Seq(InitHandlers) /\ s.handlerRequests \in Seq(InitHandlers)
      /\ a.stateHandlers \in Seq(InitHandlers)
  BY <1>1 DEF Sessions
<1>. HIDE DEF a
<1>5. /\ \A i \in DOMAIN s.stateHandlers : /\ i \in DOMAIN a.stateHandlers
                                         /\ a.stateHandlers[i] = s.stateHandlers[i]
      /\ \A i \in DOMAIN a.stateHandlers :
            \/ i \in DOMAIN s.stateHandlers
            \/ /\ a.stateHandlers[i].state = "PreLogin"
               /\ \A j \in DOMAIN s.stateHandlers : j < i
  <2>1. /\ \A i \in DOMAIN s.stateHandlers : /\ i \in DOMAIN a.stateHandlers
                                          /\ a.stateHandlers[i] = s.stateHandlers[i]
        /\ \A i \in DOMAIN a.stateHandlers :
              \/ i \in DOMAIN s.stateHandlers
              \/ \E j \in DOMAIN s.handlerRequests :
                    /\ a.stateHandlers[i] = s.handlerRequests[j]
                    /\ \A k \in DOMAIN s.stateHandlers : k < i
    <3>. DEFINE b == s.stateHandlers
                c == s.handlerRequests
    <3>1. b \in Seq(InitHandlers) /\ c \in Seq(InitHandlers) /\ a.stateHandlers = b \o c
      BY <1>3, <1>4
    <3>. HIDE DEF b, c
    <3>2. /\ \A i \in DOMAIN b : i \in DOMAIN (b \o c) /\ (b \o c)[i] = b[i]
          /\ \A i \in DOMAIN (b \o c) :
                \/ i \in DOMAIN b
                \/ /\ i - Len(b) \in DOMAIN c /\ (b \o c)[i] = c[i - Len(b)]
                   /\ \A j \in DOMAIN b : j < i
      BY <3>1, ConcatIs, Zenon
    <3>. DEFINE d == b \o c
    <3>3. d = a.stateHandlers
      BY <3>1
    <3>. HIDE DEF d
    <3>4. /\ \A i \in DOMAIN b : i \in DOMAIN d /\ d[i] = b[i]
          /\ \A i \in DOMAIN d :
                \/ i \in DOMAIN b
                \/ \E j \in DOMAIN c : d[i] = c[j] /\ \A k \in DOMAIN b : k < i
      BY <3>2, Zenon DEF d
    <3>. QED
      BY <3>3, <3>4 DEF b, c
  <2>. QED
    BY <2>1 DEF Calm
<1>. QED
  BY <1>1, <1>2, <1>3, <1>5 DEF a

LEMMA AddedKeepsCalm ==
    ASSUME NEW s \in Sessions, Calm(s)
    PROVE  LET a == Added(s) IN
           Calm(a) /\ (OkIsReal(s) => OkIsReal(a)) /\ (NoneAdvanced(s) => NoneAdvanced(a))
<1>. DEFINE a == Added(s)
<1>3. /\ a.handlerRequests = <<>> /\ ~a.shutdownQueued
      /\ a.lastInitState = s.lastInitState /\ a.link = s.link
  BY AddedIs
<1>4. a.stateHandlers \in Seq(InitHandlers)
  BY AddedIs DEF Sessions
<1>5. /\ \A i \in DOMAIN s.stateHandlers : /\ i \in DOMAIN a.stateHandlers
                                        /\ a.stateHandlers[i] = s.stateHandlers[i]
      /\ \A i \in DOMAIN a.stateHandlers :
            \/ i \in DOMAIN s.stateHandlers
            \/ /\ a.stateHandlers[i].state = "PreLogin"
               /\ \A j \in DOMAIN s.stateHandlers : j < i
  BY AddedIs
<1>. HIDE DEF a
<1>6. Calm(a) /\ (OkIsReal(s) => OkIsReal(a)) /\ (NoneAdvanced(s) => NoneAdvanced(a))
  <2>1. NoneAdvanced(s) => NoneAdvanced(a)
    BY <1>5 DEF NoneAdvanced, Beginning
  <2>2. OkIsReal(s) => OkIsReal(a)
    BY <1>3, <1>5 DEF OkIsReal
  <2>3. ASSUME NEW i \in DOMAIN a.stateHandlers
        PROVE  a.stateHandlers[i].state \in Beginning \cup Advanced
    BY <1>5 DEF Calm, Beginning
  <2>4. ASSUME NEW i \in DOMAIN a.stateHandlers, a.stateHandlers[i].state \in Advanced,
               NEW j \in DOMAIN a.stateHandlers \ {i}
        PROVE  /\ a.stateHandlers[j].state \in Beginning
               /\ j < i => a.stateHandlers[j].state # "PreLogin"
    <3>1. i \in DOMAIN s.stateHandlers
      BY <1>5, <2>4 DEF Advanced
    <3>2. CASE j \in DOMAIN s.stateHandlers
      BY <1>5, <2>4, <3>1, <3>2 DEF Calm
    <3>3. CASE j \notin DOMAIN s.stateHandlers
      <4>1. a.stateHandlers[j].state = "PreLogin" /\ i < j
        BY <1>5, <3>1, <3>3
      <4>2. i \in Nat /\ j \in Nat
        BY <1>4
      <4>. QED
        BY <4>1, <4>2 DEF Beginning
    <3>. QED
      BY <3>2, <3>3
  <2>5. \A i \in DOMAIN a.handlerRequests : FALSE
    BY <1>3
  <2>6. a.link \in {"none", "login"} => NoneAdvanced(a)
    BY <1>3, <2>1 DEF Calm
  <2>7. Calm(a)
    BY <1>3, <2>3, <2>4, <2>5, <2>6 DEF Calm
  <2>. QED
    BY <2>1, <2>2, <2>7
<1>. QED
  BY <1>6 DEF a

\* The steps of a poll, to which the check of the handlers adds nothing.
LEMMA PollIs ==
    ASSUME NEW s \in Sessions, Calm(s)
    PROVE  LET a == Added(s)
               t == PollStateHandlers(s)
           IN  /\ PolledTo(a, t) /\ Calm(t)
               /\ OkIsReal(a) => OkIsReal(t)
               /\ NoneAdvanced(a) => NoneAdvanced(t)
<1>. DEFINE a == Added(s)
<1>1. a \in Sessions /\ PollStateHandlers(s) = PollHandlers(a)
  BY AddedIs
<1>6. Calm(a)
  BY AddedKeepsCalm
<1>. HIDE DEF a
<1>7. PICK t : PolledTo(a, t) /\ PollHandlers(a) = CheckHandlersExist(t)
  BY <1>1, PollHandlersIs
<1>8. \A i \in DOMAIN a.stateHandlers :
          \/ t.stateHandlers[i].state = a.stateHandlers[i].state
          \/ t.stateHandlers[i].state = "Disconnected"
  BY <1>7 DEF PolledTo
<1>9. Calm(t) /\ (NoneAdvanced(a) => NoneAdvanced(t))
  <2>1. NoneAdvanced(a) => NoneAdvanced(t)
    BY <1>7, <1>8 DEF NoneAdvanced, Beginning, PolledTo
  <2>2. t.lastInitState \in {a.lastInitState, "Disconnected"}
    BY <1>7 DEF PolledTo
  <2>3. ASSUME NEW i \in DOMAIN t.stateHandlers
        PROVE  t.stateHandlers[i].state \in Beginning \cup Advanced
    BY <1>6, <1>7, <1>8 DEF Calm, Beginning, PolledTo
  <2>4. ASSUME NEW i \in DOMAIN t.stateHandlers, t.stateHandlers[i].state \in Advanced,
               NEW j \in DOMAIN t.stateHandlers \ {i}
        PROVE  /\ t.stateHandlers[j].state \in Beginning
               /\ j < i => t.stateHandlers[j].state # "PreLogin"
    <3>1. i \in DOMAIN a.stateHandlers /\ j \in DOMAIN a.stateHandlers \ {i}
      BY <1>7 DEF PolledTo
    <3>2. a.stateHandlers[i].state \in Advanced
      BY <1>8, <2>4, <3>1 DEF Advanced
    <3>3. /\ a.stateHandlers[j].state \in Beginning
          /\ j < i => a.stateHandlers[j].state # "PreLogin"
      BY <1>6, <3>1, <3>2 DEF Calm
    <3>. QED
      BY <1>8, <3>1, <3>3 DEF Beginning
  <2>. QED
    BY <1>6, <1>7, <2>1, <2>2, <2>3, <2>4 DEF Calm, PolledTo
<1>10. OkIsReal(a) => OkIsReal(t)
  BY <1>7 DEF OkIsReal, PolledTo
<1>11. CheckHandlersExist(t) = t
  BY <1>7, <1>9, NoneGone DEF Calm, PolledTo
<1>. QED
  BY <1>1, <1>7, <1>9, <1>10, <1>11 DEF a

LEMMA PollKeepsCalm ==
    ASSUME NEW s \in Sessions, Calm(s)
    PROVE  LET t == PollStateHandlers(s) IN
           /\ Calm(t) /\ (OkIsReal(s) => OkIsReal(t))
           /\ t.link = s.link
           /\ NoneAdvanced(s) => NoneAdvanced(t)
<1>1. Added(s).link = s.link
  BY AddedIs
<1>2. PollStateHandlers(s).link = Added(s).link
  BY PollIs DEF PolledTo
<1>. QED
  BY <1>1, <1>2, AddedKeepsCalm, PollIs

\* What a handler becomes that takes an event.
LEMMA HandleInitEventIs ==
    ASSUME NEW h \in InitHandlers, NEW e \in InitEvents
    PROVE  HandleInitEvent(h, e).state = StateAfter(h.state, e)
<1>. DEFINE a == AssignNewState(h, StateAfter(h.state, e))
<1>1. a.state = StateAfter(h.state, e) /\ a = [h EXCEPT !.state = StateAfter(h.state, e),
                                                       !.expired = FALSE]
  BY DEF AssignNewState, InitHandlers
<1>2. [a EXCEPT !.authDue = @ /\ e # "subscribed"].state = a.state
  BY DEF AssignNewState, InitHandlers
<1>. QED
  BY <1>1, <1>2 DEF HandleInitEvent

LEMMA TakenIs ==
    ASSUME NEW s \in Sessions, NEW e \in InitEvents, NEW i \in DOMAIN s.stateHandlers
    PROVE  LET t == Taken(s, i, e) IN
           /\ DOMAIN t.stateHandlers = DOMAIN s.stateHandlers
           /\ t.stateHandlers[i].state = StateAfter(s.stateHandlers[i].state, e)
           /\ \A j \in DOMAIN s.stateHandlers \ {i} :
                 t.stateHandlers[j] = s.stateHandlers[j]
           /\ t.lastInitState = StateAfter(s.stateHandlers[i].state, e)
           /\ t.initEvents = s.initEvents \cup {t.lastInitState}
           /\ t.handlerRequests = s.handlerRequests
           /\ t.shutdownQueued = s.shutdownQueued /\ t.link = s.link
<1>. DEFINE hs == s.stateHandlers
            h == HandleInitEvent(hs[i], e)
<1>1. hs \in Seq(InitHandlers) /\ i \in DOMAIN hs /\ hs[i] \in InitHandlers
  BY DEF Sessions
<1>2. h.state = StateAfter(hs[i].state, e)
  BY <1>1, HandleInitEventIs
<1>. HIDE DEF h
<1>3. /\ Taken(s, i, e).stateHandlers = [hs EXCEPT ![i] = h]
      /\ Taken(s, i, e).lastInitState = h.state
      /\ Taken(s, i, e).initEvents = s.initEvents \cup {h.state}
      /\ Taken(s, i, e).handlerRequests = s.handlerRequests
      /\ Taken(s, i, e).shutdownQueued = s.shutdownQueued
      /\ Taken(s, i, e).link = s.link
  BY DEF Taken, Sessions, h
<1>4. /\ DOMAIN [hs EXCEPT ![i] = h] = DOMAIN hs
      /\ [hs EXCEPT ![i] = h][i] = h
      /\ \A j \in DOMAIN hs \ {i} : [hs EXCEPT ![i] = h][j] = hs[j]
  BY <1>1
<1>. QED
  BY <1>2, <1>3, <1>4

LEMMA SignalKeepsCalm ==
    ASSUME NEW s \in Sessions, Calm(s), NEW e \in InitEvents, e # "shutdown",
           e = "connect" => s.link = "up" /\ NoneAdvanced(s),
           e = "subscribed" => s.link = "up"
    PROVE  LET t == SignalInitEvent(s, e) IN
           /\ Calm(t)
           /\ OkIsReal(s) => OkIsReal(t)
           /\ t.link = s.link
           /\ e = "disconnect" => \/ s.stateHandlers = <<>> /\ t = s
                                  \/ t.lastInitState # "OK"
<1>1. s.stateHandlers \in Seq(InitHandlers)
  BY DEF Sessions
<1>2. CASE /\ \A i \in DOMAIN s.stateHandlers : ~Accepts(s.stateHandlers[i], e)
           /\ SignalInitEvent(s, e) = s
  <2>1. ASSUME e = "disconnect", s.stateHandlers # <<>> PROVE FALSE
    <3>1. 1 \in DOMAIN s.stateHandlers
      BY <1>1, <2>1
    <3>2. s.stateHandlers[1].state # "NotSet"
      BY <3>1 DEF Calm, Beginning, Advanced
    <3>. QED
      BY <1>2, <2>1, <3>1, <3>2 DEF Accepts
  <2>. QED
    BY <1>2, <2>1
<1>3. ASSUME NEW i \in DOMAIN s.stateHandlers,
             Accepts(s.stateHandlers[i], e),
             \A j \in 1 .. i - 1 : ~Accepts(s.stateHandlers[j], e),
             SignalInitEvent(s, e) = CheckHandlersExist(Taken(s, i, e))
      PROVE  LET t == SignalInitEvent(s, e) IN
             /\ Calm(t) /\ OkIsReal(t) /\ t.link = s.link
             /\ e = "disconnect" => t.lastInitState # "OK"
  <2>. DEFINE t   == Taken(s, i, e)
              old == s.stateHandlers[i].state
              new == StateAfter(old, e)
  <2>1. t \in Sessions
    BY TakenType
  <2>2. /\ DOMAIN t.stateHandlers = DOMAIN s.stateHandlers
        /\ t.stateHandlers[i].state = new
        /\ \A j \in DOMAIN s.stateHandlers \ {i} :
              t.stateHandlers[j] = s.stateHandlers[j]
        /\ t.lastInitState = new
        /\ t.handlerRequests = s.handlerRequests
        /\ t.shutdownQueued = s.shutdownQueued /\ t.link = s.link
    BY TakenIs
  <2>. HIDE DEF t
  <2>3. old \in Beginning \cup Advanced
    BY DEF Calm
  <2>4. \/ e = "disconnect" /\ new \in {"LoginError", "Disconnected"}
        \/ e = "connect" /\ old = "PreLogin" /\ new = "Authorizing"
        \/ e = "authorized" /\ old = "Authorizing" /\ new = "EnablingCallEvents"
        \/ e = "authorizeError" /\ old = "Authorizing" /\ new = "AuthorizedError"
        \/ e = "subscribed" /\ old = "EnablingCallEvents" /\ new = "OK"
        \/ e = "subscribeError" /\ old = "EnablingCallEvents" /\ new = "EnabledCallError"
    BY <1>3, <2>3 DEF Accepts, InitEvents, StateAfter, Beginning, Advanced
  <2>. HIDE DEF new, old
  <2>5. new \in Beginning \cup Advanced /\ new \notin {"PreLogin", "ShuttingDown", "ShutDown"}
    BY <2>4 DEF Beginning, Advanced
  <2>6. new \in Advanced => s.link \notin {"none", "login"}
    <3>1. CASE e = "connect"
      BY <3>1
    <3>2. CASE e # "connect"
      <4>. SUFFICES ASSUME new \in Advanced PROVE old \in Advanced
        BY DEF Calm, NoneAdvanced, old, Beginning, Advanced
      <4>. QED
        BY <2>4, <3>2 DEF Advanced
    <3>. QED
      BY <3>1, <3>2
  <2>7. \A j \in DOMAIN t.stateHandlers : t.stateHandlers[j].state \in Beginning \cup Advanced
    BY <2>2, <2>5 DEF Calm
  <2>8. ASSUME NEW k \in DOMAIN t.stateHandlers, t.stateHandlers[k].state \in Advanced,
               NEW j \in DOMAIN t.stateHandlers \ {k}
        PROVE  /\ t.stateHandlers[j].state \in Beginning
               /\ j < k => t.stateHandlers[j].state # "PreLogin"
    <3>1. CASE k = i /\ e = "connect"
      <4>1. t.stateHandlers[j] = s.stateHandlers[j] /\ j \in DOMAIN s.stateHandlers
        BY <2>2, <3>1
      <4>2. t.stateHandlers[j].state \in Beginning
        BY <3>1, <4>1 DEF NoneAdvanced
      <4>3. ASSUME j < k PROVE t.stateHandlers[j].state # "PreLogin"
        <5>1. j \in 1 .. i - 1
          BY <1>1, <3>1, <4>1, <4>3
        <5>. QED
          BY <1>3, <3>1, <4>1, <5>1 DEF Accepts
      <4>. QED
        BY <4>2, <4>3
    <3>2. CASE k = i /\ e # "connect"
      <4>1. old \in Advanced
        BY <2>2, <2>4, <2>8, <3>2 DEF Advanced
      <4>. QED
        BY <2>2, <3>2, <4>1 DEF Calm, old
    <3>3. CASE k # i
      <4>1. s.stateHandlers[k].state \in Advanced /\ k \in DOMAIN s.stateHandlers
        BY <2>2, <2>8, <3>3
      <4>2. old \in Beginning /\ e # "connect"
        BY <3>3, <4>1 DEF Calm, old, NoneAdvanced, Beginning, Advanced
      <4>3. e = "disconnect" /\ new \in {"LoginError", "Disconnected"}
        BY <2>4, <4>2 DEF Beginning
      <4>4. CASE j = i
        BY <2>2, <4>3, <4>4 DEF Beginning
      <4>5. CASE j # i
        <5>1. t.stateHandlers[j] = s.stateHandlers[j] /\ j \in DOMAIN s.stateHandlers \ {k}
          BY <2>2, <4>5
        <5>. QED
          BY <4>1, <5>1 DEF Calm
      <4>. QED
        BY <4>4, <4>5
    <3>. QED
      BY <3>1, <3>2, <3>3
  <2>9. t.link \in {"none", "login"} => NoneAdvanced(t)
    <3>. SUFFICES ASSUME s.link \in {"none", "login"}, NEW j \in DOMAIN t.stateHandlers
                  PROVE  t.stateHandlers[j].state \in Beginning
      BY <2>2 DEF NoneAdvanced
    <3>1. CASE j = i
      BY <2>2, <2>5, <2>6, <3>1
    <3>2. CASE j # i
      BY <2>2, <3>2 DEF Calm, NoneAdvanced
    <3>. QED
      BY <3>1, <3>2
  <2>10. Calm(t)
    BY <2>2, <2>5, <2>7, <2>8, <2>9 DEF Calm
  <2>11. OkIsReal(t)
    <3>1. new = "OK" => e = "subscribed"
      BY <2>4
    <3>. QED
      BY <2>2, <3>1 DEF OkIsReal
  <2>12. SignalInitEvent(s, e) = t
    BY <1>3, <2>1, <2>7, NoneGone DEF t
  <2>13. e = "disconnect" => t.lastInitState # "OK"
    BY <2>2, <2>4
  <2>. QED
    BY <2>2, <2>10, <2>11, <2>12, <2>13
<1>. QED
  BY <1>2, <1>3, Signalled

\* Receiving, with the machines polled before or not.
LEMMA ReceiveKeepsCalm ==
    ASSUME NEW s \in Sessions, Calm(s), OkIsReal(s), NEW r \in Receipts,
           CanReceive(s, r)
    PROVE  LET t == Receive(s, r) IN
           /\ Calm(t) /\ OkIsReal(t)
           /\ ReceiveFails(s, r) => t.link = "down"
<1>. DEFINE t == Receive(s, r)
<1>1. r.error \in BOOLEAN
  BY DEF Receipts
<1>2. CASE r.what \in Requests
  <2>. DEFINE u == [s EXCEPT !.unanswered = @ \ {r.what}]
  <2>1. u \in Sessions
    BY DEF Sessions
  <2>2. /\ u.stateHandlers = s.stateHandlers /\ u.handlerRequests = s.handlerRequests
        /\ u.shutdownQueued = s.shutdownQueued /\ u.lastInitState = s.lastInitState
        /\ u.link = s.link
    BY DEF Sessions
  <2>3. s.link = "up"
    BY <1>2 DEF CanReceive
  <2>4. t = IF r.what \in {"reauthorize", "resubscribe"}
            THEN AnswerToWorker(u, r)
            ELSE SignalInitEvent(u, EventOfAnswer(r))
    BY <1>2 DEF Receive
  <2>. HIDE DEF u, t
  <2>5. Calm(u) /\ OkIsReal(u)
    BY <2>2 DEF Calm, OkIsReal, NoneAdvanced
  <2>6. CASE r.what \in {"reauthorize", "resubscribe"}
    <3>. DEFINE v == AnswerToWorker(u, r)
    <3>1. /\ DOMAIN v.stateHandlers = DOMAIN u.stateHandlers
          /\ \A i \in DOMAIN u.stateHandlers :
                v.stateHandlers[i].state = u.stateHandlers[i].state
          /\ v = [u EXCEPT !.stateHandlers = v.stateHandlers]
      BY <1>1, <2>1, AnswerToWorkerIs
    <3>. HIDE DEF v
    <3>2. /\ v.handlerRequests = u.handlerRequests
          /\ v.shutdownQueued = u.shutdownQueued /\ v.lastInitState = u.lastInitState
          /\ v.link = u.link
      BY <2>1, <3>1 DEF Sessions
    <3>3. Calm(v) /\ OkIsReal(v)
      BY <2>5, <3>1, <3>2 DEF Calm, OkIsReal, NoneAdvanced
    <3>4. ~ReceiveFails(s, r)
      BY <2>3, <2>6 DEF ReceiveFails
    <3>. QED
      BY <2>4, <2>6, <3>3, <3>4 DEF v, t
  <2>7. CASE r.what \notin {"reauthorize", "resubscribe"}
    <3>1. /\ EventOfAnswer(r) \in InitEvents
          /\ EventOfAnswer(r) \notin {"connect", "disconnect", "shutdown"}
      BY DEF EventOfAnswer, InitEvents
    <3>2. Calm(t) /\ OkIsReal(t)
      BY <2>1, <2>2, <2>3, <2>4, <2>5, <2>7, <3>1, SignalKeepsCalm
    <3>3. ~ReceiveFails(s, r)
      BY <1>2, <2>3 DEF ReceiveFails, Requests
    <3>. QED
      BY <3>2, <3>3 DEF t
  <2>. QED
    BY <2>6, <2>7
<1>3. CASE r.what = "nothing"
  <2>1. t = s
    BY <1>3 DEF Receive, Requests
  <2>. QED
    BY <1>3, <2>1 DEF ReceiveFails
<1>4. CASE r.what = "login"
  <2>. DEFINE u == [s EXCEPT !.link = "up"]
  <2>1. /\ u \in Sessions /\ u.link = "up"
        /\ u.stateHandlers = s.stateHandlers /\ u.handlerRequests = s.handlerRequests
        /\ u.shutdownQueued = s.shutdownQueued /\ u.lastInitState = s.lastInitState
    BY DEF Sessions, Links
  <2>2. s.link = "login" /\ t = SignalInitEvent(u, "connect")
    BY <1>4 DEF CanReceive, Receive, Requests
  <2>. HIDE DEF u, t
  <2>3. Calm(u) /\ OkIsReal(u) /\ NoneAdvanced(u)
    BY <2>1, <2>2 DEF Calm, OkIsReal, NoneAdvanced
  <2>4. Calm(t) /\ OkIsReal(t)
    BY <2>1, <2>2, <2>3, SignalKeepsCalm DEF InitEvents
  <2>5. ~ReceiveFails(s, r)
    BY <1>4, <2>2 DEF ReceiveFails
  <2>. QED
    BY <2>4, <2>5 DEF t
<1>5. CASE r.what \in {"closed", "broken"}
  <2>. DEFINE u == [s EXCEPT !.link = "down"]
  <2>1. /\ u \in Sessions /\ u.link = "down"
        /\ u.stateHandlers = s.stateHandlers /\ u.handlerRequests = s.handlerRequests
        /\ u.shutdownQueued = s.shutdownQueued /\ u.lastInitState = s.lastInitState
    BY DEF Sessions, Links
  <2>2. t = SignalInitEvent(u, "disconnect")
    BY <1>5 DEF Receive, Requests
  <2>. HIDE DEF u, t
  <2>3. Calm(u)
    BY <2>1 DEF Calm, NoneAdvanced
  <2>4. /\ Calm(t) /\ t.link = "down"
        /\ (u.stateHandlers = <<>> /\ t = u) \/ t.lastInitState # "OK"
    BY <2>1, <2>2, <2>3, SignalKeepsCalm DEF InitEvents
  <2>5. OkIsReal(t)
    <3>1. CASE u.stateHandlers = <<>> /\ t = u
      <4>1. s.lastInitState # "OK"
        BY <2>1, <3>1 DEF OkIsReal
      <4>. QED
        BY <2>1, <3>1, <4>1 DEF OkIsReal
    <3>2. CASE t.lastInitState # "OK"
      BY <3>2 DEF OkIsReal
    <3>. QED
      BY <2>4, <3>1, <3>2
  <2>. QED
    BY <2>4, <2>5 DEF t
<1>6. r.what \in Requests \/ r.what \in {"nothing", "login", "closed", "broken"}
  BY DEF Receipts
<1>. QED
  BY <1>2, <1>3, <1>4, <1>5, <1>6

(* When the login is over, what a session is notified of is its loss.       *)
LostOrSame(s, t) ==
    \/ t.lastInitState = s.lastInitState /\ t.initEvents = s.initEvents
    \/ t.lastInitState = "Disconnected" /\ t.initEvents # {}

LEMMA PollKeepsEstablished ==
    ASSUME NEW s \in Sessions, Calm(s), Established(s)
    PROVE  LET t == PollStateHandlers(s) IN
           Established(t) /\ LostOrSame(s, t)
<1>. DEFINE a == Added(s)
            t == PollStateHandlers(s)
<1>1. s.stateHandlers \in Seq(InitHandlers)
  BY DEF Sessions
<1>2. 1 \in DOMAIN s.stateHandlers
  BY <1>1 DEF Established
<1>3. /\ a.lastInitState = s.lastInitState /\ a.initEvents = s.initEvents
      /\ a.link = s.link
      /\ \A i \in DOMAIN s.stateHandlers : /\ i \in DOMAIN a.stateHandlers
                                        /\ a.stateHandlers[i] = s.stateHandlers[i]
      /\ \A i \in DOMAIN a.stateHandlers :
            \/ i \in DOMAIN s.stateHandlers
            \/ a.stateHandlers[i].state = "PreLogin"
  BY AddedIs
<1>4. PolledTo(a, t)
  BY PollIs
<1>. HIDE DEF a, t
<1>5. t.stateHandlers \in Seq(InitHandlers) /\ DOMAIN t.stateHandlers = DOMAIN a.stateHandlers
      /\ t.link = a.link
  BY <1>4 DEF PolledTo, Sessions
<1>6. \A i \in DOMAIN a.stateHandlers :
          \/ t.stateHandlers[i].state = a.stateHandlers[i].state
          \/ t.stateHandlers[i].state = "Disconnected"
  BY <1>4 DEF PolledTo
<1>7. Established(t)
  <2>1. 1 \in DOMAIN t.stateHandlers
    BY <1>2, <1>3, <1>5
  <2>2. t.stateHandlers # <<>>
    BY <1>5, <2>1
  <2>3. t.stateHandlers[1].state # "PreLogin"
    BY <1>2, <1>3, <1>6 DEF Established
  <2>4. \A i \in DOMAIN t.stateHandlers :
            t.stateHandlers[i].state \notin {"Authorizing", "EnablingCallEvents"}
    BY <1>3, <1>5, <1>6 DEF Established
  <2>. QED
    BY <1>3, <1>5, <2>2, <2>3, <2>4 DEF Established
<1>8. LostOrSame(s, t)
  BY <1>3, <1>4 DEF LostOrSame, PolledTo
<1>. QED
  BY <1>7, <1>8 DEF t

LEMMA SignalKeepsEstablished ==
    ASSUME NEW s \in Sessions, Calm(s), Established(s), NEW e \in InitEvents,
           e \notin {"connect", "shutdown"}
    PROVE  LET t == SignalInitEvent(s, e) IN
           Established(t) /\ LostOrSame(s, t)
<1>1. s.stateHandlers \in Seq(InitHandlers)
  BY DEF Sessions
<1>2. 1 \in DOMAIN s.stateHandlers
  BY <1>1 DEF Established
<1>3. CASE SignalInitEvent(s, e) = s
  BY <1>3 DEF LostOrSame
<1>4. ASSUME NEW i \in DOMAIN s.stateHandlers,
             Accepts(s.stateHandlers[i], e),
             \A j \in 1 .. i - 1 : ~Accepts(s.stateHandlers[j], e),
             SignalInitEvent(s, e) = CheckHandlersExist(Taken(s, i, e))
      PROVE  LET t == SignalInitEvent(s, e) IN
             Established(t) /\ LostOrSame(s, t)
  <2>. DEFINE t == Taken(s, i, e)
  <2>1. t \in Sessions
    BY TakenType
  <2>2. e = "disconnect"
    <3>1. s.stateHandlers[i].state \in Beginning \cup Advanced
      BY DEF Calm
    <3>2. s.stateHandlers[i].state \notin {"Authorizing", "EnablingCallEvents", "ShuttingDown"}
      BY <3>1 DEF Established, Beginning, Advanced
    <3>. QED
      BY <1>4, <3>2 DEF Accepts, InitEvents
  <2>3. i = 1
    <3>1. s.stateHandlers[1].state # "NotSet"
      BY <1>2 DEF Calm, Beginning, Advanced
    <3>2. Accepts(s.stateHandlers[1], e)
      BY <2>2, <3>1 DEF Accepts
    <3>3. i \in Nat /\ ~(1 \in 1 .. i - 1) /\ i >= 1
      BY <1>1, <1>4, <3>2
    <3>. QED
      BY <3>3
  <2>4. StateAfter(s.stateHandlers[i].state, e) = "Disconnected"
    BY <2>2, <2>3 DEF Established, StateAfter
  <2>5. /\ DOMAIN t.stateHandlers = DOMAIN s.stateHandlers
        /\ t.stateHandlers[i].state = "Disconnected"
        /\ \A j \in DOMAIN s.stateHandlers \ {i} :
              t.stateHandlers[j] = s.stateHandlers[j]
        /\ t.lastInitState = "Disconnected"
        /\ t.initEvents = s.initEvents \cup {t.lastInitState}
        /\ t.link = s.link
    BY <2>4, TakenIs
  <2>. HIDE DEF t
  <2>6. Established(t)
    <3>1. t.stateHandlers \in Seq(InitHandlers) /\ t.stateHandlers # <<>>
      BY <1>2, <2>1, <2>5 DEF Sessions
    <3>2. t.stateHandlers[1].state # "PreLogin"
      BY <2>3, <2>5
    <3>3. ASSUME NEW j \in DOMAIN t.stateHandlers
          PROVE  t.stateHandlers[j].state \notin {"Authorizing", "EnablingCallEvents"}
      BY <2>5 DEF Established
    <3>. QED
      BY <2>5, <3>1, <3>2, <3>3 DEF Established
  <2>7. LostOrSame(s, t)
    BY <2>5 DEF LostOrSame
  <2>8. CheckHandlersExist(t) = t
    <3>1. \A j \in DOMAIN t.stateHandlers :
              t.stateHandlers[j].state \in Beginning \cup Advanced
      BY <2>5 DEF Calm, Beginning
    <3>. QED
      BY <2>1, <3>1, NoneGone
  <2>. QED
    BY <1>4, <2>6, <2>7, <2>8 DEF t
<1>. QED
  BY <1>3, <1>4, Signalled

LEMMA ReceiveKeepsEstablished ==
    ASSUME NEW s \in Sessions, Calm(s), Established(s), NEW r \in Receipts,
           CanReceive(s, r)
    PROVE  LET t == Receive(s, r) IN
           Established(t) /\ LostOrSame(s, t)
<1>. DEFINE t == Receive(s, r)
<1>1. r.error \in BOOLEAN
  BY DEF Receipts
<1>2. CASE r.what \in Requests
  <2>. DEFINE u == [s EXCEPT !.unanswered = @ \ {r.what}]
  <2>1. u \in Sessions
    BY DEF Sessions
  <2>2. /\ u.stateHandlers = s.stateHandlers /\ u.handlerRequests = s.handlerRequests
        /\ u.shutdownQueued = s.shutdownQueued /\ u.lastInitState = s.lastInitState
        /\ u.link = s.link /\ u.initEvents = s.initEvents
    BY DEF Sessions
  <2>3. t = IF r.what \in {"reauthorize", "resubscribe"}
            THEN AnswerToWorker(u, r)
            ELSE SignalInitEvent(u, EventOfAnswer(r))
    BY <1>2 DEF Receive
  <2>. HIDE DEF u, t
  <2>4. Calm(u) /\ Established(u)
    BY <2>2 DEF Calm, Established, NoneAdvanced
  <2>5. CASE r.what \in {"reauthorize", "resubscribe"}
    <3>. DEFINE v == AnswerToWorker(u, r)
    <3>1. /\ v \in Sessions /\ DOMAIN v.stateHandlers = DOMAIN u.stateHandlers
          /\ \A i \in DOMAIN u.stateHandlers :
                v.stateHandlers[i].state = u.stateHandlers[i].state
          /\ v = [u EXCEPT !.stateHandlers = v.stateHandlers]
      BY <1>1, <2>1, AnswerToWorkerIs
    <3>. HIDE DEF v
    <3>2. v.lastInitState = u.lastInitState /\ v.initEvents = u.initEvents
          /\ v.link = u.link
      BY <2>1, <3>1 DEF Sessions
    <3>3. /\ u.stateHandlers \in Seq(InitHandlers) /\ v.stateHandlers \in Seq(InitHandlers)
          /\ u.stateHandlers # <<>> /\ 1 \in DOMAIN u.stateHandlers
      BY <2>1, <2>4, <3>1 DEF Sessions, Established
    <3>4. v.stateHandlers # <<>>
      BY <3>1, <3>3
    <3>5. Established(v)
      BY <2>4, <3>1, <3>2, <3>3, <3>4 DEF Established
    <3>. QED
      BY <2>2, <2>3, <2>5, <3>2, <3>5 DEF v, t, LostOrSame
  <2>6. CASE r.what \notin {"reauthorize", "resubscribe"}
    <3>1. /\ EventOfAnswer(r) \in InitEvents
          /\ EventOfAnswer(r) \notin {"connect", "disconnect", "shutdown"}
      BY DEF EventOfAnswer, InitEvents
    <3>2. Established(t) /\ LostOrSame(u, t)
      BY <2>1, <2>3, <2>4, <2>6, <3>1, SignalKeepsEstablished
    <3>. QED
      BY <2>2, <3>2 DEF t, LostOrSame
  <2>. QED
    BY <2>5, <2>6
<1>3. CASE r.what = "nothing"
  BY <1>3 DEF Receive, Requests, LostOrSame
<1>4. CASE r.what = "login"
  BY <1>4 DEF CanReceive, Requests, Established
<1>5. CASE r.what \in {"closed", "broken"}
  <2>. DEFINE u == [s EXCEPT !.link = "down"]
  <2>1. /\ u \in Sessions /\ u.link = "down"
        /\ u.stateHandlers = s.stateHandlers /\ u.handlerRequests = s.handlerRequests
        /\ u.shutdownQueued = s.shutdownQueued /\ u.lastInitState = s.lastInitState
        /\ u.initEvents = s.initEvents
    BY DEF Sessions, Links
  <2>2. t = SignalInitEvent(u, "disconnect")
    BY <1>5 DEF Receive, Requests
  <2>. HIDE DEF u, t
  <2>3. Calm(u) /\ Established(u)
    BY <2>1 DEF Calm, NoneAdvanced, Established
  <2>4. Established(t) /\ LostOrSame(u, t)
    BY <2>1, <2>2, <2>3, SignalKeepsEstablished DEF InitEvents
  <2>. QED
    BY <2>1, <2>4 DEF t, LostOrSame
<1>6. r.what \in Requests \/ r.what \in {"nothing", "login", "closed", "broken"}
  BY DEF Receipts
<1>. QED
  BY <1>2, <1>3, <1>4, <1>5, <1>6
=============================================================================
