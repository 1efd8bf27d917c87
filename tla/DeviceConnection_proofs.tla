----------------------- MODULE DeviceConnection_proofs -----------------------
(***************************************************************************)
(* Three invariants of DeviceConnection, for all values of its constants:  *)
(* that TAPI is told of every loss of a connection that was in use         *)
(* (LossIsReported), the types (TypeOK), and that the thread is connected  *)
(* when it believes so (ConnectedIsReal).  And that what TAPI sees of the  *)
(* device is what DeviceView promises.                                     *)
(***************************************************************************)
EXTENDS DeviceConnection, XmppSession_proofs, TLAPS

(* LossIsReported is not inductive by itself: the notifications of a Poll   *)
(* may put the line into service, so that Poll must only be called while    *)
(* the thread believes that it is connected.                                *)
ThreadInv ==
    /\ pc = "runPoll" => fConnected
    /\ LossIsReported

\* What InitOnSipTapi leaves of the invariant when it fails, at any place of it.
LEMMA InitFailsKeeps ==
    ASSUME ThreadInv, pc \in {"connect", "init", "initPoll"},
           NEW stateType, NEW s, InitFails(stateType, s)
    PROVE  ThreadInv'
<1>1. pc # "none" /\ opened' = opened /\ inService' = inService
  BY DEF InitFails, deviceVars
<1>2. CASE ~opened
  BY <1>1, <1>2 DEF ThreadInv, LossIsReported, InitFails, ThreadEnds
<1>3. CASE opened
  <2>1. pc' = "retryWait" /\ fConnected' = fConnected
    BY <1>3 DEF InitFails
  <2>. QED
    BY <1>1, <1>3, <2>1 DEF ThreadInv, LossIsReported
<1>. QED
  BY <1>2, <1>3

\* And when it succeeds.
LEMMA InitSucceedsKeeps ==
    ASSUME InitSucceeds
    PROVE  ThreadInv'
  BY DEF ThreadInv, LossIsReported, InitSucceeds

\* What TAPI does keeps the invariant.
LEMMA TapiStepKeeps ==
    ASSUME ThreadInv, TapiStep
    PROVE  ThreadInv'
<1>1. CASE OpenDevice
  BY <1>1 DEF ThreadInv, LossIsReported, OpenDevice
<1>2. CASE OpenReturns
  BY <1>2 DEF ThreadInv, LossIsReported, OpenReturns, threadVars, tapiVars
<1>3. CASE KillThreads
  BY <1>3 DEF ThreadInv, LossIsReported, KillThreads, threadVars, tapiVars
<1>4. CASE ThreadsKilled
  BY <1>4 DEF ThreadInv, LossIsReported, ThreadsKilled, threadVars, tapiVars
<1>. QED
  BY <1>1, <1>2, <1>3, <1>4 DEF TapiStep

(* The notifications of a Poll: the line leaves service in the step that    *)
(* clears fConnected.                                                       *)
LEMMA RunPollOverKeeps ==
    ASSUME ThreadInv, RunPollOver
    PROVE  ThreadInv'
<1>1. pc = "runPoll" /\ pc' = "top" /\ fConnected /\ opened' = opened
  BY DEF ThreadInv, RunPollOver, PollOver, deviceVars
<1>2. CASE session.initEvents = {}
  <2>1. fConnected' = fConnected
    BY <1>2 DEF RunPollOver
  <2>. QED
    BY <1>1, <2>1 DEF ThreadInv, LossIsReported
<1>3. CASE session.initEvents # {}
  <2>. DEFINE stateType == GetInitStatesType(session.lastInitState)
  <2>1. HandleInitEvents
    BY <1>3 DEF RunPollOver
  <2>2. CASE stateType # initStateType /\ stateType = "DISCONNECTED"
    <3>1. inService' = (stateType = "OK")
      BY <2>1, <2>2 DEF HandleInitEvents
    <3>2. ~inService'
      BY <2>2, <3>1
    <3>. QED
      BY <1>1, <3>2 DEF ThreadInv, LossIsReported
  <2>3. CASE ~(stateType # initStateType /\ stateType = "DISCONNECTED")
    <3>1. fConnected' = fConnected
      BY <2>1, <2>3 DEF HandleInitEvents
    <3>. QED
      BY <1>1, <3>1 DEF ThreadInv, LossIsReported
  <2>. QED
    BY <2>2, <2>3
<1>. QED
  BY <1>2, <1>3

\* What the connection thread does outside the turns of a Poll.
LEMMA ThreadStepKeeps ==
    ASSUME ThreadInv, ThreadStep
    PROVE  ThreadInv'
<1>1. CASE ConnectFails
  BY <1>1, InitFailsKeeps DEF ConnectFails
<1>2. CASE ConnectSucceeds
  BY <1>2 DEF ThreadInv, LossIsReported, ConnectSucceeds, deviceVars, tapiVars
<1>3. CASE InitHead
  <2>1. CASE stop
    BY <1>3, <2>1, InitFailsKeeps DEF InitHead
  <2>2. CASE ~stop
    BY <1>3, <2>2 DEF ThreadInv, LossIsReported, InitHead, BeginPoll, deviceVars, tapiVars
  <2>. QED
    BY <2>1, <2>2
<1>4. CASE InitPollOver
  <2>. DEFINE stateType == GetInitStatesType(session.lastInitState)
  <2>1. CASE stateType \in {"DISCONNECTED", "FATAL"}
    BY <1>4, <2>1, InitFailsKeeps DEF InitPollOver, PollOver
  <2>2. CASE stateType = "OK"
    BY <1>4, <2>2, InitSucceedsKeeps DEF InitPollOver
  <2>3. CASE stateType \notin {"DISCONNECTED", "FATAL", "OK"}
    BY <1>4, <2>3
       DEF ThreadInv, LossIsReported, InitPollOver, PollOver, deviceVars, tapiVars
  <2>. QED
    BY <2>1, <2>2, <2>3
<1>5. CASE RetryWaitOver
  BY <1>5 DEF ThreadInv, LossIsReported, RetryWaitOver, deviceVars, tapiVars
<1>6. CASE Top
  <2>1. opened' = opened /\ inService' = inService /\ pc # "none"
    BY <1>6 DEF Top, deviceVars, tapiVars
  <2>2. CASE stop /\ ~fConnected
    BY <1>6, <2>2 DEF ThreadInv, LossIsReported, Top, ThreadEnds
  <2>3. CASE ~(stop /\ ~fConnected)
    <3>1. fConnected' = fConnected /\ (pc' = "runPoll" => fConnected)
      BY <1>6, <2>3 DEF Top, BeginPoll, Connect
    <3>. QED
      BY <2>1, <3>1 DEF ThreadInv, LossIsReported
  <2>. QED
    BY <2>2, <2>3
<1>7. CASE RunPollOver
  BY <1>7, RunPollOverKeeps
<1>8. CASE LostWaitOver
  BY <1>8 DEF ThreadInv, LossIsReported, LostWaitOver, ThreadEnds, deviceVars, tapiVars
<1>9. CASE ShutHead
  BY <1>9 DEF ThreadInv, LossIsReported, ShutHead, BeginPoll, deviceVars, tapiVars
<1>10. CASE ShutPollOver
  BY <1>10 DEF ThreadInv, LossIsReported, ShutPollOver, PollOver, ThreadEnds,
               deviceVars, tapiVars
<1>. QED
  BY <1>1, <1>2, <1>3, <1>4, <1>5, <1>6, <1>7, <1>8, <1>9, <1>10 DEF ThreadStep

\* A turn of a Poll, in each of the three loops that call it.
LEMMA PollTurnKeeps ==
    ASSUME ThreadInv, NEW r, NEW machines, PollTurn(r, machines)
    PROVE  ThreadInv'
<1>. DEFINE s == Polled(machines)
<1>1. CASE InitTurn(r, machines)
  <2>1. pc = "initPoll"
    BY <1>1 DEF InitTurn, Turn
  <2>2. CASE ReceiveFails(s, r)
    <3>1. InitFails("DISCONNECTED", Receive(s, r))
      BY <1>1, <2>2 DEF InitTurn
    <3>. QED
      BY <2>1, <3>1, InitFailsKeeps
  <2>3. CASE ~ReceiveFails(s, r)
    <3>1. UNCHANGED <<deviceVars, pc, fConnected, tapiVars>>
      BY <1>1, <2>3 DEF InitTurn
    <3>. QED
      BY <3>1 DEF ThreadInv, LossIsReported, deviceVars, tapiVars
  <2>. QED
    BY <2>2, <2>3
<1>2. CASE RunTurn(r, machines)
  <2>1. pc = "runPoll" /\ opened' = opened
    BY <1>2 DEF RunTurn, Turn, deviceVars
  <2>2. CASE ReceiveFails(s, r)
    BY <1>2, <2>1, <2>2 DEF RunTurn, ThreadInv, LossIsReported
  <2>3. CASE ~ReceiveFails(s, r)
    BY <1>2, <2>1, <2>3 DEF RunTurn, ThreadInv, LossIsReported
  <2>. QED
    BY <2>2, <2>3
<1>3. CASE ShutTurn(r, machines)
  <2>1. pc = "shutPoll" /\ opened' = opened /\ inService' = inService
    BY <1>3 DEF ShutTurn, Turn, deviceVars, tapiVars
  <2>2. CASE ReceiveFails(s, r)
    BY <1>3, <2>1, <2>2 DEF ShutTurn, ThreadEnds, ThreadInv, LossIsReported
  <2>3. CASE ~ReceiveFails(s, r)
    BY <1>3, <2>1, <2>3 DEF ShutTurn, ThreadInv, LossIsReported
  <2>. QED
    BY <2>2, <2>3
<1>. QED
  BY <1>1, <1>2, <1>3 DEF PollTurn

\* Time touches nothing that the invariant is about.
LEMMA TimeStepKeeps ==
    ASSUME ThreadInv, TimeStep
    PROVE  ThreadInv'
<1>1. UNCHANGED <<opened, pc, fConnected, inService>>
  BY DEF TimeStep, ShutdownLate, StateTimeout, QueuedTimeout, RenewalDue,
         RenewalTimeout, deviceVars, threadVars, tapiVars
<1>. QED
  BY <1>1 DEF ThreadInv, LossIsReported

(* As long as a connection that was in use is lost and not replaced, TAPI   *)
(* has been told that the line is out of service: for any number of opens,  *)
(* losses, failures and renewals, fast or slow connects and logins.         *)
THEOREM LossReported == Spec => []LossIsReported
<1>1. Init => ThreadInv
  BY DEF Init, ThreadInv, LossIsReported
<1>2. ThreadInv /\ [Next]_vars => ThreadInv'
  <2>. SUFFICES ASSUME ThreadInv, [Next]_vars PROVE ThreadInv'
    OBVIOUS
  <2>1. CASE UNCHANGED vars
    BY <2>1 DEF vars, deviceVars, threadVars, tapiVars, ThreadInv, LossIsReported
  <2>2. CASE TapiStep
    BY <2>2, TapiStepKeeps
  <2>3. CASE ThreadStep
    BY <2>3, ThreadStepKeeps
  <2>4. ASSUME NEW r \in Receipts, NEW machines \in BOOLEAN, PollTurn(r, machines)
        PROVE  ThreadInv'
    BY <2>4, PollTurnKeeps
  <2>5. CASE TimeStep
    BY <2>5, TimeStepKeeps
  <2>. QED
    BY <2>1, <2>2, <2>3, <2>4, <2>5 DEF Next
<1>3. ThreadInv => LossIsReported
  BY DEF ThreadInv
<1>. QED
  BY <1>1, <1>2, <1>3, PTL DEF Spec

-----------------------------------------------------------------------------
(* Types.                                                                   *)

LEMMA InitStatesTypeType ==
    ASSUME NEW state \in InitStates
    PROVE  GetInitStatesType(state) \in InitStatesTypes
  BY DEF InitStates, GetInitStatesType, InitStatesTypes

LEMMA PolledType ==
    ASSUME TypeOK, NEW machines \in BOOLEAN
    PROVE  Polled(machines) \in Sessions
  BY PollStateHandlersType DEF TypeOK, Polled

LEMMA InitFailsType ==
    ASSUME TypeOK, pc \in {"connect", "init", "initPoll"},
           NEW stateType \in InitStatesTypes, NEW s \in Sessions,
           InitFails(stateType, s), polled' \in BOOLEAN,
           opens' \in 0..MaxOpens, losses' \in 0..MaxLosses,
           failures' \in 0..MaxFailures, renewals' \in 0..MaxRenewals
    PROVE  TypeOK'
<1>1. CASE ~opened
  BY <1>1, NewSessionType DEF TypeOK, InitFails, ThreadEnds, ThreadPlaces, deviceVars
<1>2. CASE opened
  BY <1>2 DEF TypeOK, InitFails, ThreadPlaces, deviceVars
<1>. QED
  BY <1>1, <1>2

\* The handlers in the queue when the wait after a failed attempt is over.
LEMMA OverdueIs ==
    ASSUME NEW s \in Sessions
    PROVE  LET hs  == s.handlerRequests
               new == [i \in DOMAIN hs |-> [hs[i] EXCEPT !.expired = TRUE]]
           IN  /\ new \in Seq(InitHandlers) /\ DOMAIN new = DOMAIN hs
               /\ \A i \in DOMAIN hs : new[i].state = hs[i].state
<1>. DEFINE hs  == s.handlerRequests
            new == [i \in DOMAIN hs |-> [hs[i] EXCEPT !.expired = TRUE]]
<1>1. hs \in Seq(InitHandlers) /\ Len(hs) \in Nat /\ DOMAIN hs = 1 .. Len(hs)
  BY DEF Sessions
<1>2. \A i \in DOMAIN hs : hs[i] \in InitHandlers
  BY <1>1
<1>. HIDE DEF hs
<1>3. \A h \in InitHandlers : /\ [h EXCEPT !.expired = TRUE] \in InitHandlers
                              /\ [h EXCEPT !.expired = TRUE].state = h.state
  BY DEF InitHandlers
<1>4. \A i \in DOMAIN hs : new[i].state = hs[i].state
  BY <1>2, <1>3
<1>5. new \in [1 .. Len(hs) -> InitHandlers]
  BY <1>1, <1>2, <1>3
<1>. HIDE DEF new
<1>6. new \in Seq(InitHandlers) /\ DOMAIN new = DOMAIN hs
  BY <1>1, <1>5, SeqIsFunction
<1>. QED
  BY <1>4, <1>6 DEF hs, new

LEMMA TapiStepType ==
    ASSUME TypeOK, TapiStep
    PROVE  TypeOK'
<1>1. CASE OpenDevice
  <2>1. Start(NewSession) \in Sessions
    BY NewSessionType, StartType
  <2>2. opens' \in 0..MaxOpens
    BY <1>1, BoundsAssumption DEF TypeOK, OpenDevice
  <2>. QED
    BY <1>1, <2>1, <2>2 DEF TypeOK, OpenDevice, ThreadPlaces, InitStatesTypes, tapiVars
<1>2. CASE OpenReturns
  BY <1>2 DEF TypeOK, OpenReturns, threadVars, tapiVars, bounded
<1>3. CASE KillThreads
  BY <1>3 DEF TypeOK, KillThreads, threadVars, tapiVars, bounded
<1>4. CASE ThreadsKilled
  BY <1>4 DEF TypeOK, ThreadsKilled, threadVars, tapiVars, bounded
<1>. QED
  BY <1>1, <1>2, <1>3, <1>4 DEF TapiStep

LEMMA ThreadStepType ==
    ASSUME TypeOK, ThreadStep
    PROVE  TypeOK'
<1>. USE DEF ThreadPlaces
<1>0. session \in Sessions /\ session.lastInitState \in InitStates
  BY DEF TypeOK, Sessions
<1>1. CASE ConnectFails
  <2>1. failures' \in 0..MaxFailures
    BY <1>1, BoundsAssumption DEF TypeOK, ConnectFails
  <2>. QED
    BY <1>0, <1>1, <2>1, InitFailsType DEF TypeOK, ConnectFails, InitStatesTypes
<1>2. CASE ConnectSucceeds
  <2>1. [session EXCEPT !.link = "login"] \in Sessions
    BY <1>0 DEF Sessions, Links
  <2>. QED
    BY <1>2, <2>1 DEF TypeOK, ConnectSucceeds, deviceVars, tapiVars, bounded
<1>3. CASE InitHead
  <2>1. CASE stop
    BY <1>0, <1>3, <2>1, InitFailsType DEF TypeOK, InitHead, InitStatesTypes, bounded
  <2>2. CASE ~stop
    BY <1>3, <2>2 DEF TypeOK, InitHead, BeginPoll, deviceVars, tapiVars, bounded
  <2>. QED
    BY <2>1, <2>2
<1>4. CASE InitPollOver
  <2>. DEFINE stateType == GetInitStatesType(session.lastInitState)
  <2>1. stateType \in InitStatesTypes
    BY <1>0, InitStatesTypeType
  <2>2. CASE stateType \in {"DISCONNECTED", "FATAL"}
    <3>1. InitFails(stateType, session) /\ polled' = polled /\ pc = "initPoll"
          /\ UNCHANGED bounded
      BY <1>4, <2>2 DEF InitPollOver, PollOver
    <3>. HIDE DEF stateType
    <3>. QED
      BY <1>0, <2>1, <3>1, InitFailsType DEF TypeOK, bounded
  <2>3. CASE stateType = "OK"
    <3>1. InitSucceeds /\ UNCHANGED bounded
      BY <1>4, <2>3 DEF InitPollOver
    <3>2. [session EXCEPT !.initEvents = {}] \in Sessions
      BY <1>0 DEF Sessions
    <3>. QED
      BY <3>1, <3>2 DEF TypeOK, InitSucceeds, InitStatesTypes, bounded
  <2>4. CASE stateType \notin {"DISCONNECTED", "FATAL", "OK"}
    <3>1. /\ pc' = "init" /\ initStateType' = stateType
          /\ UNCHANGED <<deviceVars, fConnected, polled, late, session, tapiVars, bounded>>
      BY <1>4, <2>4 DEF InitPollOver
    <3>. QED
      BY <2>1, <3>1 DEF TypeOK, deviceVars, tapiVars, bounded
  <2>. QED
    BY <2>2, <2>3, <2>4
<1>5. CASE RetryWaitOver
  <2>1. CASE stop
    BY <1>5, <2>1 DEF TypeOK, RetryWaitOver, deviceVars, tapiVars, bounded
  <2>2. CASE ~stop
    <3>. DEFINE new == [i \in DOMAIN session.handlerRequests |->
                           [session.handlerRequests[i] EXCEPT !.expired = TRUE]]
    <3>3. new \in Seq(InitHandlers)
      BY <1>0, OverdueIs
    <3>. HIDE DEF new
    <3>4. [session EXCEPT !.handlerRequests = new] \in Sessions
      BY <1>0, <3>3 DEF Sessions
    <3>5. Start([session EXCEPT !.handlerRequests = new]) \in Sessions
      BY <3>4, StartType
    <3>6. session' = Start([session EXCEPT !.handlerRequests = new])
      BY <1>5, <2>2 DEF RetryWaitOver, new
    <3>. QED
      BY <1>5, <2>2, <3>5, <3>6 DEF TypeOK, RetryWaitOver, deviceVars, tapiVars, bounded
  <2>. QED
    BY <2>1, <2>2
<1>6. CASE Top
  <2>. USE <1>6 DEF TypeOK, Top, deviceVars, tapiVars, bounded
  <2>1. CASE stop /\ fConnected
    <3>1. AsyncShutdown(session) \in Sessions
      BY <1>0 DEF AsyncShutdown, Sessions
    <3>. QED
      BY <2>1, <3>1
  <2>2. CASE stop /\ ~fConnected
    BY <2>2, NewSessionType DEF ThreadEnds
  <2>3. CASE ~stop /\ fConnected
    BY <2>3 DEF BeginPoll
  <2>4. CASE ~stop /\ ~fConnected
    BY <1>0, <2>4, StartType DEF Connect
  <2>. QED
    BY <2>1, <2>2, <2>3, <2>4
<1>7. CASE RunPollOver
  <2>1. CASE session.initEvents = {}
    BY <1>7, <2>1 DEF TypeOK, RunPollOver, PollOver, deviceVars, tapiVars, bounded
  <2>2. CASE session.initEvents # {}
    <3>1. HandleInitEvents /\ pc = "runPoll" /\ pc' = "top"
          /\ UNCHANGED <<deviceVars, polled, late, bounded>>
      BY <1>7, <2>2 DEF RunPollOver, PollOver
    <3>2. [session EXCEPT !.initEvents = {}] \in Sessions
          /\ Cleanup([session EXCEPT !.initEvents = {}]) \in Sessions
      <4>1. <<>> \in Seq(InitHandlers)
        OBVIOUS
      <4>. QED
        BY <1>0, <4>1 DEF Sessions, Cleanup, Links
    <3>3. initStateType' \in InitStatesTypes
      BY <1>0, <3>1, InitStatesTypeType DEF HandleInitEvents
    <3>4. session' \in Sessions /\ fConnected' \in BOOLEAN
      BY <3>1, <3>2 DEF HandleInitEvents, TypeOK
    <3>5. inService' \in BOOLEAN /\ forcedClose' \in BOOLEAN
      BY <3>1 DEF HandleInitEvents, TypeOK
    <3>. QED
      BY <3>1, <3>3, <3>4, <3>5 DEF TypeOK, deviceVars, bounded
  <2>. QED
    BY <2>1, <2>2
<1>8. CASE LostWaitOver
  BY <1>8, NewSessionType
     DEF TypeOK, LostWaitOver, ThreadEnds, deviceVars, tapiVars, bounded
<1>9. CASE ShutHead
  BY <1>9 DEF TypeOK, ShutHead, BeginPoll, deviceVars, tapiVars, bounded
<1>10. CASE ShutPollOver
  BY <1>10, NewSessionType
     DEF TypeOK, ShutPollOver, PollOver, ThreadEnds, deviceVars, tapiVars, bounded
<1>. QED
  BY <1>1, <1>2, <1>3, <1>4, <1>5, <1>6, <1>7, <1>8, <1>9, <1>10 DEF ThreadStep

LEMMA PollTurnType ==
    ASSUME TypeOK, NEW r \in Receipts, NEW machines \in BOOLEAN, PollTurn(r, machines)
    PROVE  TypeOK'
<1>. USE DEF ThreadPlaces
<1>. DEFINE s == Polled(machines)
<1>1. s \in Sessions
  BY PolledType
<1>2. Receive(s, r) \in Sessions
  BY <1>1, ReceiveType
<1>3. ASSUME NEW place, Turn(place, r, machines)
      PROVE  /\ pc = place /\ polled' \in BOOLEAN
             /\ opens' \in 0..MaxOpens /\ losses' \in 0..MaxLosses
             /\ failures' \in 0..MaxFailures /\ renewals' \in 0..MaxRenewals
  BY <1>3, BoundsAssumption DEF Turn, TypeOK
<1>. HIDE DEF s
<1>4. CASE InitTurn(r, machines)
  <2>1. Turn("initPoll", r, machines)
    BY <1>4 DEF InitTurn
  <2>2. CASE ReceiveFails(s, r)
    <3>1. InitFails("DISCONNECTED", Receive(s, r))
      BY <1>4, <2>2 DEF InitTurn, s
    <3>. QED
      BY <1>2, <1>3, <2>1, <3>1, InitFailsType DEF InitStatesTypes
  <2>3. CASE ~ReceiveFails(s, r)
    BY <1>2, <1>3, <1>4, <2>1, <2>3 DEF InitTurn, s, TypeOK, deviceVars, tapiVars
  <2>. QED
    BY <2>2, <2>3
<1>5. CASE RunTurn(r, machines)
  <2>1. Turn("runPoll", r, machines)
    BY <1>5 DEF RunTurn
  <2>2. /\ session' = Receive(s, r)
        /\ \/ /\ pc' = "lostWait" /\ fConnected' = FALSE /\ inService' = FALSE
           \/ UNCHANGED <<pc, fConnected, inService>>
        /\ UNCHANGED <<deviceVars, initStateType, late, forcedClose>>
    BY <1>5 DEF RunTurn, s
  <2>3. pc = "runPoll"
    BY <1>3, <2>1
  <2>. QED
    BY <1>2, <1>3, <2>1, <2>2, <2>3 DEF TypeOK, deviceVars
<1>6. CASE ShutTurn(r, machines)
  <2>1. Turn("shutPoll", r, machines)
    BY <1>6 DEF ShutTurn
  <2>2. /\ \/ ThreadEnds
           \/ session' = Receive(s, r) /\ UNCHANGED <<pc, fConnected>>
        /\ UNCHANGED <<deviceVars, initStateType, late, tapiVars>>
    BY <1>6 DEF ShutTurn, s
  <2>3. pc = "shutPoll"
    BY <1>3, <2>1
  <2>. QED
    BY <1>2, <1>3, <2>1, <2>2, <2>3, NewSessionType
       DEF ThreadEnds, TypeOK, deviceVars, tapiVars
<1>. QED
  BY <1>4, <1>5, <1>6 DEF PollTurn

(* Time limits change one handler, in the list or in the queue, and not its *)
(* state.                                                                   *)
Clocked(hs, i, h) ==
    /\ i \in DOMAIN hs /\ h \in InitHandlers /\ h.state = hs[i].state

LEMMA TimeStepIs ==
    ASSUME TypeOK, TimeStep
    PROVE  /\ UNCHANGED <<app, stop, opened, pc, fConnected, initStateType, polled,
                          inService, forcedClose, opens, losses, failures>>
           /\ late' \in BOOLEAN /\ renewals' \in 0..MaxRenewals
           /\ \/ UNCHANGED session
              \/ \E i, h : /\ Clocked(session.stateHandlers, i, h)
                           /\ session' = [session EXCEPT !.stateHandlers[i] = h]
              \/ \E i, h : /\ Clocked(session.handlerRequests, i, h)
                           /\ pc = "connect"
                           /\ session' = [session EXCEPT !.handlerRequests[i] = h]
<1>. USE DEF deviceVars, threadVars, tapiVars, bounded
<1>1. /\ session \in Sessions /\ late \in BOOLEAN /\ renewals \in 0..MaxRenewals
      /\ session.stateHandlers \in Seq(InitHandlers)
      /\ session.handlerRequests \in Seq(InitHandlers)
  BY DEF TypeOK, Sessions
<1>2. \A h \in InitHandlers :
          /\ [h EXCEPT !.expired = TRUE] \in InitHandlers
          /\ [h EXCEPT !.expired = TRUE].state = h.state
          /\ [h EXCEPT !.authDue = TRUE] \in InitHandlers
          /\ [h EXCEPT !.authDue = TRUE].state = h.state
          /\ [h EXCEPT !.worker.expired = TRUE] \in InitHandlers
          /\ [h EXCEPT !.worker.expired = TRUE].state = h.state
  BY DEF InitHandlers, Workers
<1>3. CASE ShutdownLate
  BY <1>1, <1>3 DEF ShutdownLate
<1>4. ASSUME NEW i \in Places, StateTimeout(i)
      PROVE  \E h : /\ Clocked(session.stateHandlers, i, h)
                    /\ session' = [session EXCEPT !.stateHandlers[i] = h]
  <2>. DEFINE h == [session.stateHandlers[i] EXCEPT !.expired = TRUE]
  <2>1. session' = [session EXCEPT !.stateHandlers[i] = h]
    BY <1>4 DEF StateTimeout
  <2>2. session.stateHandlers[i] \in InitHandlers /\ i \in DOMAIN session.stateHandlers
    BY <1>1, <1>4 DEF StateTimeout
  <2>3. Clocked(session.stateHandlers, i, h)
    BY <1>2, <2>2 DEF Clocked
  <2>. QED
    BY <2>1, <2>3
<1>5. ASSUME NEW i \in Places, QueuedTimeout(i)
      PROVE  \E h : /\ Clocked(session.handlerRequests, i, h)
                    /\ session' = [session EXCEPT !.handlerRequests[i] = h]
  <2>. DEFINE h == [session.handlerRequests[i] EXCEPT !.expired = TRUE]
  <2>1. session' = [session EXCEPT !.handlerRequests[i] = h]
    BY <1>5 DEF QueuedTimeout
  <2>2. session.handlerRequests[i] \in InitHandlers /\ i \in DOMAIN session.handlerRequests
    BY <1>1, <1>5 DEF QueuedTimeout
  <2>3. Clocked(session.handlerRequests, i, h)
    BY <1>2, <2>2 DEF Clocked
  <2>. QED
    BY <2>1, <2>3
<1>6. ASSUME NEW i \in Places, RenewalDue(i)
      PROVE  /\ renewals' \in 0..MaxRenewals
             /\ \E h : /\ Clocked(session.stateHandlers, i, h)
                       /\ session' = [session EXCEPT !.stateHandlers[i] = h]
  <2>. DEFINE h == [session.stateHandlers[i] EXCEPT !.authDue = TRUE]
  <2>1. session' = [session EXCEPT !.stateHandlers[i] = h]
    BY <1>6 DEF RenewalDue
  <2>2. session.stateHandlers[i] \in InitHandlers /\ i \in DOMAIN session.stateHandlers
    BY <1>1, <1>6 DEF RenewalDue
  <2>3. Clocked(session.stateHandlers, i, h)
    BY <1>2, <2>2 DEF Clocked
  <2>4. renewals' \in 0..MaxRenewals
    BY <1>1, <1>6, BoundsAssumption DEF RenewalDue
  <2>. QED
    BY <2>1, <2>3, <2>4
<1>7. ASSUME NEW i \in Places, RenewalTimeout(i)
      PROVE  \E h : /\ Clocked(session.stateHandlers, i, h)
                    /\ session' = [session EXCEPT !.stateHandlers[i] = h]
  <2>. DEFINE h == [session.stateHandlers[i] EXCEPT !.worker.expired = TRUE]
  <2>1. session' = [session EXCEPT !.stateHandlers[i] = h]
    BY <1>7 DEF RenewalTimeout
  <2>2. session.stateHandlers[i] \in InitHandlers /\ i \in DOMAIN session.stateHandlers
    BY <1>1, <1>7 DEF RenewalTimeout
  <2>3. Clocked(session.stateHandlers, i, h)
    BY <1>2, <2>2 DEF Clocked
  <2>. QED
    BY <2>1, <2>3
<1>8. ASSUME NEW i \in Places,
             StateTimeout(i) \/ QueuedTimeout(i) \/ RenewalTimeout(i)
      PROVE  /\ UNCHANGED <<app, stop, opened, pc, fConnected, initStateType, polled,
                            inService, forcedClose, opens, losses, failures, late, renewals>>
             /\ QueuedTimeout(i) => pc = "connect"
  BY <1>8 DEF StateTimeout, QueuedTimeout, RenewalTimeout
<1>9. ASSUME NEW i \in Places, RenewalDue(i)
      PROVE  UNCHANGED <<app, stop, opened, pc, fConnected, initStateType, polled,
                         inService, forcedClose, opens, losses, failures, late>>
  BY <1>9 DEF RenewalDue
<1>10. ASSUME NEW i \in Places, StateTimeout(i) \/ RenewalTimeout(i)
       PROVE  \E h : /\ Clocked(session.stateHandlers, i, h)
                     /\ session' = [session EXCEPT !.stateHandlers[i] = h]
  BY <1>4, <1>7, <1>10
<1>. QED
  <2>1. CASE ShutdownLate
    BY <1>1, <2>1 DEF ShutdownLate
  <2>2. CASE \E i \in Places : StateTimeout(i) \/ RenewalTimeout(i)
    BY <1>1, <1>8, <1>10, <2>2
  <2>3. CASE \E i \in Places : QueuedTimeout(i)
    BY <1>1, <1>5, <1>8, <2>3
  <2>4. CASE \E i \in Places : RenewalDue(i)
    BY <1>1, <1>6, <1>9, <2>4
  <2>. QED
    BY <2>1, <2>2, <2>3, <2>4 DEF TimeStep

LEMMA TimeStepType ==
    ASSUME TypeOK, TimeStep
    PROVE  TypeOK'
<1>1. session \in Sessions /\ session.stateHandlers \in Seq(InitHandlers)
      /\ session.handlerRequests \in Seq(InitHandlers)
  BY DEF TypeOK, Sessions
<1>2. ASSUME NEW i, NEW h, Clocked(session.stateHandlers, i, h)
      PROVE  [session EXCEPT !.stateHandlers[i] = h] \in Sessions
  <2>1. [session.stateHandlers EXCEPT ![i] = h] \in Seq(InitHandlers)
    BY <1>1, <1>2 DEF Clocked
  <2>. QED
    BY <1>1, <2>1 DEF Sessions
<1>3. ASSUME NEW i, NEW h, Clocked(session.handlerRequests, i, h)
      PROVE  [session EXCEPT !.handlerRequests[i] = h] \in Sessions
  <2>1. [session.handlerRequests EXCEPT ![i] = h] \in Seq(InitHandlers)
    BY <1>1, <1>3 DEF Clocked
  <2>. QED
    BY <1>1, <2>1 DEF Sessions
<1>4. session' \in Sessions
  <2>1. CASE UNCHANGED session
    BY <1>1, <2>1
  <2>2. ASSUME NEW i, NEW h, Clocked(session.stateHandlers, i, h),
               session' = [session EXCEPT !.stateHandlers[i] = h]
        PROVE  session' \in Sessions
    <3>1. [session EXCEPT !.stateHandlers[i] = h] \in Sessions
      BY <1>2, <2>2
    <3>. QED
      BY <2>2, <3>1
  <2>3. ASSUME NEW i, NEW h, Clocked(session.handlerRequests, i, h),
               session' = [session EXCEPT !.handlerRequests[i] = h]
        PROVE  session' \in Sessions
    <3>1. [session EXCEPT !.handlerRequests[i] = h] \in Sessions
      BY <1>3, <2>3
    <3>. QED
      BY <2>3, <3>1
  <2>. QED
    BY <2>1, <2>2, <2>3, TimeStepIs
<1>5. pc = "none" => UNCHANGED session
  <2>. SUFFICES ASSUME pc = "none" PROVE UNCHANGED session
    OBVIOUS
  <2>1. session.stateHandlers = <<>>
    BY DEF TypeOK, NewSession
  <2>2. ~ \E i, h : Clocked(session.stateHandlers, i, h)
    BY <2>1 DEF Clocked
  <2>. QED
    BY <2>2, TimeStepIs
<1>. QED
  BY <1>4, <1>5, TimeStepIs DEF TypeOK

\* What the type invariant needs of a step.
LEMMA TypeNext == TypeOK /\ [Next]_vars => TypeOK'
<1>. SUFFICES ASSUME TypeOK, [Next]_vars PROVE TypeOK'
  OBVIOUS
<1>1. CASE UNCHANGED vars
  BY <1>1 DEF vars, deviceVars, threadVars, tapiVars, bounded, TypeOK
<1>2. CASE TapiStep
  BY <1>2, TapiStepType
<1>3. CASE ThreadStep
  BY <1>3, ThreadStepType
<1>4. ASSUME NEW r \in Receipts, NEW machines \in BOOLEAN, PollTurn(r, machines)
      PROVE  TypeOK'
  BY <1>4, PollTurnType
<1>5. CASE TimeStep
  BY <1>5, TimeStepType
<1>. QED
  BY <1>1, <1>2, <1>3, <1>4, <1>5 DEF Next

LEMMA TypeInit == Init => TypeOK
<1>. SUFFICES ASSUME Init PROVE TypeOK
  OBVIOUS
<1>1. session \in Sessions
  BY NewSessionType DEF Init
<1>2. /\ 0 \in 0..MaxOpens /\ 0 \in 0..MaxLosses
      /\ 0 \in 0..MaxFailures /\ 0 \in 0..MaxRenewals
  BY BoundsAssumption
<1>. QED
  BY <1>1, <1>2 DEF Init, TypeOK, ThreadPlaces, InitStatesTypes

(* Every variable keeps its type; there is a session exactly as long as the *)
(* connection thread runs, and a shutdown only when the device is to stop.  *)
THEOREM TypeCorrect == Spec => []TypeOK
  BY TypeInit, TypeNext, PTL DEF Spec

-----------------------------------------------------------------------------
(* That the thread is connected when it believes so: ConnectedIsReal.       *)

Sound(s) == Calm(s) /\ OkIsReal(s)

(* ConnectedIsReal is not inductive by itself: that the last state says OK  *)
(* must follow from what each place of the thread knows of the session.     *)
RealInv ==
    /\ pc \notin {"shut", "shutPoll"} => Sound(session)
    /\ pc \in {"connect", "init", "initPoll", "lostWait", "retryWait"} => ~fConnected
    /\ pc \in {"connect", "init", "lostWait", "retryWait"} =>
           session.lastInitState # "OK"
    /\ pc = "connect" => session.link = "none" /\ session.stateHandlers = <<>>
    /\ pc = "top" => (fConnected <=> session.lastInitState = "OK")
    /\ pc \in {"top", "runPoll"} /\ fConnected => initStateType = "OK"
    /\ pc = "runPoll" =>
           /\ fConnected /\ Established(session)
           /\ \/ session.lastInitState = "OK"
              \/ session.lastInitState = "Disconnected" /\ session.initEvents # {}

LEMMA NewIsSound == Sound(NewSession) /\ NewSession.lastInitState # "OK"
  BY DEF NewSession, Sound, Calm, OkIsReal, NoneAdvanced

LEMMA StartIsSound ==
    ASSUME NEW s \in Sessions, Calm(s), s.lastInitState # "OK"
    PROVE  LET t == Start(s) IN
           /\ Sound(t) /\ t.lastInitState # "OK"
           /\ t.link = "none" /\ t.stateHandlers = <<>>
<1>. DEFINE t == Start(s)
<1>1. /\ t.stateHandlers = <<>> /\ t.link = "none" /\ ~t.shutdownQueued
      /\ t.lastInitState = s.lastInitState
      /\ t.handlerRequests = Append(s.handlerRequests, NewHandler)
  BY DEF Start, Sessions, Calm
<1>2. s.handlerRequests \in Seq(InitHandlers)
  BY DEF Sessions
<1>3. NewHandler.state = "PreLogin"
  BY DEF NewHandler, NoHandler
<1>4. \A i \in DOMAIN t.handlerRequests : t.handlerRequests[i].state = "PreLogin"
  <2>. SUFFICES ASSUME NEW i \in DOMAIN t.handlerRequests
                PROVE  t.handlerRequests[i].state = "PreLogin"
    OBVIOUS
  <2>1. CASE i \in DOMAIN s.handlerRequests
    <3>1. t.handlerRequests[i] = s.handlerRequests[i]
      BY <1>1, <1>2, <2>1
    <3>. QED
      BY <2>1, <3>1 DEF Calm
  <2>2. CASE i \notin DOMAIN s.handlerRequests
    <3>1. t.handlerRequests[i] = NewHandler
      BY <1>1, <1>2, <2>2
    <3>. QED
      BY <1>3, <3>1
  <2>. QED
    BY <2>1, <2>2
<1>. HIDE DEF t
<1>5. DOMAIN t.stateHandlers = {}
  BY <1>1
<1>6. Calm(t)
  BY <1>1, <1>4, <1>5 DEF Calm, NoneAdvanced
<1>7. OkIsReal(t)
  BY <1>1 DEF OkIsReal
<1>. QED
  BY <1>1, <1>6, <1>7 DEF t, Sound

\* Cleanup leaves no handler.
LEMMA CleanupIsSound ==
    ASSUME NEW s \in Sessions, Calm(s), s.lastInitState # "OK"
    PROVE  Sound(Cleanup(s)) /\ Cleanup(s).lastInitState # "OK"
<1>1. LET t == Cleanup(s) IN
      /\ t.stateHandlers = <<>> /\ t.link = "none"
      /\ t.shutdownQueued = s.shutdownQueued
      /\ t.lastInitState = s.lastInitState /\ t.handlerRequests = s.handlerRequests
  BY DEF Cleanup, Sessions
<1>. QED
  BY <1>1 DEF Sound, Calm, OkIsReal, NoneAdvanced

\* Sessions that differ in what their handlers' states do not show.
SameStates(s, t) ==
    /\ t.link = s.link /\ t.lastInitState = s.lastInitState
    /\ t.shutdownQueued = s.shutdownQueued
    /\ DOMAIN t.stateHandlers = DOMAIN s.stateHandlers
    /\ DOMAIN t.handlerRequests = DOMAIN s.handlerRequests
    /\ \A i \in DOMAIN s.stateHandlers :
          t.stateHandlers[i].state = s.stateHandlers[i].state
    /\ \A i \in DOMAIN s.handlerRequests :
          t.handlerRequests[i].state = s.handlerRequests[i].state

LEMMA SameIsSound ==
    ASSUME NEW s \in Sessions, NEW t, SameStates(s, t)
    PROVE  (Sound(s) => Sound(t)) /\ (Established(s) => Established(t))
<1>1. Calm(s) => Calm(t)
  BY DEF SameStates, Calm, NoneAdvanced
<1>2. OkIsReal(s) => OkIsReal(t)
  BY DEF SameStates, OkIsReal
<1>3. Established(s) => Established(t)
  <2>. SUFFICES ASSUME Established(s) PROVE Established(t)
    OBVIOUS
  <2>1. s.stateHandlers \in Seq(InitHandlers)
    BY DEF Sessions
  <2>2. 1 \in DOMAIN s.stateHandlers
    BY <2>1 DEF Established
  <2>3. t.stateHandlers # <<>>
    BY <2>2 DEF SameStates
  <2>. QED
    BY <2>2, <2>3 DEF SameStates, Established
<1>. QED
  BY <1>1, <1>2, <1>3 DEF Sound

\* Fetching the notifications changes no handler.
LEMMA FetchedIs ==
    ASSUME NEW s \in Sessions
    PROVE  LET t == [s EXCEPT !.initEvents = {}] IN
           t \in Sessions /\ SameStates(s, t)
  BY DEF Sessions, SameStates

\* A connection whose last state is OK has its login behind it.
LEMMA OkIsEstablished ==
    ASSUME NEW s \in Sessions, Sound(s), s.lastInitState = "OK"
    PROVE  Established(s)
<1>1. s.link = "up"
  BY DEF Sound, OkIsReal
<1>2. PICK i \in DOMAIN s.stateHandlers : s.stateHandlers[i].state = "OK"
  BY DEF Sound, OkIsReal
<1>3. s.stateHandlers \in Seq(InitHandlers)
  BY DEF Sessions
<1>4. i \in Nat /\ 1 <= i /\ 1 \in DOMAIN s.stateHandlers /\ s.stateHandlers # <<>>
  BY <1>2, <1>3
<1>5. \A j \in DOMAIN s.stateHandlers \ {i} :
          /\ s.stateHandlers[j].state \in Beginning
          /\ j < i => s.stateHandlers[j].state # "PreLogin"
  BY <1>2 DEF Sound, Calm, Advanced
<1>6. s.stateHandlers[1].state # "PreLogin"
  BY <1>2, <1>4, <1>5
<1>7. ASSUME NEW j \in DOMAIN s.stateHandlers
      PROVE  s.stateHandlers[j].state \notin {"Authorizing", "EnablingCallEvents"}
  BY <1>2, <1>5, <1>7 DEF Beginning
<1>. QED
  BY <1>1, <1>4, <1>6, <1>7 DEF Established

\* What a turn of the loop makes of a session.
LEMMA TurnIsSound ==
    ASSUME session \in Sessions, Sound(session), NEW r \in Receipts,
           NEW machines \in BOOLEAN, CanReceive(Polled(machines), r)
    PROVE  LET s == Polled(machines)
               t == Receive(s, r)
           IN  /\ s \in Sessions /\ t \in Sessions /\ Sound(t)
               /\ ReceiveFails(s, r) => t.lastInitState # "OK"
               /\ Established(session) =>
                      /\ Established(t)
                      /\ \/ /\ t.lastInitState = session.lastInitState
                            /\ t.initEvents = session.initEvents
                         \/ t.lastInitState = "Disconnected" /\ t.initEvents # {}
<1>. DEFINE s == Polled(machines)
            t == Receive(s, r)
<1>1. s \in Sessions /\ Calm(s) /\ OkIsReal(s)
  BY PollKeepsCalm, PollStateHandlersType DEF Polled, Sound
<1>2. Established(session) => Established(s) /\ LostOrSame(session, s)
  BY PollKeepsEstablished DEF Polled, Sound, LostOrSame
<1>. HIDE DEF s
<1>3. CanReceive(s, r)
  BY DEF s
<1>4. Calm(t) /\ OkIsReal(t) /\ (ReceiveFails(s, r) => t.link = "down")
  BY <1>1, <1>3, ReceiveKeepsCalm
<1>5. t \in Sessions
  BY <1>1, ReceiveType
<1>6. Established(s) => Established(t) /\ LostOrSame(s, t)
  BY <1>1, <1>3, ReceiveKeepsEstablished
<1>. HIDE DEF t
<1>7. ReceiveFails(s, r) => t.lastInitState # "OK"
  BY <1>4 DEF OkIsReal
<1>. QED
  BY <1>1, <1>2, <1>4, <1>5, <1>6, <1>7 DEF Sound, LostOrSame, s, t

LEMMA InitFailsKeepsReal ==
    ASSUME TypeOK, ~fConnected, NEW stateType, NEW s, InitFails(stateType, s),
           Sound(s), s.lastInitState # "OK"
    PROVE  RealInv'
<1>1. CASE ~opened
  BY <1>1, NewIsSound DEF InitFails, ThreadEnds, RealInv
<1>2. CASE opened
  BY <1>2 DEF InitFails, RealInv
<1>. QED
  BY <1>1, <1>2

LEMMA TapiStepKeepsReal ==
    ASSUME TypeOK, RealInv, TapiStep
    PROVE  RealInv'
<1>. USE DEF threadVars
<1>1. CASE OpenDevice
  BY <1>1, NewSessionType, NewIsSound, StartIsSound DEF OpenDevice, RealInv, Sound
<1>2. CASE OpenReturns
  BY <1>2 DEF OpenReturns, RealInv
<1>3. CASE KillThreads
  BY <1>3 DEF KillThreads, RealInv
<1>4. CASE ThreadsKilled
  BY <1>4 DEF ThreadsKilled, RealInv
<1>. QED
  BY <1>1, <1>2, <1>3, <1>4 DEF TapiStep

\* The login's poll is over: what the last state says decides.
LEMMA InitPollOverKeepsReal ==
    ASSUME TypeOK, RealInv, InitPollOver
    PROVE  RealInv'
<1>. DEFINE stateType == GetInitStatesType(session.lastInitState)
<1>1. /\ session \in Sessions /\ pc = "initPoll"
      /\ Sound(session) /\ ~fConnected
  BY DEF TypeOK, InitPollOver, PollOver, RealInv
<1>2. stateType = "OK" <=> session.lastInitState = "OK"
  <2>1. session.lastInitState \notin {"ShuttingDown", "ShutDown"}
    BY <1>1 DEF Sound, Calm
  <2>. QED
    BY <2>1 DEF GetInitStatesType
<1>. HIDE DEF stateType
<1>3. \/ stateType \in {"DISCONNECTED", "FATAL"} /\ InitFails(stateType, session)
      \/ stateType = "OK" /\ InitSucceeds
      \/ /\ stateType # "OK"
         /\ pc' = "init" /\ UNCHANGED <<fConnected, session>>
  BY DEF InitPollOver, stateType
<1>4. CASE stateType \in {"DISCONNECTED", "FATAL"} /\ InitFails(stateType, session)
  BY <1>1, <1>2, <1>4, InitFailsKeepsReal
<1>5. CASE stateType = "OK" /\ InitSucceeds
  <2>1. Established(session) /\ session.lastInitState = "OK"
    BY <1>1, <1>2, <1>5, OkIsEstablished
  <2>2. /\ initStateType' = "OK" /\ fConnected' = TRUE
        /\ session' = [session EXCEPT !.initEvents = {}]
        /\ pc' \in {"top", "runPoll"}
    BY <1>5 DEF InitSucceeds
  <2>3. Sound(session') /\ Established(session') /\ session'.lastInitState = "OK"
    BY <1>1, <2>1, <2>2, FetchedIs, SameIsSound DEF SameStates
  <2>. QED
    BY <2>2, <2>3 DEF RealInv
<1>6. CASE stateType # "OK" /\ pc' = "init" /\ UNCHANGED <<fConnected, session>>
  BY <1>1, <1>2, <1>6 DEF RealInv
<1>. QED
  BY <1>3, <1>4, <1>5, <1>6

\* The notifications that are fetched are of a loss, or of nothing.
LEMMA RunPollOverKeepsReal ==
    ASSUME TypeOK, RealInv, RunPollOver
    PROVE  RealInv'
<1>. DEFINE fetched   == [session EXCEPT !.initEvents = {}]
            stateType == GetInitStatesType(session.lastInitState)
<1>1. /\ session \in Sessions /\ pc = "runPoll" /\ pc' = "top"
      /\ Sound(session) /\ fConnected /\ initStateType = "OK"
      /\ \/ session.lastInitState = "OK"
         \/ session.lastInitState = "Disconnected" /\ session.initEvents # {}
  BY DEF TypeOK, RunPollOver, PollOver, RealInv
<1>2. CASE session.initEvents = {}
  <2>1. UNCHANGED <<fConnected, initStateType, session>> /\ session.lastInitState = "OK"
    BY <1>1, <1>2 DEF RunPollOver, tapiVars
  <2>. QED
    BY <1>1, <2>1 DEF RealInv
<1>3. CASE session.initEvents # {}
  <2>1. HandleInitEvents
    BY <1>3 DEF RunPollOver
  <2>2. fetched \in Sessions /\ Sound(fetched)
        /\ fetched.lastInitState = session.lastInitState
    BY <1>1, FetchedIs, SameIsSound DEF SameStates
  <2>. HIDE DEF fetched
  <2>3. CASE session.lastInitState = "OK"
    <3>1. stateType = "OK"
      BY <2>3 DEF GetInitStatesType
    <3>2. initStateType' = "OK" /\ UNCHANGED fConnected /\ session' = fetched
      BY <1>1, <2>1, <3>1 DEF HandleInitEvents, fetched
    <3>. QED
      BY <1>1, <2>2, <2>3, <3>2 DEF RealInv
  <2>4. CASE session.lastInitState = "Disconnected"
    <3>1. stateType = "DISCONNECTED"
      BY <2>4 DEF GetInitStatesType
    <3>2. fConnected' = FALSE /\ session' = Cleanup(fetched)
      BY <1>1, <2>1, <3>1 DEF HandleInitEvents, fetched
    <3>3. Sound(session') /\ session'.lastInitState # "OK"
      BY <2>2, <2>4, <3>2, CleanupIsSound DEF Sound
    <3>. QED
      BY <1>1, <3>2, <3>3 DEF RealInv
  <2>. QED
    BY <1>1, <2>3, <2>4
<1>. QED
  BY <1>2, <1>3

LEMMA ThreadStepKeepsReal ==
    ASSUME TypeOK, RealInv, ThreadStep
    PROVE  RealInv'
<1>1. session \in Sessions
  BY DEF TypeOK
<1>2. CASE ConnectFails
  <2>1. pc = "connect" /\ InitFails("DISCONNECTED", session)
    BY <1>2 DEF ConnectFails
  <2>. QED
    BY <2>1, InitFailsKeepsReal DEF RealInv
<1>3. CASE ConnectSucceeds
  <2>1. /\ pc = "connect" /\ pc' = "init" /\ UNCHANGED fConnected
        /\ session' = [session EXCEPT !.link = "login"]
    BY <1>3 DEF ConnectSucceeds
  <2>2. /\ session.stateHandlers = <<>> /\ Sound(session)
        /\ session.lastInitState # "OK" /\ ~fConnected
    BY <2>1 DEF RealInv
  <2>3. /\ session'.stateHandlers = <<>> /\ session'.link = "login"
        /\ session'.lastInitState = session.lastInitState
        /\ session'.shutdownQueued = session.shutdownQueued
        /\ session'.handlerRequests = session.handlerRequests
    BY <1>1, <2>1, <2>2 DEF Sessions
  <2>4. Sound(session')
    BY <2>2, <2>3 DEF Sound, Calm, OkIsReal, NoneAdvanced
  <2>. QED
    BY <2>1, <2>2, <2>3, <2>4 DEF RealInv
<1>4. CASE InitHead
  <2>1. CASE stop
    <3>1. pc = "init" /\ InitFails("FATAL", session)
      BY <1>4, <2>1 DEF InitHead
    <3>. QED
      BY <3>1, InitFailsKeepsReal DEF RealInv
  <2>2. CASE ~stop
    BY <1>4, <2>2 DEF InitHead, BeginPoll, RealInv
  <2>. QED
    BY <2>1, <2>2
<1>5. CASE InitPollOver
  BY <1>5, InitPollOverKeepsReal
<1>6. CASE RetryWaitOver
  <2>1. CASE stop
    BY <1>6, <2>1 DEF RetryWaitOver, RealInv
  <2>2. CASE ~stop
    <3>. DEFINE overdue == [i \in DOMAIN session.handlerRequests |->
                              [session.handlerRequests[i] EXCEPT !.expired = TRUE]]
                s == [session EXCEPT !.handlerRequests = overdue]
    <3>1. /\ pc = "retryWait" /\ pc' = "connect" /\ session' = Start(s)
          /\ UNCHANGED fConnected
      BY <1>6, <2>2 DEF RetryWaitOver
    <3>2. /\ overdue \in Seq(InitHandlers)
          /\ DOMAIN overdue = DOMAIN session.handlerRequests
          /\ \A i \in DOMAIN session.handlerRequests :
                overdue[i].state = session.handlerRequests[i].state
      BY <1>1, OverdueIs
    <3>. HIDE DEF overdue
    <3>5. s \in Sessions /\ SameStates(session, s)
      BY <1>1, <3>2 DEF Sessions, SameStates
    <3>. HIDE DEF s
    <3>6. Calm(s) /\ s.lastInitState # "OK" /\ ~fConnected
      BY <1>1, <3>1, <3>5, SameIsSound DEF RealInv, Sound, SameStates
    <3>. QED
      BY <3>1, <3>5, <3>6, StartIsSound DEF RealInv
  <2>. QED
    BY <2>1, <2>2
<1>7. CASE Top
  <2>1. pc = "top" /\ Sound(session)
        /\ (fConnected <=> session.lastInitState = "OK")
        /\ (fConnected => initStateType = "OK") /\ UNCHANGED initStateType
    BY <1>7 DEF Top, RealInv
  <2>2. CASE stop /\ fConnected
    BY <1>7, <2>2 DEF Top, RealInv
  <2>3. CASE stop /\ ~fConnected
    <3>1. ThreadEnds
      BY <1>7, <2>3 DEF Top
    <3>. QED
      BY <3>1, NewIsSound DEF ThreadEnds, RealInv
  <2>4. CASE ~stop /\ fConnected
    <3>1. pc' = "runPoll" /\ UNCHANGED <<fConnected, session>>
      BY <1>7, <2>4 DEF Top, BeginPoll
    <3>. QED
      BY <1>1, <2>1, <2>4, <3>1, OkIsEstablished DEF RealInv
  <2>5. CASE ~stop /\ ~fConnected
    <3>1. pc' = "connect" /\ session' = Start(session) /\ UNCHANGED fConnected
      BY <1>7, <2>5 DEF Top, Connect
    <3>. QED
      BY <1>1, <2>1, <2>5, <3>1, StartIsSound DEF RealInv, Sound
  <2>. QED
    BY <2>2, <2>3, <2>4, <2>5 DEF TypeOK
<1>8. CASE RunPollOver
  BY <1>8, RunPollOverKeepsReal
<1>9. CASE LostWaitOver
  BY <1>9, NewIsSound DEF LostWaitOver, ThreadEnds, RealInv
<1>10. CASE ShutHead
  BY <1>10 DEF ShutHead, BeginPoll, RealInv
<1>11. CASE ShutPollOver
  BY <1>11, NewIsSound DEF ShutPollOver, ThreadEnds, RealInv
<1>. QED
  BY <1>2, <1>3, <1>4, <1>5, <1>6, <1>7, <1>8, <1>9, <1>10, <1>11 DEF ThreadStep

LEMMA PollTurnKeepsReal ==
    ASSUME TypeOK, RealInv, NEW r \in Receipts, NEW machines \in BOOLEAN,
           PollTurn(r, machines)
    PROVE  RealInv'
<1>. DEFINE s == Polled(machines)
            t == Receive(s, r)
<1>1. CASE InitTurn(r, machines)
  <2>1. pc = "initPoll" /\ CanReceive(s, r)
    BY <1>1 DEF InitTurn, Turn
  <2>2. Sound(session) /\ ~fConnected /\ session \in Sessions
    BY <2>1 DEF RealInv, TypeOK
  <2>3. Sound(t) /\ (ReceiveFails(s, r) => t.lastInitState # "OK")
    BY <2>1, <2>2, TurnIsSound
  <2>4. \/ ReceiveFails(s, r) /\ InitFails("DISCONNECTED", t)
        \/ session' = t /\ UNCHANGED <<pc, fConnected>>
    BY <1>1 DEF InitTurn
  <2>. HIDE DEF s, t
  <2>. QED
    BY <2>1, <2>2, <2>3, <2>4, InitFailsKeepsReal DEF RealInv
<1>2. CASE RunTurn(r, machines)
  <2>1. pc = "runPoll" /\ CanReceive(s, r)
    BY <1>2 DEF RunTurn, Turn
  <2>2. /\ Sound(session) /\ fConnected /\ session \in Sessions
        /\ Established(session) /\ initStateType = "OK"
        /\ \/ session.lastInitState = "OK"
           \/ session.lastInitState = "Disconnected" /\ session.initEvents # {}
    BY <2>1 DEF RealInv, TypeOK
  <2>3. /\ Sound(t) /\ (ReceiveFails(s, r) => t.lastInitState # "OK")
        /\ Established(t)
        /\ \/ t.lastInitState = session.lastInitState /\ t.initEvents = session.initEvents
           \/ t.lastInitState = "Disconnected" /\ t.initEvents # {}
    BY <2>1, <2>2, TurnIsSound
  <2>4. /\ session' = t /\ UNCHANGED initStateType
        /\ \/ ReceiveFails(s, r) /\ pc' = "lostWait" /\ fConnected' = FALSE
           \/ UNCHANGED <<pc, fConnected>>
    BY <1>2 DEF RunTurn
  <2>. HIDE DEF s, t
  <2>. QED
    BY <2>1, <2>2, <2>3, <2>4 DEF RealInv
<1>3. CASE ShutTurn(r, machines)
  BY <1>3, NewIsSound DEF ShutTurn, Turn, ThreadEnds, RealInv
<1>. QED
  BY <1>1, <1>2, <1>3 DEF PollTurn

LEMMA TimeStepKeepsReal ==
    ASSUME TypeOK, RealInv, TimeStep
    PROVE  RealInv'
<1>1. /\ session \in Sessions
      /\ session.stateHandlers \in Seq(InitHandlers)
      /\ session.handlerRequests \in Seq(InitHandlers)
  BY DEF TypeOK, Sessions
<1>2. UNCHANGED <<pc, fConnected, initStateType>>
  BY TimeStepIs
<1>3. CASE UNCHANGED session
  BY <1>2, <1>3 DEF RealInv
<1>4. ASSUME SameStates(session, session'), session'.initEvents = session.initEvents,
             pc = "connect" => session'.stateHandlers = session.stateHandlers
      PROVE  RealInv'
  <2>1. /\ Sound(session) => Sound(session')
        /\ Established(session) => Established(session')
    BY <1>1, <1>4, SameIsSound
  <2>. QED
    BY <1>2, <1>4, <2>1 DEF RealInv, SameStates
<1>5. ASSUME NEW i, NEW h, Clocked(session.stateHandlers, i, h),
             session' = [session EXCEPT !.stateHandlers[i] = h]
      PROVE  RealInv'
  <2>1. SameStates(session, session') /\ session'.initEvents = session.initEvents
    BY <1>1, <1>5 DEF Clocked, SameStates, Sessions
  <2>2. pc # "connect"
    BY <1>5 DEF RealInv, Clocked
  <2>. QED
    BY <1>4, <2>1, <2>2
<1>6. ASSUME NEW i, NEW h, Clocked(session.handlerRequests, i, h),
             session' = [session EXCEPT !.handlerRequests[i] = h]
      PROVE  RealInv'
  <2>1. /\ SameStates(session, session') /\ session'.initEvents = session.initEvents
        /\ session'.stateHandlers = session.stateHandlers
    BY <1>1, <1>6 DEF Clocked, SameStates, Sessions
  <2>. QED
    BY <1>4, <2>1
<1>. QED
  BY <1>3, <1>5, <1>6, TimeStepIs

\* The three facts that make RealInv an invariant that implies ConnectedIsReal.
LEMMA RealInit == Init => RealInv
  BY NewIsSound DEF Init, RealInv

LEMMA RealNext == TypeOK /\ RealInv /\ [Next]_vars => RealInv'
<1>. SUFFICES ASSUME TypeOK, RealInv, [Next]_vars PROVE RealInv'
  OBVIOUS
<1>1. CASE UNCHANGED vars
  BY <1>1 DEF vars, threadVars, RealInv
<1>2. CASE TapiStep
  BY <1>2, TapiStepKeepsReal
<1>3. CASE ThreadStep
  BY <1>3, ThreadStepKeepsReal
<1>4. ASSUME NEW r \in Receipts, NEW machines \in BOOLEAN, PollTurn(r, machines)
      PROVE  RealInv'
  BY <1>4, PollTurnKeepsReal
<1>5. CASE TimeStep
  BY <1>5, TimeStepKeepsReal
<1>. QED
  BY <1>1, <1>2, <1>3, <1>4, <1>5 DEF Next

LEMMA RealImplies == RealInv => ConnectedIsReal
  BY DEF RealInv, Sound, OkIsReal, ConnectedIsReal

(* When the thread goes to its next Poll or to a shutdown believing that it *)
(* is connected, the link is up, a handler is in its state OK and both      *)
(* records of the state say so (AsyncPolling, InitOnSipTapi and             *)
(* _handleInitStateEvents together miss no loss).                           *)
THEOREM ConnectionIsReal == Spec => []ConnectedIsReal
<1>1. Init => TypeOK /\ RealInv
  BY TypeInit, RealInit
<1>2. TypeOK /\ RealInv /\ [Next]_vars => (TypeOK /\ RealInv)'
  BY TypeNext, RealNext
<1>. QED
  BY <1>1, <1>2, RealImplies, PTL DEF Spec

-----------------------------------------------------------------------------
(* The device keeps the promises of DeviceView.                             *)

Promised == [Device!DeviceNext]_(Device!deviceViewVars)

\* A step that changes none of what TAPI sees.
LEMMA UnseenStep ==
    ASSUME UNCHANGED <<app, stop, opened, pc, fConnected, inService>>
    PROVE  Promised
  BY DEF Promised, Device!deviceViewVars, connection

\* A step that takes the thread from one place to another, and no more.
LEMMA ThreadGoesOn ==
    ASSUME UNCHANGED <<app, stop, opened, fConnected, inService>>,
           pc # "none", pc' # "none"
    PROVE  Promised
  BY DEF Promised, Device!deviceViewVars, connection

\* The thread ends, where it may.
LEMMA ThreadEndsPromised ==
    ASSUME UNCHANGED <<app, stop, opened, inService>>, ThreadEnds, pc # "none",
           TypeOK, stop \/ (~fConnected /\ ~opened)
    PROVE  Promised
<1>1. connection \in {"trying", "up"} /\ connection' = "none"
      /\ (connection = "up" => fConnected)
  BY DEF ThreadEnds, connection, TypeOK
<1>2. Device!ThreadGone
  BY <1>1 DEF Device!ThreadGone
<1>. QED
  BY <1>2 DEF Promised, Device!DeviceNext

\* The thread loses its connection and says so.
LEMMA LossPromised ==
    ASSUME UNCHANGED <<app, stop, opened>>, pc # "none", pc' # "none",
           fConnected, fConnected' = FALSE, inService' = FALSE
    PROVE  Promised
<1>1. connection = "up" /\ connection' = "trying"
  BY DEF connection
<1>2. Device!ConnectionLost
  BY <1>1 DEF Device!ConnectionLost
<1>. QED
  BY <1>2 DEF Promised, Device!DeviceNext

LEMMA InitFailsPromised ==
    ASSUME TypeOK, RealInv, pc \in {"connect", "init", "initPoll"},
           NEW stateType, NEW s, InitFails(stateType, s)
    PROVE  Promised
<1>1. ~fConnected /\ pc # "none" /\ UNCHANGED <<app, stop, opened, inService>>
  BY DEF RealInv, InitFails, deviceVars
<1>2. CASE ~opened
  BY <1>1, <1>2, ThreadEndsPromised DEF InitFails
<1>3. CASE opened
  <2>1. pc' = "retryWait" /\ UNCHANGED fConnected
    BY <1>3 DEF InitFails
  <2>. QED
    BY <1>1, <2>1, ThreadGoesOn
<1>. QED
  BY <1>2, <1>3

LEMMA InitSucceedsPromised ==
    ASSUME TypeOK, RealInv, pc = "initPoll", InitSucceeds
    PROVE  Promised
<1>1. connection = "trying" /\ connection' = "up" /\ opened' = TRUE
      /\ UNCHANGED <<app, stop>>
  BY DEF RealInv, InitSucceeds, connection
<1>2. inService' = (inService \/ opened)
  BY DEF InitSucceeds, TypeOK
<1>3. Device!ConnectionMade
  BY <1>1, <1>2 DEF Device!ConnectionMade
<1>. QED
  BY <1>3 DEF Promised, Device!DeviceNext

LEMMA TapiStepPromised ==
    ASSUME TypeOK, RealInv, TapiStep
    PROVE  Promised
<1>. USE DEF threadVars, tapiVars
<1>1. CASE OpenDevice
  <2>1. Device!Open
    BY <1>1 DEF OpenDevice, Device!Open, connection
  <2>. QED
    BY <2>1 DEF Promised, Device!DeviceNext
<1>2. CASE OpenReturns
  <2>1. UNCHANGED <<stop, opened, connection, inService>> /\ app = "opening"
    BY <1>2 DEF OpenReturns, connection
  <2>2. CASE opened
    BY <1>2, <2>1, <2>2 DEF OpenReturns, Promised, Device!DeviceNext, Device!OpenSucceeds
  <2>3. CASE ~opened
    BY <1>2, <2>1, <2>3
       DEF OpenReturns, Promised, Device!DeviceNext, Device!OpenFails, connection
  <2>. QED
    BY <2>2, <2>3
<1>3. CASE KillThreads
  <2>1. Device!Stop
    BY <1>3 DEF KillThreads, Device!Stop, connection, TypeOK
  <2>. QED
    BY <2>1 DEF Promised, Device!DeviceNext
<1>4. CASE ThreadsKilled
  <2>1. Device!Closed
    BY <1>4 DEF ThreadsKilled, Device!Closed, connection, RealInv
  <2>. QED
    BY <2>1 DEF Promised, Device!DeviceNext
<1>. QED
  BY <1>1, <1>2, <1>3, <1>4 DEF TapiStep

(* The notifications of a Poll change the service only when the connection  *)
(* is lost: this needs the invariant of the session.                        *)
LEMMA RunPollOverPromised ==
    ASSUME TypeOK, RealInv, RunPollOver
    PROVE  Promised
<1>. DEFINE stateType == GetInitStatesType(session.lastInitState)
<1>1. /\ pc = "runPoll" /\ pc' = "top" /\ UNCHANGED <<app, stop, opened>>
      /\ fConnected /\ initStateType = "OK"
      /\ session.lastInitState \in {"OK", "Disconnected"}
  BY DEF RunPollOver, PollOver, RealInv, deviceVars
<1>2. CASE session.initEvents = {}
  BY <1>1, <1>2, ThreadGoesOn DEF RunPollOver, tapiVars
<1>3. CASE session.initEvents # {} /\ session.lastInitState = "OK"
  <2>1. HandleInitEvents /\ stateType = "OK"
    BY <1>3 DEF RunPollOver, GetInitStatesType
  <2>2. UNCHANGED <<fConnected, inService>>
    BY <1>1, <2>1 DEF HandleInitEvents
  <2>. QED
    BY <1>1, <2>2, ThreadGoesOn
<1>4. CASE session.initEvents # {} /\ session.lastInitState = "Disconnected"
  <2>1. HandleInitEvents /\ stateType = "DISCONNECTED"
    BY <1>4 DEF RunPollOver, GetInitStatesType
  <2>2. fConnected' = FALSE /\ inService' = FALSE
    BY <1>1, <2>1 DEF HandleInitEvents
  <2>. QED
    BY <1>1, <2>2, LossPromised
<1>. QED
  BY <1>1, <1>2, <1>3, <1>4

LEMMA ThreadStepPromised ==
    ASSUME TypeOK, RealInv, ThreadStep
    PROVE  Promised
<1>. USE DEF deviceVars, tapiVars
<1>1. CASE ConnectFails
  BY <1>1, InitFailsPromised DEF ConnectFails
<1>2. CASE ConnectSucceeds
  BY <1>2, ThreadGoesOn DEF ConnectSucceeds
<1>3. CASE InitHead
  <2>1. CASE stop
    BY <1>3, <2>1, InitFailsPromised DEF InitHead
  <2>2. CASE ~stop
    BY <1>3, <2>2, ThreadGoesOn DEF InitHead, BeginPoll
  <2>. QED
    BY <2>1, <2>2
<1>4. CASE InitPollOver
  <2>. DEFINE stateType == GetInitStatesType(session.lastInitState)
  <2>1. pc = "initPoll"
        /\ \/ stateType \in {"DISCONNECTED", "FATAL"} /\ InitFails(stateType, session)
           \/ InitSucceeds
           \/ pc' = "init" /\ UNCHANGED <<deviceVars, fConnected, tapiVars>>
    BY <1>4 DEF InitPollOver, PollOver
  <2>. HIDE DEF stateType
  <2>. QED
    BY <2>1, InitFailsPromised, InitSucceedsPromised, ThreadGoesOn
<1>5. CASE RetryWaitOver
  <2>1. pc' \in {"top", "connect"} /\ pc = "retryWait"
        /\ UNCHANGED <<deviceVars, fConnected, tapiVars>>
    BY <1>5 DEF RetryWaitOver
  <2>. QED
    BY <2>1, ThreadGoesOn
<1>6. CASE Top
  <2>1. pc = "top" /\ UNCHANGED <<deviceVars, tapiVars>>
    BY <1>6 DEF Top
  <2>2. CASE stop /\ ~fConnected
    <3>1. ThreadEnds
      BY <1>6, <2>2 DEF Top
    <3>. QED
      BY <2>1, <2>2, <3>1, ThreadEndsPromised
  <2>3. CASE ~(stop /\ ~fConnected)
    <3>1. pc' \in {"shut", "runPoll", "connect"} /\ UNCHANGED fConnected
      BY <1>6, <2>3 DEF Top, BeginPoll, Connect
    <3>. QED
      BY <2>1, <3>1, ThreadGoesOn
  <2>. QED
    BY <2>2, <2>3
<1>7. CASE RunPollOver
  BY <1>7, RunPollOverPromised
<1>8. CASE LostWaitOver
  <2>1. CASE stop
    BY <1>8, <2>1, ThreadEndsPromised DEF LostWaitOver
  <2>2. CASE ~stop
    BY <1>8, <2>2, ThreadGoesOn DEF LostWaitOver
  <2>. QED
    BY <2>1, <2>2
<1>9. CASE ShutHead
  BY <1>9, ThreadGoesOn DEF ShutHead, BeginPoll
<1>10. CASE ShutPollOver
  <2>1. pc = "shutPoll" /\ stop /\ UNCHANGED <<deviceVars, tapiVars>>
        /\ (ThreadEnds \/ (pc' = "shut" /\ UNCHANGED fConnected))
    BY <1>10 DEF ShutPollOver, PollOver, TypeOK
  <2>. QED
    BY <2>1, ThreadEndsPromised, ThreadGoesOn
<1>. QED
  BY <1>1, <1>2, <1>3, <1>4, <1>5, <1>6, <1>7, <1>8, <1>9, <1>10 DEF ThreadStep

LEMMA PollTurnPromised ==
    ASSUME TypeOK, RealInv, NEW r \in Receipts, NEW machines \in BOOLEAN,
           PollTurn(r, machines)
    PROVE  Promised
<1>. USE DEF deviceVars, tapiVars
<1>1. CASE InitTurn(r, machines)
  <2>1. pc = "initPoll"
        /\ \/ InitFails("DISCONNECTED", Receive(Polled(machines), r))
           \/ UNCHANGED <<deviceVars, pc, fConnected, tapiVars>>
    BY <1>1 DEF InitTurn, Turn
  <2>. QED
    BY <2>1, InitFailsPromised, UnseenStep
<1>2. CASE RunTurn(r, machines)
  <2>1. pc = "runPoll" /\ fConnected /\ UNCHANGED deviceVars
        /\ \/ pc' = "lostWait" /\ fConnected' = FALSE /\ inService' = FALSE
           \/ UNCHANGED <<pc, fConnected, inService>>
    BY <1>2 DEF RunTurn, Turn, RealInv
  <2>. QED
    BY <2>1, LossPromised, UnseenStep
<1>3. CASE ShutTurn(r, machines)
  <2>1. pc = "shutPoll" /\ stop /\ UNCHANGED <<deviceVars, tapiVars>>
        /\ (ThreadEnds \/ UNCHANGED <<pc, fConnected>>)
    BY <1>3 DEF ShutTurn, Turn, TypeOK
  <2>. QED
    BY <2>1, ThreadEndsPromised, UnseenStep
<1>. QED
  BY <1>1, <1>2, <1>3 DEF PollTurn

LEMMA StepPromised ==
    ASSUME TypeOK, RealInv, [Next]_vars
    PROVE  Promised
<1>1. CASE UNCHANGED vars
  BY <1>1, UnseenStep DEF vars, deviceVars, threadVars, tapiVars
<1>2. ASSUME NEW r \in Receipts, NEW machines \in BOOLEAN, PollTurn(r, machines)
      PROVE  Promised
  BY <1>2, PollTurnPromised
<1>3. CASE TimeStep
  BY <1>3, TimeStepIs, UnseenStep
<1>. QED
  BY <1>1, <1>2, <1>3, TapiStepPromised, ThreadStepPromised DEF Next

(* TAPI sees a device that keeps its promises (OpenDevice, ConnectionThread *)
(* and OnConnect, in every order of losses, failures and closings): it is   *)
(* open only after a connection, its thread ends only when told to, and the *)
(* line changes service with the connection and not otherwise.              *)
THEOREM Implementation == Spec => ImplementsDevice
<1>1. Init => TypeOK /\ RealInv
  BY TypeInit, RealInit
<1>2. TypeOK /\ RealInv /\ [Next]_vars => (TypeOK /\ RealInv)'
  BY TypeNext, RealNext
<1>3. Init => Device!DeviceInit
  BY DEF Init, Device!DeviceInit, connection
<1>4. TypeOK /\ RealInv /\ [Next]_vars => Promised
  BY StepPromised
<1>. QED
  BY <1>1, <1>2, <1>3, <1>4, PTL DEF Spec, ImplementsDevice, Device!DeviceSpec, Promised

-----------------------------------------------------------------------------
(* That the service is true until the device is opened again.               *)

(* FirstServiceIsTrue is not inductive by itself.  The first connection of  *)
(* a thread is not reported (InitOnSipTapi only sets m_hOpenDevice), so the *)
(* line must be in service before it is made: as it is until the device is  *)
(* opened again after an outage.                                            *)
FirstInv ==
    /\ fConnected => opened
    /\ opens = 0 => pc = "none" /\ inService
    /\ opens <= 1 /\ (fConnected \/ ~opened) => inService

LEMMA TapiStepFirst ==
    ASSUME TypeOK, FirstInv, TapiStep
    PROVE  FirstInv'
<1>1. CASE OpenDevice
  <2>1. /\ opens \in Nat /\ opens' = opens + 1 /\ UNCHANGED inService
        /\ ~fConnected'
    BY <1>1 DEF OpenDevice, TypeOK, tapiVars
  <2>2. opens' # 0 /\ (opens' <= 1 => opens = 0)
    BY <2>1
  <2>. QED
    BY <2>1, <2>2 DEF FirstInv
<1>2. CASE ~OpenDevice
  <2>1. UNCHANGED <<opened, fConnected, opens, pc, inService>>
    BY <1>2 DEF TapiStep, OpenReturns, KillThreads, ThreadsKilled,
                threadVars, tapiVars, bounded
  <2>. QED
    BY <2>1 DEF FirstInv
<1>. QED
  BY <1>1, <1>2

(* The connection thread changes the service as DeviceView says, and it     *)
(* cannot open the device.                                                  *)
LEMMA ThreadFirst ==
    ASSUME TypeOK, TypeOK', FirstInv, Promised, pc # "none", UNCHANGED <<app, opens>>
    PROVE  FirstInv'
<1>1. opens' # 0
  BY DEF FirstInv
<1>2. /\ connection = "up" <=> fConnected
      /\ connection \in {"up", "trying"}
      /\ connection' = "up" <=> fConnected'
  BY DEF connection, TypeOK
<1>3. CASE UNCHANGED Device!deviceViewVars
  BY <1>1, <1>2, <1>3 DEF FirstInv, Device!deviceViewVars
<1>4. CASE Device!ConnectionMade
  BY <1>1, <1>2, <1>4 DEF FirstInv, Device!ConnectionMade
<1>5. CASE Device!ConnectionLost
  BY <1>1, <1>2, <1>5 DEF FirstInv, Device!ConnectionLost
<1>6. CASE Device!ThreadGone
  BY <1>1, <1>2, <1>6 DEF FirstInv, Device!ThreadGone
<1>7. ~(Device!Open \/ Device!OpenSucceeds \/ Device!OpenFails \/ Device!Stop
          \/ Device!Closed)
  BY DEF Device!Open, Device!OpenSucceeds, Device!OpenFails, Device!Stop, Device!Closed
<1>. QED
  BY <1>3, <1>4, <1>5, <1>6, <1>7 DEF Promised, Device!DeviceNext

\* The thread that takes a step is there, and is not the one that opens.
LEMMA ThreadSteps ==
    ASSUME ThreadStep \/ \E r \in Receipts, machines \in BOOLEAN : PollTurn(r, machines)
    PROVE  pc # "none" /\ UNCHANGED <<app, opens>>
<1>. USE DEF deviceVars, bounded
<1>1. ASSUME NEW stateType, NEW s, InitFails(stateType, s) PROVE app' = app
  BY <1>1 DEF InitFails
<1>2. InitSucceeds => app' = app
  BY DEF InitSucceeds
<1>3. CASE ConnectFails \/ ConnectSucceeds \/ InitHead
  BY <1>1, <1>3 DEF ConnectFails, ConnectSucceeds, InitHead
<1>4. CASE InitPollOver
  <2>. DEFINE stateType == GetInitStatesType(session.lastInitState)
  <2>1. /\ pc = "initPoll" /\ UNCHANGED opens
        /\ InitFails(stateType, session) \/ InitSucceeds \/ app' = app
    BY <1>4 DEF InitPollOver, PollOver
  <2>. HIDE DEF stateType
  <2>. QED
    BY <1>1, <1>2, <2>1
<1>5. CASE RetryWaitOver \/ Top \/ LostWaitOver \/ ShutHead
  BY <1>5 DEF RetryWaitOver, Top, LostWaitOver, ShutHead
<1>6. CASE RunPollOver \/ ShutPollOver
  BY <1>6 DEF RunPollOver, ShutPollOver, PollOver
<1>7. ASSUME NEW r \in Receipts, NEW machines \in BOOLEAN, PollTurn(r, machines)
      PROVE  pc # "none" /\ UNCHANGED <<app, opens>>
  <2>1. \A place : Turn(place, r, machines) => pc = place /\ UNCHANGED opens
    BY DEF Turn
  <2>2. CASE InitTurn(r, machines)
    <3>1. InitFails("DISCONNECTED", Receive(Polled(machines), r)) \/ app' = app
      BY <2>2 DEF InitTurn
    <3>. QED
      BY <1>1, <2>1, <2>2, <3>1 DEF InitTurn
  <2>3. CASE RunTurn(r, machines)
    BY <2>1, <2>3 DEF RunTurn
  <2>4. CASE ShutTurn(r, machines)
    BY <2>1, <2>4 DEF ShutTurn
  <2>. QED
    BY <1>7, <2>2, <2>3, <2>4 DEF PollTurn
<1>. QED
  BY <1>3, <1>4, <1>5, <1>6, <1>7 DEF ThreadStep

(* Until the device is opened for the second time, the line is in service   *)
(* while there is a connection and out of service from each loss to the     *)
(* next connection: a line that stays out of service, as InitOnSipTapi can  *)
(* leave it, needs a second opening.                                        *)
THEOREM FirstServiceTrue == Spec => []FirstServiceIsTrue
<1>1. Init => TypeOK /\ RealInv /\ FirstInv
  <2>1. Init => FirstInv
    BY DEF Init, FirstInv
  <2>. QED
    BY <2>1, TypeInit, RealInit
<1>2. TypeOK /\ RealInv /\ [Next]_vars => (TypeOK /\ RealInv)'
  BY TypeNext, RealNext
<1>3. TypeOK /\ RealInv /\ FirstInv /\ [Next]_vars => FirstInv'
  <2>. SUFFICES ASSUME TypeOK, RealInv, FirstInv, [Next]_vars PROVE FirstInv'
    OBVIOUS
  <2>1. TypeOK' /\ Promised
    BY <1>2, StepPromised
  <2>2. CASE UNCHANGED vars
    BY <2>2 DEF vars, deviceVars, threadVars, tapiVars, bounded, FirstInv
  <2>3. CASE TapiStep
    BY <2>3, TapiStepFirst
  <2>4. CASE ThreadStep \/ \E r \in Receipts, machines \in BOOLEAN : PollTurn(r, machines)
    BY <2>1, <2>4, ThreadSteps, ThreadFirst
  <2>5. CASE TimeStep
    BY <2>5, TimeStepIs DEF FirstInv
  <2>. QED
    BY <2>2, <2>3, <2>4, <2>5 DEF Next
<1>4. FirstInv /\ LossIsReported => FirstServiceIsTrue
  BY DEF FirstInv, LossIsReported, FirstServiceIsTrue
<1>. QED
  BY <1>1, <1>2, <1>3, <1>4, LossReported, PTL DEF Spec
=============================================================================
