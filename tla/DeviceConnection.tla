--------------------------- MODULE DeviceConnection ---------------------------
(***************************************************************************)
(* The device (COnSipDevice): TAPI opens and closes it, its connection     *)
(* thread logs in, keeps the connection, tells TAPI whether the line is in *)
(* service, and connects again after a loss.  The two threads share two    *)
(* events.  Waits have time limits that pass at any time after the wait    *)
(* began.  A definition marked "Mutation" is no part of the model.         *)
(***************************************************************************)
EXTENDS XmppSession

CONSTANTS
    MaxOpens,      \* bound: how often TAPI opens the device
    MaxLosses,     \* bound: how often the link breaks or is closed
    MaxFailures,   \* bound: how often a server cannot be reached
    MaxRenewals,   \* bound: how often a renewal falls due
    SlowConnect,   \* gloox's connect may take longer than _killThreads waits
    FastLogin      \* a login may be over before the machines' first poll

ASSUME BoundsAssumption ==
    /\ MaxOpens \in Nat /\ MaxLosses \in Nat
    /\ MaxFailures \in Nat /\ MaxRenewals \in Nat
    /\ SlowConnect \in BOOLEAN /\ FastLogin \in BOOLEAN

VARIABLES
    app,            \* the TAPI thread in OpenDevice or CloseDevice, or neither
    stop,           \* m_hevtStop is set
    opened,         \* m_hOpenDevice is set
    pc,             \* where the connection thread is
    fConnected,     \* its local variables fConnected
    initStateType,  \*   and initStateType
    polled,         \* the machines were polled in this call of Poll
    late,           \* the five seconds of Disconnect are over
    session,        \* the OnSipTapi object
    inService,      \* what SetDeviceStatus last told TAPI of the line
    forcedClose,    \* the line was told to close
    opens, losses, failures, renewals   \* what the bounds count

deviceVars == <<app, stop, opened>>
threadVars == <<pc, fConnected, initStateType, polled, late>>
tapiVars   == <<inService, forcedClose>>
bounded    == <<opens, losses, failures, renewals>>
vars == <<deviceVars, threadVars, session, tapiVars, bounded>>

(* connect: in gloox's connect;  init, top, shut: at the head of the loop   *)
(* of InitOnSipTapi, of the thread and of Disconnect;  initPoll, runPoll,   *)
(* shutPoll: in the Poll of that loop;  lostWait: the wait after a lost     *)
(* connection;  retryWait: the wait after a failed attempt.                 *)
ThreadPlaces == {"none", "connect", "init", "initPoll", "top", "runPoll",
                 "lostWait", "retryWait", "shut", "shutPoll"}

Init ==
    /\ app = "closed" /\ stop = FALSE /\ opened = FALSE
    /\ pc = "none" /\ fConnected = FALSE /\ initStateType = "NOTSET"
    /\ polled = FALSE /\ late = FALSE
    /\ session = NewSession
    /\ inService = TRUE /\ forcedClose = FALSE
    /\ opens = 0 /\ losses = 0 /\ failures = 0 /\ renewals = 0

-----------------------------------------------------------------------------
(* TAPI.                                                                    *)

(* OpenDevice up to its wait.  While a thread that _killThreads gave up is  *)
(* still there, opening again is left out.                                  *)
OpenDevice ==
    /\ app = "closed" /\ pc = "none" /\ opens < MaxOpens
    /\ app' = "opening" /\ opens' = opens + 1
    /\ stop' = FALSE /\ opened' = FALSE
    /\ session' = Start(NewSession)
    /\ pc' = "connect" /\ fConnected' = FALSE /\ initStateType' = "NOTSET"
    /\ UNCHANGED <<polled, late, tapiVars, losses, failures, renewals>>

OpenReturns ==
    /\ app = "opening" /\ (opened \/ pc = "none")
    /\ app' = IF opened THEN "open" ELSE "closed"
    /\ UNCHANGED <<stop, opened, threadVars, session, tapiVars, bounded>>

\* _killThreads up to its wait, by OpenDevice after 30 s or by CloseDevice.
KillThreads ==
    /\ \/ app = "opening" /\ ~opened /\ pc # "none"
       \/ app = "open"
    /\ app' = "killing" /\ stop' = TRUE
    /\ UNCHANGED <<opened, threadVars, session, tapiVars, bounded>>

(* The end of the wait of 10 s in _killThreads: nothing but gloox's connect *)
(* holds the thread for longer.                                             *)
ThreadsKilled ==
    /\ app = "killing"
    /\ \/ pc = "none"
       \/ SlowConnect /\ pc = "connect"
    /\ app' = "closed"
    /\ UNCHANGED <<stop, opened, threadVars, session, tapiVars, bounded>>

-----------------------------------------------------------------------------
(* The connection thread: the parts that its actions share.                 *)

\* Mutation: the OnSipTapi object is kept.
ThreadEndsOnly ==
    /\ pc' = "none" /\ session' = Cleanup(session) /\ fConnected' = FALSE

\* Cleanup; the OnSipTapi object is deleted and the thread ends.
ThreadEnds ==
    /\ pc' = "none" /\ session' = NewSession /\ fConnected' = FALSE

\* Connect, up to gloox's connect.
Connect ==
    /\ pc' = "connect" /\ session' = Start(session)

(* InitOnSipTapi returns false.  The first time the thread ends, and        *)
(* later it waits before it tries again.                                    *)
InitFails(stateType, s) ==
    /\ initStateType' = stateType
    /\ IF ~opened
       THEN ThreadEnds /\ UNCHANGED forcedClose
       ELSE /\ pc' = "retryWait" /\ session' = s
            /\ forcedClose' = (forcedClose \/ stateType = "FATAL")
            /\ UNCHANGED fConnected
    /\ UNCHANGED <<deviceVars, late, inService>>

\* Mutation: TAPI is not told of a connection that replaces a lost one.
InitSucceedsSilent ==
    /\ initStateType' = "OK" /\ fConnected' = TRUE /\ opened' = TRUE
    /\ session' = [session EXCEPT !.initEvents = {}]
    /\ pc' = (IF opened THEN "runPoll" ELSE "top") /\ polled' = FALSE
    /\ UNCHANGED <<app, stop, late, tapiVars>>

(* InitOnSipTapi returns true.  The first time OpenDevice is told.  Later   *)
(* TAPI is, and Poll is called without a test of m_hevtStop.                *)
InitSucceeds ==
    /\ initStateType' = "OK" /\ fConnected' = TRUE /\ opened' = TRUE
    /\ session' = [session EXCEPT !.initEvents = {}]
    /\ IF ~opened
       THEN pc' = "top" /\ UNCHANGED inService
       ELSE pc' = "runPoll" /\ inService' = TRUE
    /\ polled' = FALSE
    /\ UNCHANGED <<app, stop, late, forcedClose>>

BeginPoll(place) ==
    /\ pc' = place /\ polled' = FALSE

Polled(machines) == IF machines THEN PollStateHandlers(session) ELSE session

(* One turn of the loop in AsyncPolling: the machines are polled, every 250 *)
(* ms, and gloox receives.                                                  *)
Turn(place, r, machines) ==
    /\ pc = place
    /\ CanReceive(Polled(machines), r)
    /\ FastLogin \/ r.what # "login" \/ Polled(machines).handlerRequests = <<>>
    /\ polled' = (polled \/ machines)
    /\ losses' = losses + (IF r.what \in {"closed", "broken"} THEN 1 ELSE 0)
    /\ losses' <= MaxLosses
    /\ UNCHANGED <<opens, failures, renewals>>

\* Poll is over after a second, in which the machines were polled.
PollOver(place) == pc = place /\ polled

-----------------------------------------------------------------------------
(* The connection thread: InitOnSipTapi.                                    *)

ConnectFails ==
    /\ pc = "connect" /\ failures < MaxFailures
    /\ failures' = failures + 1
    /\ InitFails("DISCONNECTED", session)
    /\ UNCHANGED <<polled, opens, losses, renewals>>

ConnectSucceeds ==
    /\ pc = "connect"
    /\ pc' = "init" /\ session' = [session EXCEPT !.link = "login"]
    /\ UNCHANGED <<deviceVars, fConnected, initStateType, polled, late, tapiVars, bounded>>

InitHead ==
    /\ pc = "init"
    /\ IF stop
       THEN InitFails("FATAL", session) /\ UNCHANGED polled
       ELSE /\ BeginPoll("initPoll")
            /\ UNCHANGED <<deviceVars, fConnected, initStateType, late, session, tapiVars>>
    /\ UNCHANGED bounded

InitTurn(r, machines) ==
    /\ Turn("initPoll", r, machines)
    /\ LET s == Polled(machines) IN
       IF ReceiveFails(s, r)
       THEN InitFails("DISCONNECTED", Receive(s, r))
       ELSE /\ session' = Receive(s, r)
            /\ UNCHANGED <<deviceVars, pc, fConnected, initStateType, late, tapiVars>>

InitPollOver ==
    /\ PollOver("initPoll")
    /\ LET stateType == GetInitStatesType(session.lastInitState) IN
       CASE stateType \in {"DISCONNECTED", "FATAL"} ->
                InitFails(stateType, session) /\ UNCHANGED polled
         [] stateType = "OK" -> InitSucceeds
         [] OTHER ->
                /\ pc' = "init" /\ initStateType' = stateType
                /\ UNCHANGED <<deviceVars, fConnected, polled, late, session, tapiVars>>
    /\ UNCHANGED bounded

(* The wait is longer than a handler may stay in its state, so one that     *)
(* still waits for the machine's poll is overdue when it is over.           *)
RetryWaitOver ==
    /\ pc = "retryWait"
    /\ IF stop
       THEN pc' = "top" /\ UNCHANGED session
       ELSE /\ pc' = "connect"
            /\ session' = Start([session EXCEPT !.handlerRequests =
                                   [i \in DOMAIN @ |-> [@[i] EXCEPT !.expired = TRUE]]])
    /\ UNCHANGED <<deviceVars, fConnected, initStateType, polled, late, tapiVars, bounded>>

-----------------------------------------------------------------------------
(* The connection thread: its loop.                                         *)

(* A thread that is to stop ends, by a shutdown when it is connected.  One  *)
(* that is to go on polls when it is connected and connects when it is not. *)
Top ==
    /\ pc = "top"
    /\ CASE stop /\ fConnected ->
                /\ pc' = "shut" /\ late' = FALSE /\ session' = AsyncShutdown(session)
                /\ UNCHANGED <<fConnected, polled>>
         [] stop /\ ~fConnected -> ThreadEnds /\ UNCHANGED <<polled, late>>
         [] ~stop /\ fConnected ->
                BeginPoll("runPoll") /\ UNCHANGED <<fConnected, late, session>>
         [] ~stop /\ ~fConnected -> Connect /\ UNCHANGED <<fConnected, polled, late>>
    /\ UNCHANGED <<deviceVars, initStateType, tapiVars, bounded>>

\* Mutation: the loss that Poll reports is not passed on to TAPI.
RunTurnSilent(r, machines) ==
    /\ Turn("runPoll", r, machines)
    /\ session' = Receive(Polled(machines), r)
    /\ IF ReceiveFails(Polled(machines), r)
       THEN pc' = "lostWait" /\ fConnected' = FALSE
       ELSE UNCHANGED <<pc, fConnected>>
    /\ UNCHANGED <<deviceVars, initStateType, late, tapiVars>>

RunTurn(r, machines) ==
    /\ Turn("runPoll", r, machines)
    /\ LET s == Polled(machines) IN
       /\ session' = Receive(s, r)
       /\ IF ReceiveFails(s, r)
          THEN pc' = "lostWait" /\ fConnected' = FALSE /\ inService' = FALSE
          ELSE UNCHANGED <<pc, fConnected, inService>>
    /\ UNCHANGED <<deviceVars, initStateType, late, forcedClose>>

\* Mutation: a handler that gives the connection up does not end it.
HandleInitEventsOnly ==
    /\ session' = [session EXCEPT !.initEvents = {}]
    /\ initStateType' = GetInitStatesType(session.lastInitState)
    /\ inService' = (initStateType' = "OK")
    /\ UNCHANGED <<fConnected, forcedClose>>

(* The notifications of the Poll are passed to the line, which closes on a  *)
(* fatal one, and the type of the last state is compared with the one that  *)
(* is known.                                                                *)
HandleInitEvents ==
    LET stateType == GetInitStatesType(session.lastInitState)
        fetched   == [session EXCEPT !.initEvents = {}]
    IN  /\ forcedClose' = (forcedClose \/ \E state \in session.initEvents :
                                              GetInitStatesType(state) = "FATAL")
        /\ initStateType' = stateType
        /\ inService' = IF stateType = initStateType THEN inService
                                                     ELSE stateType = "OK"
        /\ IF stateType # initStateType /\ stateType = "DISCONNECTED"
           THEN fConnected' = FALSE /\ session' = Cleanup(fetched)
           ELSE UNCHANGED fConnected /\ session' = fetched

RunPollOver ==
    /\ PollOver("runPoll")
    /\ pc' = "top"
    /\ IF session.initEvents = {}
       THEN UNCHANGED <<fConnected, initStateType, session, tapiVars>>
       ELSE HandleInitEvents
    /\ UNCHANGED <<deviceVars, polled, late, bounded>>

\* Mutation: the thread leaves its loop (break for continue).
LostWaitOverEnds ==
    /\ pc = "lostWait"
    /\ ThreadEnds
    /\ UNCHANGED <<deviceVars, initStateType, polled, late, tapiVars, bounded>>

LostWaitOver ==
    /\ pc = "lostWait"
    /\ IF stop THEN ThreadEnds ELSE pc' = "top" /\ UNCHANGED <<fConnected, session>>
    /\ UNCHANGED <<deviceVars, initStateType, polled, late, tapiVars, bounded>>

-----------------------------------------------------------------------------
(* The connection thread: Disconnect(true).                                 *)

ShutHead ==
    /\ pc = "shut"
    /\ BeginPoll("shutPoll")
    /\ UNCHANGED <<deviceVars, fConnected, initStateType, late, session, tapiVars, bounded>>

ShutTurn(r, machines) ==
    /\ Turn("shutPoll", r, machines)
    /\ LET s == Polled(machines) IN
       IF ReceiveFails(s, r)
       THEN ThreadEnds
       ELSE session' = Receive(s, r) /\ UNCHANGED <<pc, fConnected>>
    /\ UNCHANGED <<deviceVars, initStateType, late, tapiVars>>

\* Mutation: the shutdown waits for its completion only.
ShutPollOverUntimed ==
    /\ PollOver("shutPoll")
    /\ IF IsShutdownComplete(session)
       THEN ThreadEnds
       ELSE pc' = "shut" /\ UNCHANGED <<fConnected, session>>
    /\ UNCHANGED <<deviceVars, initStateType, polled, late, tapiVars, bounded>>

ShutPollOver ==
    /\ PollOver("shutPoll")
    /\ IF late \/ IsShutdownComplete(session)
       THEN ThreadEnds
       ELSE pc' = "shut" /\ UNCHANGED <<fConnected, session>>
    /\ UNCHANGED <<deviceVars, initStateType, polled, late, tapiVars, bounded>>

-----------------------------------------------------------------------------
(* Time limits.                                                             *)

\* A handler is too long in its state.
StateTimeout(i) ==
    /\ i \in DOMAIN session.stateHandlers
    /\ session.stateHandlers[i].state \in TimedInitStates
    /\ ~session.stateHandlers[i].expired
    /\ session' = [session EXCEPT !.stateHandlers[i].expired = TRUE]
    /\ UNCHANGED <<deviceVars, threadVars, tapiVars, bounded>>

\* One that waits for the first poll is, when gloox takes long to connect.
QueuedTimeout(i) ==
    /\ SlowConnect /\ pc = "connect"
    /\ i \in DOMAIN session.handlerRequests
    /\ ~session.handlerRequests[i].expired
    /\ session' = [session EXCEPT !.handlerRequests[i].expired = TRUE]
    /\ UNCHANGED <<deviceVars, threadVars, tapiVars, bounded>>

RenewalDue(i) ==
    /\ i \in DOMAIN session.stateHandlers /\ renewals < MaxRenewals
    /\ session.stateHandlers[i].state = "OK" /\ ~session.stateHandlers[i].authDue
    /\ session' = [session EXCEPT !.stateHandlers[i].authDue = TRUE]
    /\ renewals' = renewals + 1
    /\ UNCHANGED <<deviceVars, threadVars, tapiVars, opens, losses, failures>>

RenewalTimeout(i) ==
    /\ i \in DOMAIN session.stateHandlers
    /\ session.stateHandlers[i].worker.step # "none"
    /\ ~session.stateHandlers[i].worker.expired
    /\ session' = [session EXCEPT !.stateHandlers[i].worker.expired = TRUE]
    /\ UNCHANGED <<deviceVars, threadVars, tapiVars, bounded>>

ShutdownLate ==
    /\ pc \in {"shut", "shutPoll"} /\ ~late
    /\ late' = TRUE
    /\ UNCHANGED <<deviceVars, pc, fConnected, initStateType, polled, session, tapiVars, bounded>>

-----------------------------------------------------------------------------
(* A list holds at most one handler for each attempt that ended before the  *)
(* machines were polled, and the last one.                                  *)
Places == 1..(MaxFailures + MaxLosses + 1)

TapiStep == OpenDevice \/ OpenReturns \/ KillThreads \/ ThreadsKilled

ThreadStep ==
    \/ ConnectFails \/ ConnectSucceeds
    \/ InitHead \/ InitPollOver \/ RetryWaitOver
    \/ Top \/ RunPollOver \/ LostWaitOver
    \/ ShutHead \/ ShutPollOver

PollTurn(r, machines) ==
    \/ InitTurn(r, machines) \/ RunTurn(r, machines) \/ ShutTurn(r, machines)

TimeStep ==
    \/ ShutdownLate
    \/ \E i \in Places : \/ StateTimeout(i) \/ QueuedTimeout(i)
                         \/ RenewalDue(i) \/ RenewalTimeout(i)

Next ==
    \/ TapiStep
    \/ ThreadStep
    \/ \E r \in Receipts, machines \in BOOLEAN : PollTurn(r, machines)
    \/ TimeStep

Spec == Init /\ [][Next]_vars

(* The thread runs, polls the machines in each second (also when nothing    *)
(* arrives) and leaves no wait unfinished, and time passes.  The server may *)
(* be silent for ever, and TAPI need not open or close the device.          *)
Nothing == [what |-> "nothing", error |-> FALSE]

Fairness ==
    /\ WF_vars(ThreadStep)
    /\ WF_vars(PollTurn(Nothing, TRUE))
    /\ WF_vars(ShutdownLate)
    /\ \A i \in Places : WF_vars(StateTimeout(i) \/ RenewalTimeout(i))

FairSpec == Spec /\ Fairness

-----------------------------------------------------------------------------
(* Properties.                                                              *)

(* The values of the variables.  There is a session exactly as long as the  *)
(* thread runs, and nobody waits for a shutdown unless the device is to     *)
(* stop.                                                                    *)
TypeOK ==
    /\ app \in {"closed", "opening", "open", "killing"}
    /\ stop \in BOOLEAN /\ opened \in BOOLEAN
    /\ pc \in ThreadPlaces /\ fConnected \in BOOLEAN
    /\ initStateType \in InitStatesTypes
    /\ polled \in BOOLEAN /\ late \in BOOLEAN
    /\ session \in Sessions
    /\ inService \in BOOLEAN /\ forcedClose \in BOOLEAN
    /\ opens \in 0..MaxOpens /\ losses \in 0..MaxLosses
    /\ failures \in 0..MaxFailures /\ renewals \in 0..MaxRenewals
    /\ pc = "none" => session = NewSession /\ ~fConnected
    /\ pc \in {"shut", "shutPoll"} => stop

(* When the thread goes to its next Poll or to a proper shutdown believing  *)
(* that it is connected, the link is up, a handler is in its state OK, and  *)
(* both records of the state say OK: whatever was lost in a Poll or in the  *)
(* login has been acted on.                                                 *)
ConnectedIsReal ==
    pc = "top" /\ fConnected =>
        /\ session.link = "up"
        /\ session.lastInitState = "OK" /\ initStateType = "OK"
        /\ \E i \in DOMAIN session.stateHandlers : session.stateHandlers[i].state = "OK"

(* As long as a connection that was in use is lost and not replaced, TAPI   *)
(* has been told that the line is out of service.                           *)
LossIsReported ==
    opened /\ pc # "none" /\ ~fConnected => ~inService

(* Until the device is opened for the second time, what TAPI was told of    *)
(* the line is what the thread knows: it is in service while there is a     *)
(* connection, and out of service from each loss to the next connection.    *)
FirstServiceIsTrue ==
    opens <= 1 /\ opened /\ pc # "none" => (inService <=> fConnected)

(* A login comes to an end, with a server that falls silent at any point    *)
(* of it too.                                                               *)
LoginEnds == []<>(pc \notin {"init", "initPoll"})

(* A renewal of the subscription comes to an end, or the connection does,   *)
(* with a server that falls silent too.                                     *)
Renewing == \E i \in DOMAIN session.stateHandlers :
                /\ session.stateHandlers[i].state = "OK"
                /\ session.stateHandlers[i].worker.step # "none"
RenewalEnds == []<>(~Renewing)

(* A thread that is to stop ends, wherever it is and whatever the server    *)
(* does.                                                                    *)
StopEnds == []<>(stop => pc = "none")

(* What TAPI sees of the device is a device that keeps its promises: it is  *)
(* open only after a connection, its thread ends only when told to, and the *)
(* line changes service with the connection and not otherwise.              *)
connection == CASE pc = "none" -> "none"
                [] pc # "none" /\ fConnected -> "up"
                [] pc # "none" /\ ~fConnected -> "trying"

Device == INSTANCE DeviceView WITH MayLinger <- SlowConnect

ImplementsDevice == Device!DeviceSpec

(* "This function is called when a connection is made to the PBX and when   *)
(* it is dropped.  It marks the lines as connected/disconnected": a line    *)
(* that is open and connected is in service.                                *)
OpenLineInService == app = "open" /\ pc = "top" /\ fConnected => inService
=============================================================================
