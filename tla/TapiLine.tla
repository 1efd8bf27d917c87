------------------------------- MODULE TapiLine -------------------------------
(***************************************************************************)
(* The line (COnSipLine): call appearances, the queue of asynchronous      *)
(* requests of TSP++, and the threads that work on both: the threads of    *)
(* TAPI, the interval timer, and the thread pool, which hands the line the *)
(* notices of the call state machine one at a time and in order.  Of that  *)
(* machine only its promise is used: view changes by steps of              *)
(* TapiCallView.  A definition marked "Mutation" is no part of the model.  *)
(***************************************************************************)
EXTENDS Naturals, Sequences, FiniteSets

CONSTANTS
    TapiThreads,   \* the threads in which TAPI calls the provider
    States,        \* the states of calls that the machine notifies
    OutsideKinds,  \* kinds of calls that do not come from TAPI
    EndNotices,    \* in how many notices the end of a call may be reported
    Dialable,      \* whether there is a number to dial
    MaxMakes,      \* bound: requests to make a call
    MaxDrops,      \* bound: requests to drop a call
    MaxOutside     \* bound: calls that do not come from TAPI

CONSTANTS Timer, Pool      \* the other two threads

Threads == TapiThreads \cup {Timer, Pool}

VARIABLES
    calls,      \* the call appearances ever created
    requests,   \* the requests ever created
    queue,      \* m_lstAsynchRequests: positions in requests
    thread,     \* what each thread is doing
    notices,    \* the events that wait in m_mgrThreads
    kind,       \* the kinds of the calls of the machine, by id
    view        \* the last notification of each call

vars == <<calls, requests, queue, thread, notices, kind, view>>

INSTANCE TapiCallView WITH CallId <- Nat \ {0}

Kinds == {"MakeCall", "IncomingCall", "PhysicalCall"}

ASSUME LineAssumption ==
    /\ Timer # Pool /\ {Timer, Pool} \cap TapiThreads = {}
    /\ States \subseteq LineCallStates \ {"IDLE"}
    /\ OutsideKinds \subseteq Kinds \ {"MakeCall"}
    /\ EndNotices \subseteq Nat /\ Dialable \subseteq BOOLEAN
    /\ MaxMakes \in Nat /\ MaxDrops \in Nat /\ MaxOutside \in Nat

(* A call appearance.  It is UNKNOWN until its state is set for the first   *)
(* time (_InitNotify); open while TAPI has a handle for it; listed until    *)
(* RemoveCallAppearance.                                                    *)
Appearances == [id : Nat, state : LineCallStates \cup {"UNKNOWN"},
                open : BOOLEAN, dropped : BOOLEAN, listed : BOOLEAN]

NewAppearance(id, state) ==
    [id |-> id, state |-> state,
     open |-> TRUE, dropped |-> FALSE, listed |-> TRUE]

(* A request.  sent is m_fResponseSent, overdue says that REQUEST_TIMEOUT   *)
(* has passed, replies are the results that TAPI was told, and dials counts *)
(* the calls of DRV_MakeCall.                                               *)
Requests == [command : {"MAKECALL", "DROPCALL"}, call : Nat,
             dialable : BOOLEAN,
             state : {"NotProcessed", "Initial", "Ignored", "Waiting", "Completed"},
             sent : BOOLEAN, overdue : BOOLEAN,
             replies : Seq(BOOLEAN), dials : Nat]

NewRequest(command, call, dialable) ==
    [command |-> command, call |-> call, dialable |-> dialable,
     state |-> "NotProcessed", sent |-> FALSE, overdue |-> FALSE,
     replies |-> <<>>, dials |-> 0]

\* A notice, and the absence of one (a call of ReceiveData by a timer).
Notices  == [id : Nat, state : LineCallStates]
NoNotice == [id |-> 0, state |-> "IDLE"]

(* What a thread does: event is the argument of its ReceiveData, later the  *)
(* event that it hands on to UnsolicitedEvent in the end.  The others are   *)
(* local variables of OnMakeCall, CompleteRequest and AddAsynchRequest.     *)
Places == {"resting", "insert", "fetch", "begin", "dispatch", "setCallID",
           "complete", "reply", "setCallState", "unsolicited"}
Doings == [at : Places, event : Notices, later : Notices, request : Nat,
           ok : BOOLEAN, remove : BOOLEAN, current : BOOLEAN, send : BOOLEAN,
           value : Nat]
Resting == [at |-> "resting", event |-> NoNotice, later |-> NoNotice,
            request |-> 0, ok |-> FALSE, remove |-> FALSE, current |-> FALSE,
            send |-> FALSE, value |-> 0]

Init ==
    /\ calls = <<>> /\ requests = <<>> /\ queue = <<>>
    /\ thread = [t \in Threads |-> Resting]
    /\ notices = <<>> /\ kind = <<>> /\ ViewInit

-----------------------------------------------------------------------------
(* Parts that the actions share.                                            *)

Does(t, doing) == thread' = [thread EXCEPT ![t] = doing]

\* A call of ReceiveData without an event.
Receives(later) == [Resting EXCEPT !.at = "fetch", !.later = later]

Finish(later) ==
    IF later = NoNotice THEN Resting
    ELSE [Resting EXCEPT !.at = "unsolicited", !.later = later]

\* A step of t in CompleteRequest: the result, and whether to remove.
Completes(t, ok, remove, later) ==
    Does(t, [thread[t] EXCEPT !.at = "complete", !.ok = ok, !.remove = remove,
                              !.later = later])

InQueue(r) == \E i \in DOMAIN queue : queue[i] = r

\* The queue without the requests of R, in the same order.
Without(q, R) ==
    LET kept[i \in 0 .. Len(q)] ==
            IF i = 0 THEN <<>>
            ELSE IF q[i] \in R THEN kept[i - 1]
            ELSE Append(kept[i - 1], q[i])
    IN  kept[Len(q)]

\* The queued requests for an appearance.
RequestsOf(c) == {r \in DOMAIN requests : InQueue(r) /\ requests[r].call = c}

\* TAPI is told a result, unless it was told one before.
Answered(rs, R, ok) ==
    [r \in DOMAIN rs |->
        IF r \in R /\ ~rs[r].sent
        THEN [rs[r] EXCEPT !.sent = TRUE, !.replies = Append(@, ok)]
        ELSE rs[r]]

RequestState(r, state) ==
    [requests EXCEPT ![r].state = state, ![r].overdue = FALSE]

RemoveCallAppearance(call) ==
    [call EXCEPT !.id = 0, !.state = "IDLE", !.open = FALSE, !.listed = FALSE]

\* Mutation: a drop that failed leaves the call marked as dropped.
RemoveMadeCalls(cs, R) ==
    [c \in DOMAIN cs |->
        IF /\ \E r \in R : requests[r].command = "MAKECALL" /\ requests[r].call = c
           /\ cs[c].state = "UNKNOWN"
        THEN RemoveCallAppearance(cs[c])
        ELSE cs[c]]

(* Failed, which Complete calls for a request that failed, here for those   *)
(* of R: a call whose first state was not set is removed, and one that was  *)
(* to be dropped may be dropped again.                                      *)
Failed(cs, R) ==
    [c \in DOMAIN cs |->
        IF /\ \E r \in R : requests[r].command = "MAKECALL" /\ requests[r].call = c
           /\ cs[c].state = "UNKNOWN"
        THEN RemoveCallAppearance(cs[c])
        ELSE IF \E r \in R : requests[r].command = "DROPCALL" /\ requests[r].call = c
        THEN [cs[c] EXCEPT !.dropped = FALSE]
        ELSE cs[c]]

\* Mutation: no request is answered by the first state.
NoRequests(c) == {}

\* FindRequest in SetCallState: what the first state of a call answers.
RequestsMaking(c) ==
    {r \in RequestsOf(c) :
        requests[r].command = "MAKECALL" /\ calls[c].state = "UNKNOWN"}

(* SetCallState.  The first state answers the request that makes the call,  *)
(* IDLE is final, ends the requests for the call that have not started, and *)
(* removes an appearance that TAPI has closed.                              *)
SetCallState(c, state) ==
    LET ended == IF state = "IDLE"
                 THEN {r \in RequestsOf(c) : requests[r].state = "NotProcessed"}
                 ELSE {}
    IN  IF calls[c].state = "IDLE"
        THEN UNCHANGED <<calls, requests, queue>>
        ELSE /\ calls' = Failed([calls EXCEPT ![c] =
                    IF state = "IDLE" /\ ~@.open THEN RemoveCallAppearance(@)
                    ELSE [@ EXCEPT !.state = state]], ended)
             /\ requests' = Answered(Answered(requests, RequestsMaking(c), TRUE),
                                     ended, FALSE)
             /\ queue' = Without(queue, ended)

\* Mutation: a call that TAPI has closed is not found.
FindOpenCall(id) ==
    {c \in DOMAIN calls : calls[c].listed /\ calls[c].open /\ calls[c].id = id}

\* FindCallByCallID, as the set of what it can find.
FindCallByCallID(id) ==
    {c \in DOMAIN calls : calls[c].listed /\ calls[c].id = id}

\* The machine's counter of ids (UniqueId_ts).
NextId == Len(kind) + 1

-----------------------------------------------------------------------------
(* TAPI.                                                                    *)

Active(call) == call.listed /\ call.state \notin {"UNKNOWN", "IDLE"}

(* lineMakeCall.  It is refused while the line has an active call or a      *)
(* pending request to make one.  The line is locked from this test until    *)
(* the request was queued and, in an empty queue, also started: DRV_MakeCall *)
(* and SetCallID, or its failure if there is nothing to dial, which takes   *)
(* the appearance with it.                                                  *)
MakeCall(t, dialable) ==
    LET r == Len(requests) + 1
        c == Len(calls) + 1
        request == NewRequest("MAKECALL", c, dialable)
        starts  == queue = <<>>
    IN  /\ thread[t] = Resting
        /\ Cardinality({q \in DOMAIN requests :
               requests[q].command = "MAKECALL"}) < MaxMakes
        /\ \A b \in DOMAIN calls : ~Active(calls[b])
        /\ \A q \in DOMAIN requests :
               InQueue(q) => requests[q].command # "MAKECALL"
        /\ calls' = Append(calls,
               IF starts /\ ~dialable
               THEN RemoveCallAppearance(NewAppearance(0, "UNKNOWN"))
               ELSE NewAppearance(IF starts THEN NextId ELSE 0, "UNKNOWN"))
        /\ requests' = Append(requests,
               IF ~starts THEN request
               ELSE IF dialable
               THEN [request EXCEPT !.state = "Waiting", !.dials = 1]
               ELSE [request EXCEPT !.state = "Completed", !.sent = TRUE,
                                    !.replies = <<FALSE>>])
        /\ queue' = IF starts /\ ~dialable THEN queue ELSE Append(queue, r)
        /\ kind' = IF starts /\ dialable THEN Append(kind, "MakeCall") ELSE kind
        /\ UNCHANGED <<thread, notices, view>>

\* How many requests at the head of the queue have been started.
Started ==
    CHOOSE n \in 0 .. Len(queue) :
        /\ \A i \in 1 .. n : requests[queue[i]].state # "NotProcessed"
        /\ n < Len(queue) => requests[queue[n + 1]].state = "NotProcessed"

\* Mutation: the request is queued and nothing is recorded of it.
DropCallUnrecorded(t, c) ==
    /\ thread[t] = Resting
    /\ Active(calls[c]) /\ calls[c].open /\ ~calls[c].dropped
    /\ Cardinality({q \in DOMAIN requests :
           requests[q].command = "DROPCALL"}) < MaxDrops
    /\ calls' = [calls EXCEPT ![c].dropped = TRUE]
    /\ Does(t, [Resting EXCEPT !.at = "insert", !.value = Started,
                               !.request = Len(requests) + 1])
    /\ UNCHANGED <<requests, queue, notices, kind, view>>

(* lineDrop, and the place in the queue that its request is to have: after  *)
(* what has been started.  A call that is being dropped, or was dropped, is *)
(* not dropped again, unless the drop failed.                               *)
DropCall(t, c) ==
    /\ thread[t] = Resting
    /\ Active(calls[c]) /\ calls[c].open /\ ~calls[c].dropped
    /\ Cardinality({q \in DOMAIN requests :
           requests[q].command = "DROPCALL"}) < MaxDrops
    /\ calls' = [calls EXCEPT ![c].dropped = TRUE]
    /\ requests' = Append(requests, NewRequest("DROPCALL", c, FALSE))
    /\ Does(t, [Resting EXCEPT !.at = "insert", !.value = Started,
                               !.request = Len(requests) + 1])
    /\ UNCHANGED <<queue, notices, kind, view>>

(* AddAsynchRequest: the place was chosen before the line was locked again. *)
(* At the head, or alone, the request is started.                           *)
AddDropRequest(t) ==
    LET r == thread[t].request
        place == IF thread[t].value > Len(queue) THEN Len(queue)
                 ELSE thread[t].value
    IN  /\ thread[t].at = "insert"
        /\ queue' = SubSeq(queue, 1, place) \o <<r>>
                    \o SubSeq(queue, place + 1, Len(queue))
        /\ Does(t, IF thread[t].value = 0 \/ queue = <<>>
                   THEN Receives(NoNotice) ELSE Resting)
        /\ UNCHANGED <<calls, requests, notices, kind, view>>

\* lineCloseCall, which first waits for requests to drop the call.
CloseCall(t, c) ==
    /\ thread[t] = Resting /\ calls[c].open
    /\ \A r \in RequestsOf(c) : requests[r].command # "DROPCALL"
    /\ calls' = [calls EXCEPT ![c] =
           IF @.state = "IDLE" THEN RemoveCallAppearance(@)
           ELSE [@ EXCEPT !.open = FALSE]]
    /\ UNCHANGED <<requests, queue, thread, notices, kind, view>>

-----------------------------------------------------------------------------
(* ReceiveData, in any thread.                                              *)

(* GetCurrentRequest, and the test whether it has been processed before:    *)
(* what a thread does next that called ReceiveData.                         *)
Fetched(event, later) ==
    IF queue = <<>>
    THEN Finish(IF event = NoNotice THEN later ELSE event)
    ELSE [Resting EXCEPT !.event = event, !.later = later,
            !.request = Head(queue),
            !.at = IF requests[Head(queue)].state = "NotProcessed"
                   THEN "begin" ELSE "dispatch"]

\* The interval timer of the device; without a request it finds nothing to do.
TimerFires ==
    /\ thread[Timer] = Resting /\ queue # <<>>
    /\ Does(Timer, Fetched(NoNotice, NoNotice))
    /\ UNCHANGED <<calls, requests, queue, notices, kind, view>>

\* A pool thread takes the first event; no other one works on this line.
PoolTakes ==
    /\ thread[Pool] = Resting /\ notices # <<>>
    /\ Does(Pool, Fetched(Head(notices), NoNotice))
    /\ notices' = Tail(notices)
    /\ UNCHANGED <<calls, requests, queue, kind, view>>

\* A thread that queued or completed a request.
GetCurrentRequest(t) ==
    /\ thread[t].at = "fetch"
    /\ Does(t, Fetched(NoNotice, thread[t].later))
    /\ UNCHANGED <<calls, requests, queue, notices, kind, view>>

BeginRequest(t) ==
    /\ thread[t].at = "begin"
    /\ requests' = RequestState(thread[t].request, "Initial")
    /\ Does(t, [thread[t] EXCEPT !.at = "dispatch"])
    /\ UNCHANGED <<calls, queue, notices, kind, view>>

Dispatched(t, r) == thread[t].at = "dispatch" /\ thread[t].request = r

(* OnMakeCall starts its request: DRV_MakeCall makes the machine use a new  *)
(* id.  The event that came with the call of ReceiveData is used up.        *)
StartMakeCall(t, r) ==
    /\ Dispatched(t, r) /\ requests[r].command = "MAKECALL"
    /\ requests[r].state = "Initial" /\ requests[r].dialable
    /\ requests' = [RequestState(r, "Waiting") EXCEPT ![r].dials = @ + 1]
    /\ kind' = Append(kind, "MakeCall")
    /\ Does(t, [thread[t] EXCEPT !.at = "setCallID", !.value = NextId])
    /\ UNCHANGED <<calls, queue, notices, view>>

\* There is nothing to dial.
StartMakeCallFails(t, r) ==
    /\ Dispatched(t, r) /\ requests[r].command = "MAKECALL"
    /\ requests[r].state = "Initial" /\ ~requests[r].dialable
    /\ requests' = RequestState(r, "Ignored")
    /\ Completes(t, FALSE, TRUE, thread[t].later)
    /\ UNCHANGED <<calls, queue, notices, kind, view>>

SetCallID(t) ==
    LET c == requests[thread[t].request].call
    IN  /\ thread[t].at = "setCallID"
        /\ calls' = [calls EXCEPT ![c].id = thread[t].value]
        /\ Does(t, Finish(thread[t].later))
        /\ UNCHANGED <<requests, queue, notices, kind, view>>

\* OnDropCall starts its request: DRV_DropCall.
StartDropCall(t, r) ==
    /\ Dispatched(t, r) /\ requests[r].command = "DROPCALL"
    /\ requests[r].state = "Initial"
    /\ requests' = RequestState(r, "Waiting")
    /\ Does(t, Finish(thread[t].later))
    /\ UNCHANGED <<calls, queue, notices, kind, view>>

\* The event is about the call of the request that waits.
Concerns(t, r) ==
    /\ Dispatched(t, r) /\ requests[r].state = "Waiting"
    /\ thread[t].event # NoNotice
    /\ thread[t].event.id = calls[requests[r].call].id

(* OnMakeCall answers its request.  It is told TAPI before the state of the *)
(* call is set, and removed after it.                                       *)
AnswerMakeCall(t, r) ==
    /\ Concerns(t, r) /\ requests[r].command = "MAKECALL"
    /\ Completes(t, thread[t].event.state # "IDLE",
                 thread[t].event.state = "IDLE", thread[t].later)
    /\ UNCHANGED <<calls, requests, queue, notices, kind, view>>

\* OnDropCall uses up the events of its call and ends with the call.
AnswerDropCall(t, r) ==
    /\ Concerns(t, r) /\ requests[r].command = "DROPCALL"
    /\ IF thread[t].event.state = "IDLE"
       THEN Completes(t, TRUE, TRUE, thread[t].later)
       ELSE Does(t, Finish(thread[t].later))
    /\ UNCHANGED <<calls, requests, queue, notices, kind, view>>

\* Neither started nor concerned: what remains is the time limit.
PassedOn(t, r) ==
    /\ Dispatched(t, r) /\ requests[r].state # "Initial" /\ ~Concerns(t, r)

Unhandled(t) ==
    IF thread[t].event = NoNotice THEN thread[t].later ELSE thread[t].event

\* Mutation: the time limit ends the request with success.
RequestOverdueIsDone(t, r) ==
    /\ PassedOn(t, r) /\ requests[r].state = "Waiting" /\ requests[r].overdue
    /\ Completes(t, TRUE, TRUE, Unhandled(t))
    /\ UNCHANGED <<calls, requests, queue, notices, kind, view>>

\* Mutation: the time limit is looked at only when an event comes.
RequestOverdueByEvent(t, r) ==
    /\ PassedOn(t, r) /\ requests[r].state = "Waiting" /\ requests[r].overdue
    /\ IF thread[t].event = NoNotice THEN Does(t, Finish(thread[t].later))
       ELSE Completes(t, FALSE, TRUE, Unhandled(t))
    /\ UNCHANGED <<calls, requests, queue, notices, kind, view>>

RequestOverdue(t, r) ==
    /\ PassedOn(t, r) /\ requests[r].state = "Waiting" /\ requests[r].overdue
    /\ Completes(t, FALSE, TRUE, Unhandled(t))
    /\ UNCHANGED <<calls, requests, queue, notices, kind, view>>

NotForRequest(t, r) ==
    /\ PassedOn(t, r) /\ ~(requests[r].state = "Waiting" /\ requests[r].overdue)
    /\ Does(t, Finish(Unhandled(t)))
    /\ UNCHANGED <<calls, requests, queue, notices, kind, view>>

-----------------------------------------------------------------------------
(* CompleteRequest.                                                         *)

\* With the request locked: what to do, and the end if it is completed.
CompleteRequest(t) ==
    LET r == thread[t].request
    IN  /\ thread[t].at = "complete"
        /\ IF requests[r].state = "Completed"
           THEN /\ Does(t, IF thread[t].remove THEN Finish(thread[t].later)
                           ELSE [thread[t] EXCEPT !.at = "setCallState"])
                /\ UNCHANGED <<requests, queue>>
           ELSE /\ Does(t, [thread[t] EXCEPT !.at = "reply",
                       !.current = queue # <<>> /\ Head(queue) = r,
                       !.send = ~requests[r].sent])
                /\ IF thread[t].remove
                   THEN /\ requests' = RequestState(r, "Completed")
                        /\ queue' = Without(queue, {r})
                   ELSE UNCHANGED <<requests, queue>>
        /\ UNCHANGED <<calls, notices, kind, view>>

(* Unlocked again.  A call that was dropped takes its other requests with   *)
(* it, which fail, and the next request is started if this one was the      *)
(* current one.                                                             *)
ReplyToTapi(t) ==
    LET r == thread[t].request
        others == IF requests[r].command = "DROPCALL" /\ thread[t].ok
                  THEN RequestsOf(requests[r].call) \ {r} ELSE {}
        told == [requests EXCEPT ![r].sent = TRUE,
                    ![r].replies = IF thread[t].send
                                   THEN Append(@, thread[t].ok) ELSE @]
    IN  /\ thread[t].at = "reply"
        /\ calls' = Failed(calls, IF thread[t].ok THEN others ELSE {r})
        /\ requests' = Answered(told, others, FALSE)
        /\ queue' = Without(queue, others)
        /\ Does(t, IF ~thread[t].remove
                   THEN [thread[t] EXCEPT !.at = "setCallState"]
                   ELSE IF thread[t].current /\ queue' # <<>>
                   THEN Receives(thread[t].later)
                   ELSE Finish(thread[t].later))
        /\ UNCHANGED <<notices, kind, view>>

\* Mutation: the call is taken to be connected.
SetMadeCallConnected(t) ==
    /\ thread[t].at = "setCallState"
    /\ SetCallState(requests[thread[t].request].call, "CONNECTED")
    /\ Completes(t, TRUE, TRUE, thread[t].later)
    /\ UNCHANGED <<notices, kind, view>>

\* OnMakeCall sets the state of the call and then removes its request.
SetMadeCallState(t) ==
    /\ thread[t].at = "setCallState"
    /\ SetCallState(requests[thread[t].request].call, thread[t].event.state)
    /\ Completes(t, TRUE, TRUE, thread[t].later)
    /\ UNCHANGED <<notices, kind, view>>

(* UnsolicitedCallEvent.  A call that the line does not know is a new one,  *)
(* whatever its state, unless it comes from TAPI.                           *)
UnsolicitedCallEvent(t) ==
    LET event == thread[t].later
        new   == CASE kind[event.id] = "IncomingCall" -> "OFFERING"
                   [] OTHER -> "PROCEEDING"
    IN  /\ thread[t].at = "unsolicited"
        /\ IF FindCallByCallID(event.id) # {}
           THEN \E c \in FindCallByCallID(event.id) : SetCallState(c, event.state)
           ELSE /\ calls' = IF kind[event.id] = "MakeCall" THEN calls
                            ELSE Append(calls, NewAppearance(event.id, new))
                /\ UNCHANGED <<requests, queue>>
        /\ Does(t, Resting)
        /\ UNCHANGED <<notices, kind, view>>

\* REQUEST_TIMEOUT passes for a request that waits.
TimePasses(r) ==
    /\ InQueue(r) /\ requests[r].state = "Waiting" /\ ~requests[r].overdue
    /\ requests' = [requests EXCEPT ![r].overdue = TRUE]
    /\ UNCHANGED <<calls, queue, thread, notices, kind, view>>

-----------------------------------------------------------------------------
(* The call state machine, by its promise.                                  *)

Shown(id, state) ==
    [i \in DOMAIN view \cup {id} |->
        IF i = id THEN [state |-> state, removed |-> state = "IDLE"]
        ELSE view[i]]

\* A call that does not come from TAPI.
CallFromOutside(k) ==
    LET state == IF k = "IncomingCall" THEN "OFFERING" ELSE "PROCEEDING"
    IN  /\ Cardinality({i \in DOMAIN kind : kind[i] # "MakeCall"}) < MaxOutside
        /\ kind' = Append(kind, k)
        /\ view' = Shown(NextId, state)
        /\ notices' = Append(notices, [id |-> NextId, state |-> state])
        /\ UNCHANGED <<calls, requests, queue, thread>>

\* The first notice of a dialled call, or the next one of any call.
Notify(id, state) ==
    /\ IF id \in DOMAIN view
       THEN ~view[id].removed /\ Rank(state) > Rank(view[id].state)
       ELSE state = "DIALTONE"
    /\ view' = Shown(id, state)
    /\ notices' = Append(notices, [id |-> id, state |-> state])
    /\ UNCHANGED <<calls, requests, queue, thread, kind>>

(* The end of a call: notified as its last state and as its removal, or as  *)
(* its removal alone when a time limit ends it, or not at all when the      *)
(* connection is lost.                                                      *)
EndOfCall(id, n) ==
    /\ id \in DOMAIN view /\ ~view[id].removed
    /\ view' = Shown(id, "IDLE")
    /\ notices' = notices \o [i \in 1 .. n |-> [id |-> id, state |-> "IDLE"]]
    /\ UNCHANGED <<calls, requests, queue, thread, kind>>

-----------------------------------------------------------------------------
TapiStep(t) ==
    \/ \E dialable \in Dialable : MakeCall(t, dialable)
    \/ \E c \in DOMAIN calls : DropCall(t, c)
    \/ \E c \in DOMAIN calls : CloseCall(t, c)

HandleRequest(t, r) ==
    \/ StartMakeCall(t, r)
    \/ StartMakeCallFails(t, r)
    \/ StartDropCall(t, r)
    \/ AnswerMakeCall(t, r)
    \/ AnswerDropCall(t, r)
    \/ RequestOverdue(t, r)
    \/ NotForRequest(t, r)

ThreadStep(t) ==
    \/ AddDropRequest(t)
    \/ GetCurrentRequest(t)
    \/ BeginRequest(t)
    \/ \E r \in DOMAIN requests : HandleRequest(t, r)
    \/ SetCallID(t)
    \/ CompleteRequest(t)
    \/ ReplyToTapi(t)
    \/ SetMadeCallState(t)
    \/ UnsolicitedCallEvent(t)

MachineStep ==
    \/ \E k \in OutsideKinds : CallFromOutside(k)
    \/ \E id \in DOMAIN kind :
          \/ \E state \in States : Notify(id, state)
          \/ \E n \in EndNotices : EndOfCall(id, n)

Next ==
    \/ \E t \in TapiThreads : TapiStep(t)
    \/ \E t \in Threads : ThreadStep(t)
    \/ TimerFires
    \/ PoolTakes
    \/ \E r \in DOMAIN requests : TimePasses(r)
    \/ MachineStep

Spec == Init /\ [][Next]_vars

(* Every thread goes on, the timer fires each second, the pool takes what   *)
(* was added, and time passes.  Nothing is assumed of TAPI and the machine. *)
Runs(t) ==
    \/ ThreadStep(t)
    \/ t = Timer /\ TimerFires
    \/ t = Pool /\ PoolTakes

FairSpec ==
    /\ Spec
    /\ \A t \in Threads : WF_vars(Runs(t))
    /\ WF_vars(\E r \in DOMAIN requests : TimePasses(r))

-----------------------------------------------------------------------------
TypeOK ==
    /\ calls \in Seq(Appearances)
    /\ requests \in Seq(Requests)
    /\ queue \in Seq(DOMAIN requests)
    /\ thread \in [Threads -> Doings]
    /\ notices \in Seq(Notices)
    /\ kind \in Seq(Kinds)
    /\ view \in [DOMAIN view -> Calls]

(* FindCallByCallID never has a choice: however the pool, the timer and the *)
(* threads of TAPI interleave, a call of the machine has one appearance on  *)
(* the line.                                                                *)
OneAppearance ==
    \A id \in DOMAIN kind : \A b, c \in DOMAIN calls :
        /\ calls[b].listed /\ calls[c].listed
        /\ calls[b].id = id /\ calls[c].id = id
        => b = c

(* TAPI passes no state of a call that it makes on to applications before   *)
(* the request was answered (Call.cpp, SetCallState): no thread may set a   *)
(* state while the request has no reply, wherever in the queue it is.  (A   *)
(* request that was removed but is not yet answered is out of reach here.)  *)
StateAfterReply ==
    \A r \in DOMAIN requests :
        /\ InQueue(r) /\ requests[r].command = "MAKECALL"
        /\ calls[requests[r].call].state # "UNKNOWN"
        => requests[r].replies # <<>>

\* TAPI was told that the request succeeded.
Granted(r) ==
    \E i \in DOMAIN requests[r].replies : requests[r].replies[i]

\* TAPI was told that the request failed.
Refused(r) ==
    \E i \in DOMAIN requests[r].replies : ~requests[r].replies[i]

(* lineDrop is never swallowed for good: a call that is marked as dropped   *)
(* (_IsDropped) and goes on has a request to drop it that TAPI has not been *)
(* told to have failed, whichever thread completes the requests, as the     *)
(* current one, with the end of the call, or with another request.          *)
MarkedCallIsDropped ==
    \A c \in DOMAIN calls : Active(calls[c]) /\ calls[c].dropped =>
        \E r \in DOMAIN requests :
            /\ requests[r].command = "DROPCALL" /\ requests[r].call = c
            /\ ~Refused(r)

\* The call was dialled more than once (see DialsOnce).
Redialled(c) == \E r \in DOMAIN requests :
    requests[r].call = c /\ requests[r].dials > 1

(* A success that TAPI was told is one of the server: a call that was made  *)
(* has been notified by the machine, and one that was dropped has ended,    *)
(* though the time limit, an event and SetCallState may all answer.         *)
RepliesAreTrue ==
    \A r \in DOMAIN requests : Granted(r) =>
        LET c == requests[r].call
        IN  \/ calls[c].id = 0 \/ Redialled(c)
            \/ /\ calls[c].id \in DOMAIN view
               /\ requests[r].command = "DROPCALL" => view[calls[c].id].removed

(* The line never shows more of a call than the machine has notified of     *)
(* that very call: no event is taken for one of another call, by a request  *)
(* that waits, by UnsolicitedEvent, or by an answer that comes too late.    *)
LineFollowsMachine ==
    \A c \in DOMAIN calls :
        Active(calls[c]) /\ ~Redialled(c) =>
            /\ calls[c].id \in DOMAIN view
            /\ Rank(calls[c].state) <= Rank(view[calls[c].id].state)

\* Every request that was accepted is answered in the end.
EveryRequestReplied ==
    []<>(\A r \in DOMAIN requests : requests[r].replies # <<>>)

\* Nothing is on its way: no request, no notice, no thread at work.
Quiet ==
    /\ queue = <<>> /\ notices = <<>>
    /\ \A t \in Threads : thread[t] = Resting

(* When all is quiet, a call that has ended is idle on the line, or else it *)
(* stays active and the line refuses to make another call.                  *)
EndedCallIsIdle ==
    Quiet => \A c \in DOMAIN calls :
        Active(calls[c]) => ~view[calls[c].id].removed

\* A request makes one call (OnMakeCall: "thread-safe and atomic").
DialsOnce == \A r \in DOMAIN requests : requests[r].dials <= 1
=============================================================================
