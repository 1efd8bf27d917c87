-------------------------- MODULE CallStateMachine --------------------------
(***************************************************************************)
(* OnSipCallStateMachine and its base classes OnSipStateMachineBase and    *)
(* StateMachine: the list of call handlers, the queues through which TAPI  *)
(* threads reach it, and the thread that polls the queues and receives the *)
(* events of the server.  The server and the network are external: they    *)
(* publish, answer and retract calls in every order a SIP server can.      *)
(***************************************************************************)
EXTENDS CallHandlers

CONSTANTS
    MaxDrops,           \* bound: drop requests of TAPI threads
    MaxDisconnects,     \* bound: losses of the XMPP connection
    MaxOthers           \* bound: messages with an error or an odd dialog-state

ASSUME FaultAssumption ==
    MaxDrops \in Nat /\ MaxDisconnects \in Nat /\ MaxOthers \in Nat

VARIABLES
    stateHandlers,      \* m_stateHandlers: handlers by their place in the list
    pushed,             \* number of handlers ever put at the end of the list
    nextId,             \* UniqueId_ts: the next call id or IQ context
    making,             \* MakeCallAsync calls that have an id and no request yet
    handlerRequests,    \* m_handlerRequests: handlers to be added
    lstRequests,        \* the requests taken by the poll that is running
    events,             \* m_events: call ids of drop requests
    lstEvents,          \* the drop requests taken by the poll that is running
    phase,              \* where the XMPP thread is
    clock,              \* clock(), up to what the call-setup-ids tell apart
    told,               \* the last OnStateChange notification for each call id
    items,              \* server: the state of each published item
    dials,              \* server: the "create" requests, in order
    iqs,                \* contexts of the requests that are still unanswered
    online,             \* the server's events reach this client
    drops, disconnects, others      \* how often these have happened

machine == <<stateHandlers, pushed, told>>
queues  == <<making, handlerRequests, lstRequests, events, lstEvents>>
server  == <<items, dials>>
counts  == <<drops, disconnects, others>>
vars == <<stateHandlers, pushed, nextId, making, handlerRequests, lstRequests,
          events, lstEvents, phase, clock, told, items, dials, iqs, online,
          drops, disconnects, others>>

Phases == {"recv", "requests", "events"}
ItemStates == {"none", "ringing", "confirmed", "retracted"}

(* A notification: what OnStateChange passes on, and whether the reason was *)
(* RemovedHandler.                                                          *)
Notification(h, removed) ==
    [state |-> h.state, callType |-> h.data.callType,
     item |-> h.data.item, removed |-> removed]

Notifications == [state : CallStates, callType : CallTypes,
                  item : Items \cup {NoItem}, removed : BOOLEAN]

(* A "create" request: its context and call-setup-id, the number, and       *)
(* whether it came to nothing because it was lost or refused.               *)
Dials == [context : Nat, setup : Nat, number : Numbers, failed : BOOLEAN]

Init ==
    /\ stateHandlers = <<>> /\ pushed = 0 /\ nextId = 1
    /\ making = {} /\ handlerRequests = <<>> /\ lstRequests = <<>>
    /\ events = <<>> /\ lstEvents = <<>>
    /\ phase = "recv" /\ clock = 1 /\ told = <<>>
    /\ items = [i \in Items |-> "none"] /\ dials = <<>>
    /\ iqs = {} /\ online = TRUE /\ drops = 0 /\ disconnects = 0 /\ others = 0

-----------------------------------------------------------------------------
(* The handler list.                                                        *)

(* _checkStateHandlersExist on the handlers hs, after OnStateChange has been *)
(* called for those at the places changed: a handler whose IsStillExist is   *)
(* false is reported as removed and deleted.                                 *)
Settle(hs, changed) ==
    LET gone == {p \in DOMAIN hs : ~IsStillExist(hs[p])}
        about(c) == {p \in gone \cup changed : hs[p].data.callId = c}
        notified == {hs[p].data.callId : p \in gone \cup changed}
    IN  /\ stateHandlers' =
              [p \in DOMAIN hs \ gone |-> CheckStateTimeout(hs[p])]
        /\ told' = [c \in DOMAIN told \cup notified |->
              IF c \in notified
              THEN LET p == CHOOSE q \in about(c) : TRUE
                   IN  Notification(hs[p], p \in gone)
              ELSE told[c]]

Owners(e) == {p \in DOMAIN stateHandlers : Owns(stateHandlers[p], e)}

\* A handler put at the end of the list.
PushBack(h) == [p \in DOMAIN stateHandlers \cup {pushed + 1} |->
                   IF p = pushed + 1 THEN h ELSE stateHandlers[p]]

(* Requests sent under the contexts cs: without a connection they are lost, *)
(* unless the stream is already up and only the subscription is missing.    *)
Sent(cs) == IF online THEN {cs} ELSE {cs, {}}

(* SignalEvent, first half: the first handler in the list that accepts the  *)
(* event handles it.  A drop request sends one "terminate" for each branch. *)
OwnerHandles(e, unanswered) ==
    \E p \in Owners(e) :
        LET h == stateHandlers[p]
            n == IF e.type = "dropRequest" THEN Len(h.branches) ELSE 0
            contexts == nextId .. nextId + n - 1
        IN  /\ \A q \in Owners(e) : p <= q
            /\ Settle([stateHandlers EXCEPT ![p] = HandleEvent(h, e, contexts)], {p})
            /\ nextId' = nextId + n
            /\ \E sent \in Sent(contexts) : iqs' = unanswered \cup sent
            /\ UNCHANGED pushed

\* SignalEvent, second half: no owner, and UnknownEvent makes a handler.
UnknownEvent(e, unanswered) ==
    /\ Owners(e) = {}
    /\ e.type = "activeCall" /\ e.dialog \in {"created", "requested"}
    /\ Settle(PushBack(IF e.dialog = "created" THEN NewOutgoing(e, nextId)
                                               ELSE NewIncoming(e, nextId)),
              {pushed + 1})
    /\ pushed' = pushed + 1
    /\ nextId' = nextId + 1
    /\ iqs' = unanswered

\* SignalEvent, second half: no owner, and UnknownEvent drops the event.
IgnoredEvent(e, unanswered) ==
    /\ Owners(e) = {}
    /\ ~(e.type = "activeCall" /\ e.dialog \in {"created", "requested"})
    /\ Settle(stateHandlers, {})
    /\ iqs' = unanswered
    /\ UNCHANGED <<pushed, nextId>>

SignalEvent(e, unanswered) ==
    \/ OwnerHandles(e, unanswered)
    \/ UnknownEvent(e, unanswered)
    \/ IgnoredEvent(e, unanswered)

-----------------------------------------------------------------------------
(* TAPI threads.                                                            *)

\* Handlers that have been asked for and are not in the list yet, in order.
PendingRequests == lstRequests \o handlerRequests

\* Mutation: two threads may read the id counter before it is advanced.
MakeCallAsyncUnlocked(number) ==
    /\ Cardinality(making) + Len(PendingRequests) + Len(dials) < MaxDials
    /\ making' = making \cup {[callId |-> nextId, number |-> number]}
    /\ UNCHANGED <<machine, nextId, handlerRequests, lstRequests, events, lstEvents,
                   phase, clock, server, iqs, online, counts>>

(* MakeCallAsync takes a call id ...                                        *)
MakeCallAsync(number) ==
    /\ Cardinality(making) + Len(PendingRequests) + Len(dials) < MaxDials
    /\ making' = making \cup {[callId |-> nextId, number |-> number]}
    /\ nextId' = nextId + 1
    /\ UNCHANGED <<machine, handlerRequests, lstRequests, events, lstEvents,
                   phase, clock, server, iqs, online, counts>>

(* ... and then queues the handler; another thread may run between.         *)
AddStateHandler(m) ==
    /\ making' = making \ {m}
    /\ handlerRequests' = Append(handlerRequests, NewMakeCall(m.number, m.callId))
    /\ UNCHANGED <<machine, nextId, lstRequests, events, lstEvents, phase,
                   clock, server, iqs, online, counts>>

\* The calls a TAPI thread may name: those it asked for and those it was told.
KnownCallIds == {PendingRequests[n].data.callId : n \in DOMAIN PendingRequests}
                    \cup DOMAIN told

DropCallAsync(callId) ==
    /\ drops < MaxDrops
    /\ drops' = drops + 1
    /\ events' = Append(events, callId)
    /\ UNCHANGED <<machine, nextId, making, handlerRequests, lstRequests,
                   lstEvents, phase, clock, server, iqs, online, disconnects, others>>

-----------------------------------------------------------------------------
(* PollStateHandlers, on the XMPP thread: all requests, then all events,    *)
(* then the time limits.  TAPI threads run between any two of these steps.  *)

\* _getRequests.  The last poll is at least 250 ms ago: a new clock value.
GetRequests ==
    /\ phase = "recv"
    /\ phase' = "requests"
    /\ lstRequests' = handlerRequests
    /\ handlerRequests' = <<>>
    /\ clock' = IF handlerRequests = <<>> THEN clock ELSE clock + 1
    /\ UNCHANGED <<machine, nextId, making, events, lstEvents, server, iqs,
                   online, counts>>

(* One request: PreExecute dials, then the handler is added and reported.   *)
(* Its IsStillExist is true, for PreExecute has just started its clock.     *)
(* Requests of one poll may find the same clock value.                      *)
HandleRequest ==
    /\ phase = "requests" /\ lstRequests # <<>>
    /\ LET h == PreExecute(Head(lstRequests), nextId, clock)
       IN  /\ stateHandlers' = PushBack(h)
           /\ told' = [c \in DOMAIN told \cup {h.data.callId} |->
                 IF c = h.data.callId THEN Notification(h, FALSE) ELSE told[c]]
           /\ \E sent \in Sent({nextId}) :
                 /\ iqs' = iqs \cup sent
                 /\ dials' = Append(dials, [context |-> nextId, setup |-> clock,
                                            number |-> h.to, failed |-> sent = {}])
    /\ pushed' = pushed + 1
    /\ nextId' = nextId + 1
    /\ lstRequests' = Tail(lstRequests)
    /\ clock' \in IF Tail(lstRequests) = <<>> THEN {clock} ELSE {clock, clock + 1}
    /\ UNCHANGED <<making, handlerRequests, events, lstEvents, phase, items,
                   online, counts>>

\* _getEvents.
GetEvents ==
    /\ phase = "requests" /\ lstRequests = <<>>
    /\ phase' = "events"
    /\ lstEvents' = events
    /\ events' = <<>>
    /\ UNCHANGED <<machine, nextId, making, handlerRequests, lstRequests,
                   clock, server, iqs, online, counts>>

\* One drop request.
HandleDropRequest ==
    /\ phase = "events" /\ lstEvents # <<>>
    /\ SignalEvent(DropRequestEvent(Head(lstEvents)), iqs)
    /\ lstEvents' = Tail(lstEvents)
    /\ UNCHANGED <<making, handlerRequests, lstRequests, events, phase, clock,
                   server, online, counts>>

\* StateMachine::PollStateHandlers: call handlers have nothing to poll.
PollStateHandlers ==
    /\ phase = "events" /\ lstEvents = <<>>
    /\ phase' = "recv"
    /\ Settle(stateHandlers, {})
    /\ UNCHANGED <<pushed, nextId, queues, clock, server, iqs, online, counts>>

\* A handler stays in its state beyond the time limit, if there is one.
TimePasses(p) ==
    /\ ~DisableTimeout /\ ~stateHandlers[p].expired
    /\ stateHandlers' = [stateHandlers EXCEPT ![p].expired = TRUE]
    /\ UNCHANGED <<pushed, told, nextId, queues, phase, clock, server, iqs,
                   online, counts>>

-----------------------------------------------------------------------------
(* The server.  What it publishes reaches the client inside recv; without a *)
(* connection it goes on and nobody hears of it.                            *)

Leg(item) == {i \in Items : SipCall(i) = SipCall(item)}

OfDial(item) == item.kind \in {"in", "out"}

(* The leg of a dialled call is begun by its request, the second leg when   *)
(* the user has answered the first.  Other calls begin at any time.         *)
MayBegin(item) ==
    CASE item.kind = "in"  -> item.call \in DOMAIN dials /\ ~dials[item.call].failed
      [] item.kind = "out" -> \E i \in InLegs : /\ i.call = item.call
                                                /\ items[i] = "confirmed"
      [] OTHER -> \A i \in Items :
                     i.kind = item.kind /\ i.call < item.call => items[i] # "none"

\* A phone rings while another one does, or first; phones are numbered so.
MayRing(item) ==
    /\ items[item] = "none"
    /\ MayBegin(item)
    /\ \A i \in Leg(item) : /\ items[i] # "confirmed"
                            /\ i.branch < item.branch => items[i] # "none"
    /\ item.branch > 1 => \E i \in Leg(item) : items[i] = "ringing"

\* The message for an item of the given dialog state.
Message(item, dialog, error) ==
    ActiveCallEvent(item, dialog,
        IF item.kind = "out" THEN dials[item.call].number
        ELSE IF item.kind = "physical" THEN Remote ELSE User,
        IF item.kind \in {"out", "physical"} THEN User ELSE Remote,
        IF OfDial(item) THEN dials[item.call].setup ELSE NoSetup,
        error)

Receive(e) ==
    /\ phase = "recv"
    /\ IF online THEN SignalEvent(e, iqs)
                 ELSE UNCHANGED <<stateHandlers, pushed, told, nextId, iqs>>
    /\ UNCHANGED <<queues, phase, clock, dials, online, drops, disconnects>>

Ring(item) ==
    /\ MayRing(item)
    /\ items' = [items EXCEPT ![item] = "ringing"]
    /\ UNCHANGED others
    /\ Receive(Message(item, IF item.kind \in {"out", "physical"}
                             THEN "created" ELSE "requested", FALSE))

Answer(item) ==
    /\ items[item] = "ringing"
    /\ \A i \in Leg(item) : items[i] # "confirmed"
    /\ items' = [items EXCEPT ![item] = "confirmed"]
    /\ UNCHANGED others
    /\ Receive(Message(item, "confirmed", FALSE))

Retract(item) ==
    /\ items[item] \in {"ringing", "confirmed"}
    /\ items' = [items EXCEPT ![item] = "retracted"]
    /\ UNCHANGED others
    /\ Receive(RetractCallEvent(item))

\* A message with another dialog-state, or one that carries an error.
PublishOther(item, error) ==
    /\ items[item] \in {"ringing", "confirmed"}
    /\ others < MaxOthers
    /\ others' = others + 1
    /\ Receive(Message(item, "unknown", error))
    /\ UNCHANGED items

(* Answers to IQs, in any order.  A refused "create" comes back with its    *)
(* form or without it, and then it is a plain IQ result.                    *)
ReceiveReply(context, e) ==
    /\ phase = "recv"
    /\ context \in iqs
    /\ SignalEvent(e, iqs \ {context})
    /\ UNCHANGED <<queues, phase, clock, items, online, counts>>

DialOf(context) == {k \in DOMAIN dials : dials[k].context = context}

ReplyTerminate(context) ==
    /\ DialOf(context) = {}
    /\ ReceiveReply(context, IqResultEvent(context))
    /\ UNCHANGED dials

AcceptCreate(context) ==
    /\ DialOf(context) # {}
    /\ ReceiveReply(context, CallRequestEvent(context, FALSE))
    /\ UNCHANGED dials

RefuseCreate(context, e) ==
    \E k \in DialOf(context) :
        /\ \A i \in InLegs : i.call = k => items[i] = "none"
        /\ dials' = [dials EXCEPT ![k].failed = TRUE]
        /\ ReceiveReply(context, e)

RefuseWithForm(context) == RefuseCreate(context, CallRequestEvent(context, TRUE))
RefuseWithoutForm(context) == RefuseCreate(context, IqResultEvent(context))

-----------------------------------------------------------------------------
(* The connection.                                                          *)

\* Mutation: what the queues hold is thrown away with the handlers.
DisconnectClearsQueues ==
    /\ phase = "recv" /\ disconnects < MaxDisconnects
    /\ disconnects' = disconnects + 1
    /\ online' = FALSE
    /\ stateHandlers' = <<>>
    /\ handlerRequests' = <<>>
    /\ iqs' = {}
    /\ UNCHANGED <<pushed, told, nextId, making, lstRequests, events, lstEvents,
                   phase, clock, server, drops, others>>

(* recv fails, Disconnect cleans up and Start makes a new XMPP client: the  *)
(* handlers are deleted without a notification, the queues are kept.        *)
Disconnect ==
    /\ phase = "recv" /\ disconnects < MaxDisconnects
    /\ disconnects' = disconnects + 1
    /\ online' = FALSE
    /\ stateHandlers' = <<>>
    /\ iqs' = {}
    /\ UNCHANGED <<pushed, told, nextId, queues, phase, clock, server, drops,
                   others>>

\* Logged in again, and subscribed to the call events.
Connect ==
    /\ phase = "recv" /\ ~online
    /\ online' = TRUE
    /\ UNCHANGED <<machine, nextId, queues, phase, clock, server, iqs, counts>>

-----------------------------------------------------------------------------
TapiThreads ==
    \/ \E n \in Numbers : MakeCallAsync(n)
    \/ \E m \in making : AddStateHandler(m)
    \/ \E c \in KnownCallIds : DropCallAsync(c)

Poll == \/ GetRequests
        \/ HandleRequest
        \/ GetEvents
        \/ HandleDropRequest
        \/ PollStateHandlers

ServerCalls ==
    \/ \E i \in Items : Ring(i)
    \/ \E i \in Items : Answer(i)
    \/ \E i \in Items : Retract(i)
    \/ \E i \in Items, error \in BOOLEAN : PublishOther(i, error)

ServerReplies ==
    \/ \E c \in iqs : ReplyTerminate(c)
    \/ \E c \in iqs : AcceptCreate(c)
    \/ \E c \in iqs : RefuseWithForm(c)
    \/ \E c \in iqs : RefuseWithoutForm(c)

Next ==
    \/ TapiThreads
    \/ Poll
    \/ ServerCalls
    \/ ServerReplies
    \/ \E p \in DOMAIN stateHandlers : TimePasses(p)
    \/ Disconnect
    \/ Connect

Spec == Init /\ [][Next]_vars

-----------------------------------------------------------------------------
(* Fairness: with a connection, OnSipTapi::Poll is called in a loop; a poll *)
(* that has begun is finished; after an outage the connection thread tries  *)
(* again until it is logged in, and outages end; a request that has an id   *)
(* is queued; time passes.  Without a connection nothing polls for sure     *)
(* (InitOnSipTapi returns before its first Poll), and nothing is assumed of *)
(* TAPI applications or of what the server publishes and answers.           *)
Fairness ==
    /\ WF_vars(online /\ GetRequests)
    /\ WF_vars(HandleRequest) /\ WF_vars(GetEvents)
    /\ WF_vars(HandleDropRequest) /\ WF_vars(PollStateHandlers)
    /\ WF_vars(Connect)
    /\ WF_vars(\E m \in making : AddStateHandler(m))
    /\ \A p \in 1..(Cardinality(Items) + MaxDials) :
          WF_vars(p \in DOMAIN stateHandlers /\ TimePasses(p))

FairSpec == Spec /\ Fairness

-----------------------------------------------------------------------------
(* Safety.                                                                  *)

(* The type of every variable.                                              *)
TypeOK ==
    /\ stateHandlers \in [DOMAIN stateHandlers -> Handlers]
    /\ DOMAIN stateHandlers \subseteq 1..pushed
    /\ pushed \in Nat /\ nextId \in Nat \ {0} /\ clock \in Nat \ {0}
    /\ making \in SUBSET [callId : Nat, number : Numbers]
    /\ handlerRequests \in Seq(Handlers) /\ lstRequests \in Seq(Handlers)
    /\ events \in Seq(Nat) /\ lstEvents \in Seq(Nat)
    /\ phase \in Phases
    /\ told \in [DOMAIN told -> Notifications]
    /\ DOMAIN told \subseteq 1..nextId
    /\ items \in [Items -> ItemStates]
    /\ dials \in Seq(Dials)
    /\ iqs \in SUBSET Nat
    /\ online \in BOOLEAN
    /\ drops \in Nat /\ disconnects \in Nat /\ others \in Nat

(* No two calls ever have the same call id, whatever threads make them: not *)
(* two handlers of the list, not a handler and a request on its way to it.  *)
UniqueCallIds ==
    /\ \A p, q \in DOMAIN stateHandlers :
          stateHandlers[p].data.callId = stateHandlers[q].data.callId => p = q
    /\ \A m, n \in DOMAIN PendingRequests :
          PendingRequests[m].data.callId = PendingRequests[n].data.callId => m = n
    /\ \A n \in DOMAIN PendingRequests :
          LET c == PendingRequests[n].data.callId
          IN  /\ c < nextId /\ c \notin DOMAIN told
              /\ \A p \in DOMAIN stateHandlers : stateHandlers[p].data.callId # c
              /\ \A m \in making : m.callId # c

(* What the last notification said of a call is what its handler says now;  *)
(* only a handler that has just run out of time (CheckStateTimeout, "let it *)
(* be handled on the next poll check") is dropped without TAPI knowing, and *)
(* no handler outlives its removal notice.                                  *)
ReportInSync ==
    \A p \in DOMAIN stateHandlers :
        LET h == stateHandlers[p]
            c == h.data.callId
        IN  /\ c \in DOMAIN told
            /\ ~told[c].removed /\ told[c].state # "Dropped"
            /\ h.state # "Dropped" => told[c] = Notification(h, FALSE)

(* CheckDroppedCall overwrites the state data of a call by that of another  *)
(* of its branches: the call keeps its id, its type and its call-setup-id,  *)
(* without which the events that are still to come would not find it.       *)
IdentityKept ==
    \A p \in DOMAIN stateHandlers :
        LET h == stateHandlers[p]
        IN  /\ h.data.callType = h.class
            /\ h.class = "MakeCall" <=> h.data.setup # NoSetup
            /\ \A n \in DOMAIN h.branches :
                  /\ h.branches[n].callId = h.data.callId
                  /\ h.branches[n].callType = h.data.callType
                  /\ h.branches[n].setup = h.data.setup

(* The item that a call is shown as is one of its branches, no branch is    *)
(* listed twice, and a call that the server announced always has a branch:  *)
(* a drop request for it finds something to terminate.                      *)
ShownItemIsBranch ==
    \A p \in DOMAIN stateHandlers :
        LET h == stateHandlers[p]
        IN  h.state # "Dropped" =>
              /\ h.data.item # NoItem /\ h.branches # <<>>
                    => HasId(h.branches, h.data.item)
              /\ \A m, n \in DOMAIN h.branches :
                    h.branches[m].item = h.branches[n].item => m = n
              /\ h.class # "MakeCall" => h.branches # <<>>

(* No handler is ever in a state without a time limit, so none can be stuck *)
(* (Releases.txt, 5-22-09: checks for "a state that we can get stuck in").  *)
EveryStateTimed ==
    \A p \in DOMAIN stateHandlers :
        stateHandlers[p].state \in TimedStates(stateHandlers[p].class) \cup {"Dropped"}

(* A dialled call is not shown as a second, incoming or physical, call      *)
(* while its own handler lives: the legs go to it in whatever order the     *)
(* answer to the request and the messages arrive.                           *)
LegsBelongToDial ==
    \A p, q \in DOMAIN stateHandlers :
        LET h == stateHandlers[p]
            g == stateHandlers[q]
        IN  h.class = "MakeCall" /\ g.class # "MakeCall" =>
              \A n \in DOMAIN g.branches :
                  OfDial(g.branches[n].item) =>
                      dials[g.branches[n].item.call].setup # h.data.setup

(* TAPI is told that a call is connected only after the other side answered *)
(* it: for a dialled call the leg to the number, not the user's own phone.  *)
ConnectedWasAnswered ==
    \A p \in DOMAIN stateHandlers :
        LET h == stateHandlers[p]
            answered(i) == items[i] \in {"confirmed", "retracted"}
        IN  h.state = "Connected" =>
              IF h.class = "MakeCall"
              THEN \E k \in DOMAIN dials : /\ dials[k].setup = h.data.setup
                                           /\ answered(Item("out", k, 1))
              ELSE \E i \in Leg(h.data.item) : answered(i)

(* As long as the connection holds, a call that TAPI sees as alive still    *)
(* has an item that the server has not retracted.                           *)
LiveCallHasLiveItem ==
    \A p \in DOMAIN stateHandlers :
        LET h == stateHandlers[p]
        IN  disconnects = 0 /\ h.state # "Dropped" /\ h.branches # <<>> =>
              \E n \in DOMAIN h.branches : items[h.branches[n].item] # "retracted"

(* The assertion of CheckDropRequestEvent: the call to be dropped has       *)
(* branches.                                                                *)
DropFindsBranch ==
    phase = "events" /\ lstEvents # <<>> =>
        \A p \in Owners(DropRequestEvent(Head(lstEvents))) :
            stateHandlers[p].branches # <<>>

-----------------------------------------------------------------------------
(* Implementation of the abstract view.                                     *)

(* OnSipTapiCall::GetTapiCallState: the TAPI state of a notification.  A    *)
(* call that is being dropped still counts as connected.                    *)
GetTapiCallState(state, callType) ==
    CASE state = "Dropped" -> "IDLE"
      [] state \in {"Connected", "PreDropCall"} -> "CONNECTED"
      [] state = "PhysicalOutProceeding" -> "PROCEEDING"
      [] state = "Offering" -> "OFFERING"
      [] state \in {"PreMakeCall", "MakeCallSet"} /\ callType = "MakeCall" -> "DIALTONE"
      [] state \in {"MakeCallRequested", "MakeCallRequestedAnswered"}
            /\ callType = "MakeCall" -> "DIALING"
      [] state = "MakeCallOutgoingCreated" /\ callType = "MakeCall" -> "PROCEEDING"
      [] OTHER -> "UNKNOWN"

toldView == [c \in DOMAIN told |->
                [state |-> GetTapiCallState(told[c].state, told[c].callType),
                 removed |-> told[c].removed]]

View == INSTANCE TapiCallView WITH CallId <- Nat, view <- toldView

(* The notifications implement TapiCallView: no call is reported twice or   *)
(* after its removal, none goes back, none has an unknown TAPI state, and   *)
(* a late message or a time limit that races a drop changes none of that.   *)
ImplementsView == View!ViewSpec

-----------------------------------------------------------------------------
(* Liveness.                                                                *)

CallIds == 1..(Cardinality(Items) + 2 * MaxDials + MaxDrops * (MaxBranches + 1))

(* Every call that TAPI was told of is reported as removed in the end, even *)
(* if the server falls silent: no call is stuck, unless the connection is   *)
(* lost, for then the handlers are deleted and nothing is reported.         *)
EveryCallEnds ==
    \A c \in CallIds :
        c \in DOMAIN told ~> \/ c \in DOMAIN told /\ told[c].removed
                            \/ disconnects > 0

(* Every call a TAPI thread asked for is reported, even if the connection   *)
(* is lost between the request and the poll.                                *)
EveryRequestReported ==
    \A c \in CallIds : (\E m \in making : m.callId = c) ~> c \in DOMAIN told
=============================================================================
