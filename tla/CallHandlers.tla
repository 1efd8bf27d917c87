---------------------------- MODULE CallHandlers ----------------------------
(***************************************************************************)
(* The three state handlers of OnSipCallStateMachine.cpp, each of which    *)
(* follows one call: a call made from TAPI (OnSipMakeCallStateHandler), an *)
(* incoming call and a call placed on the phone itself.  A handler is a    *)
(* record; an event handler of the code is an operator from the record and *)
(* the event to the record afterwards, and Owns says which events it       *)
(* accepts (the result of IsYourEvent).  A definition marked "Mutation" is  *)
(* no part of the model: it is a slip that a property is shown to catch.    *)
(***************************************************************************)
EXTENDS CallEvents, SequencesExt

CONSTANT DisableTimeout     \* the registry switch that turns time limits off

ASSUME SwitchAssumption == DisableTimeout \in BOOLEAN

CallTypes == {"MakeCall", "IncomingCall", "PhysicalCall"}

CallStates ==
    {"Offering", "PhysicalOutProceeding", "Connected", "Dropped",
     "PreMakeCall", "MakeCallSet", "MakeCallRequested",
     "MakeCallRequestedAnswered", "MakeCallOutgoingCreated", "PreDropCall"}

(* OnSipCallStateData, without the names, tags and addresses: which         *)
(* published item the call is shown as, TAPI's id of the call, the type     *)
(* that TAPI is told and the call-setup-id.                                 *)
CallStateData == [item : Items \cup {NoItem}, callId : Nat,
                  callType : CallTypes, setup : Nat]

(* A handler.  class is its C++ class; branches is m_branches; to is        *)
(* m_toSipField; outId is m_out_id; context is m_contextId; dropped is      *)
(* m_droppedContextIds; expired stands for the clock: the handler has been  *)
(* in its state for longer than the time limit of that state.               *)
Handlers == [class : CallTypes, state : CallStates, data : CallStateData,
             branches : Seq(CallStateData), to : Numbers \cup {Remote},
             outId : Items \cup {NoItem}, context : Nat,
             dropped : SUBSET Nat, expired : BOOLEAN]

-----------------------------------------------------------------------------
(* callBranches: the published items of one call.                           *)

HasId(branches, item) == \E n \in DOMAIN branches : branches[n].item = item

\* Mutation: a branch that is already known is added once more.
AddBranchAgain(branches, data) == Append(branches, data)

AddBranch(branches, data) ==
    IF HasId(branches, data.item)
    THEN [n \in DOMAIN branches |->
            IF branches[n].item = data.item THEN data ELSE branches[n]]
    ELSE Append(branches, data)

RemoveById(branches, item) ==
    RemoveAt(branches, CHOOSE n \in DOMAIN branches : branches[n].item = item)

\* Mutation: the call-setup-id, an optional argument, is not passed on.
BranchDataWithoutSetup(h, e, setup) ==
    [item |-> e.item, callId |-> h.data.callId,
     callType |-> h.data.callType, setup |-> NoSetup]

\* The state data that AddBranch makes of an event for a handler's branches.
BranchData(h, e, setup) ==
    [item |-> e.item, callId |-> h.data.callId,
     callType |-> h.data.callType, setup |-> setup]

\* A new state restarts the clock of the handler.
AssignNewState(h, state) == [h EXCEPT !.state = state, !.expired = FALSE]

\* Mutation: the call stays shown as the branch that has gone.
CheckDroppedCallKeepsData(h, item) ==
    LET left == RemoveById(h.branches, item)
    IN  IF left # <<>>
        THEN [h EXCEPT !.branches = left]
        ELSE [AssignNewState(h, "Dropped") EXCEPT !.branches = left]

\* Mutation: off by one, the last branch is never removed.
CheckDroppedCallKeepsLast(h, item) ==
    LET left == RemoveById(h.branches, item)
    IN  IF left # <<>>
        THEN [h EXCEPT !.branches = left, !.data = left[1]]
        ELSE h

(* CheckDroppedCall and what its callers do with the answer: the item       *)
(* leaves the branches; with branches left the call lives on as the first   *)
(* of them, without any the call is dropped.                                *)
CheckDroppedCall(h, item) ==
    LET left == RemoveById(h.branches, item)
    IN  IF left # <<>>
        THEN [h EXCEPT !.branches = left, !.data = left[1]]
        ELSE [AssignNewState(h, "Dropped") EXCEPT !.branches = left]

-----------------------------------------------------------------------------
(* The constructors.                                                        *)

\* Mutation: the called party of the event is taken for the number to dial.
NewHandlerOfCallee(class, state, e, callId) ==
    LET data == [item |-> e.item, callId |-> callId,
                 callType |-> class, setup |-> NoSetup]
    IN  [class |-> class, state |-> state, data |-> data,
         branches |-> <<data>>, to |-> e.to, outId |-> NoItem,
         context |-> 0, dropped |-> {}, expired |-> FALSE]

\* A call published by the server that belongs to no handler.
NewHandler(class, state, e, callId) ==
    LET data == [item |-> e.item, callId |-> callId,
                 callType |-> class, setup |-> NoSetup]
    IN  [class |-> class, state |-> state, data |-> data,
         branches |-> <<data>>, to |-> Remote, outId |-> NoItem,
         context |-> 0, dropped |-> {}, expired |-> FALSE]

NewOutgoing(e, callId) ==
    NewHandler("PhysicalCall", "PhysicalOutProceeding", e, callId)

NewIncoming(e, callId) == NewHandler("IncomingCall", "Offering", e, callId)

\* A call that a TAPI thread asks for; the number is still to be dialled.
NewMakeCall(number, callId) ==
    [class |-> "MakeCall", state |-> "PreMakeCall",
     data |-> [item |-> NoItem, callId |-> callId,
               callType |-> "MakeCall", setup |-> NoSetup],
     branches |-> <<>>, to |-> number, outId |-> NoItem,
     context |-> 0, dropped |-> {}, expired |-> FALSE]

\* PreExecute: the number is dialled under a new context and call-setup-id.
PreExecute(h, context, setup) ==
    [AssignNewState(h, "MakeCallSet")
        EXCEPT !.context = context, !.data.setup = setup]

-----------------------------------------------------------------------------
(* IsYourEvent: which events a handler accepts.                             *)

\* Mutation: the leg that rings the user's own phones is not recognised.
MatchesSipsOfCallee(h, e) == h.to \in {e.to, e.from}

MatchesSips(h, e) == {e.to, e.from} \cap {h.to, User} # {}

SameCallSetupId(data, setup) == data.setup # NoSetup /\ data.setup = setup

OwnsActiveCall(h, e) ==
    IF h.class = "MakeCall"
    THEN MatchesSips(h, e) /\ SameCallSetupId(h.data, e.setup)
    ELSE SipCall(e.item) = SipCall(h.data.item)

\* Mutation: only the item that the call is shown as is recognised.
OwnsRetractOfShown(h, e) == h.class = "MakeCall" \/ h.data.item = e.item

\* A MakeCall handler accepts every retract, those of unknown items too.
OwnsRetract(h, e) == h.class = "MakeCall" \/ HasId(h.branches, e.item)

Owns(h, e) ==
    \/ e.type = "activeCall"  /\ OwnsActiveCall(h, e)
    \/ e.type = "retractCall" /\ OwnsRetract(h, e)
    \/ e.type = "dropRequest" /\ h.data.callId = e.callId
    \/ e.type = "iqResult"    /\ e.context \in h.dropped
    \/ e.type = "callRequest" /\ h.class = "MakeCall" /\ h.context = e.context

-----------------------------------------------------------------------------
(* IsYourEvent: what the accepted event does to the handler.                *)

\* Mutation: every message after the first counts as the answer.
ActiveCallOfPublishedAnswered(h, e) ==
    LET known == [h EXCEPT !.branches = AddBranch(@, BranchData(h, e, NoSetup))]
    IN  IF e.dialog # "requested"
        THEN [AssignNewState(known, "Connected") EXCEPT !.data.item = e.item]
        ELSE known

\* Mutation: each phone that rings announces the call anew.
ActiveCallOfPublishedAnew(h, e) ==
    LET known == [h EXCEPT !.branches = AddBranch(@, BranchData(h, e, NoSetup))]
    IN  CASE e.dialog = "confirmed" ->
               [AssignNewState(known, "Connected") EXCEPT !.data.item = e.item]
          [] e.dialog = "requested" -> AssignNewState(known, "Offering")
          [] OTHER -> known

\* Incoming and physical calls: only the answer moves the call.
ActiveCallOfPublished(h, e) ==
    LET known == [h EXCEPT !.branches = AddBranch(@, BranchData(h, e, NoSetup))]
    IN  IF e.dialog = "confirmed"
        THEN [AssignNewState(known, "Connected") EXCEPT !.data.item = e.item]
        ELSE known

(* A dialled call goes through its two legs in order: the user's phone      *)
(* rings, the user answers, the other leg is created and is answered.  An   *)
(* event of the expected leg that is not the expected step drops the call.  *)
ActiveCallOfMakeCall(h, e) ==
    LET known == [h EXCEPT !.branches = AddBranch(@, BranchData(h, e, h.data.setup))]
        Enter(state) == [AssignNewState(known, state) EXCEPT !.data.item = e.item]
        rings  == e.to = User /\ e.dialog = "requested"
        ofUser == e.to = User /\ e.dialog # "requested"
        ofCallee == e.to = h.to
        Expect(dialog, state) == IF e.dialog = dialog THEN state ELSE "Dropped"
    IN  IF e.error THEN AssignNewState(h, "Dropped")
        ELSE CASE h.state = "MakeCallSet" /\ rings -> Enter("MakeCallRequested")
               [] h.state = "MakeCallRequested" /\ ofUser ->
                    Enter(Expect("confirmed", "MakeCallRequestedAnswered"))
               [] h.state = "MakeCallRequestedAnswered" /\ ofCallee ->
                    [Enter(Expect("created", "MakeCallOutgoingCreated"))
                        EXCEPT !.outId = e.item]
               [] h.state = "MakeCallOutgoingCreated" /\ ofCallee ->
                    IF e.dialog = "confirmed" THEN Enter("Connected")
                    ELSE AssignNewState(known, "Dropped")
               [] OTHER -> known

RetractCall(h, e) ==
    IF h.class = "PhysicalCall" THEN AssignNewState(h, "Dropped")
    ELSE IF HasId(h.branches, e.item) THEN CheckDroppedCall(h, e.item)
    ELSE IF h.outId = e.item THEN AssignNewState(h, "Dropped")
    ELSE h

\* One terminate request for each branch; their contexts are kept.
DropRequest(h, contexts) ==
    [AssignNewState(h, "PreDropCall") EXCEPT !.dropped = @ \cup contexts]

IqResult(h, e) == [h EXCEPT !.dropped = @ \ {e.context}]

\* Mutation: the server's answer to "create" is taken for the callee's.
CallRequestConnects(h, e) ==
    AssignNewState(h, IF e.error THEN "Dropped" ELSE "Connected")

\* Mutation: the call is set up on the answer, which may come after the legs.
CallRequestSetsUp(h, e) ==
    AssignNewState(h, IF e.error THEN "Dropped" ELSE "MakeCallSet")

CallRequest(h, e) == IF e.error THEN AssignNewState(h, "Dropped") ELSE h

\* contexts: those of the requests that a drop request sends.
HandleEvent(h, e, contexts) ==
    CASE e.type = "activeCall"  -> IF h.class = "MakeCall"
                                   THEN ActiveCallOfMakeCall(h, e)
                                   ELSE ActiveCallOfPublished(h, e)
      [] e.type = "retractCall" -> RetractCall(h, e)
      [] e.type = "dropRequest" -> DropRequest(h, contexts)
      [] e.type = "iqResult"    -> IqResult(h, e)
      [] e.type = "callRequest" -> CallRequest(h, e)

-----------------------------------------------------------------------------
(* IsStillExist.                                                            *)

\* Mutation: nothing limits how long the server may take to drop a call.
TimedStatesButDrop(class) ==
    {"Connected"} \cup
    CASE class = "MakeCall"     -> {"MakeCallSet", "MakeCallRequested",
                                    "MakeCallRequestedAnswered",
                                    "MakeCallOutgoingCreated"}
      [] class = "IncomingCall" -> {"Offering"}
      [] class = "PhysicalCall" -> {"PhysicalOutProceeding"}

\* The states that the IsStillExist of a class limits in time.
TimedStates(class) ==
    {"Connected", "PreDropCall"} \cup
    CASE class = "MakeCall"     -> {"MakeCallSet", "MakeCallRequested",
                                    "MakeCallRequestedAnswered",
                                    "MakeCallOutgoingCreated"}
      [] class = "IncomingCall" -> {"Offering"}
      [] class = "PhysicalCall" -> {"PhysicalOutProceeding"}

TimesOut(h) == /\ h.expired /\ ~DisableTimeout
               /\ h.state \in TimedStates(h.class)

\* A handler that runs out of time is dropped, and removed by the next check.
CheckStateTimeout(h) == IF TimesOut(h) THEN AssignNewState(h, "Dropped") ELSE h

\* Mutation: a dropped handler is not given up.
IsStillExistAlways(h) == TRUE

IsStillExist(h) == TimesOut(h) \/ h.state # "Dropped"
=============================================================================
