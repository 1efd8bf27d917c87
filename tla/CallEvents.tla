----------------------------- MODULE CallEvents -----------------------------
(***************************************************************************)
(* What the call state machine is told.  A phone call that the OnSIP       *)
(* server publishes is a PubSub item; one SIP call has one item for each   *)
(* phone that rings (a branch).  The events are those that                 *)
(* XmppEventFactory makes from messages and from IQ answers                *)
(* (OnSipXmppEvents.cpp) plus the DropRequestEvent of TAPI threads.        *)
(* Names, tags and the text of errors are abstracted.                      *)
(***************************************************************************)
EXTENDS Naturals

CONSTANTS
    Numbers,        \* the SIP addresses that the user dials from TAPI
    User,           \* the SIP address of the logged-in user
    Remote,         \* the other party of calls that TAPI did not make
    MaxDials,       \* bound: calls dialled from TAPI
    MaxIncoming,    \* bound: incoming calls
    MaxPhysical,    \* bound: calls dialled on the phone itself
    MaxBranches     \* bound: phones registered by the user

ASSUME BoundsAssumption ==
    /\ MaxDials \in Nat /\ MaxIncoming \in Nat /\ MaxPhysical \in Nat
    /\ MaxBranches \in Nat \ {0}

\* The user does not dial the own address, so the two legs of a call differ.
ASSUME AddressAssumption == User \notin Numbers \cup {Remote}

(* The kinds of SIP call: the leg that rings the user's own phones for a    *)
(* dialled call, the leg to the dialled number, an incoming call and a call *)
(* placed on the phone.  Only calls that ring the user have branches.       *)
Item(kind, call, branch) == [kind |-> kind, call |-> call, branch |-> branch]

InLegs == {Item("in", k, b) : k \in 1..MaxDials, b \in 1..MaxBranches}
OutLegs == {Item("out", k, 1) : k \in 1..MaxDials}
IncomingItems == {Item("incoming", k, b) : k \in 1..MaxIncoming, b \in 1..MaxBranches}
PhysicalItems == {Item("physical", k, 1) : k \in 1..MaxPhysical}

Items == InLegs \cup OutLegs \cup IncomingItems \cup PhysicalItems

\* The empty XMPP id of a call of which nothing has been published.
NoItem == Item("none", 0, 0)

\* m_sipCallid: the branches of a SIP call share it.
SipCall(item) == <<item.kind, item.call>>

(* The dialog states that _convertDialogState knows; every other word of    *)
(* the server becomes "unknown".                                            *)
DialogStates == {"created", "requested", "confirmed", "unknown"}

\* The empty call-setup-id.
NoSetup == 0

\* XmppActiveCallEvent: the state of one item, as its message carries it.
ActiveCallEvent(item, dialog, to, from, setup, error) ==
    [type |-> "activeCall", item |-> item, dialog |-> dialog, to |-> to,
     from |-> from, setup |-> setup, error |-> error]

\* XmppRetractCallEvent: the item is gone, its call has ended.
RetractCallEvent(item) == [type |-> "retractCall", item |-> item]

\* DropRequestEvent: a TAPI thread wants the call dropped.
DropRequestEvent(callId) == [type |-> "dropRequest", callId |-> callId]

\* XmppIqResultEvent: any answer to an IQ, a result or an error.
IqResultEvent(context) == [type |-> "iqResult", context |-> context]

\* XmppCallRequestEvent: an answer to "create" that carries its form.
CallRequestEvent(context, error) ==
    [type |-> "callRequest", context |-> context, error |-> error]
=============================================================================
