----------------------- MODULE CallStateMachine_proofs -----------------------
(***************************************************************************)
(* Safety of the call state machine for every value of the constants: its  *)
(* types, the identity of calls, the agreement between handlers and        *)
(* notifications, and the implementation of TapiCallView.                  *)
(***************************************************************************)
EXTENDS CallStateMachine, CallHandlers_proofs

-----------------------------------------------------------------------------
(* The inductive invariant.                                                 *)

\* A handler and what TAPI was told of it (ReportInSync, for one handler; a
\* handler dropped in silence is still of the type that TAPI knows).
InSync(h) ==
    /\ h.data.callId \in DOMAIN told
    /\ ~told[h.data.callId].removed /\ told[h.data.callId].state # "Dropped"
    /\ told[h.data.callId].callType = h.data.callType
    /\ h.state # "Dropped" => told[h.data.callId] = Notification(h, FALSE)

InSyncAll == \A p \in DOMAIN stateHandlers : InSync(stateHandlers[p])

UniqueIn(hs) ==
    \A p, q \in DOMAIN hs : hs[p].data.callId = hs[q].data.callId => p = q

HandlersOK(hs) == \A p \in DOMAIN hs : HandlerOK(hs[p])

\* Notifications are of calls in a live state, or of removed ones.
ToldOK ==
    \A c \in DOMAIN told :
        /\ told[c].state \in TimedStates(told[c].callType) \cup {"Dropped"}
        /\ told[c].removed <=> told[c].state = "Dropped"

ToldType == /\ told \in [DOMAIN told -> Notifications]
            /\ DOMAIN told \subseteq Nat

MachineInv ==
    /\ stateHandlers \in [DOMAIN stateHandlers -> Handlers]
    /\ pushed \in Nat /\ DOMAIN stateHandlers \subseteq 1..pushed
    /\ nextId \in Nat \ {0}
    /\ ToldType /\ ToldOK
    /\ \A c \in DOMAIN told : c \in 1..(nextId - 1)
    /\ HandlersOK(stateHandlers)
    /\ UniqueIn(stateHandlers)
    /\ InSyncAll

\* A call id that is taken and not yet known to TAPI.
Reserved(c) == c \in 1..(nextId - 1) /\ c \notin DOMAIN told

(* The calls that are asked for: their ids are taken, by one call each.     *)
MakingInv ==
    /\ making \in SUBSET [callId : Nat, number : Numbers]
    /\ \A m \in making : Reserved(m.callId)
    /\ \A m, n \in making : m.callId = n.callId => m = n

Waiting(s) ==
    /\ s \in Seq(Handlers)
    /\ \A n \in DOMAIN s :
          /\ Requested(s[n])
          /\ Reserved(s[n].data.callId)
          /\ \A m \in making : m.callId # s[n].data.callId
    /\ UniqueIn(s)

QueueInv ==
    /\ handlerRequests \in Seq(Handlers) /\ lstRequests \in Seq(Handlers)
    /\ MakingInv /\ Waiting(PendingRequests)
    /\ events \in Seq(Nat) /\ lstEvents \in Seq(Nat)
    /\ phase \in Phases
    /\ phase # "requests" => lstRequests = <<>>

RestInv ==
    /\ clock \in Nat \ {0}
    /\ items \in [Items -> ItemStates]
    /\ dials \in Seq(Dials)
    /\ iqs \in SUBSET Nat
    /\ online \in BOOLEAN
    /\ drops \in Nat /\ disconnects \in Nat /\ others \in Nat

IInv == MachineInv /\ QueueInv /\ RestInv

-----------------------------------------------------------------------------
(* _checkStateHandlersExist.                                                *)

(* What a step tells TAPI of the handlers hs, those at the places changed   *)
(* having been reported: nothing, or the state of a changed handler, or the *)
(* removal of a dropped one.                                                *)
Tells(hs, changed) ==
    /\ DOMAIN told' = DOMAIN told \cup {hs[p].data.callId : p \in changed}
    /\ \A c \in DOMAIN told' :
          \/ c \in DOMAIN told /\ told'[c] = told[c]
          \/ \E p \in DOMAIN hs :
                /\ hs[p].data.callId = c
                /\ p \in changed \/ hs[p].state = "Dropped"
                /\ told'[c] = Notification(hs[p], hs[p].state = "Dropped")

\* A list of handlers of which those not changed agree with the notifications.
Listed(hs, changed) ==
    /\ hs \in [DOMAIN hs -> Handlers]
    /\ HandlersOK(hs) /\ UniqueIn(hs)
    /\ changed \subseteq DOMAIN hs
    /\ \A p \in DOMAIN hs \ changed : InSync(hs[p])

LEMMA SettleTells ==
    ASSUME NEW hs, NEW changed, ToldType, Listed(hs, changed), Settle(hs, changed)
    PROVE  /\ Tells(hs, changed)
           /\ \A p \in changed :
                 told'[hs[p].data.callId] = Notification(hs[p], hs[p].state = "Dropped")
           /\ \A p \in DOMAIN hs \ changed :
                 hs[p].state # "Dropped" =>
                    told'[hs[p].data.callId] = told[hs[p].data.callId]
           /\ told' \in [DOMAIN told' -> Notifications]
<1> DEFINE gone == {p \in DOMAIN hs : ~IsStillExist(hs[p])}
           about(c) == {p \in gone \cup changed : hs[p].data.callId = c}
           notified == {hs[p].data.callId : p \in gone \cup changed}
           report(c) == LET p == CHOOSE q \in about(c) : TRUE
                        IN  Notification(hs[p], p \in gone)
<1>1. \A p \in DOMAIN hs : p \in gone <=> hs[p].state = "Dropped"
  BY StillExists DEF Listed, HandlersOK
<1>2. told' = [c \in DOMAIN told \cup notified |->
                  IF c \in notified THEN report(c) ELSE told[c]]
  BY DEF Settle
<1>3. ASSUME NEW p \in gone \cup changed
      PROVE  report(hs[p].data.callId) = Notification(hs[p], hs[p].state = "Dropped")
  <2>1. p \in DOMAIN hs /\ p \in about(hs[p].data.callId)
    BY DEF Listed
  <2>2. \A q \in about(hs[p].data.callId) : q = p
    BY <2>1 DEF Listed, UniqueIn
  <2>3. (CHOOSE q \in about(hs[p].data.callId) : TRUE) = p
    BY <2>1, <2>2
  <2>4. report(hs[p].data.callId) = Notification(hs[p], p \in gone)
    BY <2>3
  <2>5. (p \in gone) = (hs[p].state = "Dropped")
    BY <1>1, <2>1
  <2> HIDE DEF report, gone, about
  <2> QED
    BY <2>4, <2>5
<1>4. \A p \in gone : hs[p].data.callId \in DOMAIN told \cup {hs[q].data.callId : q \in changed}
  BY DEF Listed, InSync
<1> HIDE DEF report, about, gone
<1>5. DOMAIN told' = DOMAIN told \cup {hs[p].data.callId : p \in changed}
  BY <1>2, <1>4
<1>6. \A p \in gone \cup changed :
         told'[hs[p].data.callId] = Notification(hs[p], hs[p].state = "Dropped")
  BY <1>2, <1>3
<1>7. \A c \in DOMAIN told' : c \notin notified => c \in DOMAIN told /\ told'[c] = told[c]
  BY <1>2
<1>8. gone \subseteq DOMAIN hs /\ changed \subseteq DOMAIN hs
  BY DEF gone, Listed
<1>9. Tells(hs, changed)
  <2> SUFFICES ASSUME NEW c \in DOMAIN told', c \in notified
               PROVE  \E p \in DOMAIN hs :
                        /\ hs[p].data.callId = c
                        /\ p \in changed \/ hs[p].state = "Dropped"
                        /\ told'[c] = Notification(hs[p], hs[p].state = "Dropped")
    BY <1>5, <1>7 DEF Tells
  <2>1. PICK p \in gone \cup changed : hs[p].data.callId = c
    OBVIOUS
  <2> QED
    BY <2>1, <1>1, <1>6, <1>8
<1>10. ASSUME NEW p \in DOMAIN hs \ changed, hs[p].state # "Dropped"
       PROVE  told'[hs[p].data.callId] = told[hs[p].data.callId]
  <2>1. hs[p].data.callId \notin notified
    BY <1>1, <1>8, <1>10 DEF Listed, UniqueIn
  <2>2. hs[p].data.callId \in DOMAIN told'
    BY <1>5, <1>10 DEF Listed, InSync
  <2> QED
    BY <2>1, <2>2, <1>7
<1>11. told' \in [DOMAIN told' -> Notifications]
  <2>1. \A p \in DOMAIN hs, b \in BOOLEAN : Notification(hs[p], b) \in Notifications
    BY DEF Listed, Notification, Notifications, Handlers, CallStateData
  <2>2. \A c \in DOMAIN told' : told'[c] \in Notifications
    <3> SUFFICES ASSUME NEW c \in DOMAIN told' PROVE told'[c] \in Notifications
      OBVIOUS
    <3>1. CASE c \in DOMAIN told /\ told'[c] = told[c]
      BY <3>1 DEF ToldType
    <3>2. CASE ~(c \in DOMAIN told /\ told'[c] = told[c])
      <4>1. PICK p \in DOMAIN hs :
                   told'[c] = Notification(hs[p], hs[p].state = "Dropped")
        BY <1>9, <3>2 DEF Tells
      <4>2. (hs[p].state = "Dropped") \in BOOLEAN
        OBVIOUS
      <4> QED
        BY <2>1, <4>1, <4>2
    <3> QED
      BY <3>1, <3>2
  <2>3. told' = [c \in DOMAIN told' |-> told'[c]]
    BY <1>2
  <2> QED
    BY <2>2, <2>3
<1> QED
  BY <1>6, <1>9, <1>10, <1>11
(* Where the handlers of a step come from: a call that TAPI has not heard   *)
(* of, or a handler that agreed with what TAPI heard and handled an event.  *)
Evolved(hs) ==
    \A p \in DOMAIN hs :
        \/ /\ hs[p].data.callId \notin DOMAIN told
           /\ hs[p].state \in {"Offering", "PhysicalOutProceeding", "MakeCallSet"}
        \/ \E h : HandlerOK(h) /\ InSync(h) /\ Kept(h, hs[p])

(* A handler whose last reported state is u and which is in that state, or  *)
(* silently dropped: after an event its call has not gone back.             *)
LEMMA Forward ==
    ASSUME NEW class \in CallTypes, NEW s, NEW t,
           NEW u \in TimedStates(class),
           s = u \/ s = "Dropped",
           t \in TimedStates(class) \cup {"Dropped"},
           Follows(class, s, t)
    PROVE  LET old == GetTapiCallState(u, class)
               new == GetTapiCallState(t, class)
           IN  /\ old \in View!LineCallStates /\ new \in View!LineCallStates
               /\ new = old \/ View!Rank(new) > View!Rank(old)
               /\ new = "IDLE" <=> t = "Dropped"
<1>1. CASE class = "MakeCall"
  BY <1>1 DEF TimedStates, Follows, GetTapiCallState, View!LineCallStates,
              View!FirstStates, View!Rank
<1>2. CASE class = "IncomingCall"
  BY <1>2 DEF TimedStates, Follows, GetTapiCallState, View!LineCallStates,
              View!FirstStates, View!Rank
<1>3. CASE class = "PhysicalCall"
  BY <1>3 DEF TimedStates, Follows, GetTapiCallState, View!LineCallStates,
              View!FirstStates, View!Rank
<1> QED
  BY <1>1, <1>2, <1>3 DEF CallTypes

\* The view of a notification.
Seen(n) == [state |-> GetTapiCallState(n.state, n.callType), removed |-> n.removed]

LEMMA ViewOfTold ==
    /\ DOMAIN toldView = DOMAIN told
    /\ \A c \in DOMAIN told : toldView[c] = Seen(told[c])
BY DEF toldView, Seen

LEMMA ToldSeen ==
    ASSUME ToldType, ToldOK, NEW c \in DOMAIN told
    PROVE  Seen(told[c]) \in View!Calls
<1> DEFINE n == told[c]
<1>1. /\ n.state \in TimedStates(n.callType) \cup {"Dropped"}
      /\ n.removed \in BOOLEAN /\ n.callType \in CallTypes
  BY DEF ToldType, ToldOK, Notifications
<1>2. GetTapiCallState(n.state, n.callType) \in View!LineCallStates
  BY <1>1 DEF TimedStates, CallTypes, GetTapiCallState, View!LineCallStates,
              View!FirstStates
<1> QED
  BY <1>1, <1>2 DEF Seen, View!Calls

LEMMA SettleView ==
    ASSUME NEW hs, NEW changed, ToldType, ToldOK, HandlersOK(hs), Evolved(hs),
           Tells(hs, changed), changed \subseteq DOMAIN hs, ToldType'
    PROVE  View!ViewNext
<1>1. /\ DOMAIN toldView = DOMAIN told
      /\ \A c \in DOMAIN told : toldView[c] = Seen(told[c])
  BY ViewOfTold
<1>2. /\ DOMAIN toldView' = DOMAIN told'
      /\ \A c \in DOMAIN told' : toldView'[c] = Seen(told'[c])
      /\ toldView' = [c \in DOMAIN told' |-> toldView'[c]]
  BY DEF toldView, Seen
<1>3. ASSUME NEW p \in DOMAIN hs,
             NEW n, n = Notification(hs[p], hs[p].state = "Dropped")
      PROVE  /\ Seen(n) \in View!Calls
             /\ hs[p].data.callId \in DOMAIN told =>
                   View!Advances(Seen(told[hs[p].data.callId]), Seen(n))
             /\ hs[p].data.callId \notin DOMAIN told => View!Appears(Seen(n))
  <2> DEFINE g == hs[p]
             c == g.data.callId
             new == GetTapiCallState(g.state, g.class)
  <2>1. /\ HandlerOK(g) /\ g.class \in CallTypes
        /\ g.state \in TimedStates(g.class) \cup {"Dropped"}
        /\ g.data.callType = g.class
    BY DEF HandlersOK, HandlerOK, Handlers
  <2> HIDE DEF g
  <2>2. /\ Seen(n).state = new
        /\ Seen(n).removed = (g.state = "Dropped")
        /\ Seen(n) = [state |-> new, removed |-> g.state = "Dropped"]
    BY <1>3, <2>1 DEF g, Seen, Notification
  <2>3. CASE c \notin DOMAIN told
    <3>1. g.state \in {"Offering", "PhysicalOutProceeding", "MakeCallSet"}
      BY <2>3 DEF g, Evolved, Kept, InSync
    <3>2. new \in View!FirstStates /\ g.state # "Dropped"
      BY <2>1, <3>1 DEF TimedStates, CallTypes, GetTapiCallState, View!FirstStates
    <3> HIDE DEF new, c
    <3>3. Seen(n) \in View!Calls /\ View!Appears(Seen(n))
      BY <2>2, <3>2 DEF View!Calls, View!LineCallStates, View!Appears
    <3>4. c = hs[p].data.callId
      BY DEF c, g
    <3> QED
      BY <2>3, <3>3, <3>4
  <2>4. CASE c \in DOMAIN told
    <3>1. PICK h : HandlerOK(h) /\ InSync(h) /\ Kept(h, g)
      BY <2>4 DEF g, c, Evolved
    <3> DEFINE u == told[c].state
               old == GetTapiCallState(u, g.class)
    <3>2. /\ h.data.callId = c /\ h.class = g.class
          /\ Follows(g.class, h.state, g.state)
      BY <3>1 DEF Kept
    <3>3. ~told[c].removed /\ u # "Dropped"
      BY <3>1, <3>2 DEF InSync
    <3>4. h.state = "Dropped" \/ h.state = u
      BY <3>1, <3>2 DEF InSync, Notification
    <3>5. told[c].callType = g.class /\ u \in TimedStates(g.class)
      <4>1. h.data.callType = h.class
        BY <3>1 DEF HandlerOK
      <4>2. told[c].callType = g.class
        BY <4>1, <3>1, <3>2 DEF InSync
      <4> QED
        BY <2>4, <3>3, <4>2 DEF ToldOK
    <3>6. /\ old \in View!LineCallStates /\ new \in View!LineCallStates
          /\ new = old \/ View!Rank(new) > View!Rank(old)
          /\ new = "IDLE" <=> g.state = "Dropped"
      <4>1. /\ g.class \in CallTypes /\ u \in TimedStates(g.class)
            /\ h.state = u \/ h.state = "Dropped"
            /\ g.state \in TimedStates(g.class) \cup {"Dropped"}
            /\ Follows(g.class, h.state, g.state)
        BY <2>1, <3>2, <3>4, <3>5
      <4> HIDE DEF u
      <4> QED
        BY <4>1, Forward
    <3>7. Seen(told[c]).state = old /\ Seen(told[c]).removed = told[c].removed
      BY <3>5 DEF Seen
    <3> HIDE DEF new, old, c, u
    <3>8. Seen(n) \in View!Calls
      BY <2>2, <3>6 DEF View!Calls
    <3>9. View!Advances(Seen(told[c]), Seen(n))
      BY <2>2, <3>3, <3>6, <3>7 DEF View!Advances
    <3>10. c = hs[p].data.callId
      BY DEF c, g
    <3> QED
      BY <2>4, <3>8, <3>9, <3>10
  <2> QED
    BY <2>3, <2>4
<1>4. ASSUME NEW c \in DOMAIN told'
      PROVE  /\ toldView'[c] \in View!Calls
             /\ c \in DOMAIN told => View!Advances(toldView[c], toldView'[c])
             /\ c \notin DOMAIN told => View!Appears(toldView'[c])
  <2>1. CASE c \in DOMAIN told /\ told'[c] = told[c]
    <3>1. toldView'[c] = toldView[c]
      BY <1>1, <1>2, <2>1
    <3>2. Seen(told[c]) \in View!Calls
      BY <2>1, ToldSeen
    <3> QED
      BY <1>1, <2>1, <3>1, <3>2 DEF View!Advances
  <2>2. CASE \E p \in DOMAIN hs :
                /\ hs[p].data.callId = c
                /\ told'[c] = Notification(hs[p], hs[p].state = "Dropped")
    <3>1. PICK p \in DOMAIN hs :
              /\ hs[p].data.callId = c
              /\ told'[c] = Notification(hs[p], hs[p].state = "Dropped")
      BY <2>2
    <3>2. toldView'[c] = Seen(told'[c]) /\ (c \in DOMAIN told => toldView[c] = Seen(told[c]))
      BY <1>1, <1>2
    <3> QED
      BY <1>3, <3>1, <3>2
  <2> QED
    BY <2>1, <2>2 DEF Tells
<1>5. DOMAIN told \subseteq DOMAIN told' /\ DOMAIN told' \subseteq Nat
  BY DEF Tells, ToldType
<1>6. toldView' \in [DOMAIN toldView' -> View!Calls]
  BY <1>2, <1>4
<1> QED
  BY <1>1, <1>2, <1>4, <1>5, <1>6 DEF View!ViewNext
(* _checkStateHandlersExist leaves a list of handlers that agrees with the  *)
(* notifications, and the notifications follow the abstract view.           *)
LEMMA SettleStep ==
    ASSUME NEW hs, NEW changed, ToldType, ToldOK, Listed(hs, changed), Evolved(hs),
           Settle(hs, changed)
    PROVE  /\ stateHandlers' \in [DOMAIN stateHandlers' -> Handlers]
           /\ DOMAIN stateHandlers' \subseteq DOMAIN hs
           /\ HandlersOK(stateHandlers') /\ UniqueIn(stateHandlers')
           /\ InSyncAll'
           /\ ToldType' /\ ToldOK'
           /\ DOMAIN told' = DOMAIN told \cup {hs[p].data.callId : p \in changed}
           /\ View!ViewNext
<1>1. /\ Tells(hs, changed)
      /\ \A p \in changed :
            told'[hs[p].data.callId] = Notification(hs[p], hs[p].state = "Dropped")
      /\ \A p \in DOMAIN hs \ changed :
            hs[p].state # "Dropped" =>
               told'[hs[p].data.callId] = told[hs[p].data.callId]
      /\ told' \in [DOMAIN told' -> Notifications]
  BY SettleTells
<1>2. DOMAIN told' = DOMAIN told \cup {hs[p].data.callId : p \in changed}
  BY <1>1 DEF Tells
<1>3. /\ hs \in [DOMAIN hs -> Handlers] /\ HandlersOK(hs) /\ UniqueIn(hs)
      /\ changed \subseteq DOMAIN hs
      /\ \A p \in DOMAIN hs \ changed : InSync(hs[p])
  BY DEF Listed
<1>4. ToldType'
  <2>1. \A p \in DOMAIN hs : hs[p].data.callId \in Nat
    BY <1>3 DEF Handlers, CallStateData
  <2> QED
    BY <1>1, <1>2, <1>3, <2>1 DEF ToldType
<1>5. View!ViewNext
  BY <1>1, <1>3, <1>4, SettleView
<1>6. DOMAIN stateHandlers' = {p \in DOMAIN hs : IsStillExist(hs[p])}
  BY DEF Settle
<1>7. \A p \in DOMAIN stateHandlers' :
         /\ p \in DOMAIN hs /\ hs[p].state # "Dropped"
         /\ stateHandlers'[p] = CheckStateTimeout(hs[p])
  <2>1. \A p \in DOMAIN stateHandlers' : stateHandlers'[p] = CheckStateTimeout(hs[p])
    BY DEF Settle
  <2> QED
    BY <1>3, <1>6, <2>1, StillExists DEF HandlersOK
<1>8. \A p \in DOMAIN stateHandlers' :
         /\ Kept(hs[p], stateHandlers'[p])
         /\ stateHandlers'[p].data = hs[p].data
         /\ stateHandlers'[p] = hs[p] \/ stateHandlers'[p].state = "Dropped"
  BY <1>3, <1>7, CheckStateTimeoutKeeps DEF HandlersOK
<1>9. HandlersOK(stateHandlers')
  BY <1>8 DEF HandlersOK, Kept
<1>10. stateHandlers' \in [DOMAIN stateHandlers' -> Handlers]
  <2>1. stateHandlers' = [p \in DOMAIN stateHandlers' |-> stateHandlers'[p]]
    BY DEF Settle
  <2> QED
    BY <1>9, <2>1 DEF HandlersOK, HandlerOK
<1>11. UniqueIn(stateHandlers')
  BY <1>3, <1>7, <1>8 DEF UniqueIn
<1>12. InSyncAll'
  <2> SUFFICES ASSUME NEW p \in DOMAIN stateHandlers'
               PROVE  InSync(stateHandlers[p])'
    BY DEF InSyncAll
  <2> DEFINE g == stateHandlers'[p]
             h == hs[p]
             c == h.data.callId
  <2>1. /\ p \in DOMAIN hs /\ h.state # "Dropped" /\ g.data = h.data
        /\ g = h \/ g.state = "Dropped"
    BY <1>7, <1>8
  <2>2. /\ c \in DOMAIN told' /\ told'[c] = Notification(h, FALSE)
    <3>1. CASE p \in changed
      <4>1. (h.state = "Dropped") = FALSE
        BY <2>1
      <4>2. told'[c] = Notification(h, h.state = "Dropped")
        BY <1>1, <3>1
      <4> QED
        BY <1>2, <3>1, <4>1, <4>2
    <3>2. CASE p \notin changed
      BY <1>1, <1>2, <1>3, <2>1, <3>2 DEF InSync
    <3> QED
      BY <3>1, <3>2
  <2>3. /\ ~told'[c].removed /\ told'[c].state = h.state
        /\ told'[c].callType = h.data.callType
    BY <2>2 DEF Notification
  <2> HIDE DEF h
  <2> QED
    BY <2>1, <2>2, <2>3 DEF InSync
<1>13. ToldOK'
  <2> SUFFICES ASSUME NEW c \in DOMAIN told'
               PROVE  /\ told'[c].state \in TimedStates(told'[c].callType) \cup {"Dropped"}
                      /\ told'[c].removed <=> told'[c].state = "Dropped"
    BY DEF ToldOK
  <2>1. CASE c \in DOMAIN told /\ told'[c] = told[c]
    BY <2>1 DEF ToldOK
  <2>2. CASE \E p \in DOMAIN hs :
                told'[c] = Notification(hs[p], hs[p].state = "Dropped")
    <3>1. PICK p \in DOMAIN hs : told'[c] = Notification(hs[p], hs[p].state = "Dropped")
      BY <2>2
    <3>2. /\ told'[c].state = hs[p].state /\ told'[c].callType = hs[p].data.callType
          /\ told'[c].removed = (hs[p].state = "Dropped")
      BY <3>1 DEF Notification
    <3>3. /\ hs[p].state \in TimedStates(hs[p].class) \cup {"Dropped"}
          /\ hs[p].data.callType = hs[p].class
      BY <1>3 DEF HandlersOK, HandlerOK
    <3> QED
      BY <3>2, <3>3
  <2> QED
    BY <1>1, <2>1, <2>2 DEF Tells
<1> QED
  BY <1>2, <1>4, <1>5, <1>6, <1>9, <1>10, <1>11, <1>12, <1>13
-----------------------------------------------------------------------------
(* Steps that end in _checkStateHandlersExist.                              *)

\* A step takes new call ids only for the calls that it tells of first.
NewIds ==
    /\ nextId' \in Nat /\ nextId' >= nextId
    /\ \A c \in DOMAIN told' : c \in DOMAIN told \/ c >= nextId

\* The machine's side of a step.
MachineStep == MachineInv' /\ NewIds /\ View!ViewNext

LEMMA SettleMachine ==
    ASSUME MachineInv, NEW hs, NEW changed,
           Listed(hs, changed), Evolved(hs), Settle(hs, changed),
           pushed' \in Nat, DOMAIN hs \subseteq 1..pushed',
           nextId' \in Nat, nextId' >= nextId,
           \A p \in changed : /\ hs[p].data.callId \in 1..(nextId' - 1)
                              /\ \/ hs[p].data.callId \in DOMAIN told
                                 \/ hs[p].data.callId >= nextId
    PROVE  MachineStep
<1>1. /\ stateHandlers' \in [DOMAIN stateHandlers' -> Handlers]
      /\ DOMAIN stateHandlers' \subseteq DOMAIN hs
      /\ HandlersOK(stateHandlers') /\ UniqueIn(stateHandlers')
      /\ InSyncAll'
      /\ ToldType' /\ ToldOK'
      /\ DOMAIN told' = DOMAIN told \cup {hs[p].data.callId : p \in changed}
      /\ View!ViewNext
  BY SettleStep DEF MachineInv
<1>2. /\ nextId \in Nat \ {0} /\ \A c \in DOMAIN told : c \in 1..(nextId - 1)
  BY DEF MachineInv
<1>3. \A c \in DOMAIN told' : c \in 1..(nextId' - 1)
  BY <1>1, <1>2
<1>4. NewIds
  BY <1>1 DEF NewIds
<1>5. /\ nextId' \in Nat \ {0} /\ DOMAIN stateHandlers' \subseteq 1..pushed'
  BY <1>1, <1>2
<1>6. HandlersOK(stateHandlers)' /\ UniqueIn(stateHandlers)'
  BY <1>1 DEF HandlersOK, UniqueIn
<1> QED
  BY <1>1, <1>3, <1>4, <1>5, <1>6 DEF MachineInv, MachineStep

LEMMA ListedHandlers ==
    ASSUME MachineInv
    PROVE  /\ Listed(stateHandlers, {}) /\ Evolved(stateHandlers)
           /\ \A p \in DOMAIN stateHandlers :
                 /\ HandlerOK(stateHandlers[p]) /\ InSync(stateHandlers[p])
                 /\ stateHandlers[p].data.callId \in DOMAIN told
<1>1. \A p \in DOMAIN stateHandlers :
         /\ HandlerOK(stateHandlers[p]) /\ InSync(stateHandlers[p])
         /\ stateHandlers[p].data.callId \in DOMAIN told
  BY DEF MachineInv, HandlersOK, InSyncAll, InSync
<1>2. Evolved(stateHandlers)
  BY <1>1, SameKeeps DEF Evolved
<1>3. Listed(stateHandlers, {})
  BY <1>1 DEF Listed, MachineInv
<1> QED
  BY <1>1, <1>2, <1>3

\* Nothing is handled: the handlers whose time is up go.
LEMMA CheckStep ==
    ASSUME MachineInv, Settle(stateHandlers, {}), UNCHANGED <<pushed, nextId>>
    PROVE  MachineStep
BY ListedHandlers, SettleMachine DEF MachineInv

\* A new handler of a call that TAPI has not heard of.
LEMMA PushBackListed ==
    ASSUME MachineInv, NEW h, HandlerOK(h),
           h.data.callId \notin DOMAIN told,
           h.state \in {"Offering", "PhysicalOutProceeding", "MakeCallSet"}
    PROVE  /\ Listed(PushBack(h), {pushed + 1}) /\ Evolved(PushBack(h))
           /\ DOMAIN PushBack(h) = DOMAIN stateHandlers \cup {pushed + 1}
           /\ PushBack(h)[pushed + 1] = h
           /\ DOMAIN PushBack(h) \subseteq 1..(pushed + 1)
<1> DEFINE hs == PushBack(h)
<1>1. /\ DOMAIN hs = DOMAIN stateHandlers \cup {pushed + 1}
      /\ hs[pushed + 1] = h
      /\ hs = [p \in DOMAIN hs |-> hs[p]]
      /\ \A p \in DOMAIN stateHandlers : p # pushed + 1 => hs[p] = stateHandlers[p]
  BY DEF PushBack
<1>2. pushed + 1 \notin DOMAIN stateHandlers
  BY DEF MachineInv
<1>3. \A p \in DOMAIN hs \ {pushed + 1} :
         /\ p \in DOMAIN stateHandlers /\ hs[p] = stateHandlers[p]
         /\ HandlerOK(hs[p]) /\ InSync(hs[p])
         /\ hs[p].data.callId \in DOMAIN told
  BY <1>1, <1>2, ListedHandlers
<1> HIDE DEF hs
<1>4. \A p \in DOMAIN hs : HandlerOK(hs[p])
  BY <1>1, <1>3
<1>5. UniqueIn(hs)
  BY <1>1, <1>3 DEF UniqueIn, MachineInv
<1>6. Listed(hs, {pushed + 1})
  BY <1>1, <1>3, <1>4, <1>5 DEF Listed, HandlersOK, HandlerOK
<1>7. Evolved(hs)
  BY <1>1, <1>3, SameKeeps DEF Evolved
<1>8. DOMAIN hs \subseteq 1..(pushed + 1)
  BY <1>1 DEF MachineInv
<1> QED
  BY <1>1, <1>6, <1>7, <1>8 DEF hs

LEMMA SignalEventStep ==
    ASSUME MachineInv, NEW e, WellFormed(e), NEW u \in SUBSET Nat, SignalEvent(e, u)
    PROVE  MachineStep /\ iqs' \in SUBSET Nat
<1>1. CASE OwnerHandles(e, u)
  <2> DEFINE n(p) == IF e.type = "dropRequest" THEN Len(stateHandlers[p].branches) ELSE 0
             contexts(p) == nextId .. nextId + n(p) - 1
             hs(p) == [stateHandlers EXCEPT
                          ![p] = HandleEvent(stateHandlers[p], e, contexts(p))]
  <2>1. PICK p \in Owners(e) :
            /\ Settle(hs(p), {p})
            /\ nextId' = nextId + n(p)
            /\ \E sent \in Sent(contexts(p)) : iqs' = u \cup sent
            /\ UNCHANGED pushed
    BY <1>1 DEF OwnerHandles
  <2>2. p \in DOMAIN stateHandlers
    BY DEF Owners
  <2>3. HandlerOK(stateHandlers[p]) /\ InSync(stateHandlers[p])
    BY <2>2, ListedHandlers
  <2>4. n(p) \in Nat
    BY <2>3 DEF HandlerOK, Handlers
  <2>5. nextId \in Nat \ {0} /\ contexts(p) \in SUBSET Nat
    BY <2>4 DEF MachineInv
  <2> HIDE DEF n, contexts
  <2> DEFINE g == HandleEvent(stateHandlers[p], e, contexts(p))
  <2>6. Kept(stateHandlers[p], g)
    BY <2>3, <2>5, HandleEventKeeps
  <2> HIDE DEF g
  <2>7. hs(p) = [stateHandlers EXCEPT ![p] = g]
    BY DEF g
  <2> DEFINE L == hs(p)
  <2>8. /\ DOMAIN L = DOMAIN stateHandlers /\ L[p] = g
        /\ L = [q \in DOMAIN L |-> L[q]]
        /\ \A q \in DOMAIN stateHandlers \ {p} : L[q] = stateHandlers[q]
    BY <2>2, <2>7
  <2> HIDE DEF hs
  <2>9. \A q \in DOMAIN L :
           /\ HandlerOK(L[q]) /\ L[q].data.callId = stateHandlers[q].data.callId
           /\ Kept(stateHandlers[q], L[q])
    BY <2>3, <2>6, <2>8, ListedHandlers, SameKeeps DEF Kept
  <2>10. Listed(L, {p})
    <3>1. UniqueIn(L)
      BY <2>8, <2>9 DEF UniqueIn, MachineInv
    <3>2. \A q \in DOMAIN L \ {p} : InSync(L[q])
      BY <2>8, ListedHandlers
    <3> QED
      BY <2>2, <2>8, <2>9, <3>1, <3>2 DEF Listed, HandlersOK, HandlerOK
  <2>11. Evolved(L)
    BY <2>8, <2>9, ListedHandlers DEF Evolved
  <2>12. L[p].data.callId \in DOMAIN told
    BY <2>2, <2>8, <2>9, ListedHandlers
  <2>13. /\ L[p].data.callId \in 1..(nextId' - 1)
         /\ nextId' \in Nat /\ nextId' >= nextId
    BY <2>1, <2>4, <2>5, <2>12 DEF MachineInv
  <2>14. pushed' \in Nat /\ DOMAIN L \subseteq 1..pushed'
    BY <2>1, <2>8 DEF MachineInv
  <2>15. MachineStep
    BY <2>1, <2>10, <2>11, <2>12, <2>13, <2>14, SettleMachine
  <2>16. iqs' \in SUBSET Nat
    BY <2>1, <2>5 DEF Sent
  <2> QED
    BY <2>15, <2>16
<1>2. CASE UnknownEvent(e, u)
  <2> DEFINE h == IF e.dialog = "created" THEN NewOutgoing(e, nextId)
                                          ELSE NewIncoming(e, nextId)
  <2>1. e.item \in Items /\ nextId \in Nat \ {0} /\ pushed \in Nat
    BY <1>2 DEF UnknownEvent, WellFormed, MachineInv
  <2>2. /\ HandlerOK(h) /\ h.data.callId = nextId
        /\ h.state \in {"Offering", "PhysicalOutProceeding", "MakeCallSet"}
    BY <2>1, NewHandlerOK
  <2>3. nextId \notin DOMAIN told
    BY <2>1 DEF MachineInv
  <2>4. /\ Settle(PushBack(h), {pushed + 1})
        /\ pushed' = pushed + 1 /\ nextId' = nextId + 1 /\ iqs' = u
    BY <1>2 DEF UnknownEvent
  <2> HIDE DEF h
  <2> DEFINE hs == PushBack(h)
             new == {pushed + 1}
  <2>5. /\ Listed(hs, new) /\ Evolved(hs)
        /\ hs[pushed + 1] = h /\ DOMAIN hs \subseteq 1..(pushed + 1)
    BY <2>2, <2>3, PushBackListed
  <2>6. Settle(hs, new)
    BY <2>4
  <2> HIDE DEF hs
  <2>7. \A p \in new : hs[p].data.callId = nextId
    BY <2>2, <2>5
  <2>8. /\ pushed' \in Nat /\ nextId' \in Nat /\ nextId' >= nextId
        /\ nextId \in 1..(nextId' - 1) /\ nextId >= nextId
        /\ DOMAIN hs \subseteq 1..pushed'
    BY <2>1, <2>4, <2>5
  <2>9. \A p \in new : /\ hs[p].data.callId \in 1..(nextId' - 1)
                       /\ hs[p].data.callId >= nextId
    BY <2>7, <2>8
  <2> HIDE DEF new
  <2>10. MachineStep
    BY <2>5, <2>6, <2>8, <2>9, SettleMachine
  <2> QED
    BY <2>4, <2>10
<1>3. CASE IgnoredEvent(e, u)
  BY <1>3, CheckStep DEF IgnoredEvent
<1> QED
  BY <1>1, <1>2, <1>3 DEF SignalEvent
-----------------------------------------------------------------------------
(* The queues.                                                              *)

LEMMA ConcatAppend ==
    ASSUME NEW S, NEW l \in Seq(S), NEW r \in Seq(S), NEW x \in S
    PROVE  l \o Append(r, x) = Append(l \o r, x)
<1>1. Append(r, x) = r \o <<x>> /\ <<x>> \in Seq(S) /\ l \o r \in Seq(S)
  BY AppendIsConcat, ConcatProperties
<1>2. l \o (r \o <<x>>) = (l \o r) \o <<x>>
  BY <1>1, ConcatAssociative
<1> QED
  BY <1>1, <1>2, AppendIsConcat

LEMMA ConcatTail ==
    ASSUME NEW S, NEW l \in Seq(S), NEW r \in Seq(S), l # <<>>
    PROVE  /\ Tail(l) \o r \in Seq(S)
           /\ 1 \in 1..Len(l \o r) /\ Head(l) = (l \o r)[1]
           /\ Len(Tail(l) \o r) = Len(l \o r) - 1
           /\ \A n \in 1..Len(Tail(l) \o r) : (Tail(l) \o r)[n] = (l \o r)[n + 1]
<1> DEFINE t == Tail(l)
<1>1. /\ t \in Seq(S) /\ Len(t) = Len(l) - 1
      /\ \A n \in 1..Len(t) : t[n] = l[n + 1]
      /\ Len(l) \in Nat \ {0} /\ Len(r) \in Nat /\ Head(l) = l[1]
  BY HeadTailProperties, LenProperties
<1>2. /\ l \o r \in Seq(S) /\ Len(l \o r) = Len(l) + Len(r)
      /\ \A n \in 1..Len(l) + Len(r) :
            (l \o r)[n] = IF n <= Len(l) THEN l[n] ELSE r[n - Len(l)]
  BY ConcatProperties
<1> HIDE DEF t
<1>3. /\ t \o r \in Seq(S) /\ Len(t \o r) = Len(t) + Len(r)
      /\ \A n \in 1..Len(t) + Len(r) :
            (t \o r)[n] = IF n <= Len(t) THEN t[n] ELSE r[n - Len(t)]
  BY <1>1, ConcatProperties
<1>4. ASSUME NEW n \in 1..Len(t \o r)
      PROVE  (t \o r)[n] = (l \o r)[n + 1]
  <2>1. CASE n <= Len(t)
    BY <2>1, <1>1, <1>2, <1>3
  <2>2. CASE n > Len(t)
    <3>1. n - Len(t) = (n + 1) - Len(l) /\ n + 1 \in 1..Len(l) + Len(r) /\ n + 1 > Len(l)
      BY <2>2, <1>1, <1>3
    <3>2. (t \o r)[n] = r[n - Len(t)] /\ (l \o r)[n + 1] = r[(n + 1) - Len(l)]
      BY <2>2, <3>1, <1>1, <1>2, <1>3
    <3> QED
      BY <3>1, <3>2
  <2> QED
    BY <2>1, <2>2, <1>1, <1>3
<1> QED
  BY <1>1, <1>2, <1>3, <1>4 DEF t

\* An id that is taken and unknown stays so in a step that names new ids only.
LEMMA ReservedKept ==
    ASSUME MachineInv, NewIds, NEW c, Reserved(c)
    PROVE  c \in 1..(nextId' - 1) /\ c \notin DOMAIN told'
BY DEF MachineInv, NewIds, Reserved

LEMMA QueueKept ==
    ASSUME MachineInv, MakingInv, Waiting(PendingRequests), NewIds,
           UNCHANGED <<making, PendingRequests>>
    PROVE  MakingInv' /\ Waiting(PendingRequests)'
<1>1. MakingInv'
  BY ReservedKept DEF MakingInv, Reserved
<1>2. Waiting(PendingRequests)'
  <2> DEFINE s == PendingRequests
  <2> HIDE DEF s
  <2>1. Waiting(s) /\ s' = s
    BY DEF s
  <2>2. Waiting(s)'
    BY <2>1, ReservedKept DEF Waiting, Reserved, UniqueIn
  <2> QED
    BY <2>2 DEF s
<1> QED
  BY <1>1, <1>2

\* A step that leaves the requests alone.
LEMMA QueueStep ==
    ASSUME MachineInv, QueueInv, NewIds,
           UNCHANGED <<making, handlerRequests, lstRequests>>,
           events' \in Seq(Nat), lstEvents' \in Seq(Nat), phase' \in Phases,
           phase' # "requests" => lstRequests = <<>>
    PROVE  QueueInv'
<1>1. PendingRequests' = PendingRequests
  BY DEF PendingRequests
<1>2. MakingInv' /\ Waiting(PendingRequests)'
  BY <1>1, QueueKept DEF QueueInv
<1> QED
  BY <1>2 DEF QueueInv
-----------------------------------------------------------------------------
(* TAPI threads.                                                            *)

StepOK == IInv' /\ View!ViewNext

LEMMA ViewSame ==
    ASSUME ToldType, ToldOK, told' = told
    PROVE  View!ViewNext
<1>1. toldView' = toldView
  BY DEF toldView
<1>2. \A c \in DOMAIN told : Seen(told[c]) \in View!Calls
  BY ToldSeen
<1>3. /\ DOMAIN toldView = DOMAIN told
      /\ \A c \in DOMAIN told : toldView[c] \in View!Calls
      /\ toldView = [c \in DOMAIN toldView |-> toldView[c]]
  BY <1>2, ViewOfTold DEF toldView
<1> QED
  BY <1>1, <1>3 DEF View!ViewNext, View!Advances, ToldType

LEMMA MachineSame ==
    ASSUME MachineInv, UNCHANGED machine, nextId' \in Nat, nextId' >= nextId
    PROVE  MachineStep
<1>1. stateHandlers' = stateHandlers /\ pushed' = pushed /\ told' = told
  BY DEF machine
<1>2. ToldType' /\ ToldOK' /\ HandlersOK(stateHandlers)' /\ UniqueIn(stateHandlers)'
  BY <1>1 DEF MachineInv, ToldType, ToldOK, HandlersOK, UniqueIn
<1>3. InSyncAll'
  BY <1>1 DEF MachineInv, InSyncAll, InSync
<1>4. \A c \in DOMAIN told' : c \in 1..(nextId' - 1)
  BY <1>1 DEF MachineInv
<1>5. MachineInv'
  BY <1>1, <1>2, <1>3, <1>4 DEF MachineInv
<1>6. NewIds
  BY <1>1 DEF NewIds
<1> QED
  BY <1>1, <1>5, <1>6, ViewSame DEF MachineStep, MachineInv

LEMMA MakeCallAsyncStep ==
    ASSUME IInv, NEW n \in Numbers, MakeCallAsync(n)
    PROVE  StepOK
<1> USE DEF IInv
<1>1. nextId \in Nat \ {0} /\ nextId' = nextId + 1
  BY DEF MachineInv, MakeCallAsync
<1>2. MachineStep
  BY <1>1, MachineSame DEF MakeCallAsync
<1> DEFINE m0 == [callId |-> nextId, number |-> n]
<1>3. making' = making \cup {m0} /\ PendingRequests' = PendingRequests
  BY DEF MakeCallAsync, PendingRequests
<1>4. /\ m0 \in [callId : Nat, number : Numbers] /\ m0.callId = nextId
      /\ nextId \in 1..(nextId' - 1) /\ nextId \notin DOMAIN told'
  BY <1>1 DEF MachineInv, MakeCallAsync, machine
<1> HIDE DEF m0
<1>5. \A c : Reserved(c) => /\ c \in 1..(nextId' - 1) /\ c \notin DOMAIN told'
                            /\ c # nextId
  <2>1. \A c : Reserved(c) => c \in 1..(nextId' - 1) /\ c \notin DOMAIN told'
    BY <1>2, ReservedKept DEF MachineStep
  <2>2. \A c : Reserved(c) => c # nextId
    BY <1>1 DEF Reserved
  <2> QED
    BY <2>1, <2>2
<1>6. MakingInv'
  <2>1. \A m \in making' : m = m0 \/ m \in making
    BY <1>3
  <2>2. \A m \in making : m.callId # nextId
    BY <1>5 DEF QueueInv, MakingInv
  <2>3. \A m \in making' : m.callId \in 1..(nextId' - 1) /\ m.callId \notin DOMAIN told'
    BY <1>4, <1>5, <2>1 DEF QueueInv, MakingInv
  <2>4. \A m, k \in making' : m.callId = k.callId => m = k
    BY <1>4, <2>1, <2>2 DEF QueueInv, MakingInv
  <2> QED
    BY <1>3, <1>4, <2>3, <2>4 DEF QueueInv, MakingInv, Reserved
<1>7. Waiting(PendingRequests)'
  <2> DEFINE s == PendingRequests
  <2> HIDE DEF s
  <2>1. Waiting(s) /\ s' = s
    BY <1>3 DEF QueueInv, s
  <2>2. \A m \in making' : m = m0 \/ m \in making
    BY <1>3
  <2>3. \A k \in DOMAIN s : /\ s[k].data.callId \in 1..(nextId' - 1)
                            /\ s[k].data.callId \notin DOMAIN told'
                            /\ s[k].data.callId # nextId
    BY <2>1, <1>5 DEF Waiting
  <2>4. Waiting(s)'
    BY <1>4, <2>1, <2>2, <2>3 DEF Waiting, Reserved, UniqueIn
  <2> QED
    BY <2>4 DEF s
<1>8. QueueInv'
  BY <1>6, <1>7 DEF MakeCallAsync, QueueInv
<1>9. RestInv'
  BY DEF MakeCallAsync, RestInv, server, counts
<1> QED
  BY <1>2, <1>8, <1>9 DEF StepOK, MachineStep

LEMMA AddStateHandlerStep ==
    ASSUME IInv, NEW m \in making, AddStateHandler(m)
    PROVE  StepOK
<1> USE DEF IInv
<1>1. MachineStep
  BY MachineSame DEF MachineInv, AddStateHandler
<1> DEFINE h == NewMakeCall(m.number, m.callId)
           s == PendingRequests
<1>2. /\ making' = making \ {m} /\ handlerRequests' = Append(handlerRequests, h)
      /\ lstRequests' = lstRequests
  BY DEF AddStateHandler
<1>3. Requested(h) /\ h \in Handlers /\ h.data.callId = m.callId
  <2>1. m.number \in Numbers /\ m.callId \in Nat
    BY DEF QueueInv, MakingInv
  <2>2. Requested(h) /\ h.data.callId = m.callId
    BY <2>1 DEF Requested, NewMakeCall
  <2> QED
    BY <2>2, RequestedTyped
<1> HIDE DEF h
<1>4. s' = Append(s, h)
  BY <1>2, <1>3, ConcatAppend DEF PendingRequests, QueueInv
<1>5. Waiting(s) /\ s \in Seq(Handlers)
  BY DEF QueueInv, Waiting
<1> HIDE DEF s
<1>6. /\ s' \in Seq(Handlers) /\ DOMAIN s' = DOMAIN s \cup {Len(s) + 1}
      /\ \A k \in DOMAIN s : s'[k] = s[k]
      /\ s'[Len(s) + 1] = h /\ Len(s) + 1 \notin DOMAIN s
  BY <1>3, <1>4, <1>5, AppendProperties, LenProperties
<1>7. UNCHANGED <<nextId, told>>
  BY DEF AddStateHandler, machine
<1>8. \A k \in DOMAIN s : s[k].data.callId # m.callId
  BY <1>5 DEF Waiting
<1>9. Waiting(s)'
  <2>1. UniqueIn(s')
    BY <1>3, <1>5, <1>6, <1>8 DEF Waiting, UniqueIn
  <2>2. \A k \in DOMAIN s' :
           /\ Requested(s'[k])
           /\ s'[k].data.callId \in 1..(nextId - 1) /\ s'[k].data.callId \notin DOMAIN told
           /\ \A o \in making' : o.callId # s'[k].data.callId
    BY <1>2, <1>3, <1>5, <1>6 DEF Waiting, Reserved, QueueInv, MakingInv
  <2> QED
    BY <1>6, <1>7, <2>1, <2>2 DEF Waiting, Reserved, UniqueIn
<1>10. MakingInv'
  BY <1>2, <1>7 DEF QueueInv, MakingInv, Reserved
<1>11. QueueInv'
  BY <1>2, <1>3, <1>9, <1>10, AppendProperties DEF AddStateHandler, QueueInv, s
<1>12. RestInv'
  BY DEF AddStateHandler, RestInv, server, counts
<1> QED
  BY <1>1, <1>11, <1>12 DEF StepOK, MachineStep

LEMMA DropCallAsyncStep ==
    ASSUME IInv, NEW c \in KnownCallIds, DropCallAsync(c)
    PROVE  StepOK
<1> USE DEF IInv
<1>1. MachineStep
  BY MachineSame DEF MachineInv, DropCallAsync
<1>2. c \in Nat
  <2>1. CASE c \in DOMAIN told
    BY <2>1 DEF MachineInv, ToldType
  <2>2. CASE \E k \in DOMAIN PendingRequests : c = PendingRequests[k].data.callId
    BY <2>2, RequestedTyped DEF QueueInv, Waiting
  <2> QED
    BY <2>1, <2>2 DEF KnownCallIds
<1>3. QueueInv'
  <2>1. /\ events' \in Seq(Nat)
        /\ UNCHANGED <<making, handlerRequests, lstRequests, lstEvents, phase>>
    BY <1>2, AppendProperties DEF DropCallAsync, QueueInv
  <2> QED
    BY <1>1, <2>1, QueueStep DEF MachineStep, QueueInv
<1>4. RestInv'
  BY DEF DropCallAsync, RestInv, server
<1> QED
  BY <1>1, <1>3, <1>4 DEF StepOK, MachineStep
-----------------------------------------------------------------------------
(* The poll.                                                                *)

LEMMA GetRequestsStep ==
    ASSUME IInv, GetRequests
    PROVE  StepOK
<1> USE DEF IInv
<1>1. MachineStep
  BY MachineSame DEF MachineInv, GetRequests
<1>2. /\ lstRequests = <<>> /\ handlerRequests \in Seq(Handlers)
      /\ lstRequests' = handlerRequests /\ handlerRequests' = <<>>
  BY DEF GetRequests, QueueInv
<1>3. PendingRequests' = PendingRequests
  BY <1>2, ConcatEmptySeq DEF PendingRequests
<1>4. MakingInv' /\ Waiting(PendingRequests)'
  BY <1>1, <1>3, QueueKept DEF QueueInv, MachineStep, GetRequests
<1>5. QueueInv'
  BY <1>2, <1>4, EmptySeq DEF QueueInv, GetRequests, Phases
<1>6. RestInv'
  BY DEF GetRequests, RestInv, server, counts
<1> QED
  BY <1>1, <1>5, <1>6 DEF StepOK, MachineStep

LEMMA GetEventsStep ==
    ASSUME IInv, GetEvents
    PROVE  StepOK
<1> USE DEF IInv
<1>1. MachineStep
  BY MachineSame DEF MachineInv, GetEvents
<1>2. QueueInv'
  <2>1. /\ events' \in Seq(Nat) /\ lstEvents' \in Seq(Nat) /\ phase' = "events"
        /\ lstRequests = <<>>
        /\ UNCHANGED <<making, handlerRequests, lstRequests>>
    BY EmptySeq DEF GetEvents, QueueInv
  <2> QED
    BY <1>1, <2>1, QueueStep DEF MachineStep, Phases
<1>3. RestInv'
  BY DEF GetEvents, RestInv, server, counts
<1> QED
  BY <1>1, <1>2, <1>3 DEF StepOK, MachineStep

LEMMA HandleDropRequestStep ==
    ASSUME IInv, HandleDropRequest
    PROVE  StepOK
<1> USE DEF IInv
<1> DEFINE e == DropRequestEvent(Head(lstEvents))
<1>1. WellFormed(e)
  BY DEF DropRequestEvent, WellFormed, EventTypes
<1>2. SignalEvent(e, iqs) /\ iqs \in SUBSET Nat
  BY DEF HandleDropRequest, RestInv
<1> HIDE DEF e
<1>3. MachineStep /\ iqs' \in SUBSET Nat
  BY <1>1, <1>2, SignalEventStep
<1>4. QueueInv'
  <2>1. /\ lstEvents' \in Seq(Nat) /\ phase' = "events"
        /\ UNCHANGED <<making, handlerRequests, lstRequests, events, phase>>
    BY HeadTailProperties DEF HandleDropRequest, QueueInv
  <2> QED
    BY <1>3, <2>1, QueueStep DEF MachineStep, QueueInv
<1>5. RestInv'
  BY <1>3 DEF HandleDropRequest, RestInv, server, counts
<1> QED
  BY <1>3, <1>4, <1>5 DEF StepOK, MachineStep

LEMMA PollStateHandlersStep ==
    ASSUME IInv, PollStateHandlers
    PROVE  StepOK
<1> USE DEF IInv
<1>1. MachineStep
  BY CheckStep DEF PollStateHandlers
<1>2. QueueInv'
  <2>1. /\ phase' = "recv" /\ lstRequests = <<>>
        /\ UNCHANGED <<making, handlerRequests, lstRequests, events, lstEvents>>
    BY DEF PollStateHandlers, queues, QueueInv
  <2> QED
    BY <1>1, <2>1, QueueStep DEF MachineStep, QueueInv, Phases
<1>3. RestInv'
  BY DEF PollStateHandlers, RestInv, server, counts
<1> QED
  BY <1>1, <1>2, <1>3 DEF StepOK, MachineStep

LEMMA HandleRequestStep ==
    ASSUME IInv, HandleRequest
    PROVE  StepOK
<1> USE DEF IInv
<1> DEFINE s == PendingRequests
           r == Head(lstRequests)
           c0 == r.data.callId
           h == PreExecute(r, nextId, clock)
           hs == PushBack(h)
           new == {pushed + 1}
<1>1. /\ lstRequests \in Seq(Handlers) /\ handlerRequests \in Seq(Handlers)
      /\ lstRequests # <<>>
  BY DEF HandleRequest, QueueInv
<1>2. /\ Tail(lstRequests) \o handlerRequests \in Seq(Handlers)
      /\ 1 \in 1..Len(s) /\ r = s[1]
      /\ Len(Tail(lstRequests) \o handlerRequests) = Len(s) - 1
      /\ \A n \in 1..Len(Tail(lstRequests) \o handlerRequests) :
            (Tail(lstRequests) \o handlerRequests)[n] = s[n + 1]
  BY <1>1, ConcatTail DEF PendingRequests
<1>3. Waiting(s) /\ s \in Seq(Handlers) /\ DOMAIN s = 1..Len(s) /\ Len(s) \in Nat
  BY LenProperties DEF QueueInv, Waiting
<1>4. s' = Tail(lstRequests) \o handlerRequests
  BY DEF HandleRequest, PendingRequests
<1> HIDE DEF s
<1>5. /\ Requested(r) /\ Reserved(c0)
      /\ \A m \in making : m.callId # c0
  BY <1>2, <1>3 DEF Waiting
<1>6. nextId \in Nat \ {0} /\ pushed \in Nat /\ clock \in Nat \ {0}
  BY DEF MachineInv, RestInv
<1>7. /\ stateHandlers' = hs
      /\ told' = [c \in DOMAIN told \cup {h.data.callId} |->
                    IF c = h.data.callId THEN Notification(h, FALSE) ELSE told[c]]
      /\ pushed' = pushed + 1 /\ nextId' = nextId + 1
      /\ lstRequests' = Tail(lstRequests) /\ making' = making
      /\ handlerRequests' = handlerRequests
  BY DEF HandleRequest
<1>8. /\ HandlerOK(h) /\ h.data.callId = c0 /\ h.state = "MakeCallSet"
  BY <1>5, <1>6, PreExecuteOK
<1> HIDE DEF h, r
<1>9. c0 \in 1..(nextId - 1) /\ c0 \notin DOMAIN told
  BY <1>5 DEF Reserved
<1> HIDE DEF c0
<1>10. /\ Listed(hs, new) /\ Evolved(hs)
       /\ DOMAIN hs = DOMAIN stateHandlers \cup new
       /\ hs[pushed + 1] = h /\ DOMAIN hs \subseteq 1..(pushed + 1)
  BY <1>8, <1>9, PushBackListed
<1> HIDE DEF hs
<1>11. /\ DOMAIN told' = DOMAIN told \cup {c0} /\ told'[c0] = Notification(h, FALSE)
       /\ \A c \in DOMAIN told : told'[c] = told[c]
       /\ told' = [c \in DOMAIN told' |-> told'[c]]
  BY <1>7, <1>8, <1>9
<1>12. ToldType'
  <2>1. Notification(h, FALSE) \in Notifications
    BY <1>8 DEF Notification, Notifications, HandlerOK, Handlers, CallStateData
  <2>2. \A c \in DOMAIN told : told[c] \in Notifications /\ c \in Nat
    BY DEF ToldType, MachineInv
  <2>3. c0 \in Nat
    BY <1>6, <1>9
  <2>4. \A c \in DOMAIN told' : told'[c] \in Notifications /\ c \in Nat
    BY <1>11, <2>1, <2>2, <2>3
  <2> QED
    BY <1>11, <2>4 DEF ToldType
<1>13. Tells(hs, new)
  <2>1. (h.state = "Dropped") = FALSE
    BY <1>8
  <2>2. told'[c0] = Notification(h, h.state = "Dropped")
    BY <1>11, <2>1
  <2>3. {hs[p].data.callId : p \in new} = {c0}
    BY <1>8, <1>10
  <2> QED
    BY <1>8, <1>10, <1>11, <2>2, <2>3 DEF Tells
<1>14. View!ViewNext
  <2>1. new \subseteq DOMAIN hs /\ HandlersOK(hs)
    BY <1>10 DEF Listed
  <2> HIDE DEF new
  <2> QED
    BY <1>10, <1>12, <1>13, <2>1, SettleView DEF MachineInv
<1>15. MachineInv'
  <2>1. ToldOK'
    <3>1. /\ h.state \in TimedStates(h.data.callType)
      BY <1>8 DEF HandlerOK
    <3>2. /\ told'[c0].state = h.state /\ told'[c0].callType = h.data.callType
          /\ ~told'[c0].removed
      BY <1>11 DEF Notification
    <3> QED
      BY <1>8, <1>11, <3>1, <3>2 DEF MachineInv, ToldOK
  <2>2. InSyncAll'
    <3>1. h.data.callId \in DOMAIN told' /\ told'[h.data.callId] = Notification(h, FALSE)
      BY <1>8, <1>11
    <3>2. /\ ~told'[h.data.callId].removed /\ told'[h.data.callId].state # "Dropped"
          /\ told'[h.data.callId].callType = h.data.callType
      BY <1>8, <3>1 DEF Notification
    <3>3. \A p \in DOMAIN hs \ new : InSync(hs[p])
      BY <1>10 DEF Listed
    <3>4. ASSUME NEW p \in DOMAIN hs
          PROVE  LET g == hs[p]
                     c == g.data.callId
                 IN  /\ c \in DOMAIN told'
                     /\ ~told'[c].removed /\ told'[c].state # "Dropped"
                     /\ told'[c].callType = g.data.callType
                     /\ g.state # "Dropped" => told'[c] = Notification(g, FALSE)
      <4>1. CASE p \in new
        BY <1>8, <1>10, <3>1, <3>2, <4>1
      <4>2. CASE p \notin new
        BY <1>11, <3>3, <4>2 DEF InSync
      <4> QED
        BY <4>1, <4>2
    <3> QED
      BY <1>7, <3>4 DEF InSyncAll, InSync
  <2>3. /\ stateHandlers' \in [DOMAIN stateHandlers' -> Handlers]
        /\ HandlersOK(stateHandlers)' /\ UniqueIn(stateHandlers)'
        /\ DOMAIN stateHandlers' \subseteq 1..pushed'
    BY <1>7, <1>10 DEF Listed, HandlersOK, UniqueIn
  <2>4. \A c \in DOMAIN told' : c \in 1..(nextId' - 1)
    BY <1>6, <1>7, <1>9, <1>11 DEF MachineInv
  <2> QED
    BY <1>6, <1>7, <1>12, <2>1, <2>2, <2>3, <2>4 DEF MachineInv
<1>16. \A c : Reserved(c) /\ c # c0 =>
               c \in 1..(nextId' - 1) /\ c \notin DOMAIN told'
  BY <1>6, <1>7, <1>11 DEF Reserved
<1>17. MakingInv'
  BY <1>5, <1>7, <1>16 DEF QueueInv, MakingInv, Reserved
<1>18. Waiting(s)'
  <2> DEFINE t == Tail(lstRequests) \o handlerRequests
  <2>1. t \in Seq(Handlers) /\ DOMAIN t = 1..Len(t) /\ Len(t) = Len(s) - 1
    BY <1>2, LenProperties
  <2> HIDE DEF t
  <2>2. \A n \in DOMAIN t : n + 1 \in DOMAIN s /\ n + 1 # 1 /\ t[n] = s[n + 1]
    BY <1>2, <1>3, <2>1 DEF t
  <2>3. c0 = s[1].data.callId /\ 1 \in DOMAIN s
    BY <1>2, <1>3 DEF c0
  <2>4. \A n \in DOMAIN t : t[n].data.callId # c0
    BY <1>3, <2>2, <2>3 DEF Waiting, UniqueIn
  <2>5. UniqueIn(t)
    BY <1>3, <2>1, <2>2 DEF Waiting, UniqueIn
  <2>6. \A n \in DOMAIN t :
           /\ Requested(t[n])
           /\ t[n].data.callId \in 1..(nextId' - 1) /\ t[n].data.callId \notin DOMAIN told'
           /\ \A m \in making : m.callId # t[n].data.callId
    BY <1>3, <1>16, <2>2, <2>4 DEF Waiting
  <2>7. s' = t
    BY <1>4 DEF t
  <2> QED
    BY <1>7, <2>1, <2>5, <2>6, <2>7 DEF Waiting, Reserved, UniqueIn
<1>19. QueueInv'
  BY <1>1, <1>7, <1>17, <1>18, HeadTailProperties DEF HandleRequest, QueueInv, s
<1>20. RestInv'
  <2>1. h.to \in Numbers
    BY <1>5, RequestedTyped DEF h, r, PreExecute, AssignNewState, Requested, NewMakeCall
  <2>2. \E sent \in Sent({nextId}) :
            /\ iqs' = iqs \cup sent
            /\ dials' = Append(dials, [context |-> nextId, setup |-> clock,
                                       number |-> h.to, failed |-> sent = {}])
    BY DEF HandleRequest, h, r
  <2>3. iqs' \in SUBSET Nat
    BY <1>6, <2>2 DEF Sent, RestInv
  <2>4. dials' \in Seq(Dials)
    BY <1>6, <2>1, <2>2, AppendProperties DEF Dials, RestInv
  <2> QED
    BY <1>6, <2>3, <2>4 DEF HandleRequest, RestInv, counts
<1> QED
  BY <1>14, <1>15, <1>19, <1>20 DEF StepOK
LEMMA TimePassesStep ==
    ASSUME IInv, NEW p \in DOMAIN stateHandlers, TimePasses(p)
    PROVE  StepOK
<1> USE DEF IInv
<1> DEFINE g == stateHandlers'[p]
<1>1. /\ stateHandlers' = [stateHandlers EXCEPT ![p].expired = TRUE]
      /\ UNCHANGED <<pushed, told, nextId, queues, phase, clock, server, iqs,
                     online, counts>>
  BY DEF TimePasses
<1>2. HandlerOK(stateHandlers[p]) /\ InSync(stateHandlers[p])
  BY ListedHandlers
<1>3. g = [stateHandlers[p] EXCEPT !.expired = TRUE]
  BY <1>1 DEF MachineInv
<1>4. /\ g \in Handlers /\ g.state = stateHandlers[p].state
      /\ g.class = stateHandlers[p].class /\ g.data = stateHandlers[p].data
      /\ g.branches = stateHandlers[p].branches
  BY <1>2, <1>3 DEF HandlerOK, Handlers
<1> HIDE DEF g
<1>5. HandlerOK(g) /\ Notification(g, FALSE) = Notification(stateHandlers[p], FALSE)
  BY <1>2, <1>4 DEF HandlerOK, SameIdentity, Notification
<1>6. /\ DOMAIN stateHandlers' = DOMAIN stateHandlers
      /\ stateHandlers' = [q \in DOMAIN stateHandlers' |-> stateHandlers'[q]]
      /\ \A q \in DOMAIN stateHandlers \ {p} : stateHandlers'[q] = stateHandlers[q]
  BY <1>1 DEF MachineInv
<1>7. \A q \in DOMAIN stateHandlers :
         /\ HandlerOK(stateHandlers'[q])
         /\ stateHandlers'[q].data = stateHandlers[q].data
         /\ stateHandlers'[q].state = stateHandlers[q].state
         /\ Notification(stateHandlers'[q], FALSE) = Notification(stateHandlers[q], FALSE)
  BY <1>4, <1>5, <1>6, ListedHandlers DEF g
<1>8. InSyncAll'
  <2>1. \A q \in DOMAIN stateHandlers : InSync(stateHandlers[q])
    BY ListedHandlers
  <2>2. told' = told
    BY <1>1
  <2> QED
    BY <1>6, <1>7, <2>1, <2>2 DEF InSyncAll, InSync
<1>9. /\ stateHandlers' \in [DOMAIN stateHandlers' -> Handlers]
      /\ HandlersOK(stateHandlers)' /\ UniqueIn(stateHandlers)'
  <2>1. \A q \in DOMAIN stateHandlers : stateHandlers'[q] \in Handlers
    BY <1>7 DEF HandlerOK
  <2>2. UniqueIn(stateHandlers)
    BY DEF MachineInv
  <2>3. HandlersOK(stateHandlers)'
    BY <1>6, <1>7 DEF HandlersOK
  <2>4. UniqueIn(stateHandlers)'
    BY <1>6, <1>7, <2>2 DEF UniqueIn
  <2> QED
    BY <1>6, <2>1, <2>3, <2>4
<1>10. MachineInv'
  BY <1>1, <1>6, <1>8, <1>9 DEF MachineInv, ToldType, ToldOK
<1>11. View!ViewNext /\ NewIds
  BY <1>1, ViewSame DEF MachineInv, NewIds
<1>12. QueueInv'
  BY <1>1, <1>11, QueueStep DEF QueueInv, queues
<1>13. RestInv'
  BY <1>1 DEF RestInv, server, counts
<1> QED
  BY <1>10, <1>11, <1>12, <1>13 DEF StepOK

-----------------------------------------------------------------------------
(* The server and the connection.                                           *)

\* What the server's actions leave to Receive.
LEMMA ReceiveStep ==
    ASSUME IInv, NEW e, WellFormed(e), Receive(e),
           items' \in [Items -> ItemStates], others' \in Nat
    PROVE  StepOK
<1> USE DEF IInv
<1>1. MachineStep /\ iqs' \in SUBSET Nat
  <2>1. CASE online
    BY <2>1, SignalEventStep DEF Receive, RestInv
  <2>2. CASE ~online
    BY <2>2, MachineSame DEF Receive, MachineInv, RestInv, machine
  <2> QED
    BY <2>1, <2>2
<1>2. QueueInv'
  BY <1>1, QueueStep DEF Receive, MachineStep, QueueInv, queues
<1>3. RestInv'
  BY <1>1 DEF Receive, RestInv
<1> QED
  BY <1>1, <1>2, <1>3 DEF StepOK, MachineStep

LEMMA ServerCallsStep ==
    ASSUME IInv, ServerCalls
    PROVE  StepOK
<1> USE DEF IInv
<1>1. /\ items \in [Items -> ItemStates] /\ others \in Nat
  BY DEF RestInv
<1>2. \A i \in Items : /\ \A d, b : WellFormed(Message(i, d, b))
                       /\ WellFormed(RetractCallEvent(i))
  BY DEF WellFormed, EventTypes, Message, ActiveCallEvent, RetractCallEvent
<1>3. CASE \E i \in Items : Ring(i)
  <2>1. PICK i \in Items : Ring(i)
    BY <1>3
  <2>2. items' \in [Items -> ItemStates] /\ others' \in Nat
    BY <1>1, <2>1 DEF Ring, ItemStates
  <2>3. \E d : Receive(Message(i, d, FALSE))
    BY <2>1 DEF Ring
  <2> QED
    BY <1>2, <2>2, <2>3, ReceiveStep
<1>4. CASE \E i \in Items : Answer(i)
  <2>1. PICK i \in Items : Answer(i)
    BY <1>4
  <2>2. items' \in [Items -> ItemStates] /\ others' \in Nat
    BY <1>1, <2>1 DEF Answer, ItemStates
  <2>3. Receive(Message(i, "confirmed", FALSE))
    BY <2>1 DEF Answer
  <2> QED
    BY <1>2, <2>2, <2>3, ReceiveStep
<1>5. CASE \E i \in Items : Retract(i)
  <2>1. PICK i \in Items : Retract(i)
    BY <1>5
  <2>2. items' \in [Items -> ItemStates] /\ others' \in Nat
    BY <1>1, <2>1 DEF Retract, ItemStates
  <2>3. Receive(RetractCallEvent(i))
    BY <2>1 DEF Retract
  <2> QED
    BY <1>2, <2>2, <2>3, ReceiveStep
<1>6. CASE \E i \in Items, error \in BOOLEAN : PublishOther(i, error)
  <2>1. PICK i \in Items, error \in BOOLEAN : PublishOther(i, error)
    BY <1>6
  <2>2. items' \in [Items -> ItemStates] /\ others' \in Nat
    BY <1>1, <2>1 DEF PublishOther
  <2>3. Receive(Message(i, "unknown", error))
    BY <2>1 DEF PublishOther
  <2> QED
    BY <1>2, <2>2, <2>3, ReceiveStep
<1> QED
  BY <1>3, <1>4, <1>5, <1>6 DEF ServerCalls

LEMMA ReceiveReplyStep ==
    ASSUME IInv, NEW c, NEW e, WellFormed(e), ReceiveReply(c, e),
           dials' \in Seq(Dials)
    PROVE  StepOK
<1> USE DEF IInv
<1>1. MachineStep /\ iqs' \in SUBSET Nat
  <2>1. iqs \ {c} \in SUBSET Nat
    BY DEF RestInv
  <2> QED
    BY <2>1, SignalEventStep DEF ReceiveReply
<1>2. QueueInv'
  BY <1>1, QueueStep DEF ReceiveReply, MachineStep, QueueInv, queues
<1>3. RestInv'
  BY <1>1 DEF ReceiveReply, RestInv, counts
<1> QED
  BY <1>1, <1>2, <1>3 DEF StepOK, MachineStep

LEMMA ServerRepliesStep ==
    ASSUME IInv, ServerReplies
    PROVE  StepOK
<1>1. dials \in Seq(Dials)
  BY DEF IInv, RestInv
<1>2. \A c, b : /\ WellFormed(IqResultEvent(c))
                /\ WellFormed(CallRequestEvent(c, b))
  BY DEF WellFormed, EventTypes, IqResultEvent, CallRequestEvent
<1>3. ASSUME NEW c, ReplyTerminate(c)
      PROVE  StepOK
  BY <1>1, <1>2, <1>3, ReceiveReplyStep DEF ReplyTerminate
<1>4. ASSUME NEW c, AcceptCreate(c)
      PROVE  StepOK
  BY <1>1, <1>2, <1>4, ReceiveReplyStep DEF AcceptCreate
<1>5. ASSUME NEW c, NEW e, WellFormed(e), RefuseCreate(c, e)
      PROVE  StepOK
  <2>1. PICK k \in DialOf(c) : /\ dials' = [dials EXCEPT ![k].failed = TRUE]
                               /\ ReceiveReply(c, e)
    BY <1>5 DEF RefuseCreate
  <2>2. k \in DOMAIN dials /\ dials[k] \in Dials
    BY <1>1 DEF DialOf
  <2>3. dials' = [dials EXCEPT ![k] = [dials[k] EXCEPT !.failed = TRUE]]
    BY <2>1
  <2>4. [dials[k] EXCEPT !.failed = TRUE] \in Dials
    BY <2>2 DEF Dials
  <2>5. dials' \in Seq(Dials)
    BY <1>1, <2>2, <2>3, <2>4, ExceptSeq, LenProperties
  <2> QED
    BY <1>5, <2>1, <2>5, ReceiveReplyStep
<1> QED
  BY <1>2, <1>3, <1>4, <1>5 DEF ServerReplies, RefuseWithForm, RefuseWithoutForm

LEMMA DisconnectStep ==
    ASSUME IInv, Disconnect
    PROVE  StepOK
<1> USE DEF IInv
<1>1. /\ stateHandlers' = <<>> /\ iqs' = {} /\ online' = FALSE
      /\ UNCHANGED <<pushed, told, nextId, queues, phase, clock, server, others, drops>>
      /\ disconnects' = disconnects + 1
  BY DEF Disconnect
<1>2. DOMAIN stateHandlers' = {} /\ stateHandlers' \in [DOMAIN stateHandlers' -> Handlers]
  BY <1>1
<1>3. MachineInv'
  BY <1>1, <1>2 DEF MachineInv, ToldType, ToldOK, HandlersOK, UniqueIn, InSyncAll
<1>4. View!ViewNext /\ NewIds
  BY <1>1, ViewSame DEF MachineInv, NewIds
<1>5. QueueInv'
  BY <1>1, <1>4, QueueStep DEF QueueInv, queues
<1>6. RestInv'
  <2>1. iqs' \in SUBSET Nat /\ online' \in BOOLEAN
    BY <1>1
  <2>2. UNCHANGED <<items, dials, clock, drops, others>> /\ disconnects' = disconnects + 1
    BY <1>1 DEF server
  <2> QED
    BY <2>1, <2>2 DEF RestInv
<1> QED
  BY <1>3, <1>4, <1>5, <1>6 DEF StepOK

LEMMA ConnectStep ==
    ASSUME IInv, Connect
    PROVE  StepOK
<1> USE DEF IInv
<1>1. MachineStep
  BY MachineSame DEF MachineInv, Connect
<1>2. QueueInv'
  BY <1>1, QueueStep DEF Connect, MachineStep, QueueInv, queues
<1>3. RestInv'
  BY DEF Connect, RestInv, server, counts
<1> QED
  BY <1>1, <1>2, <1>3 DEF StepOK, MachineStep
-----------------------------------------------------------------------------
(* The theorems.                                                            *)

LEMMA InitOK == Init => IInv /\ View!ViewInit
<1> SUFFICES ASSUME Init PROVE IInv /\ View!ViewInit
  OBVIOUS
<1> USE DEF Init
<1>1. DOMAIN told = {} /\ DOMAIN stateHandlers = {}
  OBVIOUS
<1>2. MachineInv
  BY <1>1 DEF MachineInv, ToldType, ToldOK, HandlersOK, UniqueIn, InSyncAll
<1>3. PendingRequests = <<>>
  BY DEF PendingRequests
<1>4. Waiting(PendingRequests)
  BY <1>3 DEF Waiting, UniqueIn
<1>5. QueueInv
  BY <1>4 DEF QueueInv, MakingInv, Phases
<1>6. RestInv
  BY DEF RestInv, ItemStates
<1>7. View!ViewInit
  BY DEF View!ViewInit, toldView
<1> QED
  BY <1>2, <1>5, <1>6, <1>7 DEF IInv

LEMMA NextOK == IInv /\ [Next]_vars => IInv' /\ [View!ViewNext]_toldView
<1> SUFFICES ASSUME IInv, [Next]_vars
             PROVE  IInv' /\ [View!ViewNext]_toldView
  OBVIOUS
<1>1. CASE TapiThreads
  BY <1>1, MakeCallAsyncStep, AddStateHandlerStep, DropCallAsyncStep
     DEF TapiThreads, StepOK
<1>2. CASE Poll
  BY <1>2, GetRequestsStep, HandleRequestStep, GetEventsStep,
     HandleDropRequestStep, PollStateHandlersStep DEF Poll, StepOK
<1>3. CASE ServerCalls
  BY <1>3, ServerCallsStep DEF StepOK
<1>4. CASE ServerReplies
  BY <1>4, ServerRepliesStep DEF StepOK
<1>5. CASE \E p \in DOMAIN stateHandlers : TimePasses(p)
  BY <1>5, TimePassesStep DEF StepOK
<1>6. CASE Disconnect
  BY <1>6, DisconnectStep DEF StepOK
<1>7. CASE Connect
  BY <1>7, ConnectStep DEF StepOK
<1>8. CASE UNCHANGED vars
  <2>1. /\ UNCHANGED <<machine, nextId, making, handlerRequests, lstRequests,
                       events, lstEvents, phase>>
        /\ UNCHANGED <<clock, items, dials, iqs, online, drops, disconnects, others>>
    BY <1>8 DEF vars, machine
  <2>2. MachineStep
    BY <2>1, MachineSame DEF IInv, MachineInv
  <2>3. QueueInv'
    BY <2>1, <2>2, QueueStep DEF IInv, QueueInv, MachineStep
  <2>4. RestInv'
    BY <2>1 DEF IInv, RestInv
  <2> QED
    BY <2>2, <2>3, <2>4 DEF IInv, MachineStep
<1> QED
  BY <1>1, <1>2, <1>3, <1>4, <1>5, <1>6, <1>7, <1>8 DEF Next

(* The inductive invariant holds in every reachable state of the call state *)
(* machine, for any number of calls, phones, threads and lost connections.  *)
THEOREM Invariant == Spec => []IInv
<1>1. Init => IInv
  BY InitOK
<1>2. IInv /\ [Next]_vars => IInv'
  BY NextOK
<1> QED
  BY <1>1, <1>2, PTL DEF Spec

(* Every variable keeps its type: no step of the list, the queues or the    *)
(* server makes an ill-formed handler, request or notification.             *)
THEOREM TypeCorrect == Spec => []TypeOK
<1>1. IInv => TypeOK
  BY DEF IInv, MachineInv, QueueInv, MakingInv, RestInv, ToldType, TypeOK
<1> QED
  BY <1>1, Invariant, PTL

(* No two calls have the same id, whichever threads take ids, queue calls   *)
(* and create handlers for published calls between each other's steps.      *)
THEOREM CallIdsUnique == Spec => []UniqueCallIds
<1>1. IInv => UniqueCallIds
  <2> SUFFICES ASSUME IInv PROVE UniqueCallIds
    OBVIOUS
  <2>1. \A n \in DOMAIN PendingRequests :
           LET c == PendingRequests[n].data.callId
           IN  /\ c < nextId /\ c \notin DOMAIN told
               /\ \A m \in making : m.callId # c
    BY DEF IInv, MachineInv, QueueInv, Waiting, Reserved
  <2>2. \A p \in DOMAIN stateHandlers : stateHandlers[p].data.callId \in DOMAIN told
    BY ListedHandlers DEF IInv
  <2> QED
    BY <2>1, <2>2 DEF IInv, MachineInv, QueueInv, Waiting, UniqueIn, UniqueCallIds
<1> QED
  BY <1>1, Invariant, PTL

(* The last notification of a call agrees with its handler, until the       *)
(* handler is removed and the removal is reported.                          *)
THEOREM ReportsInSync == Spec => []ReportInSync
<1>1. IInv => ReportInSync
  BY DEF IInv, MachineInv, InSyncAll, InSync, ReportInSync
<1> QED
  BY <1>1, Invariant, PTL

(* A call keeps its id, type and call-setup-id, whichever of its branches   *)
(* overwrites its state data.                                               *)
THEOREM IdentityIsKept == Spec => []IdentityKept
<1>1. IInv => IdentityKept
  BY DEF IInv, MachineInv, HandlersOK, HandlerOK, SameIdentity, IdentityKept
<1> QED
  BY <1>1, Invariant, PTL

(* Every state that a handler is ever in has a time limit.                  *)
THEOREM StatesTimed == Spec => []EveryStateTimed
<1>1. IInv => EveryStateTimed
  BY DEF IInv, MachineInv, HandlersOK, HandlerOK, EveryStateTimed
<1> QED
  BY <1>1, Invariant, PTL

(* What TAPI is told implements the abstract view: each call appears once,  *)
(* only moves forward, and ends with one notification of its removal.       *)
THEOREM Implementation == Spec => ImplementsView
<1>1. Init => View!ViewInit
  BY InitOK
<1>2. IInv /\ [Next]_vars => [View!ViewNext]_toldView
  BY NextOK
<1> QED
  BY <1>1, <1>2, Invariant, PTL DEF Spec, ImplementsView, View!ViewSpec
=============================================================================
