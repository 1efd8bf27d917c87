------------------------- MODULE CallHandlers_proofs -------------------------
(***************************************************************************)
(* Lemmas about the operators of CallHandlers: what an event, a request or *)
(* a time limit does to one handler, for every value of the constants.     *)
(***************************************************************************)
EXTENDS CallHandlers, SequenceTheorems, TLAPS

\* What the lemmas assume of an event: its type, and its item where it has one.
EventTypes == {"activeCall", "retractCall", "dropRequest", "iqResult", "callRequest"}

WellFormed(e) ==
    /\ e.type \in EventTypes
    /\ e.type \in {"activeCall", "retractCall"} => e.item \in Items

\* The branches of a handler are copies of its identity.
SameIdentity(h) ==
    \A n \in DOMAIN h.branches :
        /\ h.branches[n].callId = h.data.callId
        /\ h.branches[n].callType = h.data.callType
        /\ h.branches[n].setup = h.data.setup

\* A handler as the list holds it: typed, timed, and true to its identity.
HandlerOK(h) ==
    /\ h \in Handlers
    /\ h.state \in TimedStates(h.class) \cup {"Dropped"}
    /\ h.data.callType = h.class
    /\ h.class = "MakeCall" <=> h.data.setup # NoSetup
    /\ SameIdentity(h)

-----------------------------------------------------------------------------
(* callBranches.                                                            *)

\* Removing an element of a sequence: the ones behind it move up.
LEMMA RemoveAtIs ==
    ASSUME NEW S, NEW s \in Seq(S), NEW i \in 1..Len(s)
    PROVE  /\ RemoveAt(s, i) \in Seq(S)
           /\ Len(RemoveAt(s, i)) = Len(s) - 1
           /\ \A m \in 1..Len(RemoveAt(s, i)) :
                 RemoveAt(s, i)[m] = s[IF m < i THEN m ELSE m + 1]
<1> DEFINE a == SubSeq(s, 1, i - 1)
           b == SubSeq(s, i + 1, Len(s))
<1>1. /\ a \in Seq(S) /\ Len(a) = i - 1
      /\ \A m \in 1..Len(a) : a[m] = s[m]
  BY SubSeqProperties
<1>2. /\ b \in Seq(S) /\ Len(b) = Len(s) - i
      /\ \A m \in 1..Len(b) : b[m] = s[i + m]
  BY SubSeqProperties
<1> HIDE DEF a, b
<1>3. /\ a \o b \in Seq(S) /\ Len(a \o b) = Len(s) - 1
      /\ \A m \in 1..Len(a \o b) :
            (a \o b)[m] = IF m <= Len(a) THEN a[m] ELSE b[m - Len(a)]
  <2>1. /\ a \o b \in Seq(S) /\ Len(a \o b) = Len(a) + Len(b)
        /\ \A m \in 1..Len(a) + Len(b) :
              (a \o b)[m] = IF m <= Len(a) THEN a[m] ELSE b[m - Len(a)]
    BY <1>1, <1>2, ConcatProperties
  <2>2. Len(a) + Len(b) = Len(s) - 1
    BY <1>1, <1>2
  <2> QED
    BY <2>1, <2>2
<1>4. ASSUME NEW m \in 1..Len(a \o b)
      PROVE  (a \o b)[m] = s[IF m < i THEN m ELSE m + 1]
  <2>1. CASE m < i
    <3>1. m \in 1..Len(a) /\ m <= Len(a)
      BY <2>1, <1>1, <1>3
    <3> QED
      BY <2>1, <3>1, <1>1, <1>3
  <2>2. CASE m >= i
    <3>1. m - Len(a) \in 1..Len(b) /\ ~(m <= Len(a)) /\ ~(m < i)
      BY <2>2, <1>1, <1>2, <1>3
    <3>2. (a \o b)[m] = b[m - Len(a)] /\ b[m - Len(a)] = s[i + (m - Len(a))]
      BY <3>1, <1>2, <1>3
    <3>3. i + (m - Len(a)) = m + 1
      BY <1>1, <1>3
    <3> QED
      BY <3>1, <3>2, <3>3
  <2> QED
    BY <2>1, <2>2, <1>3
<1> QED
  BY <1>3, <1>4 DEF RemoveAt, a, b

\* So what is left are elements that were there.
LEMMA RemoveAtElements ==
    ASSUME NEW S, NEW s \in Seq(S), NEW i \in 1..Len(s)
    PROVE  /\ RemoveAt(s, i) \in Seq(S)
           /\ \A m \in 1..Len(RemoveAt(s, i)) :
                 \E n \in 1..Len(s) : RemoveAt(s, i)[m] = s[n]
<1> DEFINE r == RemoveAt(s, i)
<1>1. /\ r \in Seq(S) /\ Len(r) = Len(s) - 1
      /\ \A m \in 1..Len(r) : r[m] = s[IF m < i THEN m ELSE m + 1]
  BY RemoveAtIs
<1> HIDE DEF r
<1>2. \A m \in 1..Len(r) : (IF m < i THEN m ELSE m + 1) \in 1..Len(s)
  BY <1>1
<1> QED
  BY <1>1, <1>2 DEF r

\* Adding a branch: each branch afterwards is the new one or an old one.
LEMMA AddBranchElements ==
    ASSUME NEW b \in Seq(CallStateData), NEW d \in CallStateData
    PROVE  /\ AddBranch(b, d) \in Seq(CallStateData)
           /\ \A m \in DOMAIN AddBranch(b, d) :
                 AddBranch(b, d)[m] = d
                    \/ \E n \in DOMAIN b : AddBranch(b, d)[m] = b[n]
<1>1. CASE HasId(b, d.item)
  <2> DEFINE r == [n \in DOMAIN b |-> IF b[n].item = d.item THEN d ELSE b[n]]
  <2>1. AddBranch(b, d) = r
    BY <1>1 DEF AddBranch
  <2>2. r \in Seq(CallStateData) /\ DOMAIN r = DOMAIN b
    BY IsASeq, LenProperties
  <2> QED
    BY <2>1, <2>2
<1>2. CASE ~HasId(b, d.item)
  <2>1. AddBranch(b, d) = Append(b, d)
    BY <1>2 DEF AddBranch
  <2> QED
    BY <2>1, AppendProperties
<1> QED
  BY <1>1, <1>2

\* A handler that lists one more branch of its own identity.
LEMMA KnownBranch ==
    ASSUME NEW h \in Handlers, SameIdentity(h), NEW e, e.item \in Items
    PROVE  LET k == [h EXCEPT !.branches = AddBranch(@, BranchData(h, e, h.data.setup))]
           IN  k \in Handlers /\ SameIdentity(k)
<1> DEFINE d == BranchData(h, e, h.data.setup)
           k == [h EXCEPT !.branches = AddBranch(@, d)]
<1>1. d \in CallStateData
  BY DEF BranchData, Handlers, CallStateData
<1>2. /\ d.callId = h.data.callId /\ d.callType = h.data.callType
      /\ d.setup = h.data.setup
  BY DEF BranchData
<1>3. h.branches \in Seq(CallStateData)
  BY DEF Handlers
<1> HIDE DEF d
<1>4. /\ k.branches = AddBranch(h.branches, d) /\ k.data = h.data
  BY DEF Handlers
<1>5. k \in Handlers
  BY <1>1, <1>3, AddBranchElements DEF Handlers
<1> HIDE DEF k
<1>6. SameIdentity(k)
  <2> SUFFICES ASSUME NEW m \in DOMAIN k.branches
               PROVE  /\ k.branches[m].callId = k.data.callId
                      /\ k.branches[m].callType = k.data.callType
                      /\ k.branches[m].setup = k.data.setup
    BY DEF SameIdentity
  <2>1. k.branches[m] = d \/ \E n \in DOMAIN h.branches : k.branches[m] = h.branches[n]
    BY <1>1, <1>3, <1>4, AddBranchElements
  <2> QED
    BY <2>1, <1>2, <1>4 DEF SameIdentity
<1> QED
  BY <1>5, <1>6 DEF d, k

-----------------------------------------------------------------------------
(* A new state, and the shown item.                                         *)

LEMMA AssignKeeps ==
    ASSUME NEW h \in Handlers, NEW s \in CallStates
    PROVE  /\ AssignNewState(h, s) \in Handlers
           /\ AssignNewState(h, s).state = s
           /\ ~AssignNewState(h, s).expired
           /\ AssignNewState(h, s).class = h.class
           /\ AssignNewState(h, s).data = h.data
           /\ AssignNewState(h, s).branches = h.branches
           /\ SameIdentity(h) => SameIdentity(AssignNewState(h, s))
BY DEF AssignNewState, Handlers, SameIdentity

LEMMA ShowKeeps ==
    ASSUME NEW h \in Handlers, NEW i \in Items
    PROVE  LET g == [h EXCEPT !.data.item = i]
           IN  /\ g \in Handlers
               /\ g.state = h.state /\ g.class = h.class /\ g.expired = h.expired
               /\ g.data.callId = h.data.callId
               /\ g.data.callType = h.data.callType
               /\ g.data.setup = h.data.setup
               /\ g.branches = h.branches
               /\ SameIdentity(h) => SameIdentity(g)
BY DEF Handlers, SameIdentity, CallStateData

-----------------------------------------------------------------------------
(* What an event makes of a handler.                                        *)

(* The states that an event may lead to: the handler stays, is dropped, is  *)
(* being dropped, or goes one step forward.                                 *)
Follows(class, s, t) ==
    \/ t = s
    \/ t \in {"Dropped", "PreDropCall"}
    \/ class # "MakeCall" /\ t = "Connected"
    \/ class = "MakeCall" /\ <<s, t>> \in
          {<<"MakeCallSet", "MakeCallRequested">>,
           <<"MakeCallRequested", "MakeCallRequestedAnswered">>,
           <<"MakeCallRequestedAnswered", "MakeCallOutgoingCreated">>,
           <<"MakeCallOutgoingCreated", "Connected">>}

\* An event keeps the identity of the call and follows one of these steps.
Kept(h, g) ==
    /\ HandlerOK(g)
    /\ g.class = h.class
    /\ g.data.callId = h.data.callId
    /\ Follows(h.class, h.state, g.state)

LEMMA ActiveCallOfPublishedKeeps ==
    ASSUME NEW h, HandlerOK(h), h.class # "MakeCall", NEW e, e.item \in Items
    PROVE  Kept(h, ActiveCallOfPublished(h, e))
<1> DEFINE k == [h EXCEPT !.branches = AddBranch(@, BranchData(h, e, NoSetup))]
<1>1. h \in Handlers /\ SameIdentity(h) /\ h.data.setup = NoSetup
  BY DEF HandlerOK, Handlers, CallStateData
<1>2. k \in Handlers /\ SameIdentity(k)
  BY <1>1, KnownBranch
<1>3. k.class = h.class /\ k.data = h.data /\ k.state = h.state
  BY <1>1 DEF Handlers
<1> HIDE DEF k
<1>4. CASE e.dialog = "confirmed"
  <2> DEFINE c == AssignNewState(k, "Connected")
             g == [c EXCEPT !.data.item = e.item]
  <2>1. /\ c \in Handlers /\ SameIdentity(c) /\ c.state = "Connected"
        /\ c.class = h.class /\ c.data = h.data
    BY <1>2, <1>3, AssignKeeps DEF CallStates
  <2> HIDE DEF c
  <2>2. /\ g \in Handlers /\ SameIdentity(g) /\ g.state = "Connected"
        /\ g.class = h.class /\ g.data.callId = h.data.callId
        /\ g.data.callType = h.data.callType /\ g.data.setup = h.data.setup
    BY <2>1, ShowKeeps
  <2> HIDE DEF g
  <2>3. Kept(h, g)
    BY <2>2 DEF Kept, HandlerOK, Follows, TimedStates
  <2>4. ActiveCallOfPublished(h, e) = g
    BY <1>4 DEF ActiveCallOfPublished, g, c, k
  <2> QED
    BY <2>3, <2>4
<1>5. CASE e.dialog # "confirmed"
  <2>1. Kept(h, k)
    BY <1>2, <1>3 DEF Kept, HandlerOK, Follows
  <2>2. ActiveCallOfPublished(h, e) = k
    BY <1>5 DEF ActiveCallOfPublished, k
  <2> QED
    BY <2>1, <2>2
<1> QED
  BY <1>4, <1>5

\* A handler in a new state, shown as the item of the event.
ShownAs(k, s, i, out) == [AssignNewState(k, s) EXCEPT !.data.item = i, !.outId = out]

LEMMA EnterKeeps ==
    ASSUME NEW k \in Handlers, SameIdentity(k),
           NEW s \in CallStates, NEW i \in Items, NEW out \in {k.outId, i}
    PROVE  LET g == ShownAs(k, s, i, out)
           IN  /\ g \in Handlers /\ SameIdentity(g)
               /\ g.state = s /\ g.class = k.class
               /\ g.data.callId = k.data.callId
               /\ g.data.callType = k.data.callType
               /\ g.data.setup = k.data.setup
BY DEF ShownAs, AssignNewState, Handlers, SameIdentity, CallStateData

LEMMA ActiveCallOfMakeCallKeeps ==
    ASSUME NEW h, HandlerOK(h), h.class = "MakeCall", NEW e, e.item \in Items
    PROVE  Kept(h, ActiveCallOfMakeCall(h, e))
<1> DEFINE k == [h EXCEPT !.branches = AddBranch(@, BranchData(h, e, h.data.setup))]
           Enter(s) == [AssignNewState(k, s) EXCEPT !.data.item = e.item]
           EnterOut(s) == [AssignNewState(k, s) EXCEPT !.data.item = e.item,
                                                       !.outId = e.item]
           good(s) == s \in TimedStates("MakeCall") \cup {"Dropped"}
           g == ActiveCallOfMakeCall(h, e)
<1>1. h \in Handlers /\ SameIdentity(h)
  BY DEF HandlerOK
<1>2. k \in Handlers /\ SameIdentity(k)
  BY <1>1, KnownBranch
<1>3. k.class = h.class /\ k.data = h.data /\ k.state = h.state
  BY <1>1 DEF Handlers
<1> HIDE DEF k
<1>4. ASSUME NEW s, good(s), Follows("MakeCall", h.state, s)
      PROVE  Kept(h, Enter(s)) /\ Kept(h, EnterOut(s))
  <2>1. s \in CallStates
    BY <1>4 DEF CallStates, TimedStates
  <2> DEFINE f == ShownAs(k, s, e.item, k.outId)
             o == ShownAs(k, s, e.item, e.item)
  <2>2. Enter(s) = f /\ EnterOut(s) = o
    BY <1>2, <2>1 DEF ShownAs, AssignNewState, Handlers
  <2>3. /\ o \in Handlers /\ SameIdentity(o)
        /\ o.state = s /\ o.class = k.class
        /\ o.data.callId = k.data.callId
        /\ o.data.callType = k.data.callType
        /\ o.data.setup = k.data.setup
    BY <1>2, <2>1, EnterKeeps
  <2>4. /\ f \in Handlers /\ SameIdentity(f)
        /\ f.state = s /\ f.class = k.class
        /\ f.data.callId = k.data.callId
        /\ f.data.callType = k.data.callType
        /\ f.data.setup = k.data.setup
    BY <1>2, <2>1, EnterKeeps
  <2> HIDE DEF Enter, EnterOut, f, o
  <2> QED
    BY <1>3, <1>4, <2>2, <2>3, <2>4 DEF Kept, HandlerOK
<1>5. Kept(h, k)
  BY <1>2, <1>3 DEF Kept, HandlerOK, Follows
<1>6. /\ Kept(h, AssignNewState(k, "Dropped"))
      /\ Kept(h, AssignNewState(h, "Dropped"))
  BY <1>1, <1>2, <1>3, AssignKeeps DEF Kept, HandlerOK, Follows, CallStates
<1> HIDE DEF Enter, EnterOut
<1>7. CASE e.error
  <2>1. g = AssignNewState(h, "Dropped")
    BY <1>7 DEF ActiveCallOfMakeCall
  <2> QED
    BY <2>1, <1>6
<1>8. CASE ~e.error /\ h.state = "MakeCallSet" /\ e.to = User /\ e.dialog = "requested"
  <2>1. g = Enter("MakeCallRequested")
    BY <1>8 DEF ActiveCallOfMakeCall, Enter, k
  <2> QED
    BY <1>4, <1>8, <2>1 DEF Follows, TimedStates
<1>9. CASE ~e.error /\ h.state = "MakeCallRequested" /\ e.to = User /\ e.dialog # "requested"
  <2>1. g = Enter(IF e.dialog = "confirmed" THEN "MakeCallRequestedAnswered" ELSE "Dropped")
    BY <1>9 DEF ActiveCallOfMakeCall, Enter, k
  <2> QED
    BY <1>4, <1>9, <2>1 DEF Follows, TimedStates
<1>10. CASE ~e.error /\ h.state = "MakeCallRequestedAnswered" /\ e.to = h.to
  <2>1. g = EnterOut(IF e.dialog = "created" THEN "MakeCallOutgoingCreated" ELSE "Dropped")
    BY <1>2, <1>10 DEF ActiveCallOfMakeCall, EnterOut, k, AssignNewState, Handlers
  <2> QED
    BY <1>4, <1>10, <2>1 DEF Follows, TimedStates
<1>11. CASE ~e.error /\ h.state = "MakeCallOutgoingCreated" /\ e.to = h.to
  <2>1. g = IF e.dialog = "confirmed" THEN Enter("Connected")
            ELSE AssignNewState(k, "Dropped")
    BY <1>11 DEF ActiveCallOfMakeCall, Enter, k
  <2> QED
    BY <1>4, <1>6, <1>11, <2>1 DEF Follows, TimedStates
<1>12. CASE /\ ~e.error
            /\ ~(h.state = "MakeCallSet" /\ e.to = User /\ e.dialog = "requested")
            /\ ~(h.state = "MakeCallRequested" /\ e.to = User /\ e.dialog # "requested")
            /\ ~(h.state \in {"MakeCallRequestedAnswered", "MakeCallOutgoingCreated"}
                    /\ e.to = h.to)
  <2>1. g = k
    BY <1>12 DEF ActiveCallOfMakeCall, k
  <2> QED
    BY <1>5, <2>1
<1> QED
  BY <1>7, <1>8, <1>9, <1>10, <1>11, <1>12

LEMMA CheckDroppedCallKeeps ==
    ASSUME NEW h, HandlerOK(h), NEW i, HasId(h.branches, i)
    PROVE  Kept(h, CheckDroppedCall(h, i))
<1> DEFINE left == RemoveById(h.branches, i)
           n == CHOOSE m \in DOMAIN h.branches : h.branches[m].item = i
           g == [h EXCEPT !.branches = left, !.data = left[1]]
           d == [AssignNewState(h, "Dropped") EXCEPT !.branches = left]
<1>1. h \in Handlers /\ h.branches \in Seq(CallStateData)
  BY DEF HandlerOK, Handlers
<1>2. n \in 1..Len(h.branches)
  BY <1>1, LenProperties DEF HasId
<1>3. left = RemoveAt(h.branches, n)
  BY DEF RemoveById
<1> HIDE DEF n, left
<1>4. /\ left \in Seq(CallStateData)
      /\ \A m \in 1..Len(left) :
            \E o \in 1..Len(h.branches) : left[m] = h.branches[o]
  <2> DEFINE s == h.branches
  <2>1. s \in Seq(CallStateData) /\ n \in 1..Len(s) /\ left = RemoveAt(s, n)
    BY <1>1, <1>2, <1>3
  <2> HIDE DEF s
  <2>2. /\ left \in Seq(CallStateData)
        /\ \A m \in 1..Len(left) : \E o \in 1..Len(s) : left[m] = s[o]
    BY <2>1, RemoveAtElements
  <2> QED
    BY <2>2 DEF s
<1>5. \A m \in DOMAIN left :
         /\ left[m].callId = h.data.callId
         /\ left[m].callType = h.data.callType
         /\ left[m].setup = h.data.setup
  BY <1>1, <1>4, LenProperties DEF HandlerOK, SameIdentity
<1>6. CASE left # <<>>
  <2>1. 1 \in DOMAIN left /\ left[1] \in CallStateData
    BY <1>4, <1>6
  <2>2. /\ g \in Handlers /\ g.branches = left /\ g.data = left[1]
        /\ g.state = h.state /\ g.class = h.class
    BY <1>1, <1>4, <2>1 DEF Handlers
  <2> HIDE DEF g
  <2>3. Kept(h, g)
    BY <1>5, <2>1, <2>2 DEF Kept, HandlerOK, SameIdentity, Follows
  <2>4. CheckDroppedCall(h, i) = g
    BY <1>6 DEF CheckDroppedCall, left, g
  <2> QED
    BY <2>3, <2>4
<1>7. CASE left = <<>>
  <2>1. /\ d \in Handlers /\ d.branches = left /\ d.data = h.data
        /\ d.state = "Dropped" /\ d.class = h.class
    BY <1>1, <1>4 DEF Handlers, AssignNewState, CallStates
  <2> HIDE DEF d
  <2>2. Kept(h, d)
    BY <1>5, <2>1 DEF Kept, HandlerOK, SameIdentity, Follows
  <2>3. CheckDroppedCall(h, i) = d
    BY <1>7 DEF CheckDroppedCall, left, d
  <2> QED
    BY <2>2, <2>3
<1> QED
  BY <1>6, <1>7

LEMMA DroppedKeeps ==
    ASSUME NEW h, HandlerOK(h)
    PROVE  Kept(h, AssignNewState(h, "Dropped"))
BY AssignKeeps DEF Kept, HandlerOK, Follows, CallStates

LEMMA SameKeeps ==
    ASSUME NEW h, HandlerOK(h)
    PROVE  Kept(h, h)
BY DEF Kept, Follows

LEMMA RetractCallKeeps ==
    ASSUME NEW h, HandlerOK(h), NEW e
    PROVE  Kept(h, RetractCall(h, e))
BY CheckDroppedCallKeeps, DroppedKeeps, SameKeeps DEF RetractCall

LEMMA DropRequestKeeps ==
    ASSUME NEW h, HandlerOK(h), NEW contexts \in SUBSET Nat
    PROVE  Kept(h, DropRequest(h, contexts))
<1> DEFINE g == DropRequest(h, contexts)
<1>1. /\ g \in Handlers /\ g.state = "PreDropCall" /\ g.class = h.class
      /\ g.data = h.data /\ g.branches = h.branches
  BY DEF HandlerOK, DropRequest, AssignNewState, Handlers, CallStates
<1> HIDE DEF g
<1> QED
  BY <1>1 DEF g, Kept, HandlerOK, SameIdentity, Follows, TimedStates

LEMMA IqResultKeeps ==
    ASSUME NEW h, HandlerOK(h), NEW e
    PROVE  Kept(h, IqResult(h, e))
<1> DEFINE g == IqResult(h, e)
<1>1. /\ g \in Handlers /\ g.state = h.state /\ g.class = h.class
      /\ g.data = h.data /\ g.branches = h.branches
  BY DEF HandlerOK, IqResult, Handlers
<1> HIDE DEF g
<1> QED
  BY <1>1 DEF g, Kept, HandlerOK, SameIdentity, Follows

\* Whatever event a handler accepts, it stays a handler of the same call.
LEMMA HandleEventKeeps ==
    ASSUME NEW h, HandlerOK(h), NEW e, WellFormed(e), NEW contexts \in SUBSET Nat
    PROVE  Kept(h, HandleEvent(h, e, contexts))
<1>1. CASE e.type = "activeCall"
  <2>1. e.item \in Items
    BY <1>1 DEF WellFormed
  <2>2. CASE h.class = "MakeCall"
    BY <1>1, <2>1, <2>2, ActiveCallOfMakeCallKeeps DEF HandleEvent
  <2>3. CASE h.class # "MakeCall"
    BY <1>1, <2>1, <2>3, ActiveCallOfPublishedKeeps DEF HandleEvent
  <2> QED
    BY <2>2, <2>3
<1>2. CASE e.type = "retractCall"
  BY <1>2, RetractCallKeeps DEF HandleEvent
<1>3. CASE e.type = "dropRequest"
  BY <1>3, DropRequestKeeps DEF HandleEvent
<1>4. CASE e.type = "iqResult"
  BY <1>4, IqResultKeeps DEF HandleEvent
<1>5. CASE e.type = "callRequest"
  BY <1>5, DroppedKeeps, SameKeeps DEF HandleEvent, CallRequest
<1> QED
  BY <1>1, <1>2, <1>3, <1>4, <1>5 DEF WellFormed, EventTypes

-----------------------------------------------------------------------------
(* Time limits and new handlers.                                            *)

\* A time limit changes nothing but the state, and only to Dropped.
LEMMA CheckStateTimeoutKeeps ==
    ASSUME NEW h, HandlerOK(h)
    PROVE  /\ Kept(h, CheckStateTimeout(h))
           /\ CheckStateTimeout(h).data = h.data
           /\ CheckStateTimeout(h) = h \/ CheckStateTimeout(h).state = "Dropped"
<1>1. h \in Handlers
  BY DEF HandlerOK
<1> QED
  BY <1>1, DroppedKeeps, SameKeeps, AssignKeeps DEF CheckStateTimeout, CallStates

\* A handler in the state Dropped is the one that the check removes.
LEMMA StillExists ==
    ASSUME NEW h, HandlerOK(h)
    PROVE  IsStillExist(h) <=> h.state # "Dropped"
BY DEF IsStillExist, TimesOut, TimedStates, HandlerOK, Handlers, CallTypes

LEMMA NewHandlerOK ==
    ASSUME NEW e, e.item \in Items, NEW c \in Nat
    PROVE  /\ HandlerOK(NewOutgoing(e, c)) /\ NewOutgoing(e, c).data.callId = c
           /\ NewOutgoing(e, c).state = "PhysicalOutProceeding"
           /\ HandlerOK(NewIncoming(e, c)) /\ NewIncoming(e, c).data.callId = c
           /\ NewIncoming(e, c).state = "Offering"
<1> DEFINE d(class) == [item |-> e.item, callId |-> c, callType |-> class,
                        setup |-> NoSetup]
<1>1. \A class \in CallTypes : d(class) \in CallStateData
  BY DEF CallStateData, NoSetup
<1>2. \A class \in CallTypes : <<d(class)>> \in Seq(CallStateData)
  BY <1>1
<1>3. \A class \in CallTypes, state \in CallStates :
         NewHandler(class, state, e, c) \in Handlers
  BY <1>1, <1>2 DEF NewHandler, Handlers
<1>4. \A class \in CallTypes, state \in CallStates :
         /\ NewHandler(class, state, e, c).state = state
         /\ NewHandler(class, state, e, c).class = class
         /\ NewHandler(class, state, e, c).data = d(class)
         /\ NewHandler(class, state, e, c).branches = <<d(class)>>
  BY DEF NewHandler
<1>5. ASSUME NEW class \in {"PhysicalCall", "IncomingCall"}, NEW state \in CallStates,
             state \in TimedStates(class)
      PROVE  /\ HandlerOK(NewHandler(class, state, e, c))
             /\ NewHandler(class, state, e, c).data.callId = c
             /\ NewHandler(class, state, e, c).state = state
  <2> DEFINE h == NewHandler(class, state, e, c)
  <2>1. class \in CallTypes /\ class # "MakeCall"
    BY DEF CallTypes
  <2>2. /\ h \in Handlers /\ h.state = state /\ h.class = class
        /\ h.data = d(class) /\ h.branches = <<d(class)>>
    BY <1>3, <1>4, <2>1
  <2> HIDE DEF h
  <2>3. SameIdentity(h)
    BY <2>2 DEF SameIdentity
  <2>4. /\ h.data.callId = c /\ h.data.callType = class /\ h.data.setup = NoSetup
    BY <2>2
  <2> QED
    BY <1>5, <2>1, <2>2, <2>3, <2>4 DEF HandlerOK, h
<1>6. /\ "PhysicalOutProceeding" \in CallStates /\ "Offering" \in CallStates
      /\ "PhysicalOutProceeding" \in TimedStates("PhysicalCall")
      /\ "Offering" \in TimedStates("IncomingCall")
  BY DEF TimedStates, CallStates
<1> QED
  BY <1>5, <1>6 DEF NewOutgoing, NewIncoming

\* A request for a call, as it waits in the queues.
Requested(h) == \E n \in Numbers, c \in Nat : h = NewMakeCall(n, c)

LEMMA RequestedTyped ==
    ASSUME NEW h, Requested(h)
    PROVE  h \in Handlers /\ h.data.callId \in Nat /\ h.to \in Numbers
BY DEF Requested, NewMakeCall, Handlers, CallTypes, CallStates, CallStateData, NoSetup

LEMMA PreExecuteOK ==
    ASSUME NEW h, Requested(h), NEW context \in Nat, NEW setup \in Nat \ {0}
    PROVE  /\ HandlerOK(PreExecute(h, context, setup))
           /\ PreExecute(h, context, setup).data.callId = h.data.callId
           /\ PreExecute(h, context, setup).state = "MakeCallSet"
<1> DEFINE a == AssignNewState(h, "MakeCallSet")
           g == [a EXCEPT !.context = context, !.data.setup = setup]
<1>1. /\ h \in Handlers /\ h.class = "MakeCall" /\ h.branches = <<>>
      /\ h.data.callType = "MakeCall"
  BY RequestedTyped DEF Requested, NewMakeCall
<1>2. /\ a \in Handlers /\ a.state = "MakeCallSet" /\ a.class = "MakeCall"
      /\ a.branches = <<>> /\ a.data = h.data
  BY <1>1, AssignKeeps DEF CallStates
<1> HIDE DEF a
<1>3. /\ g \in Handlers /\ g.state = "MakeCallSet" /\ g.class = "MakeCall"
      /\ g.branches = <<>> /\ g.data.callId = h.data.callId
      /\ g.data.callType = "MakeCall" /\ g.data.setup = setup
  BY <1>1, <1>2 DEF Handlers, CallStateData
<1> HIDE DEF g
<1>4. HandlerOK(g)
  BY <1>3 DEF HandlerOK, SameIdentity, TimedStates, NoSetup
<1> QED
  BY <1>3, <1>4 DEF PreExecute, a, g
=============================================================================
