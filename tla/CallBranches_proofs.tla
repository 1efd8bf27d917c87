------------------------- MODULE CallBranches_proofs -------------------------
(***************************************************************************)
(* Lemmas about the branches of a call: which items callBranches lists     *)
(* after AddBranch and CheckDroppedCall, and which of them the call is     *)
(* shown as after an event, for every value of the constants.              *)
(***************************************************************************)
EXTENDS CallHandlers_proofs

DistinctItems(b) == \A m, n \in DOMAIN b : b[m].item = b[n].item => m = n

(* The branches of a handler: published items, each of them once, and the   *)
(* shown item is one of them.  A call that the server announced is always   *)
(* shown as an item, and its branches are all of one SIP call.              *)
BranchesOK(h) ==
    /\ \A n \in DOMAIN h.branches : h.branches[n].item \in Items
    /\ DistinctItems(h.branches)
    /\ h.data.item # NoItem => HasId(h.branches, h.data.item)
    /\ h.class = "MakeCall" => h.to \in Numbers
    /\ h.class # "MakeCall" =>
          /\ h.data.item # NoItem
          /\ \A n \in DOMAIN h.branches :
                SipCall(h.branches[n].item) = SipCall(h.data.item)

\* The branches are those there were, and the item of an active-call event.
NoOtherBranch(b, c, e) ==
    \A n \in DOMAIN c :
        \/ \E m \in DOMAIN b : b[m].item = c[n].item
        \/ e.type = "activeCall" /\ c[n].item = e.item

\* What an event may do to a handler that owns it.
Moves(h, g, e) ==
    /\ g.class = h.class /\ g.to = h.to
    /\ g.data.setup = h.data.setup
    /\ g.state = "Dropped" \/ BranchesOK(g)
    /\ NoOtherBranch(h.branches, g.branches, e)
    /\ h.class # "MakeCall" => SipCall(g.data.item) = SipCall(h.data.item)
    /\ g.state = "Connected" =>
          \/ h.state = "Connected"
          \/ /\ e.type = "activeCall" /\ e.dialog = "confirmed"
             /\ h.class = "MakeCall" => e.to = h.to

-----------------------------------------------------------------------------
(* callBranches.                                                            *)

LEMMA ItemKinds ==
    ASSUME NEW i \in Items
    PROVE  /\ i.kind \in {"in", "out", "incoming", "physical"}
           /\ i.kind = "in" => i.call \in 1..MaxDials
           /\ i.kind = "out" => i = Item("out", i.call, 1) /\ i.call \in 1..MaxDials
<1>1. ASSUME NEW kind, NEW k, NEW b, i = Item(kind, k, b)
      PROVE  i.kind = kind /\ i.call = k /\ i.branch = b
  BY <1>1 DEF Item
<1>2. CASE i \in InLegs
  <2>1. PICK k \in 1..MaxDials, b \in 1..MaxBranches : i = Item("in", k, b)
    BY <1>2 DEF InLegs
  <2> QED
    BY <1>1, <2>1
<1>3. CASE i \in OutLegs
  <2>1. PICK k \in 1..MaxDials : i = Item("out", k, 1)
    BY <1>3 DEF OutLegs
  <2> QED
    BY <1>1, <2>1
<1>4. CASE i \in IncomingItems
  <2>1. PICK k \in 1..MaxIncoming, b \in 1..MaxBranches : i = Item("incoming", k, b)
    BY <1>4 DEF IncomingItems
  <2> QED
    BY <1>1, <2>1
<1>5. CASE i \in PhysicalItems
  <2>1. PICK k \in 1..MaxPhysical : i = Item("physical", k, 1)
    BY <1>5 DEF PhysicalItems
  <2> QED
    BY <1>1, <2>1
<1> QED
  BY <1>2, <1>3, <1>4, <1>5 DEF Items

LEMMA NoItemIsNone == NoItem \notin Items
<1>1. NoItem.kind = "none"
  BY DEF NoItem, Item
<1> QED
  BY <1>1, ItemKinds

LEMMA AddBranchItems ==
    ASSUME NEW b \in Seq(CallStateData), NEW d \in CallStateData, DistinctItems(b)
    PROVE  /\ DistinctItems(AddBranch(b, d))
           /\ HasId(AddBranch(b, d), d.item)
           /\ \A i : HasId(b, i) => HasId(AddBranch(b, d), i)
           /\ \A m \in DOMAIN AddBranch(b, d) :
                 \/ AddBranch(b, d)[m].item = d.item
                 \/ \E n \in DOMAIN b : b[n].item = AddBranch(b, d)[m].item
<1>1. CASE HasId(b, d.item)
  <2> DEFINE r == [n \in DOMAIN b |-> IF b[n].item = d.item THEN d ELSE b[n]]
  <2>1. AddBranch(b, d) = r
    BY <1>1 DEF AddBranch
  <2>2. DOMAIN r = DOMAIN b /\ \A n \in DOMAIN b : r[n].item = b[n].item
    OBVIOUS
  <2> HIDE DEF r
  <2> QED
    BY <1>1, <2>1, <2>2 DEF HasId, DistinctItems
<1>2. CASE ~HasId(b, d.item)
  <2> DEFINE r == Append(b, d)
  <2>1. AddBranch(b, d) = r
    BY <1>2 DEF AddBranch
  <2>2. /\ DOMAIN r = 1..(Len(b) + 1) /\ DOMAIN b = 1..Len(b) /\ Len(b) \in Nat
        /\ r[Len(b) + 1] = d /\ \A n \in 1..Len(b) : r[n] = b[n]
    BY AppendProperties, LenProperties
  <2> HIDE DEF r
  <2>3. \A n \in DOMAIN r : n = Len(b) + 1 \/ n \in DOMAIN b
    BY <2>2
  <2>4. DOMAIN b \subseteq DOMAIN r /\ Len(b) + 1 \in DOMAIN r
    BY <2>2
  <2>5. \A n \in DOMAIN b : b[n].item # d.item
    BY <1>2 DEF HasId
  <2>6. DistinctItems(r)
    BY <2>2, <2>3, <2>5 DEF DistinctItems
  <2>7. HasId(r, d.item) /\ \A i : HasId(b, i) => HasId(r, i)
    BY <2>2, <2>4 DEF HasId
  <2>8. \A m \in DOMAIN r : r[m].item = d.item \/ \E n \in DOMAIN b : b[n].item = r[m].item
    BY <2>2, <2>3
  <2> QED
    BY <2>1, <2>6, <2>7, <2>8
<1> QED
  BY <1>1, <1>2

LEMMA RemoveByIdItems ==
    ASSUME NEW b \in Seq(CallStateData), DistinctItems(b), NEW i, HasId(b, i)
    PROVE  /\ RemoveById(b, i) \in Seq(CallStateData)
           /\ DistinctItems(RemoveById(b, i))
           /\ \A m \in DOMAIN RemoveById(b, i) :
                 \E n \in DOMAIN b : RemoveById(b, i)[m] = b[n]
           /\ ~HasId(RemoveById(b, i), i)
<1> DEFINE k == CHOOSE n \in DOMAIN b : b[n].item = i
           r == RemoveAt(b, k)
           At(m) == IF m < k THEN m ELSE m + 1
<1>1. /\ k \in 1..Len(b) /\ DOMAIN b = 1..Len(b) /\ Len(b) \in Nat
      /\ b[k].item = i
  BY LenProperties DEF HasId
<1>2. RemoveById(b, i) = r
  BY DEF RemoveById
<1> HIDE DEF k
<1>3. /\ r \in Seq(CallStateData) /\ Len(r) = Len(b) - 1
      /\ \A m \in 1..Len(r) : r[m] = b[At(m)]
  BY <1>1, RemoveAtIs
<1>4. DOMAIN r = 1..Len(r)
  BY <1>3, LenProperties
<1> HIDE DEF r
<1>5. \A m \in DOMAIN r : At(m) \in DOMAIN b /\ At(m) # k
  BY <1>1, <1>3, <1>4
<1>6. \A m, n \in DOMAIN r : At(m) = At(n) => m = n
  BY <1>1, <1>4
<1>7. \A m \in DOMAIN r : r[m] = b[At(m)]
  BY <1>3, <1>4
<1> HIDE DEF At
<1>8. ~HasId(r, i)
  BY <1>1, <1>5, <1>7 DEF HasId, DistinctItems
<1> QED
  BY <1>2, <1>3, <1>5, <1>6, <1>7, <1>8 DEF DistinctItems

\* A handler that lists the item of an event it owns.
LEMMA KnownBranchOK ==
    ASSUME NEW h, HandlerOK(h), BranchesOK(h), NEW e, e.item \in Items,
           e.type = "activeCall", Owns(h, e), NEW setup \in Nat
    PROVE  LET k == [h EXCEPT !.branches = AddBranch(@, BranchData(h, e, setup))]
           IN  /\ BranchesOK(k) /\ HasId(k.branches, e.item)
               /\ NoOtherBranch(h.branches, k.branches, e)
<1> DEFINE d == BranchData(h, e, setup)
           c == AddBranch(h.branches, d)
           k == [h EXCEPT !.branches = c]
<1>1. /\ h \in Handlers /\ h.branches \in Seq(CallStateData)
      /\ d \in CallStateData /\ d.item = e.item
  BY DEF HandlerOK, Handlers, BranchData, CallStateData
<1> HIDE DEF d
<1>2. /\ DistinctItems(c) /\ HasId(c, e.item)
      /\ \A i : HasId(h.branches, i) => HasId(c, i)
      /\ \A m \in DOMAIN c : \/ c[m].item = e.item
                             \/ \E n \in DOMAIN h.branches : h.branches[n].item = c[m].item
  BY <1>1, AddBranchItems DEF BranchesOK
<1> HIDE DEF c
<1>3. /\ k.branches = c /\ k.data = h.data /\ k.class = h.class /\ k.to = h.to
  BY <1>1 DEF Handlers
<1> HIDE DEF k
<1>4. h.class # "MakeCall" => SipCall(e.item) = SipCall(h.data.item)
  BY DEF Owns, OwnsActiveCall
<1>5. BranchesOK(k)
  <2>1. \A n \in DOMAIN c : c[n].item \in Items
    BY <1>2 DEF BranchesOK
  <2>2. h.class # "MakeCall" => /\ h.data.item # NoItem
                                /\ \A n \in DOMAIN c : SipCall(c[n].item) = SipCall(h.data.item)
    BY <1>2, <1>4 DEF BranchesOK
  <2> QED
    BY <1>2, <1>3, <2>1, <2>2 DEF BranchesOK
<1>6. NoOtherBranch(h.branches, c, e)
  BY <1>2 DEF NoOtherBranch
<1> QED
  BY <1>2, <1>3, <1>5, <1>6 DEF k, c, d

\* A new state, and another item to be shown as, leave the branches alone.
LEMMA AssignBranchesOK ==
    ASSUME NEW k \in Handlers, BranchesOK(k), NEW s \in CallStates
    PROVE  BranchesOK(AssignNewState(k, s)) /\ AssignNewState(k, s).to = k.to
BY DEF AssignNewState, Handlers, BranchesOK

LEMMA ShownAsBranchesOK ==
    ASSUME NEW k \in Handlers, BranchesOK(k), NEW i \in Items, HasId(k.branches, i),
           NEW out, NEW s
    PROVE  /\ BranchesOK(ShownAs(k, s, i, out))
           /\ ShownAs(k, s, i, out).branches = k.branches
           /\ ShownAs(k, s, i, out).to = k.to
           /\ ShownAs(k, s, i, out).class = k.class
           /\ ShownAs(k, s, i, out).data.setup = k.data.setup
           /\ ShownAs(k, s, i, out).data.item = i
           /\ ShownAs(k, s, i, out).state = s
<1> DEFINE g == ShownAs(k, s, i, out)
<1>1. /\ g.branches = k.branches /\ g.to = k.to /\ g.class = k.class
      /\ g.state = s /\ g.data.item = i /\ g.data.setup = k.data.setup
  BY DEF ShownAs, AssignNewState, Handlers, CallStateData
<1> HIDE DEF g
<1>2. k.class # "MakeCall" => \A n \in DOMAIN k.branches : SipCall(k.branches[n].item) = SipCall(i)
  BY DEF BranchesOK, HasId
<1>3. BranchesOK(g)
  BY <1>1, <1>2, NoItemIsNone DEF BranchesOK
<1> QED
  BY <1>1, <1>3 DEF g

-----------------------------------------------------------------------------
(* The events.                                                              *)

LEMMA SameMoves ==
    ASSUME NEW h, HandlerOK(h), BranchesOK(h), NEW e
    PROVE  Moves(h, h, e)
BY DEF Moves, NoOtherBranch

LEMMA DroppedMoves ==
    ASSUME NEW h, HandlerOK(h), NEW e
    PROVE  Moves(h, AssignNewState(h, "Dropped"), e)
BY DEF Moves, NoOtherBranch, AssignNewState, HandlerOK, Handlers

LEMMA ActiveCallOfPublishedMoves ==
    ASSUME NEW h, HandlerOK(h), BranchesOK(h), h.class # "MakeCall",
           NEW e, e.item \in Items, e.type = "activeCall", Owns(h, e)
    PROVE  Moves(h, ActiveCallOfPublished(h, e), e)
<1> DEFINE k == [h EXCEPT !.branches = AddBranch(@, BranchData(h, e, NoSetup))]
<1>1. h \in Handlers /\ SameIdentity(h) /\ h.data.setup = NoSetup /\ NoSetup \in Nat
  BY DEF HandlerOK, NoSetup
<1>2. k \in Handlers
  BY <1>1, KnownBranch
<1>3. /\ BranchesOK(k) /\ HasId(k.branches, e.item)
      /\ NoOtherBranch(h.branches, k.branches, e)
  BY <1>1, KnownBranchOK
<1>4. /\ k.class = h.class /\ k.data = h.data /\ k.state = h.state /\ k.to = h.to
  BY <1>1 DEF Handlers
<1> HIDE DEF k
<1>5. SipCall(e.item) = SipCall(h.data.item)
  BY DEF Owns, OwnsActiveCall
<1>6. CASE e.dialog = "confirmed"
  <2> DEFINE g == ShownAs(k, "Connected", e.item, k.outId)
  <2>1. /\ BranchesOK(g) /\ g.branches = k.branches /\ g.to = k.to
        /\ g.class = k.class /\ g.data.setup = k.data.setup
        /\ g.state = "Connected" /\ g.data.item = e.item
    BY <1>2, <1>3, ShownAsBranchesOK
  <2>2. ActiveCallOfPublished(h, e) = g
    BY <1>2, <1>6 DEF ActiveCallOfPublished, k, Handlers, AssignNewState, ShownAs
  <2> HIDE DEF g
  <2> QED
    BY <1>3, <1>4, <1>5, <1>6, <2>1, <2>2 DEF Moves
<1>7. CASE e.dialog # "confirmed"
  <2>1. ActiveCallOfPublished(h, e) = k
    BY <1>7 DEF ActiveCallOfPublished, k
  <2> QED
    BY <1>3, <1>4, <2>1 DEF Moves
<1> QED
  BY <1>6, <1>7

LEMMA ActiveCallOfMakeCallMoves ==
    ASSUME NEW h, HandlerOK(h), BranchesOK(h), h.class = "MakeCall",
           NEW e, e.item \in Items, e.type = "activeCall", Owns(h, e)
    PROVE  Moves(h, ActiveCallOfMakeCall(h, e), e)
<1> DEFINE k == [h EXCEPT !.branches = AddBranch(@, BranchData(h, e, h.data.setup))]
           Enter(s) == [AssignNewState(k, s) EXCEPT !.data.item = e.item]
           EnterOut(s) == [AssignNewState(k, s) EXCEPT !.data.item = e.item,
                                                       !.outId = e.item]
           connects == e.dialog = "confirmed" /\ e.to = h.to
           g == ActiveCallOfMakeCall(h, e)
<1>1. h \in Handlers /\ SameIdentity(h) /\ h.data.setup \in Nat
  BY DEF HandlerOK, Handlers, CallStateData
<1>2. k \in Handlers
  BY <1>1, KnownBranch
<1>3. /\ BranchesOK(k) /\ HasId(k.branches, e.item)
      /\ NoOtherBranch(h.branches, k.branches, e)
  BY <1>1, KnownBranchOK
<1>4. /\ k.class = h.class /\ k.data = h.data /\ k.state = h.state /\ k.to = h.to
  BY <1>1 DEF Handlers
<1> HIDE DEF k
<1>5. ASSUME NEW s \in CallStates, s = "Connected" => connects
      PROVE  Moves(h, Enter(s), e) /\ Moves(h, EnterOut(s), e)
  <2> DEFINE f == ShownAs(k, s, e.item, k.outId)
             o == ShownAs(k, s, e.item, e.item)
  <2>1. /\ BranchesOK(f) /\ f.branches = k.branches /\ f.to = k.to
        /\ f.class = k.class /\ f.data.setup = k.data.setup /\ f.state = s
    BY <1>2, <1>3, ShownAsBranchesOK
  <2>2. /\ BranchesOK(o) /\ o.branches = k.branches /\ o.to = k.to
        /\ o.class = k.class /\ o.data.setup = k.data.setup /\ o.state = s
    BY <1>2, <1>3, ShownAsBranchesOK
  <2>3. Enter(s) = f /\ EnterOut(s) = o
    BY <1>2 DEF AssignNewState, Handlers, ShownAs
  <2> HIDE DEF Enter, EnterOut, f, o
  <2> QED
    BY <1>3, <1>4, <1>5, <2>1, <2>2, <2>3 DEF Moves
<1>6. Moves(h, k, e)
  BY <1>3, <1>4 DEF Moves
<1>7. Moves(h, AssignNewState(k, "Dropped"), e)
  <2>1. "Dropped" \in CallStates
    BY DEF CallStates
  <2>2. /\ AssignNewState(k, "Dropped").state = "Dropped"
        /\ AssignNewState(k, "Dropped").class = h.class
        /\ AssignNewState(k, "Dropped").data = h.data
        /\ AssignNewState(k, "Dropped").branches = k.branches
        /\ AssignNewState(k, "Dropped").to = h.to
    BY <1>2, <1>3, <1>4, <2>1, AssignKeeps, AssignBranchesOK
  <2> QED
    BY <1>3, <2>2 DEF Moves
<1>8. Moves(h, AssignNewState(h, "Dropped"), e)
  BY DroppedMoves
<1> HIDE DEF Enter, EnterOut
<1>9. CASE e.error
  <2>1. g = AssignNewState(h, "Dropped")
    BY <1>9 DEF ActiveCallOfMakeCall
  <2> QED
    BY <2>1, <1>8
<1>10. CASE ~e.error /\ h.state = "MakeCallSet" /\ e.to = User /\ e.dialog = "requested"
  <2>1. g = Enter("MakeCallRequested")
    BY <1>10 DEF ActiveCallOfMakeCall, Enter, k
  <2> QED
    BY <1>5, <2>1 DEF CallStates
<1>11. CASE ~e.error /\ h.state = "MakeCallRequested" /\ e.to = User /\ e.dialog # "requested"
  <2>1. g = Enter(IF e.dialog = "confirmed" THEN "MakeCallRequestedAnswered" ELSE "Dropped")
    BY <1>11 DEF ActiveCallOfMakeCall, Enter, k
  <2> QED
    BY <1>5, <2>1 DEF CallStates
<1>12. CASE ~e.error /\ h.state = "MakeCallRequestedAnswered" /\ e.to = h.to
  <2>1. g = EnterOut(IF e.dialog = "created" THEN "MakeCallOutgoingCreated" ELSE "Dropped")
    BY <1>2, <1>12 DEF ActiveCallOfMakeCall, EnterOut, k, AssignNewState, Handlers
  <2> QED
    BY <1>5, <2>1 DEF CallStates
<1>13. CASE ~e.error /\ h.state = "MakeCallOutgoingCreated" /\ e.to = h.to
  <2>1. g = IF e.dialog = "confirmed" THEN Enter("Connected")
            ELSE AssignNewState(k, "Dropped")
    BY <1>13 DEF ActiveCallOfMakeCall, Enter, k
  <2> QED
    BY <1>5, <1>7, <1>13, <2>1 DEF CallStates
<1>14. CASE /\ ~e.error
            /\ ~(h.state = "MakeCallSet" /\ e.to = User /\ e.dialog = "requested")
            /\ ~(h.state = "MakeCallRequested" /\ e.to = User /\ e.dialog # "requested")
            /\ ~(h.state \in {"MakeCallRequestedAnswered", "MakeCallOutgoingCreated"}
                    /\ e.to = h.to)
  <2>1. g = k
    BY <1>14 DEF ActiveCallOfMakeCall, k
  <2> QED
    BY <1>6, <2>1
<1> QED
  BY <1>9, <1>10, <1>11, <1>12, <1>13, <1>14

LEMMA CheckDroppedCallMoves ==
    ASSUME NEW h, HandlerOK(h), BranchesOK(h), NEW i, HasId(h.branches, i), NEW e
    PROVE  Moves(h, CheckDroppedCall(h, i), e)
<1> DEFINE left == RemoveById(h.branches, i)
           g == [h EXCEPT !.branches = left, !.data = left[1]]
           d == [AssignNewState(h, "Dropped") EXCEPT !.branches = left]
<1>1. h \in Handlers /\ h.branches \in Seq(CallStateData) /\ SameIdentity(h)
  BY DEF HandlerOK, Handlers
<1>2. /\ left \in Seq(CallStateData) /\ DistinctItems(left)
      /\ \A m \in DOMAIN left : \E n \in DOMAIN h.branches : left[m] = h.branches[n]
  BY <1>1, RemoveByIdItems DEF BranchesOK
<1> HIDE DEF left
<1>3. /\ NoOtherBranch(h.branches, left, e)
      /\ \A m \in DOMAIN left : left[m].item \in Items
      /\ h.class # "MakeCall" =>
            \A m \in DOMAIN left : SipCall(left[m].item) = SipCall(h.data.item)
  BY <1>2 DEF NoOtherBranch, BranchesOK
<1>4. CASE left # <<>>
  <2>1. 1 \in DOMAIN left /\ left[1].item # NoItem /\ HasId(left, left[1].item)
    BY <1>2, <1>3, <1>4, NoItemIsNone, LenProperties, EmptySeq DEF HasId
  <2>2. left[1].setup = h.data.setup
    BY <1>1, <1>2, <2>1 DEF SameIdentity
  <2>3. /\ g.branches = left /\ g.data = left[1]
        /\ g.state = h.state /\ g.class = h.class /\ g.to = h.to
    BY <1>1 DEF Handlers
  <2>4. CheckDroppedCall(h, i) = g
    BY <1>4 DEF CheckDroppedCall, left, g
  <2> HIDE DEF g
  <2>5. BranchesOK(g)
    BY <1>2, <1>3, <2>1, <2>3 DEF BranchesOK
  <2>6. h.class # "MakeCall" => SipCall(g.data.item) = SipCall(h.data.item)
    BY <1>3, <2>1, <2>3
  <2> QED
    BY <1>3, <2>2, <2>3, <2>4, <2>5, <2>6 DEF Moves
<1>5. CASE left = <<>>
  <2>1. /\ d.branches = left /\ d.data = h.data /\ d.state = "Dropped"
        /\ d.class = h.class /\ d.to = h.to
    BY <1>1 DEF Handlers, AssignNewState
  <2>2. CheckDroppedCall(h, i) = d
    BY <1>5 DEF CheckDroppedCall, left, d
  <2> HIDE DEF d
  <2> QED
    BY <1>3, <2>1, <2>2 DEF Moves
<1> QED
  BY <1>4, <1>5

\* Whatever event a handler owns, it moves as Moves says.
LEMMA HandleEventMoves ==
    ASSUME NEW h, HandlerOK(h), BranchesOK(h), NEW e, WellFormed(e), Owns(h, e),
           NEW contexts \in SUBSET Nat
    PROVE  Moves(h, HandleEvent(h, e, contexts), e)
<1>1. CASE e.type = "activeCall"
  <2>1. e.item \in Items
    BY <1>1 DEF WellFormed
  <2>2. CASE h.class = "MakeCall"
    BY <1>1, <2>1, <2>2, ActiveCallOfMakeCallMoves DEF HandleEvent
  <2>3. CASE h.class # "MakeCall"
    BY <1>1, <2>1, <2>3, ActiveCallOfPublishedMoves DEF HandleEvent
  <2> QED
    BY <2>2, <2>3
<1>2. CASE e.type = "retractCall"
  BY <1>2, CheckDroppedCallMoves, DroppedMoves, SameMoves DEF HandleEvent, RetractCall
<1>3. CASE e.type = "dropRequest"
  <2> DEFINE g == DropRequest(h, contexts)
  <2>1. /\ g.state = "PreDropCall" /\ g.class = h.class /\ g.to = h.to
        /\ g.data = h.data /\ g.branches = h.branches
    BY DEF HandlerOK, DropRequest, AssignNewState, Handlers
  <2> HIDE DEF g
  <2>2. Moves(h, g, e)
    BY <2>1 DEF Moves, BranchesOK, NoOtherBranch
  <2> QED
    BY <1>3, <2>2 DEF HandleEvent, g
<1>4. CASE e.type = "iqResult"
  <2> DEFINE g == IqResult(h, e)
  <2>1. /\ g.state = h.state /\ g.class = h.class /\ g.to = h.to
        /\ g.data = h.data /\ g.branches = h.branches
    BY DEF HandlerOK, IqResult, Handlers
  <2> HIDE DEF g
  <2>2. Moves(h, g, e)
    BY <2>1 DEF Moves, BranchesOK, NoOtherBranch
  <2> QED
    BY <1>4, <2>2 DEF HandleEvent, g
<1>5. CASE e.type = "callRequest"
  BY <1>5, DroppedMoves, SameMoves DEF HandleEvent, CallRequest
<1> QED
  BY <1>1, <1>2, <1>3, <1>4, <1>5 DEF WellFormed, EventTypes

\* The context of the "create" request is that of the handler for good.
LEMMA HandleEventContext ==
    ASSUME NEW h \in Handlers, NEW e, e.type \in EventTypes, NEW contexts
    PROVE  HandleEvent(h, e, contexts).context = h.context
<1>1. CASE e.type = "activeCall" /\ h.class # "MakeCall"
  BY <1>1 DEF HandleEvent, ActiveCallOfPublished, AssignNewState, Handlers
<1>2. CASE e.type = "activeCall" /\ h.class = "MakeCall"
  BY <1>2 DEF HandleEvent, ActiveCallOfMakeCall, AssignNewState, Handlers
<1>3. CASE e.type = "retractCall"
  BY <1>3 DEF HandleEvent, RetractCall, CheckDroppedCall, AssignNewState, Handlers
<1>4. CASE e.type = "dropRequest"
  BY <1>4 DEF HandleEvent, DropRequest, AssignNewState, Handlers
<1>5. CASE e.type = "iqResult"
  BY <1>5 DEF HandleEvent, IqResult, Handlers
<1>6. CASE e.type = "callRequest"
  BY <1>6 DEF HandleEvent, CallRequest, AssignNewState, Handlers
<1> QED
  BY <1>1, <1>2, <1>3, <1>4, <1>5, <1>6 DEF EventTypes

\* A retracted item is no branch of a call that goes on.
LEMMA RetractedGoes ==
    ASSUME NEW h, HandlerOK(h), BranchesOK(h), NEW e, e.type = "retractCall",
           NEW contexts
    PROVE  LET g == HandleEvent(h, e, contexts)
           IN  g.state = "Dropped" \/ ~HasId(g.branches, e.item)
<1> DEFINE left == RemoveById(h.branches, e.item)
           g == HandleEvent(h, e, contexts)
<1>1. h \in Handlers /\ h.branches \in Seq(CallStateData)
  BY DEF HandlerOK, Handlers
<1>2. AssignNewState(h, "Dropped").state = "Dropped"
  BY <1>1 DEF AssignNewState, Handlers
<1>3. g = RetractCall(h, e)
  BY DEF HandleEvent
<1> HIDE DEF g
<1>4. CASE h.class = "PhysicalCall"
  BY <1>2, <1>3, <1>4 DEF RetractCall, g
<1>5. CASE h.class # "PhysicalCall" /\ HasId(h.branches, e.item)
  <2>1. ~HasId(left, e.item)
    BY <1>1, <1>5, RemoveByIdItems DEF BranchesOK
  <2> HIDE DEF left
  <2>2. g = CheckDroppedCall(h, e.item)
    BY <1>3, <1>5 DEF RetractCall
  <2>3. g.branches = left
    BY <1>1, <2>2 DEF CheckDroppedCall, left, AssignNewState, Handlers
  <2> QED
    BY <2>1, <2>3 DEF g
<1>6. CASE h.class # "PhysicalCall" /\ ~HasId(h.branches, e.item)
  BY <1>2, <1>3, <1>6 DEF RetractCall, g
<1> QED
  BY <1>4, <1>5, <1>6

-----------------------------------------------------------------------------
(* Time limits and new handlers.                                            *)

LEMMA CheckStateTimeoutBranches ==
    ASSUME NEW h, HandlerOK(h)
    PROVE  LET g == CheckStateTimeout(h)
           IN  /\ g.class = h.class /\ g.to = h.to /\ g.data = h.data
               /\ g.branches = h.branches /\ g.context = h.context
               /\ g.state \in {h.state, "Dropped"}
BY DEF CheckStateTimeout, AssignNewState, HandlerOK, Handlers

LEMMA NewHandlerBranches ==
    ASSUME NEW e, e.item \in Items, NEW c \in Nat,
           NEW g \in {NewOutgoing(e, c), NewIncoming(e, c)}
    PROVE  /\ BranchesOK(g) /\ g.class # "MakeCall" /\ g.state # "Connected"
           /\ g.data.item = e.item
           /\ \A n \in DOMAIN g.branches : g.branches[n].item = e.item
<1> SUFFICES ASSUME NEW class \in CallTypes \ {"MakeCall"}, NEW state \in CallStates,
                    state # "Connected", g = NewHandler(class, state, e, c)
             PROVE  /\ BranchesOK(g) /\ g.class # "MakeCall" /\ g.state # "Connected"
                    /\ g.data.item = e.item
                    /\ \A n \in DOMAIN g.branches : g.branches[n].item = e.item
  BY DEF NewOutgoing, NewIncoming, CallTypes, CallStates
<1> DEFINE d == [item |-> e.item, callId |-> c, callType |-> class, setup |-> NoSetup]
<1>1. /\ g.class = class /\ g.state = state /\ g.data = d /\ g.branches = <<d>>
      /\ d.item = e.item
  BY DEF NewHandler
<1> HIDE DEF d
<1>2. DOMAIN g.branches = {1} /\ g.branches[1] = d
  BY <1>1
<1> QED
  BY <1>1, <1>2, NoItemIsNone DEF BranchesOK, DistinctItems, HasId

LEMMA PreExecuteBranches ==
    ASSUME NEW h, Requested(h), NEW context \in Nat, NEW setup \in Nat \ {0}
    PROVE  LET g == PreExecute(h, context, setup)
           IN  /\ BranchesOK(g) /\ g.class = "MakeCall" /\ g.state # "Connected"
               /\ g.data.setup = setup /\ g.context = context /\ g.branches = <<>>
<1> DEFINE a == AssignNewState(h, "MakeCallSet")
           g == [a EXCEPT !.context = context, !.data.setup = setup]
<1>1. /\ h \in Handlers /\ h.class = "MakeCall" /\ h.branches = <<>>
      /\ h.data.item = NoItem /\ h.to \in Numbers
  BY RequestedTyped DEF Requested, NewMakeCall
<1>2. /\ a \in Handlers /\ a.state = "MakeCallSet" /\ a.class = "MakeCall"
      /\ a.branches = <<>> /\ a.data = h.data /\ a.to = h.to
  BY <1>1 DEF AssignNewState, Handlers, CallStates
<1> HIDE DEF a
<1>3. /\ g.state = "MakeCallSet" /\ g.class = "MakeCall" /\ g.to = h.to
      /\ g.branches = <<>> /\ g.data.item = NoItem /\ g.data.setup = setup
      /\ g.context = context
  BY <1>1, <1>2 DEF Handlers, CallStateData
<1> HIDE DEF g
<1>4. BranchesOK(g)
  BY <1>1, <1>3 DEF BranchesOK, DistinctItems
<1> QED
  BY <1>3, <1>4 DEF PreExecute, a, g
=============================================================================
