--------------------------- MODULE CallLegs_proofs ---------------------------
(***************************************************************************)
(* Which published items belong to which call, for every value of the      *)
(* constants: the branches of each handler, the legs of the dialled calls, *)
(* and the answer without which no call is reported as connected.          *)
(***************************************************************************)
EXTENDS CallStateMachine_proofs, CallBranches_proofs

-----------------------------------------------------------------------------
(* The inductive invariant.  its and ds stand for items and dials, before   *)
(* or after a step.                                                         *)

WasAnswered(its, i) == its[i] \in {"confirmed", "retracted"}

\* What the server has published of a call that TAPI did not dial.
Announced(h, its) ==
    h.class # "MakeCall" => \A n \in DOMAIN h.branches : its[h.branches[n].item] # "none"

\* ConnectedWasAnswered, for one handler.
Answered(h, its, ds) ==
    h.state = "Connected" =>
        IF h.class = "MakeCall"
        THEN \E i \in Items : /\ i.kind = "out" /\ i.call \in DOMAIN ds
                              /\ ds[i.call].setup = h.data.setup
                              /\ WasAnswered(its, i)
        ELSE \E i \in Leg(h.data.item) : WasAnswered(its, i)

Fine(h, its, ds) == BranchesOK(h) /\ Announced(h, its) /\ Answered(h, its, ds)

AllFine(hs, its, ds) == \A p \in DOMAIN hs : hs[p].state = "Dropped" \/ Fine(hs[p], its, ds)

\* LegsBelongToDial, for the handlers hs.
Apart(hs, ds) ==
    \A p, q \in DOMAIN hs :
        hs[p].class = "MakeCall" /\ hs[q].class # "MakeCall" =>
            \A n \in DOMAIN hs[q].branches :
                OfDial(hs[q].branches[n].item) =>
                    ds[hs[q].branches[n].item.call].setup # hs[p].data.setup

(* The legs that are published are those of requests that were sent, and    *)
(* the requests of the poll that is running have a call-setup-id of which   *)
(* no leg is published yet.                                                 *)
ServerInv ==
    /\ \A i \in Items : OfDial(i) /\ items[i] # "none" => i.call \in DOMAIN dials
    /\ \A k \in DOMAIN dials : dials[k].setup <= clock
    /\ phase = "requests" /\ lstRequests # <<>> =>
          \A i \in Items : OfDial(i) /\ items[i] # "none" => dials[i.call].setup < clock

HandlersInv(hs, its, ds) ==
    /\ \A p \in DOMAIN hs : Fine(hs[p], its, ds)
    /\ Apart(hs, ds)

LegsInv == HandlersInv(stateHandlers, items, dials) /\ ServerInv

\* What any step may do to the items and the requests.
ServerMoved ==
    /\ \A i \in Items : /\ items[i] # "none" => items'[i] # "none"
                        /\ WasAnswered(items, i) => WasAnswered(items', i)
    /\ \A k \in DOMAIN dials : k \in DOMAIN dials' /\ dials'[k].setup = dials[k].setup

\* An active-call event says what the server knows of its item.
EventTrue(e) ==
    e.type = "activeCall" =>
        /\ items'[e.item] # "none"
        /\ e.dialog = "confirmed" => WasAnswered(items', e.item)
        /\ OfDial(e.item) => /\ e.item.call \in DOMAIN dials
                             /\ e.setup = dials[e.item.call].setup
                             /\ User \in {e.to, e.from}
        /\ ~OfDial(e.item) => e.setup = NoSetup
        /\ e.item.kind = "in" => e.to = User

\* What a step other than the dialling of a number does to the requests.
DialsKept ==
    /\ dials' = <<>> <=> dials = <<>>
    /\ dials # <<>> => dials'[1].context = dials[1].context
    /\ \A k \in DOMAIN dials : k \in DOMAIN dials' /\ dials'[k].setup = dials[k].setup

\* The step that publishes the event e changes no item but that of e.
EventNews(e) ==
    /\ e.type = "activeCall" => items'[e.item] # "retracted"
    /\ \A i \in Items : items'[i] = "retracted" =>
          items[i] = "retracted" \/ (e.type = "retractCall" /\ e.item = i)

-----------------------------------------------------------------------------
(* The handlers that a step does not touch.                                 *)

LEMMA FineKept ==
    ASSUME ServerMoved, NEW h, Fine(h, items, dials)
    PROVE  Fine(h, items', dials')
<1>1. Announced(h, items')
  BY DEF Fine, BranchesOK, Announced, ServerMoved
<1>2. Answered(h, items', dials')
  BY DEF Fine, Answered, ServerMoved, Leg
<1> QED
  BY <1>1, <1>2 DEF Fine

\* The legs of a handler that are published belong to requests.
LEMMA LegsAreDialled ==
    ASSUME ServerInv, NEW h, Fine(h, items, dials), h.class # "MakeCall",
           NEW n \in DOMAIN h.branches, OfDial(h.branches[n].item)
    PROVE  /\ h.branches[n].item.call \in DOMAIN dials
           /\ phase = "requests" /\ lstRequests # <<>> =>
                 dials[h.branches[n].item.call].setup < clock
<1>1. h.branches[n].item \in Items /\ items[h.branches[n].item] # "none"
  BY DEF Fine, BranchesOK, Announced
<1> QED
  BY <1>1 DEF ServerInv

LEMMA HandlersKept ==
    ASSUME LegsInv, ServerMoved
    PROVE  HandlersInv(stateHandlers, items', dials')
<1>1. \A p \in DOMAIN stateHandlers : Fine(stateHandlers[p], items', dials')
  BY FineKept DEF LegsInv, HandlersInv
<1>2. Apart(stateHandlers, dials')
  <2> SUFFICES ASSUME NEW p \in DOMAIN stateHandlers, NEW q \in DOMAIN stateHandlers,
                      stateHandlers[p].class = "MakeCall",
                      stateHandlers[q].class # "MakeCall",
                      NEW n \in DOMAIN stateHandlers[q].branches,
                      OfDial(stateHandlers[q].branches[n].item)
               PROVE  dials'[stateHandlers[q].branches[n].item.call].setup
                         # stateHandlers[p].data.setup
    BY DEF Apart
  <2>1. stateHandlers[q].branches[n].item.call \in DOMAIN dials
    BY LegsAreDialled DEF LegsInv, HandlersInv
  <2>2. dials[stateHandlers[q].branches[n].item.call].setup # stateHandlers[p].data.setup
    BY DEF LegsInv, HandlersInv, Apart
  <2> QED
    BY <2>1, <2>2 DEF ServerMoved
<1> QED
  BY <1>1, <1>2 DEF HandlersInv

\* _checkStateHandlersExist: what is left was not dropped.
LEMMA SettleFine ==
    ASSUME NEW hs, NEW changed, NEW its, NEW ds, HandlersOK(hs),
           AllFine(hs, its, ds), Apart(hs, ds), Settle(hs, changed)
    PROVE  HandlersInv(stateHandlers', its, ds)
<1>1. DOMAIN stateHandlers' = {p \in DOMAIN hs : IsStillExist(hs[p])}
  BY DEF Settle
<1>2. \A p \in DOMAIN stateHandlers' : stateHandlers'[p] = CheckStateTimeout(hs[p])
  BY DEF Settle
<1>3. ASSUME NEW p \in DOMAIN stateHandlers'
      PROVE  /\ p \in DOMAIN hs /\ Fine(stateHandlers'[p], its, ds)
             /\ stateHandlers'[p].class = hs[p].class
             /\ stateHandlers'[p].data = hs[p].data
             /\ stateHandlers'[p].branches = hs[p].branches
  <2> DEFINE h == hs[p]
             g == stateHandlers'[p]
  <2>1. p \in DOMAIN hs /\ HandlerOK(h) /\ h.state # "Dropped"
    BY <1>1, StillExists DEF HandlersOK
  <2>2. Fine(h, its, ds)
    BY <2>1 DEF AllFine
  <2>3. /\ g.class = h.class /\ g.to = h.to /\ g.data = h.data
        /\ g.branches = h.branches /\ g.state \in {h.state, "Dropped"}
    BY <1>2, <2>1, CheckStateTimeoutBranches
  <2> HIDE DEF h, g
  <2>4. Fine(g, its, ds)
    BY <2>2, <2>3 DEF Fine, BranchesOK, Announced, Answered
  <2> QED
    BY <2>1, <2>3, <2>4 DEF h, g
<1>4. Apart(stateHandlers', ds)
  <2> SUFFICES ASSUME NEW p \in DOMAIN stateHandlers', NEW q \in DOMAIN stateHandlers',
                      stateHandlers'[p].class = "MakeCall",
                      stateHandlers'[q].class # "MakeCall",
                      NEW n \in DOMAIN stateHandlers'[q].branches,
                      OfDial(stateHandlers'[q].branches[n].item)
               PROVE  ds[stateHandlers'[q].branches[n].item.call].setup
                         # stateHandlers'[p].data.setup
    BY DEF Apart
  <2>1. /\ p \in DOMAIN hs /\ hs[p].class = "MakeCall"
        /\ stateHandlers'[p].data = hs[p].data
    BY <1>3
  <2>2. /\ q \in DOMAIN hs /\ hs[q].class # "MakeCall"
        /\ stateHandlers'[q].branches = hs[q].branches
    BY <1>3
  <2> QED
    BY <2>1, <2>2 DEF Apart
<1> QED
  BY <1>3, <1>4 DEF HandlersInv

-----------------------------------------------------------------------------
(* An event.                                                                *)

\* A dialled call that still has its handler is found by its legs.
LEMMA DialOwnsLeg ==
    ASSUME NEW h, HandlerOK(h), h.class = "MakeCall", NEW e, EventTrue(e),
           e.type = "activeCall", OfDial(e.item),
           dials[e.item.call].setup = h.data.setup
    PROVE  Owns(h, e)
<1>1. h.data.setup # NoSetup /\ e.setup = h.data.setup /\ User \in {e.to, e.from}
  BY DEF HandlerOK, EventTrue
<1> QED
  BY <1>1 DEF Owns, OwnsActiveCall, MatchesSips, SameCallSetupId

LEMMA MovedIsFine ==
    ASSUME ServerMoved, NEW h, HandlerOK(h), Fine(h, items, dials),
           NEW e, WellFormed(e), EventTrue(e), Owns(h, e),
           NEW g, Moves(h, g, e)
    PROVE  g.state = "Dropped" \/ Fine(g, items', dials')
<1> SUFFICES ASSUME g.state # "Dropped"
             PROVE  Fine(g, items', dials')
  OBVIOUS
<1>1. BranchesOK(g) /\ BranchesOK(h) /\ Fine(h, items', dials')
  BY FineKept DEF Moves, Fine
<1>2. Announced(g, items')
  <2> SUFFICES ASSUME g.class # "MakeCall", NEW n \in DOMAIN g.branches
               PROVE  items'[g.branches[n].item] # "none"
    BY DEF Announced
  <2>1. CASE \E m \in DOMAIN h.branches : h.branches[m].item = g.branches[n].item
    BY <1>1, <2>1 DEF Moves, Fine, Announced
  <2>2. CASE e.type = "activeCall" /\ g.branches[n].item = e.item
    BY <2>2 DEF EventTrue
  <2> QED
    BY <2>1, <2>2 DEF Moves, NoOtherBranch
<1>3. Answered(g, items', dials')
  <2> SUFFICES ASSUME g.state = "Connected"
               PROVE  Answered(g, items', dials')
    BY DEF Answered
  <2>1. CASE h.state = "Connected"
    <3>1. h.class # "MakeCall" => Leg(g.data.item) = Leg(h.data.item)
      BY DEF Moves, Leg
    <3> QED
      BY <1>1, <2>1, <3>1 DEF Moves, Fine, Answered
  <2>2. CASE /\ e.type = "activeCall" /\ e.dialog = "confirmed" /\ h.class = "MakeCall"
             /\ h.state # "Connected"
    <3>1. e.item \in Items /\ WasAnswered(items', e.item)
      BY <2>2 DEF WellFormed, EventTrue
    <3>2. e.to # User
      BY <2>2, <1>1, AddressAssumption DEF Moves, BranchesOK
    <3>3. h.data.setup # NoSetup /\ e.setup = h.data.setup
      BY <2>2 DEF Owns, OwnsActiveCall, SameCallSetupId
    <3>4. OfDial(e.item) /\ e.item.kind = "out"
      BY <2>2, <3>2, <3>3 DEF EventTrue, OfDial
    <3>5. e.item.call \in DOMAIN dials' /\ dials'[e.item.call].setup = g.data.setup
      BY <2>2, <3>3, <3>4 DEF EventTrue, ServerMoved, Moves
    <3> QED
      BY <2>2, <3>1, <3>4, <3>5 DEF Answered, Moves
  <2>3. CASE e.type = "activeCall" /\ e.dialog = "confirmed" /\ h.class # "MakeCall"
    <3>1. e.item \in Items /\ WasAnswered(items', e.item)
      BY <2>3 DEF WellFormed, EventTrue
    <3>2. SipCall(e.item) = SipCall(h.data.item)
      BY <2>3 DEF Owns, OwnsActiveCall
    <3>3. e.item \in Leg(g.data.item)
      BY <2>3, <3>1, <3>2 DEF Leg, Moves
    <3> QED
      BY <2>3, <3>1, <3>3 DEF Answered, Moves
  <2> QED
    BY <2>1, <2>2, <2>3 DEF Moves
<1> QED
  BY <1>1, <1>2, <1>3 DEF Fine

LEMMA OwnerHandlesLegs ==
    ASSUME IInv, LegsInv, ServerMoved, NEW e, WellFormed(e), EventTrue(e),
           NEW u, OwnerHandles(e, u)
    PROVE  HandlersInv(stateHandlers', items', dials')
<1> DEFINE n(p) == IF e.type = "dropRequest" THEN Len(stateHandlers[p].branches) ELSE 0
           contexts(p) == nextId .. nextId + n(p) - 1
<1>1. PICK p \in Owners(e) :
          Settle([stateHandlers EXCEPT ![p] = HandleEvent(stateHandlers[p], e, contexts(p))],
                 {p})
  BY DEF OwnerHandles
<1> DEFINE h == stateHandlers[p]
           g == HandleEvent(h, e, contexts(p))
           hs == [stateHandlers EXCEPT ![p] = g]
<1>2. /\ p \in DOMAIN stateHandlers /\ Owns(h, e)
      /\ \A q \in DOMAIN stateHandlers : HandlerOK(stateHandlers[q])
      /\ \A q \in DOMAIN stateHandlers : Fine(stateHandlers[q], items, dials)
  BY ListedHandlers DEF Owners, IInv, LegsInv, HandlersInv
<1>3. contexts(p) \in SUBSET Nat
  <2>1. n(p) \in Nat /\ nextId \in Nat
    BY <1>2 DEF HandlerOK, Handlers, IInv, MachineInv
  <2> HIDE DEF n
  <2> QED
    BY <2>1
<1> HIDE DEF contexts
<1>4. Kept(h, g) /\ Moves(h, g, e)
  BY <1>2, <1>3, HandleEventKeeps, HandleEventMoves DEF WellFormed, Fine
<1> HIDE DEF g
<1>5. /\ DOMAIN hs = DOMAIN stateHandlers /\ hs[p] = g
      /\ \A q \in DOMAIN stateHandlers \ {p} : hs[q] = stateHandlers[q]
  BY <1>2
<1>6. Settle(hs, {p})
  BY <1>1 DEF g
<1> HIDE DEF hs
<1>7. HandlersOK(hs)
  BY <1>2, <1>4, <1>5 DEF HandlersOK, Kept
<1>8. AllFine(hs, items', dials')
  <2>1. g.state = "Dropped" \/ Fine(g, items', dials')
    BY <1>2, <1>4, MovedIsFine
  <2>2. \A q \in DOMAIN stateHandlers \ {p} : Fine(stateHandlers[q], items', dials')
    BY <1>2, FineKept
  <2> QED
    BY <1>5, <2>1, <2>2 DEF AllFine
<1>9. \A q \in DOMAIN hs : /\ hs[q].class = stateHandlers[q].class
                           /\ hs[q].data.setup = stateHandlers[q].data.setup
  BY <1>4, <1>5 DEF Moves
<1>10. Apart(hs, dials')
  <2> SUFFICES ASSUME NEW a \in DOMAIN hs, NEW b \in DOMAIN hs,
                      hs[a].class = "MakeCall", hs[b].class # "MakeCall",
                      NEW m \in DOMAIN hs[b].branches, OfDial(hs[b].branches[m].item)
               PROVE  dials'[hs[b].branches[m].item.call].setup # hs[a].data.setup
    BY DEF Apart
  <2>1. Apart(stateHandlers, dials')
    BY HandlersKept DEF HandlersInv
  <2>2. /\ a \in DOMAIN stateHandlers /\ b \in DOMAIN stateHandlers
        /\ stateHandlers[a].class = "MakeCall" /\ stateHandlers[b].class # "MakeCall"
        /\ hs[a].data.setup = stateHandlers[a].data.setup
    BY <1>5, <1>9
  <2>3. CASE \E o \in DOMAIN stateHandlers[b].branches :
                stateHandlers[b].branches[o].item = hs[b].branches[m].item
    <3>1. PICK o \in DOMAIN stateHandlers[b].branches :
                 stateHandlers[b].branches[o].item = hs[b].branches[m].item
      BY <2>3
    <3> QED
      BY <2>1, <2>2, <3>1 DEF Apart
  <2>4. CASE b = p /\ e.type = "activeCall" /\ hs[b].branches[m].item = e.item
    <3>1. /\ h.class # "MakeCall" /\ SipCall(e.item) = SipCall(h.data.item)
          /\ h.data.item # NoItem /\ HasId(h.branches, h.data.item)
      BY <1>2, <1>9, <2>4 DEF Owns, OwnsActiveCall, Fine, BranchesOK
    <3>2. PICK o \in DOMAIN h.branches : h.branches[o].item = h.data.item
      BY <3>1 DEF HasId
    <3>3. h.data.item.call = e.item.call /\ OfDial(h.data.item)
      BY <2>4, <3>1 DEF SipCall, OfDial
    <3>4. dials'[h.data.item.call].setup # stateHandlers[a].data.setup
      BY <2>4, <2>1, <2>2, <3>2, <3>3 DEF Apart
    <3> QED
      BY <2>4, <2>2, <3>3, <3>4
  <2>5. CASE b = p
    BY <1>4, <1>5, <2>3, <2>4, <2>5 DEF Moves, NoOtherBranch
  <2>6. CASE b # p
    BY <1>5, <2>3, <2>6
  <2> QED
    BY <2>5, <2>6
<1> QED
  BY <1>6, <1>7, <1>8, <1>10, SettleFine

LEMMA PushBackIs ==
    ASSUME IInv, NEW h
    PROVE  /\ DOMAIN PushBack(h) = DOMAIN stateHandlers \cup {pushed + 1}
           /\ PushBack(h)[pushed + 1] = h
           /\ \A p \in DOMAIN stateHandlers : PushBack(h)[p] = stateHandlers[p]
BY DEF PushBack, IInv, MachineInv

LEMMA UnknownEventLegs ==
    ASSUME IInv, LegsInv, ServerMoved, NEW e, WellFormed(e), EventTrue(e),
           NEW u, UnknownEvent(e, u)
    PROVE  HandlersInv(stateHandlers', items', dials')
<1> DEFINE g == IF e.dialog = "created" THEN NewOutgoing(e, nextId)
                                        ELSE NewIncoming(e, nextId)
           hs == PushBack(g)
           new == pushed + 1
<1>1. /\ e.type = "activeCall" /\ e.item \in Items /\ Owners(e) = {} /\ nextId \in Nat
      /\ Settle(hs, {new})
  BY DEF UnknownEvent, WellFormed, IInv, MachineInv
<1>2. /\ HandlerOK(g) /\ BranchesOK(g) /\ g.class # "MakeCall" /\ g.state # "Connected"
      /\ \A n \in DOMAIN g.branches : g.branches[n].item = e.item
  BY <1>1, NewHandlerOK, NewHandlerBranches
<1> HIDE DEF g
<1>3. /\ DOMAIN hs = DOMAIN stateHandlers \cup {new} /\ hs[new] = g
      /\ \A p \in DOMAIN stateHandlers : hs[p] = stateHandlers[p]
  BY PushBackIs
<1> HIDE DEF hs, new
<1>4. HandlersOK(hs)
  BY <1>2, <1>3, ListedHandlers DEF HandlersOK, IInv
<1>5. AllFine(hs, items', dials')
  <2>1. Fine(g, items', dials')
    BY <1>1, <1>2 DEF Fine, Announced, Answered, EventTrue
  <2>2. \A q \in DOMAIN stateHandlers : Fine(stateHandlers[q], items', dials')
    BY HandlersKept DEF HandlersInv
  <2> QED
    BY <1>3, <2>1, <2>2 DEF AllFine
<1>6. Apart(hs, dials')
  <2> SUFFICES ASSUME NEW a \in DOMAIN hs, NEW b \in DOMAIN hs,
                      hs[a].class = "MakeCall", hs[b].class # "MakeCall",
                      NEW m \in DOMAIN hs[b].branches, OfDial(hs[b].branches[m].item)
               PROVE  dials'[hs[b].branches[m].item.call].setup # hs[a].data.setup
    BY DEF Apart
  <2>1. a \in DOMAIN stateHandlers /\ hs[a] = stateHandlers[a] /\ HandlerOK(hs[a])
    BY <1>2, <1>3, <1>4 DEF HandlersOK
  <2>2. CASE b \in DOMAIN stateHandlers
    BY <1>3, <2>1, <2>2, HandlersKept DEF HandlersInv, Apart
  <2>3. CASE b = new
    <3>1. hs[b].branches[m].item = e.item /\ OfDial(e.item)
      BY <1>2, <1>3, <2>3
    <3>2. ~Owns(hs[a], e)
      BY <1>1, <2>1 DEF Owners
    <3>3. dials[e.item.call].setup # hs[a].data.setup
      BY <1>1, <2>1, <3>1, <3>2, DialOwnsLeg
    <3> QED
      BY <1>1, <3>1, <3>3 DEF EventTrue, ServerMoved
  <2> QED
    BY <1>3, <2>2, <2>3
<1> QED
  BY <1>1, <1>4, <1>5, <1>6, SettleFine

LEMMA CheckLegs ==
    ASSUME IInv, LegsInv, ServerMoved, Settle(stateHandlers, {})
    PROVE  HandlersInv(stateHandlers', items', dials')
<1>1. HandlersOK(stateHandlers)
  BY DEF IInv, MachineInv
<1>2. AllFine(stateHandlers, items', dials') /\ Apart(stateHandlers, dials')
  BY HandlersKept DEF HandlersInv, AllFine
<1> QED
  BY <1>1, <1>2, SettleFine

LEMMA SignalEventLegs ==
    ASSUME IInv, LegsInv, ServerMoved, NEW e, WellFormed(e), EventTrue(e),
           NEW u, SignalEvent(e, u)
    PROVE  HandlersInv(stateHandlers', items', dials')
BY OwnerHandlesLegs, UnknownEventLegs, CheckLegs DEF SignalEvent, IgnoredEvent

LEMMA SameLegs ==
    ASSUME LegsInv, ServerMoved, UNCHANGED stateHandlers
    PROVE  HandlersInv(stateHandlers', items', dials')
BY HandlersKept

-----------------------------------------------------------------------------
(* The steps.                                                               *)

\* A step that leaves the server's side alone.
LEMMA ServerSame ==
    ASSUME ServerInv, UNCHANGED server
    PROVE  /\ ServerMoved
           /\ UNCHANGED clock /\ (phase' = "requests" /\ lstRequests' # <<>>
                                     => phase = "requests" /\ lstRequests # <<>>)
                => ServerInv'
BY DEF ServerInv, ServerMoved, server, WasAnswered

LEMMA SetupsTyped ==
    ASSUME IInv
    PROVE  \A k \in DOMAIN dials : dials[k].setup \in Nat
<1>1. \A k \in DOMAIN dials : dials[k] \in Dials
  BY LenProperties, ElementOfSeq DEF IInv, RestInv
<1> QED
  BY <1>1 DEF Dials

LEMMA FirstContext ==
    ASSUME IInv, dials # <<>>
    PROVE  1 \in DOMAIN dials /\ dials[1].context \in Nat
<1>1. dials \in Seq(Dials)
  BY DEF IInv, RestInv
<1>2. 1 \in DOMAIN dials
  BY <1>1, LenProperties, EmptySeq
<1>3. dials[1] \in Dials
  BY <1>1, <1>2, LenProperties, ElementOfSeq
<1> QED
  BY <1>2, <1>3 DEF Dials

LEMMA TapiThreadsLegs ==
    ASSUME LegsInv, TapiThreads
    PROVE  LegsInv'
<1>1. /\ UNCHANGED <<stateHandlers, server, clock, phase, lstRequests>>
  BY DEF TapiThreads, MakeCallAsync, AddStateHandler, DropCallAsync, machine
<1>2. ServerMoved /\ ServerInv'
  BY <1>1, ServerSame DEF LegsInv
<1> QED
  BY <1>1, <1>2, SameLegs DEF LegsInv, HandlersInv, server

LEMMA PollLegs ==
    ASSUME IInv, LegsInv, GetEvents \/ PollStateHandlers \/ HandleDropRequest
    PROVE  LegsInv'
<1>1. UNCHANGED <<server, clock, lstRequests>> /\ phase' # "requests"
  BY DEF GetEvents, PollStateHandlers, HandleDropRequest, queues, server
<1>2. ServerMoved /\ ServerInv'
  BY <1>1, ServerSame DEF LegsInv
<1>3. HandlersInv(stateHandlers', items', dials')
  <2>1. CASE GetEvents
    BY <1>2, <2>1, SameLegs DEF GetEvents, machine
  <2>2. CASE PollStateHandlers
    BY <1>2, <2>2, CheckLegs DEF PollStateHandlers
  <2>3. CASE HandleDropRequest
    <3> DEFINE e == DropRequestEvent(Head(lstEvents))
    <3>1. WellFormed(e) /\ EventTrue(e)
      BY DEF WellFormed, EventTypes, EventTrue, DropRequestEvent
    <3>2. SignalEvent(e, iqs)
      BY <2>3 DEF HandleDropRequest
    <3> HIDE DEF e
    <3> QED
      BY <1>2, <3>1, <3>2, SignalEventLegs
  <2> QED
    BY <2>1, <2>2, <2>3
<1> QED
  BY <1>2, <1>3 DEF LegsInv, HandlersInv

LEMMA GetRequestsLegs ==
    ASSUME IInv, LegsInv, GetRequests
    PROVE  LegsInv'
<1>1. /\ UNCHANGED <<stateHandlers, server>> /\ lstRequests' = handlerRequests
      /\ clock' = IF handlerRequests = <<>> THEN clock ELSE clock + 1
      /\ clock \in Nat
  BY DEF GetRequests, machine, IInv, RestInv
<1>2. ServerMoved
  BY <1>1, ServerSame DEF LegsInv
<1>3. \A k \in DOMAIN dials : dials[k].setup \in Nat
  BY SetupsTyped
<1>4. ServerInv'
  BY <1>1, <1>3 DEF LegsInv, ServerInv, server
<1> QED
  BY <1>1, <1>2, <1>4, SameLegs DEF LegsInv, HandlersInv

LEMMA FirstRequested ==
    ASSUME IInv, HandleRequest
    PROVE  Requested(Head(lstRequests))
<1>1. /\ lstRequests \in Seq(Handlers) /\ handlerRequests \in Seq(Handlers)
      /\ lstRequests # <<>>
  BY DEF HandleRequest, IInv, QueueInv
<1>2. 1 \in 1..Len(PendingRequests) /\ Head(lstRequests) = PendingRequests[1]
  BY <1>1, ConcatTail DEF PendingRequests
<1> QED
  BY <1>2, LenProperties DEF IInv, QueueInv, Waiting

LEMMA HandleRequestLegs ==
    ASSUME IInv, LegsInv, HandleRequest
    PROVE  LegsInv'
<1> DEFINE h == PreExecute(Head(lstRequests), nextId, clock)
           new == pushed + 1
           last == Len(dials) + 1
<1>1. Requested(Head(lstRequests))
  BY FirstRequested
<1>2. nextId \in Nat /\ clock \in Nat \ {0} /\ dials \in Seq(Dials)
  BY DEF IInv, MachineInv, RestInv
<1>3. /\ BranchesOK(h) /\ h.class = "MakeCall" /\ h.state # "Connected"
      /\ h.data.setup = clock /\ h.context = nextId /\ h.branches = <<>>
  BY <1>1, <1>2, PreExecuteBranches
<1>4. \E sent : dials' = Append(dials, [context |-> nextId, setup |-> clock,
                                        number |-> h.to, failed |-> sent = {}])
  BY DEF HandleRequest
<1>5. /\ stateHandlers' = PushBack(h) /\ UNCHANGED items
      /\ clock' \in {clock, clock + 1} /\ phase = "requests" /\ lstRequests # <<>>
  BY DEF HandleRequest
<1> HIDE DEF h
<1>6. /\ DOMAIN dials' = 1..last /\ DOMAIN dials = 1..Len(dials) /\ Len(dials) \in Nat
      /\ dials'[last].setup = clock
      /\ \A k \in DOMAIN dials : dials'[k] = dials[k]
  BY <1>2, <1>4, AppendProperties, LenProperties
<1>7. ServerMoved
  BY <1>5, <1>6 DEF ServerMoved, WasAnswered
<1>8. ServerInv'
  <2>1. \A k \in DOMAIN dials' : k \in DOMAIN dials \/ k = last
    BY <1>6
  <2>2. \A k \in DOMAIN dials : dials[k].setup \in Nat
    BY SetupsTyped
  <2>3. clock <= clock' /\ clock' \in Nat
    BY <1>2, <1>5
  <2>4. \A k \in DOMAIN dials' : dials'[k].setup <= clock'
    BY <1>2, <1>6, <2>1, <2>2, <2>3 DEF LegsInv, ServerInv
  <2>5. \A i \in Items : OfDial(i) /\ items[i] # "none" =>
           i.call \in DOMAIN dials' /\ dials'[i.call].setup < clock'
    BY <1>2, <1>5, <1>6, <2>2, <2>3 DEF LegsInv, ServerInv
  <2> QED
    BY <1>5, <2>4, <2>5 DEF ServerInv
<1>9. /\ DOMAIN stateHandlers' = DOMAIN stateHandlers \cup {new}
      /\ stateHandlers'[new] = h
      /\ \A p \in DOMAIN stateHandlers : stateHandlers'[p] = stateHandlers[p]
  BY <1>5, PushBackIs
<1> HIDE DEF new, last
<1>10. \A p \in DOMAIN stateHandlers' : Fine(stateHandlers'[p], items', dials')
  <2>1. Fine(h, items', dials')
    BY <1>3 DEF Fine, Announced, Answered
  <2> QED
    BY <1>7, <1>9, <2>1, HandlersKept DEF HandlersInv
<1>11. Apart(stateHandlers', dials')
  <2> SUFFICES ASSUME NEW a \in DOMAIN stateHandlers', NEW b \in DOMAIN stateHandlers',
                      stateHandlers'[a].class = "MakeCall",
                      stateHandlers'[b].class # "MakeCall",
                      NEW m \in DOMAIN stateHandlers'[b].branches,
                      OfDial(stateHandlers'[b].branches[m].item)
               PROVE  dials'[stateHandlers'[b].branches[m].item.call].setup
                         # stateHandlers'[a].data.setup
    BY DEF Apart
  <2>1. b \in DOMAIN stateHandlers /\ stateHandlers'[b] = stateHandlers[b]
    BY <1>3, <1>9
  <2>2. CASE a \in DOMAIN stateHandlers
    BY <1>7, <1>9, <2>1, <2>2, HandlersKept DEF HandlersInv, Apart
  <2>3. CASE a = new
    <3> DEFINE k == stateHandlers[b].branches[m].item.call
    <3>1. Fine(stateHandlers[b], items, dials) /\ ServerInv
      BY <2>1 DEF LegsInv, HandlersInv
    <3>2. k \in DOMAIN dials /\ dials[k].setup < clock
      BY <1>5, <2>1, <3>1, LegsAreDialled
    <3>3. dials'[k].setup < clock /\ dials[k].setup \in Nat
      BY <1>6, <3>2, SetupsTyped
    <3>4. stateHandlers'[a].data.setup = clock
      BY <1>3, <1>9, <2>3
    <3> QED
      <4>1. stateHandlers'[b].branches[m].item.call = k
        BY <2>1
      <4> HIDE DEF k
      <4>2. dials'[k].setup # clock
        BY <1>2, <3>2, <3>3, SetupsTyped
      <4> QED
        BY <3>4, <4>1, <4>2
  <2> QED
    BY <1>9, <2>2, <2>3
<1> QED
  BY <1>8, <1>10, <1>11 DEF LegsInv, HandlersInv

LEMMA TimePassesLegs ==
    ASSUME IInv, LegsInv, NEW p \in DOMAIN stateHandlers, TimePasses(p)
    PROVE  LegsInv'
<1>1. /\ stateHandlers' = [stateHandlers EXCEPT ![p].expired = TRUE]
      /\ UNCHANGED <<server, clock, phase, lstRequests>>
  BY DEF TimePasses, queues
<1>2. ServerMoved /\ ServerInv'
  BY <1>1, ServerSame DEF LegsInv
<1>3. stateHandlers[p] \in Handlers
  BY DEF IInv, MachineInv
<1>4. stateHandlers'[p] = [stateHandlers[p] EXCEPT !.expired = TRUE]
  BY <1>1
<1>5. /\ stateHandlers'[p].class = stateHandlers[p].class
      /\ stateHandlers'[p].state = stateHandlers[p].state
      /\ stateHandlers'[p].data = stateHandlers[p].data
      /\ stateHandlers'[p].branches = stateHandlers[p].branches
      /\ stateHandlers'[p].to = stateHandlers[p].to
  BY <1>3, <1>4 DEF Handlers
<1>6. /\ DOMAIN stateHandlers' = DOMAIN stateHandlers
      /\ \A q \in DOMAIN stateHandlers :
            /\ stateHandlers'[q].class = stateHandlers[q].class
            /\ stateHandlers'[q].state = stateHandlers[q].state
            /\ stateHandlers'[q].data = stateHandlers[q].data
            /\ stateHandlers'[q].branches = stateHandlers[q].branches
            /\ stateHandlers'[q].to = stateHandlers[q].to
  BY <1>1, <1>5
<1>7. HandlersInv(stateHandlers, items', dials')
  BY <1>2, HandlersKept
<1>8. ASSUME NEW q \in DOMAIN stateHandlers
      PROVE  Fine(stateHandlers'[q], items', dials')
  BY <1>6, <1>7 DEF HandlersInv, Fine, BranchesOK, Announced, Answered
<1>9. Apart(stateHandlers', dials')
  BY <1>6, <1>7 DEF HandlersInv, Apart
<1> QED
  BY <1>2, <1>6, <1>8, <1>9 DEF LegsInv, HandlersInv

LEMMA ConnectionLegs ==
    ASSUME LegsInv, Disconnect \/ Connect
    PROVE  LegsInv'
<1>1. /\ UNCHANGED <<server, clock, phase, lstRequests>>
      /\ stateHandlers' \in {<<>>, stateHandlers}
  BY DEF Disconnect, Connect, machine, queues
<1>2. ServerMoved /\ ServerInv'
  BY <1>1, ServerSame DEF LegsInv
<1>3. CASE stateHandlers' = <<>>
  <2>1. DOMAIN stateHandlers' = {}
    BY <1>3
  <2> QED
    BY <1>2, <2>1 DEF LegsInv, HandlersInv, Apart
<1>4. CASE stateHandlers' = stateHandlers
  BY <1>2, <1>4, SameLegs DEF LegsInv, HandlersInv
<1> QED
  BY <1>1, <1>3, <1>4

-----------------------------------------------------------------------------
(* The server.                                                              *)

LEMMA MessageTrue ==
    ASSUME NEW i \in Items, NEW d, NEW error, items'[i] # "none",
           d = "confirmed" => WasAnswered(items', i),
           OfDial(i) => i.call \in DOMAIN dials
    PROVE  LET e == Message(i, d, error)
           IN  WellFormed(e) /\ EventTrue(e)
<1> DEFINE e == Message(i, d, error)
<1>1. /\ e.type = "activeCall" /\ e.item = i /\ e.dialog = d
      /\ e.to = (IF i.kind = "out" THEN dials[i.call].number
                 ELSE IF i.kind = "physical" THEN Remote ELSE User)
      /\ e.from = (IF i.kind \in {"out", "physical"} THEN User ELSE Remote)
      /\ e.setup = (IF OfDial(i) THEN dials[i.call].setup ELSE NoSetup)
  BY DEF Message, ActiveCallEvent
<1> HIDE DEF e
<1>2. OfDial(i) => User \in {e.to, e.from}
  BY <1>1 DEF OfDial
<1>3. i.kind = "in" => e.to = User
  BY <1>1
<1>4. EventTrue(e)
  BY <1>1, <1>2, <1>3 DEF EventTrue
<1>5. WellFormed(e)
  BY <1>1 DEF WellFormed, EventTypes
<1> QED
  BY <1>4, <1>5 DEF e

\* What the actions of the server leave to Receive.
LEMMA ReceiveLegs ==
    ASSUME IInv, LegsInv, ServerMoved, NEW e, WellFormed(e), EventTrue(e), Receive(e),
           \A i \in Items : OfDial(i) /\ items'[i] # "none" => i.call \in DOMAIN dials
    PROVE  LegsInv'
<1>1. /\ UNCHANGED <<dials, clock, phase, lstRequests>> /\ phase = "recv"
  BY DEF Receive, queues
<1>2. ServerInv'
  BY <1>1 DEF LegsInv, ServerInv
<1>3. HandlersInv(stateHandlers', items', dials')
  <2>1. CASE online
    BY <2>1, SignalEventLegs DEF Receive
  <2>2. CASE ~online
    BY <2>2, SameLegs DEF Receive
  <2> QED
    BY <2>1, <2>2
<1> QED
  BY <1>2, <1>3 DEF LegsInv, HandlersInv

\* The event e that the server publishes, and what it says is so.
Publishes(e) ==
    /\ Receive(e) /\ WellFormed(e) /\ EventTrue(e) /\ EventNews(e) /\ ServerMoved
    /\ \A i \in Items : OfDial(i) /\ items'[i] # "none" => i.call \in DOMAIN dials

LEMMA ServerCallsPublish ==
    ASSUME IInv, LegsInv, ServerCalls
    PROVE  \E e : Publishes(e)
<1> DEFINE dialled(its) == \A i \in Items : OfDial(i) /\ its[i] # "none" => i.call \in DOMAIN dials
<1>1. ASSUME NEW e, Receive(e), WellFormed(e), EventTrue(e), EventNews(e),
             ServerMoved, dialled(items')
      PROVE  \E f : Publishes(f)
  BY <1>1 DEF Publishes
<1>2. /\ items \in [Items -> ItemStates]
      /\ dialled(items)
  BY DEF IInv, RestInv, LegsInv, ServerInv
<1>3. CASE \E i \in Items : Ring(i)
  <2>1. PICK i \in Items : Ring(i)
    BY <1>3
  <2>2. /\ items' = [items EXCEPT ![i] = "ringing"] /\ items[i] = "none"
        /\ MayBegin(i)
    BY <2>1 DEF Ring, MayRing
  <2>3. PICK d \in {"created", "requested"} : Receive(Message(i, d, FALSE))
    BY <2>1 DEF Ring
  <2>4. OfDial(i) => i.call \in DOMAIN dials
    <3>1. CASE i.kind = "in"
      BY <2>2, <3>1 DEF MayBegin
    <3>2. CASE i.kind = "out"
      <4>1. PICK j \in InLegs : j.call = i.call /\ items[j] = "confirmed"
        BY <2>2, <3>2 DEF MayBegin
      <4>2. OfDial(j) /\ j \in Items
        BY DEF OfDial, InLegs, Item, Items
      <4> QED
        BY <1>2, <4>1, <4>2
    <3> QED
      BY <3>1, <3>2 DEF OfDial
  <2>5. dialled(items')
    BY <1>2, <2>2, <2>4
  <2>6. ServerMoved
    BY <1>2, <2>2, <2>3 DEF ServerMoved, WasAnswered, Receive
  <2>7. /\ WellFormed(Message(i, d, FALSE)) /\ EventTrue(Message(i, d, FALSE))
    BY <1>2, <2>2, <2>4, MessageTrue
  <2>8. EventNews(Message(i, d, FALSE))
    BY <1>2, <2>2 DEF EventNews, Message, ActiveCallEvent
  <2> QED
    BY <1>1, <2>3, <2>5, <2>6, <2>7, <2>8
<1>4. CASE \E i \in Items : Answer(i)
  <2>1. PICK i \in Items : Answer(i)
    BY <1>4
  <2>2. /\ items' = [items EXCEPT ![i] = "confirmed"] /\ items[i] = "ringing"
        /\ Receive(Message(i, "confirmed", FALSE))
    BY <2>1 DEF Answer
  <2>3. dialled(items') /\ (OfDial(i) => i.call \in DOMAIN dials)
    BY <1>2, <2>2
  <2>4. ServerMoved
    BY <1>2, <2>2 DEF ServerMoved, WasAnswered, Receive
  <2>5. /\ WellFormed(Message(i, "confirmed", FALSE))
        /\ EventTrue(Message(i, "confirmed", FALSE))
    BY <1>2, <2>2, <2>3, MessageTrue DEF WasAnswered
  <2>6. EventNews(Message(i, "confirmed", FALSE))
    BY <1>2, <2>2 DEF EventNews, Message, ActiveCallEvent
  <2> QED
    BY <1>1, <2>2, <2>3, <2>4, <2>5, <2>6
<1>5. CASE \E i \in Items : Retract(i)
  <2>1. PICK i \in Items : Retract(i)
    BY <1>5
  <2>2. /\ items' = [items EXCEPT ![i] = "retracted"]
        /\ items[i] \in {"ringing", "confirmed"}
        /\ Receive(RetractCallEvent(i))
    BY <2>1 DEF Retract
  <2>3. dialled(items')
    BY <1>2, <2>2
  <2>4. ServerMoved
    BY <1>2, <2>2 DEF ServerMoved, WasAnswered, Receive
  <2>5. WellFormed(RetractCallEvent(i)) /\ EventTrue(RetractCallEvent(i))
    BY DEF WellFormed, EventTypes, EventTrue, RetractCallEvent
  <2>6. EventNews(RetractCallEvent(i))
    BY <1>2, <2>2 DEF EventNews, RetractCallEvent
  <2> QED
    BY <1>1, <2>2, <2>3, <2>4, <2>5, <2>6
<1>6. CASE \E i \in Items, error \in BOOLEAN : PublishOther(i, error)
  <2>1. PICK i \in Items, error \in BOOLEAN : PublishOther(i, error)
    BY <1>6
  <2>2. /\ items' = items /\ items[i] \in {"ringing", "confirmed"}
        /\ Receive(Message(i, "unknown", error))
    BY <2>1 DEF PublishOther
  <2>3. dialled(items') /\ (OfDial(i) => i.call \in DOMAIN dials)
    BY <1>2, <2>2
  <2>4. ServerMoved
    BY <2>2 DEF ServerMoved, WasAnswered, Receive
  <2>5. /\ WellFormed(Message(i, "unknown", error)) /\ EventTrue(Message(i, "unknown", error))
    BY <1>2, <2>2, <2>3, MessageTrue
  <2>6. EventNews(Message(i, "unknown", error))
    BY <1>2, <2>2 DEF EventNews, Message, ActiveCallEvent
  <2> QED
    BY <1>1, <2>2, <2>3, <2>4, <2>5, <2>6
<1> QED
  BY <1>3, <1>4, <1>5, <1>6 DEF ServerCalls

LEMMA ServerCallsLegs ==
    ASSUME IInv, LegsInv, ServerCalls
    PROVE  LegsInv'
BY ServerCallsPublish, ReceiveLegs DEF Publishes

LEMMA ReceiveReplyLegs ==
    ASSUME IInv, LegsInv, NEW c, NEW e, e.type \in {"iqResult", "callRequest"},
           ReceiveReply(c, e), DOMAIN dials' = DOMAIN dials, DialsKept
    PROVE  LegsInv'
<1>1. /\ UNCHANGED <<items, clock, phase, lstRequests>> /\ phase = "recv"
      /\ SignalEvent(e, iqs \ {c})
  BY DEF ReceiveReply, queues
<1>2. ServerMoved /\ ServerInv'
  BY <1>1 DEF ServerMoved, WasAnswered, LegsInv, ServerInv, DialsKept
<1>3. WellFormed(e) /\ EventTrue(e)
  BY DEF WellFormed, EventTypes, EventTrue
<1>4. HandlersInv(stateHandlers', items', dials')
  BY <1>1, <1>2, <1>3, SignalEventLegs
<1> QED
  BY <1>2, <1>4 DEF LegsInv, HandlersInv

\* An answer to an IQ, whether it carries the form of "create" or not.
Reply(e) == e.type \in {"iqResult", "callRequest"}

LEMMA ServerRepliesReceive ==
    ASSUME IInv, ServerReplies
    PROVE  \E c, e : /\ Reply(e) /\ ReceiveReply(c, e)
                     /\ DOMAIN dials' = DOMAIN dials /\ DialsKept
<1> DEFINE received == \E c, e : /\ Reply(e) /\ ReceiveReply(c, e)
                                 /\ DOMAIN dials' = DOMAIN dials /\ DialsKept
<1>1. ASSUME NEW c, NEW e, Reply(e), ReceiveReply(c, e), UNCHANGED dials
      PROVE  received
  BY <1>1 DEF DialsKept
<1>2. ASSUME NEW c, NEW e, Reply(e), RefuseCreate(c, e)
      PROVE  received
  <2>1. PICK k \in DialOf(c) : /\ dials' = [dials EXCEPT ![k].failed = TRUE]
                               /\ ReceiveReply(c, e)
    BY <1>2 DEF RefuseCreate
  <2>2. /\ \A j \in DOMAIN dials : dials[j] \in Dials
        /\ k \in DOMAIN dials /\ DOMAIN <<>> = {}
    BY LenProperties, ElementOfSeq DEF DialOf, IInv, RestInv
  <2>3. /\ [dials[k] EXCEPT !.failed = TRUE].setup = dials[k].setup
        /\ [dials[k] EXCEPT !.failed = TRUE].context = dials[k].context
    BY <2>2 DEF Dials
  <2>4. /\ DOMAIN dials' = DOMAIN dials
        /\ \A j \in DOMAIN dials : /\ dials'[j].setup = dials[j].setup
                                    /\ dials'[j].context = dials[j].context
    BY <2>1, <2>2, <2>3
  <2>5. dials # <<>> /\ dials' # <<>>
    BY <2>2, <2>4
  <2>6. DialsKept
    BY <2>4, <2>5, FirstContext DEF DialsKept
  <2> QED
    BY <1>2, <2>1, <2>4, <2>6
<1>3. ASSUME NEW c, ReplyTerminate(c) \/ RefuseWithoutForm(c)
      PROVE  received
  <2> DEFINE e == IqResultEvent(c)
  <2>1. Reply(e)
    BY DEF Reply, IqResultEvent
  <2> HIDE DEF e, received
  <2> QED
    BY <1>1, <1>2, <1>3, <2>1 DEF ReplyTerminate, RefuseWithoutForm, e
<1>4. ASSUME NEW c, AcceptCreate(c)
      PROVE  received
  <2> DEFINE e == CallRequestEvent(c, FALSE)
  <2>1. Reply(e)
    BY DEF Reply, CallRequestEvent
  <2>2. ReceiveReply(c, e) /\ UNCHANGED dials
    BY <1>4 DEF AcceptCreate
  <2> HIDE DEF e, received
  <2> QED
    BY <1>1, <2>1, <2>2
<1>5. ASSUME NEW c, RefuseWithForm(c)
      PROVE  received
  <2> DEFINE e == CallRequestEvent(c, TRUE)
  <2>1. Reply(e)
    BY DEF Reply, CallRequestEvent
  <2>2. RefuseCreate(c, e)
    BY <1>5 DEF RefuseWithForm
  <2> HIDE DEF e, received
  <2> QED
    BY <1>2, <2>1, <2>2
<1> HIDE DEF received
<1>6. received
  BY <1>3, <1>4, <1>5 DEF ServerReplies
<1> QED
  BY <1>6 DEF received

LEMMA ServerRepliesLegs ==
    ASSUME IInv, LegsInv, ServerReplies
    PROVE  LegsInv'
BY ServerRepliesReceive, ReceiveReplyLegs DEF Reply

-----------------------------------------------------------------------------
(* The calls that hear of their retracted items.  A handler of a dialled    *)
(* call takes every retract that reaches it, so a handler behind it in the  *)
(* list may keep an item that is gone; those in front of the first dialled  *)
(* call, and this call itself, keep none while the connection holds.        *)

\* The place p is in front of the first dialled call of all, or its own.
InFront(hs, ds, p) ==
    \/ ds = <<>>
    \/ \E q \in DOMAIN hs : /\ p <= q /\ hs[q].class = "MakeCall"
                            /\ hs[q].context = ds[1].context

\* Two handlers that the server's messages created are of two SIP calls.
OneCallEach(hs) ==
    \A p, q \in DOMAIN hs :
        (/\ hs[p].class # "MakeCall" /\ hs[q].class # "MakeCall"
         /\ SipCall(hs[p].data.item) = SipCall(hs[q].data.item)) => p = q

\* The branches of a dialled call are legs of requests with its call-setup-id.
DialLegs(h, ds) ==
    h.class = "MakeCall" =>
        \A n \in DOMAIN h.branches :
            LET i == h.branches[n].item
            IN  OfDial(i) /\ i.call \in DOMAIN ds /\ ds[i.call].setup = h.data.setup

\* Of the dialled calls in the list, the first that was dialled is in front.
FirstDial(hs, ds) ==
    /\ ds = <<>> => \A p \in DOMAIN hs : hs[p].class # "MakeCall"
    /\ \A p, q \in DOMAIN hs :
          (/\ hs[p].class = "MakeCall" /\ hs[q].class = "MakeCall"
           /\ hs[p].context = ds[1].context) => p <= q

Ordered(hs, ds) ==
    /\ OneCallEach(hs)
    /\ \A p \in DOMAIN hs : DialLegs(hs[p], ds)
    /\ FirstDial(hs, ds)

NotRetracted(h, its) == \A n \in DOMAIN h.branches : its[h.branches[n].item] # "retracted"

FrontLive(hs, its, ds) ==
    \A p \in DOMAIN hs : InFront(hs, ds, p) => NotRetracted(hs[p], its)

LiveInv ==
    /\ Ordered(stateHandlers, dials)
    /\ dials # <<>> => dials[1].context < nextId
    /\ disconnects = 0 => online /\ FrontLive(stateHandlers, items, dials)

\* The handlers that are not dropped, before _checkStateHandlersExist.
UndroppedLive(hs, its, ds) ==
    \A p \in DOMAIN hs :
        hs[p].state = "Dropped" \/ (InFront(hs, ds, p) => NotRetracted(hs[p], its))

LEMMA PlacesTyped ==
    ASSUME IInv
    PROVE  /\ pushed \in Nat
           /\ \A p \in DOMAIN stateHandlers : p \in Nat /\ p < pushed + 1
BY DEF IInv, MachineInv

\* The same calls, shown and expired as they may be, in the same order.
LEMMA OrderedSame ==
    ASSUME NEW hs, NEW gs, NEW ds, Ordered(hs, ds), DOMAIN gs \subseteq DOMAIN hs,
           \A p \in DOMAIN gs : /\ gs[p].class = hs[p].class /\ gs[p].data = hs[p].data
                                /\ gs[p].branches = hs[p].branches
                                /\ gs[p].context = hs[p].context
    PROVE  /\ Ordered(gs, ds)
           /\ \A p \in DOMAIN gs : InFront(gs, ds, p) => InFront(hs, ds, p)
<1>1. OneCallEach(gs)
  BY DEF Ordered, OneCallEach
<1>2. \A p \in DOMAIN gs : DialLegs(gs[p], ds)
  BY DEF Ordered, DialLegs
<1>3. FirstDial(gs, ds)
  BY DEF Ordered, FirstDial
<1>4. \A p \in DOMAIN gs : InFront(gs, ds, p) => InFront(hs, ds, p)
  BY DEF InFront
<1> QED
  BY <1>1, <1>2, <1>3, <1>4 DEF Ordered

LEMMA OrderedKept ==
    ASSUME NEW hs, Ordered(hs, dials), DialsKept
    PROVE  /\ Ordered(hs, dials')
           /\ \A p : InFront(hs, dials', p) <=> InFront(hs, dials, p)
<1>1. \A p \in DOMAIN hs : DialLegs(hs[p], dials')
  BY DEF Ordered, DialLegs, DialsKept
<1>2. FirstDial(hs, dials')
  BY DEF Ordered, FirstDial, DialsKept
<1>3. \A p : InFront(hs, dials', p) <=> InFront(hs, dials, p)
  BY DEF InFront, DialsKept
<1> QED
  BY <1>1, <1>2, <1>3 DEF Ordered

\* _checkStateHandlersExist: no handler comes to be in front of another.
LEMMA SettleLive ==
    ASSUME NEW hs, NEW changed, NEW its, NEW ds, HandlersOK(hs),
           Ordered(hs, ds), Settle(hs, changed)
    PROVE  /\ Ordered(stateHandlers', ds)
           /\ UndroppedLive(hs, its, ds) => FrontLive(stateHandlers', its, ds)
<1>1. /\ DOMAIN stateHandlers' = {p \in DOMAIN hs : IsStillExist(hs[p])}
      /\ \A p \in DOMAIN stateHandlers' : stateHandlers'[p] = CheckStateTimeout(hs[p])
  BY DEF Settle
<1>2. ASSUME NEW p \in DOMAIN stateHandlers'
      PROVE  /\ p \in DOMAIN hs /\ hs[p].state # "Dropped"
             /\ stateHandlers'[p].class = hs[p].class
             /\ stateHandlers'[p].data = hs[p].data
             /\ stateHandlers'[p].branches = hs[p].branches
             /\ stateHandlers'[p].context = hs[p].context
  <2>1. p \in DOMAIN hs /\ HandlerOK(hs[p]) /\ hs[p].state # "Dropped"
    BY <1>1, StillExists DEF HandlersOK
  <2> QED
    BY <1>1, <2>1, CheckStateTimeoutBranches
<1>3. /\ Ordered(stateHandlers', ds)
      /\ \A p \in DOMAIN stateHandlers' : InFront(stateHandlers', ds, p) => InFront(hs, ds, p)
  BY <1>2, OrderedSame
<1>4. UndroppedLive(hs, its, ds) => FrontLive(stateHandlers', its, ds)
  BY <1>2, <1>3 DEF UndroppedLive, FrontLive, NotRetracted
<1> QED
  BY <1>3, <1>4

\* The first owner of a retract is the call in front that lists the item.
LEMMA RetractFindsCall ==
    ASSUME IInv, LegsInv, LiveInv, NEW e, e.type = "retractCall",
           NEW p \in Owners(e), \A q \in Owners(e) : p <= q,
           NEW q \in DOMAIN stateHandlers, InFront(stateHandlers, dials, q),
           HasId(stateHandlers[q].branches, e.item)
    PROVE  p = q
<1> DEFINE h == stateHandlers[p]
           g == stateHandlers[q]
           i == e.item
<1>1. /\ p \in DOMAIN stateHandlers /\ OwnsRetract(h, e) /\ p \in Nat /\ q \in Nat
      /\ BranchesOK(h) /\ BranchesOK(g)
  BY PlacesTyped DEF Owners, Owns, LegsInv, HandlersInv, Fine
<1>2. p <= q
  <2>1. q \in Owners(e)
    BY DEF Owners, Owns, OwnsRetract
  <2> QED
    BY <2>1
<1>3. PICK n \in DOMAIN g.branches : g.branches[n].item = i
  BY DEF HasId
<1>4. CASE h.class = "MakeCall"
  <2>1. PICK r \in DOMAIN stateHandlers : /\ q <= r /\ stateHandlers[r].class = "MakeCall"
                                          /\ stateHandlers[r].context = dials[1].context
    BY <1>1, <1>4 DEF InFront, LiveInv, Ordered, FirstDial
  <2>2. r <= p /\ r \in Nat
    BY <1>1, <1>4, <2>1, PlacesTyped DEF LiveInv, Ordered, FirstDial
  <2> QED
    BY <1>1, <1>2, <2>1, <2>2
<1>5. CASE h.class # "MakeCall"
  <2>1. PICK m \in DOMAIN h.branches : h.branches[m].item = i
    BY <1>1, <1>5 DEF OwnsRetract, HasId
  <2>2. SipCall(i) = SipCall(h.data.item)
    BY <1>1, <1>5, <2>1 DEF BranchesOK
  <2>3. CASE g.class = "MakeCall"
    <3>1. OfDial(i) /\ dials[i.call].setup = g.data.setup
      BY <1>3, <2>3 DEF LiveInv, Ordered, DialLegs
    <3>2. dials[i.call].setup # g.data.setup
      BY <1>1, <1>5, <2>1, <2>3, <3>1 DEF LegsInv, HandlersInv, Apart
    <3> QED
      BY <3>1, <3>2
  <2>4. CASE g.class # "MakeCall"
    <3>1. SipCall(i) = SipCall(g.data.item)
      BY <1>1, <1>3, <2>4 DEF BranchesOK
    <3> QED
      BY <1>1, <1>5, <2>2, <2>4, <3>1 DEF LiveInv, Ordered, OneCallEach
  <2> QED
    BY <2>3, <2>4
<1> QED
  BY <1>4, <1>5

LEMMA OwnerHandlesLive ==
    ASSUME IInv, LegsInv, LiveInv, ServerMoved, DialsKept, NEW e, WellFormed(e),
           EventTrue(e), EventNews(e), NEW u, OwnerHandles(e, u)
    PROVE  /\ Ordered(stateHandlers', dials')
           /\ disconnects = 0 => FrontLive(stateHandlers', items', dials')
           /\ nextId' \in Nat /\ nextId <= nextId'
<1> DEFINE n(p) == IF e.type = "dropRequest" THEN Len(stateHandlers[p].branches) ELSE 0
           contexts(p) == nextId .. nextId + n(p) - 1
<1>1. PICK p \in Owners(e) :
          /\ Settle([stateHandlers EXCEPT ![p] = HandleEvent(stateHandlers[p], e, contexts(p))],
                    {p})
          /\ \A q \in Owners(e) : p <= q
          /\ nextId' = nextId + n(p)
  BY DEF OwnerHandles
<1> DEFINE h == stateHandlers[p]
           g == HandleEvent(h, e, contexts(p))
           hs == [stateHandlers EXCEPT ![p] = g]
<1>2. /\ p \in DOMAIN stateHandlers /\ Owns(h, e)
      /\ \A q \in DOMAIN stateHandlers : HandlerOK(stateHandlers[q])
      /\ \A q \in DOMAIN stateHandlers : Fine(stateHandlers[q], items, dials)
  BY ListedHandlers DEF Owners, IInv, LegsInv, HandlersInv
<1>3. n(p) \in Nat /\ nextId \in Nat /\ h \in Handlers
  BY <1>2 DEF HandlerOK, Handlers, IInv, MachineInv
<1>4. nextId' \in Nat /\ nextId <= nextId'
  <2> HIDE DEF n
  <2> QED
    BY <1>1, <1>3
<1>5. contexts(p) \in SUBSET Nat
  <2> HIDE DEF n
  <2> QED
    BY <1>3
<1> HIDE DEF contexts
<1>6. Kept(h, g) /\ Moves(h, g, e) /\ g.context = h.context
  BY <1>2, <1>3, <1>5, HandleEventKeeps, HandleEventMoves, HandleEventContext
  DEF WellFormed, Fine
<1>7. e.type = "retractCall" => g.state = "Dropped" \/ ~HasId(g.branches, e.item)
  BY <1>2, RetractedGoes DEF Fine
<1> HIDE DEF g
<1>8. /\ DOMAIN hs = DOMAIN stateHandlers /\ hs[p] = g
      /\ \A q \in DOMAIN stateHandlers \ {p} : hs[q] = stateHandlers[q]
  BY <1>2
<1>9. Settle(hs, {p})
  BY <1>1 DEF g
<1> HIDE DEF hs
<1>10. HandlersOK(hs)
  BY <1>2, <1>6, <1>8 DEF HandlersOK, Kept
<1>11. \A q \in DOMAIN hs : /\ hs[q].class = stateHandlers[q].class
                            /\ hs[q].data.setup = stateHandlers[q].data.setup
                            /\ hs[q].context = stateHandlers[q].context
                            /\ hs[q].class # "MakeCall" =>
                                  SipCall(hs[q].data.item) = SipCall(stateHandlers[q].data.item)
  BY <1>6, <1>8 DEF Moves
<1>12. \A q : InFront(hs, dials, q) <=> InFront(stateHandlers, dials, q)
  BY <1>8, <1>11 DEF InFront
<1>13. Ordered(hs, dials)
  <2>1. OneCallEach(hs)
    BY <1>8, <1>11 DEF LiveInv, Ordered, OneCallEach
  <2>2. FirstDial(hs, dials)
    BY <1>8, <1>11 DEF LiveInv, Ordered, FirstDial
  <2>3. ASSUME NEW q \in DOMAIN hs
        PROVE  DialLegs(hs[q], dials)
    <3>1. CASE q # p
      BY <1>8, <2>3, <3>1 DEF LiveInv, Ordered
    <3>2. CASE q = p
      <4> SUFFICES ASSUME g.class = "MakeCall", NEW m \in DOMAIN g.branches
                   PROVE  LET i == g.branches[m].item
                          IN  /\ OfDial(i) /\ i.call \in DOMAIN dials
                              /\ dials[i.call].setup = g.data.setup
        BY <1>8, <3>2 DEF DialLegs
      <4>1. h.class = "MakeCall" /\ g.data.setup = h.data.setup
        BY <1>6 DEF Moves
      <4>2. CASE \E o \in DOMAIN h.branches : h.branches[o].item = g.branches[m].item
        BY <1>2, <4>1, <4>2 DEF LiveInv, Ordered, DialLegs
      <4>3. CASE e.type = "activeCall" /\ g.branches[m].item = e.item
        <5>1. e.setup = h.data.setup /\ e.setup # NoSetup
          BY <1>2, <4>1, <4>3 DEF Owns, OwnsActiveCall, SameCallSetupId
        <5> QED
          BY <4>1, <4>3, <5>1 DEF EventTrue
      <4> QED
        BY <1>6, <4>2, <4>3 DEF Moves, NoOtherBranch
    <3> QED
      BY <3>1, <3>2
  <2> QED
    BY <2>1, <2>2, <2>3 DEF Ordered
<1>14. ASSUME disconnects = 0
       PROVE  UndroppedLive(hs, items', dials')
  <2> SUFFICES ASSUME NEW q \in DOMAIN hs, hs[q].state # "Dropped",
                      InFront(hs, dials', q), NEW m \in DOMAIN hs[q].branches
               PROVE  items'[hs[q].branches[m].item] # "retracted"
    BY DEF UndroppedLive, NotRetracted
  <2> DEFINE i == hs[q].branches[m].item
  <2>1. InFront(stateHandlers, dials, q)
    BY <1>12, <1>13, OrderedKept
  <2>2. \A o \in DOMAIN stateHandlers[q].branches :
           items[stateHandlers[q].branches[o].item] # "retracted"
    BY <1>8, <1>14, <2>1 DEF LiveInv, FrontLive, NotRetracted
  <2>3. CASE \E o \in DOMAIN stateHandlers[q].branches : stateHandlers[q].branches[o].item = i
    <3>1. /\ HasId(stateHandlers[q].branches, i) /\ items[i] # "retracted" /\ i \in Items
      BY <1>2, <1>8, <2>2, <2>3 DEF HasId, Fine, BranchesOK
    <3>2. ASSUME e.type = "retractCall", e.item = i
          PROVE  FALSE
      <4>1. p = q
        BY <1>1, <1>8, <2>1, <3>1, <3>2, RetractFindsCall
      <4>2. HasId(g.branches, e.item)
        BY <1>8, <3>2, <4>1 DEF HasId
      <4> QED
        BY <1>7, <1>8, <3>2, <4>1, <4>2
    <3> QED
      BY <3>1, <3>2 DEF EventNews
  <2>4. CASE q = p /\ e.type = "activeCall" /\ i = e.item
    BY <2>4 DEF EventNews
  <2>5. CASE q = p
    BY <1>6, <1>8, <2>3, <2>4, <2>5 DEF Moves, NoOtherBranch
  <2>6. CASE q # p
    BY <1>8, <2>3, <2>6
  <2> QED
    BY <2>5, <2>6
<1>15. Ordered(hs, dials')
  BY <1>13, OrderedKept
<1> QED
  BY <1>4, <1>9, <1>10, <1>14, <1>15, SettleLive

LEMMA UnknownEventLive ==
    ASSUME IInv, LegsInv, LiveInv, DialsKept, NEW e, WellFormed(e),
           EventNews(e), NEW u, UnknownEvent(e, u)
    PROVE  /\ Ordered(stateHandlers', dials')
           /\ disconnects = 0 => FrontLive(stateHandlers', items', dials')
           /\ nextId' \in Nat /\ nextId <= nextId'
<1> DEFINE g == IF e.dialog = "created" THEN NewOutgoing(e, nextId)
                                        ELSE NewIncoming(e, nextId)
           hs == PushBack(g)
           new == pushed + 1
<1>1. /\ e.type = "activeCall" /\ e.item \in Items /\ Owners(e) = {} /\ nextId \in Nat
      /\ Settle(hs, {new}) /\ nextId' = nextId + 1
  BY DEF UnknownEvent, WellFormed, IInv, MachineInv
<1>2. /\ HandlerOK(g) /\ g.class # "MakeCall" /\ g.data.item = e.item
      /\ \A n \in DOMAIN g.branches : g.branches[n].item = e.item
  BY <1>1, NewHandlerOK, NewHandlerBranches
<1> HIDE DEF g
<1>3. /\ DOMAIN hs = DOMAIN stateHandlers \cup {new} /\ hs[new] = g
      /\ \A p \in DOMAIN stateHandlers : hs[p] = stateHandlers[p]
  BY PushBackIs
<1> HIDE DEF hs, new
<1>4. HandlersOK(hs)
  BY <1>2, <1>3, ListedHandlers DEF HandlersOK, IInv
<1>5. \A q \in DOMAIN stateHandlers :
         stateHandlers[q].class # "MakeCall" =>
            SipCall(stateHandlers[q].data.item) # SipCall(e.item)
  BY <1>1 DEF Owners, Owns, OwnsActiveCall
<1>6. Ordered(hs, dials)
  <2>1. OneCallEach(hs)
    BY <1>2, <1>3, <1>5 DEF LiveInv, Ordered, OneCallEach
  <2>2. \A q \in DOMAIN hs : DialLegs(hs[q], dials)
    BY <1>2, <1>3 DEF LiveInv, Ordered, DialLegs
  <2>3. FirstDial(hs, dials)
    BY <1>2, <1>3 DEF LiveInv, Ordered, FirstDial
  <2> QED
    BY <2>1, <2>2, <2>3 DEF Ordered
<1>7. \A q : InFront(hs, dials, q) => InFront(stateHandlers, dials, q)
  BY <1>2, <1>3 DEF InFront
<1>8. ASSUME disconnects = 0
      PROVE  UndroppedLive(hs, items', dials')
  <2> SUFFICES ASSUME NEW q \in DOMAIN hs, InFront(hs, dials', q),
                      NEW m \in DOMAIN hs[q].branches
               PROVE  items'[hs[q].branches[m].item] # "retracted"
    BY DEF UndroppedLive, NotRetracted
  <2>1. CASE q \in DOMAIN stateHandlers
    <3>1. InFront(stateHandlers, dials, q)
      BY <1>6, <1>7, OrderedKept
    <3>2. /\ items[hs[q].branches[m].item] # "retracted"
          /\ hs[q].branches[m].item \in Items
      BY <1>3, <1>8, <2>1, <3>1
      DEF LiveInv, FrontLive, NotRetracted, LegsInv, HandlersInv, Fine, BranchesOK
    <3> QED
      BY <1>1, <3>2 DEF EventNews
  <2>2. CASE q = new
    BY <1>1, <1>2, <1>3, <2>2 DEF EventNews
  <2> QED
    BY <1>3, <2>1, <2>2
<1>9. Ordered(hs, dials') /\ nextId' \in Nat /\ nextId <= nextId'
  BY <1>1, <1>6, OrderedKept
<1> QED
  BY <1>1, <1>4, <1>8, <1>9, SettleLive

\* An event that no handler owns is no retract of a branch.
LEMMA IgnoredEventLive ==
    ASSUME IInv, LegsInv, LiveInv, DialsKept, NEW e, WellFormed(e),
           EventNews(e), NEW u, IgnoredEvent(e, u)
    PROVE  /\ Ordered(stateHandlers', dials')
           /\ disconnects = 0 => FrontLive(stateHandlers', items', dials')
           /\ nextId' \in Nat /\ nextId <= nextId'
<1>1. /\ Owners(e) = {} /\ Settle(stateHandlers, {}) /\ HandlersOK(stateHandlers)
      /\ nextId' = nextId /\ nextId \in Nat
  BY DEF IgnoredEvent, IInv, MachineInv
<1>2. Ordered(stateHandlers, dials')
  BY OrderedKept DEF LiveInv
<1>3. ASSUME disconnects = 0
      PROVE  UndroppedLive(stateHandlers, items', dials')
  <2> SUFFICES ASSUME NEW q \in DOMAIN stateHandlers, InFront(stateHandlers, dials', q),
                      NEW m \in DOMAIN stateHandlers[q].branches
               PROVE  items'[stateHandlers[q].branches[m].item] # "retracted"
    BY DEF UndroppedLive, NotRetracted
  <2> DEFINE i == stateHandlers[q].branches[m].item
  <2>1. InFront(stateHandlers, dials, q)
    BY OrderedKept DEF LiveInv
  <2>2. items[i] # "retracted" /\ i \in Items
    BY <1>3, <2>1
    DEF LiveInv, FrontLive, NotRetracted, LegsInv, HandlersInv, Fine, BranchesOK
  <2>3. ~(e.type = "retractCall" /\ e.item = i)
    BY <1>1 DEF Owners, Owns, OwnsRetract, HasId
  <2> QED
    BY <2>2, <2>3 DEF EventNews
<1> QED
  BY <1>1, <1>2, <1>3, SettleLive

LEMMA SignalEventLive ==
    ASSUME IInv, LegsInv, LiveInv, ServerMoved, DialsKept, NEW e, WellFormed(e),
           EventTrue(e), EventNews(e), NEW u, SignalEvent(e, u),
           UNCHANGED <<online, disconnects>>
    PROVE  LiveInv'
<1>1. /\ Ordered(stateHandlers', dials') /\ nextId' \in Nat /\ nextId <= nextId'
      /\ disconnects = 0 => FrontLive(stateHandlers', items', dials')
  BY OwnerHandlesLive, UnknownEventLive, IgnoredEventLive DEF SignalEvent
<1>2. dials' # <<>> => dials'[1].context < nextId'
  <2> SUFFICES ASSUME dials' # <<>>
               PROVE  dials'[1].context < nextId'
    OBVIOUS
  <2>1. dials # <<>> /\ dials'[1].context = dials[1].context /\ dials[1].context < nextId
    BY DEF DialsKept, LiveInv
  <2>2. dials[1].context \in Nat /\ nextId \in Nat /\ nextId' \in Nat
    BY <1>1, <2>1, FirstContext DEF IInv, MachineInv
  <2> QED
    BY <1>1, <2>1, <2>2
<1> QED
  BY <1>1, <1>2 DEF LiveInv

\* A step that changes neither the list nor what the server knows.
LEMMA LiveSame ==
    ASSUME LiveInv, UNCHANGED <<stateHandlers, items, dials, online, disconnects>>,
           nextId \in Nat, nextId' \in Nat, nextId <= nextId',
           dials # <<>> => dials[1].context \in Nat
    PROVE  LiveInv'
BY DEF LiveInv, Ordered, FrontLive, NotRetracted, InFront

LEMMA PollLive ==
    ASSUME IInv, LegsInv, LiveInv, PollStateHandlers \/ HandleDropRequest
    PROVE  LiveInv'
<1>1. UNCHANGED <<items, dials, online, disconnects>>
  BY DEF PollStateHandlers, HandleDropRequest, server, counts
<1>2. ServerMoved /\ DialsKept
  BY <1>1, ServerSame DEF LegsInv, DialsKept, server
<1>3. CASE PollStateHandlers
  <2>1. /\ Settle(stateHandlers, {}) /\ HandlersOK(stateHandlers) /\ nextId' = nextId
    BY <1>3 DEF PollStateHandlers, IInv, MachineInv
  <2>2. disconnects = 0 => UndroppedLive(stateHandlers, items, dials)
    BY DEF LiveInv, FrontLive, UndroppedLive
  <2>3. /\ Ordered(stateHandlers', dials)
        /\ disconnects = 0 => FrontLive(stateHandlers', items, dials)
    BY <2>1, <2>2, SettleLive DEF LiveInv
  <2> QED
    BY <1>1, <2>1, <2>3 DEF LiveInv
<1>4. CASE HandleDropRequest
  <2> DEFINE e == DropRequestEvent(Head(lstEvents))
  <2>1. WellFormed(e) /\ EventTrue(e) /\ EventNews(e)
    BY <1>1 DEF WellFormed, EventTypes, EventTrue, EventNews, DropRequestEvent
  <2>2. SignalEvent(e, iqs)
    BY <1>4 DEF HandleDropRequest
  <2> HIDE DEF e
  <2> QED
    BY <1>1, <1>2, <2>1, <2>2, SignalEventLive
<1> QED
  BY <1>3, <1>4

LEMMA HandleRequestLive ==
    ASSUME IInv, LegsInv, LiveInv, HandleRequest
    PROVE  LiveInv'
<1> DEFINE h == PreExecute(Head(lstRequests), nextId, clock)
           new == pushed + 1
<1>1. Requested(Head(lstRequests))
  BY FirstRequested
<1>2. nextId \in Nat /\ clock \in Nat \ {0} /\ dials \in Seq(Dials)
  BY DEF IInv, MachineInv, RestInv
<1>3. /\ BranchesOK(h) /\ h.class = "MakeCall" /\ h.state # "Connected"
      /\ h.data.setup = clock /\ h.context = nextId /\ h.branches = <<>>
  BY <1>1, <1>2, PreExecuteBranches
<1>4. \E sent : dials' = Append(dials, [context |-> nextId, setup |-> clock,
                                        number |-> h.to, failed |-> sent = {}])
  BY DEF HandleRequest
<1>5. /\ stateHandlers' = PushBack(h) /\ nextId' = nextId + 1
      /\ UNCHANGED <<items, online, disconnects>>
  BY DEF HandleRequest, counts
<1> HIDE DEF h
<1>6. /\ DOMAIN dials' = 1..Len(dials) + 1 /\ DOMAIN dials = 1..Len(dials) /\ Len(dials) \in Nat
      /\ dials'[Len(dials) + 1].context = nextId
      /\ \A k \in DOMAIN dials : dials'[k] = dials[k]
  BY <1>2, <1>4, AppendProperties, LenProperties
<1>7. /\ DOMAIN stateHandlers' = DOMAIN stateHandlers \cup {new}
      /\ stateHandlers'[new] = h /\ DOMAIN h.branches = {}
      /\ \A p \in DOMAIN stateHandlers : stateHandlers'[p] = stateHandlers[p]
  <2>1. DOMAIN h.branches = {}
    BY <1>3
  <2> QED
    BY <1>5, <2>1, PushBackIs
<1>8. \A p \in DOMAIN stateHandlers : p \in Nat /\ p < new
  BY PlacesTyped
<1>9. new \in Nat
  BY PlacesTyped
<1> HIDE DEF new
<1>10. /\ dials' # <<>> /\ dials'[1].context < nextId'
       /\ dials # <<>> => dials'[1] = dials[1] /\ dials[1].context < nextId
  <2>1. CASE dials = <<>>
    BY <1>2, <1>5, <1>6, <2>1
  <2>2. CASE dials # <<>>
    BY <1>2, <1>5, <1>6, <2>2, FirstContext DEF LiveInv
  <2> QED
    BY <2>1, <2>2, <1>6
<1>11. FirstDial(stateHandlers', dials')
  <2> SUFFICES ASSUME NEW p \in DOMAIN stateHandlers', NEW q \in DOMAIN stateHandlers',
                      stateHandlers'[p].class = "MakeCall",
                      stateHandlers'[q].class = "MakeCall",
                      stateHandlers'[p].context = dials'[1].context
               PROVE  p <= q
    BY <1>10 DEF FirstDial
  <2>1. CASE dials = <<>>
    BY <1>7, <1>9, <2>1 DEF LiveInv, Ordered, FirstDial
  <2>2. CASE dials # <<>>
    <3>1. p \in DOMAIN stateHandlers
      BY <1>2, <1>3, <1>7, <1>10, <2>2, FirstContext
    <3> QED
      BY <1>7, <1>8, <1>9, <1>10, <2>2, <3>1 DEF LiveInv, Ordered, FirstDial
  <2> QED
    BY <2>1, <2>2
<1>12. OneCallEach(stateHandlers')
  BY <1>3, <1>7 DEF LiveInv, Ordered, OneCallEach
<1>13. \A p \in DOMAIN stateHandlers' : DialLegs(stateHandlers'[p], dials')
  <2>1. \A k \in DOMAIN dials : k \in DOMAIN dials'
    BY <1>6
  <2>2. DialLegs(stateHandlers'[new], dials')
    BY <1>7 DEF DialLegs
  <2>3. ASSUME NEW p \in DOMAIN stateHandlers
        PROVE  DialLegs(stateHandlers'[p], dials')
    <3>1. stateHandlers'[p] = stateHandlers[p] /\ DialLegs(stateHandlers[p], dials)
      BY <1>7, <2>3 DEF LiveInv, Ordered
    <3> QED
      BY <1>6, <2>1, <3>1 DEF DialLegs
  <2> QED
    BY <1>7, <2>2, <2>3
<1>14. ASSUME disconnects = 0, NEW p \in DOMAIN stateHandlers',
              InFront(stateHandlers', dials', p)
       PROVE  NotRetracted(stateHandlers'[p], items)
  <2>1. CASE p = new
    BY <1>7, <2>1 DEF NotRetracted
  <2>2. CASE p \in DOMAIN stateHandlers
    <3>1. ASSUME dials # <<>>
          PROVE  InFront(stateHandlers, dials, p)
      <4>1. PICK q \in DOMAIN stateHandlers' : /\ p <= q /\ stateHandlers'[q].class = "MakeCall"
                                               /\ stateHandlers'[q].context = dials[1].context
        BY <1>10, <1>14, <3>1 DEF InFront
      <4>2. q \in DOMAIN stateHandlers
        BY <1>2, <1>3, <1>7, <1>10, <3>1, <4>1, FirstContext
      <4> QED
        BY <1>7, <4>1, <4>2 DEF InFront
    <3>2. InFront(stateHandlers, dials, p)
      BY <3>1 DEF InFront
    <3> QED
      BY <1>7, <1>14, <2>2, <3>2 DEF LiveInv, FrontLive
  <2> QED
    BY <1>7, <2>1, <2>2
<1> QED
  BY <1>5, <1>10, <1>11, <1>12, <1>13, <1>14 DEF LiveInv, Ordered, FrontLive

LEMMA TimePassesLive ==
    ASSUME IInv, LiveInv, NEW p \in DOMAIN stateHandlers, TimePasses(p)
    PROVE  LiveInv'
<1>1. /\ stateHandlers' = [stateHandlers EXCEPT ![p].expired = TRUE]
      /\ UNCHANGED <<items, dials, online, disconnects, nextId>>
  BY DEF TimePasses, server, counts
<1>2. stateHandlers[p] \in Handlers
  BY DEF IInv, MachineInv
<1>3. /\ DOMAIN stateHandlers' = DOMAIN stateHandlers
      /\ stateHandlers'[p] = [stateHandlers[p] EXCEPT !.expired = TRUE]
      /\ \A q \in DOMAIN stateHandlers \ {p} : stateHandlers'[q] = stateHandlers[q]
  BY <1>1
<1>4. \A q \in DOMAIN stateHandlers' :
         /\ stateHandlers'[q].class = stateHandlers[q].class
         /\ stateHandlers'[q].data = stateHandlers[q].data
         /\ stateHandlers'[q].branches = stateHandlers[q].branches
         /\ stateHandlers'[q].context = stateHandlers[q].context
  BY <1>2, <1>3 DEF Handlers
<1>5. /\ Ordered(stateHandlers', dials)
      /\ \A q \in DOMAIN stateHandlers' :
            InFront(stateHandlers', dials, q) => InFront(stateHandlers, dials, q)
  BY <1>3, <1>4, OrderedSame DEF LiveInv
<1>6. disconnects = 0 => FrontLive(stateHandlers', items, dials)
  BY <1>3, <1>4, <1>5 DEF LiveInv, FrontLive, NotRetracted
<1> QED
  BY <1>1, <1>5, <1>6 DEF LiveInv

LEMMA ConnectionLive ==
    ASSUME IInv, LiveInv, Disconnect \/ Connect
    PROVE  LiveInv'
<1>1. UNCHANGED <<items, dials, nextId>> /\ disconnects \in Nat
  BY DEF Disconnect, Connect, server, IInv, RestInv
<1>2. CASE Disconnect
  <2>1. DOMAIN stateHandlers' = {} /\ disconnects' # 0
    BY <1>1, <1>2 DEF Disconnect
  <2>2. Ordered(stateHandlers', dials)
    BY <2>1 DEF Ordered, OneCallEach, FirstDial
  <2> QED
    BY <1>1, <2>1, <2>2 DEF LiveInv
<1>3. CASE Connect
  <2>1. UNCHANGED <<stateHandlers, disconnects>> /\ ~online
    BY <1>3 DEF Connect, machine, counts
  <2> QED
    BY <1>1, <2>1 DEF LiveInv, Ordered
<1> QED
  BY <1>2, <1>3

LEMMA ServerCallsLive ==
    ASSUME IInv, LegsInv, LiveInv, ServerCalls
    PROVE  LiveInv'
<1>1. PICK e : Publishes(e)
  BY ServerCallsPublish
<1>2. /\ Receive(e) /\ WellFormed(e) /\ EventTrue(e) /\ EventNews(e) /\ ServerMoved
      /\ UNCHANGED <<dials, online, disconnects>>
  BY <1>1 DEF Publishes, Receive
<1>3. DialsKept
  BY <1>2 DEF DialsKept
<1>4. CASE online
  <2>1. SignalEvent(e, iqs)
    BY <1>2, <1>4 DEF Receive
  <2> QED
    BY <1>2, <1>3, <2>1, SignalEventLive
<1>5. CASE ~online
  <2>1. UNCHANGED <<stateHandlers, nextId>>
    BY <1>2, <1>5 DEF Receive
  <2> QED
    BY <1>2, <1>5, <2>1 DEF LiveInv, Ordered
<1> QED
  BY <1>4, <1>5

LEMMA ServerRepliesLive ==
    ASSUME IInv, LegsInv, LiveInv, ServerReplies
    PROVE  LiveInv'
<1>1. PICK c, e : Reply(e) /\ ReceiveReply(c, e) /\ DialsKept
  BY ServerRepliesReceive
<1>2. /\ UNCHANGED <<items, online, disconnects>> /\ SignalEvent(e, iqs \ {c})
  BY <1>1 DEF ReceiveReply, counts
<1>3. ServerMoved
  BY <1>1, <1>2 DEF ServerMoved, WasAnswered, DialsKept
<1>4. WellFormed(e) /\ EventTrue(e) /\ EventNews(e)
  BY <1>1, <1>2 DEF Reply, WellFormed, EventTypes, EventTrue, EventNews
<1> QED
  BY <1>1, <1>2, <1>3, <1>4, SignalEventLive

LEMMA QueuesLive ==
    ASSUME IInv, LiveInv, TapiThreads \/ GetRequests \/ GetEvents \/ UNCHANGED vars
    PROVE  LiveInv'
<1>1. nextId \in Nat /\ (dials # <<>> => dials[1].context \in Nat)
  BY FirstContext DEF IInv, MachineInv
<1>2. UNCHANGED <<stateHandlers, items, dials, online, disconnects>>
  BY DEF TapiThreads, MakeCallAsync, AddStateHandler, DropCallAsync, GetRequests,
         GetEvents, machine, server, counts, vars
<1>3. nextId' \in {nextId, nextId + 1}
  BY DEF TapiThreads, MakeCallAsync, AddStateHandler, DropCallAsync, GetRequests,
         GetEvents, vars
<1> QED
  BY <1>1, <1>2, <1>3, LiveSame

-----------------------------------------------------------------------------
(* The theorems.                                                            *)

LEMMA LegsInit == Init => LegsInv
<1> SUFFICES ASSUME Init PROVE LegsInv
  OBVIOUS
<1>1. DOMAIN stateHandlers = {} /\ DOMAIN dials = {} /\ \A i \in Items : items[i] = "none"
  BY DEF Init
<1>2. phase # "requests"
  BY DEF Init
<1> QED
  BY <1>1, <1>2 DEF LegsInv, HandlersInv, Apart, ServerInv

LEMMA LegsNext == IInv /\ LegsInv /\ [Next]_vars => LegsInv'
<1> SUFFICES ASSUME IInv, LegsInv, [Next]_vars PROVE LegsInv'
  OBVIOUS
<1>1. CASE TapiThreads
  BY <1>1, TapiThreadsLegs
<1>2. CASE Poll
  BY <1>2, GetRequestsLegs, HandleRequestLegs, PollLegs DEF Poll
<1>3. CASE ServerCalls
  BY <1>3, ServerCallsLegs
<1>4. CASE ServerReplies
  BY <1>4, ServerRepliesLegs
<1>5. CASE \E p \in DOMAIN stateHandlers : TimePasses(p)
  BY <1>5, TimePassesLegs
<1>6. CASE Disconnect \/ Connect
  BY <1>6, ConnectionLegs
<1>7. CASE UNCHANGED vars
  <2>1. UNCHANGED <<stateHandlers, server, clock, phase, lstRequests>>
    BY <1>7 DEF vars, server
  <2>2. ServerMoved /\ ServerInv'
    BY <2>1, ServerSame DEF LegsInv
  <2> QED
    BY <2>1, <2>2, SameLegs DEF LegsInv, HandlersInv
<1> QED
  BY <1>1, <1>2, <1>3, <1>4, <1>5, <1>6, <1>7 DEF Next

LEMMA LegsAlways == Spec => []LegsInv
<1>1. Init => LegsInv
  BY LegsInit
<1>2. IInv /\ LegsInv /\ [Next]_vars => LegsInv'
  BY LegsNext
<1> QED
  BY <1>1, <1>2, Invariant, PTL DEF Spec

(* A call is always shown as one of its branches, lists none of them twice, *)
(* and a call that the server announced has one for a drop request to end.  *)
THEOREM ShownItemsAreBranches == Spec => []ShownItemIsBranch
<1>1. LegsInv => ShownItemIsBranch
  <2> SUFFICES ASSUME LegsInv, NEW p \in DOMAIN stateHandlers
               PROVE  LET h == stateHandlers[p]
                      IN  /\ h.data.item # NoItem => HasId(h.branches, h.data.item)
                          /\ DistinctItems(h.branches)
                          /\ h.class # "MakeCall" => h.branches # <<>>
    BY DEF ShownItemIsBranch, DistinctItems
  <2>1. BranchesOK(stateHandlers[p])
    BY DEF LegsInv, HandlersInv, Fine
  <2> QED
    BY <2>1 DEF BranchesOK, HasId
<1> QED
  BY <1>1, LegsAlways, PTL

(* No leg of a dialled call is taken for another call while the handler of  *)
(* the dialled call lives, in whatever order answers and messages arrive.   *)
THEOREM DialsKeepTheirLegs == Spec => []LegsBelongToDial
<1>1. LegsInv => LegsBelongToDial
  BY DEF LegsInv, HandlersInv, Apart, LegsBelongToDial
<1> QED
  BY <1>1, LegsAlways, PTL

(* TAPI is told that a call is connected only after its other side answered *)
(* it; of a dialled call, the leg to the number.                            *)
THEOREM AnsweredBeforeConnected == Spec => []ConnectedWasAnswered
<1>1. LegsInv => ConnectedWasAnswered
  <2> SUFFICES ASSUME LegsInv, NEW p \in DOMAIN stateHandlers,
                      stateHandlers[p].state = "Connected"
               PROVE  IF stateHandlers[p].class = "MakeCall"
                      THEN \E k \in DOMAIN dials :
                              /\ dials[k].setup = stateHandlers[p].data.setup
                              /\ items[Item("out", k, 1)] \in {"confirmed", "retracted"}
                      ELSE \E i \in Leg(stateHandlers[p].data.item) :
                              items[i] \in {"confirmed", "retracted"}
    BY DEF ConnectedWasAnswered
  <2>1. Answered(stateHandlers[p], items, dials)
    BY DEF LegsInv, HandlersInv, Fine
  <2> QED
    BY <2>1, ItemKinds DEF Answered, WasAnswered
<1> QED
  BY <1>1, LegsAlways, PTL

LEMMA LiveInit == Init => LiveInv
<1> SUFFICES ASSUME Init PROVE LiveInv
  OBVIOUS
<1>1. DOMAIN stateHandlers = {} /\ dials = <<>> /\ online
  BY DEF Init
<1> QED
  BY <1>1 DEF LiveInv, Ordered, OneCallEach, FirstDial, FrontLive

LEMMA LiveNext == IInv /\ LegsInv /\ LiveInv /\ [Next]_vars => LiveInv'
<1> SUFFICES ASSUME IInv, LegsInv, LiveInv, [Next]_vars PROVE LiveInv'
  OBVIOUS
<1>1. CASE TapiThreads
  BY <1>1, QueuesLive
<1>2. CASE Poll
  BY <1>2, QueuesLive, HandleRequestLive, PollLive DEF Poll
<1>3. CASE ServerCalls
  BY <1>3, ServerCallsLive
<1>4. CASE ServerReplies
  BY <1>4, ServerRepliesLive
<1>5. CASE \E p \in DOMAIN stateHandlers : TimePasses(p)
  BY <1>5, TimePassesLive
<1>6. CASE Disconnect \/ Connect
  BY <1>6, ConnectionLive
<1>7. CASE UNCHANGED vars
  BY <1>7, QueuesLive
<1> QED
  BY <1>1, <1>2, <1>3, <1>4, <1>5, <1>6, <1>7 DEF Next

LEMMA LiveAlways == Spec => []LiveInv
<1>1. Init => LiveInv
  BY LiveInit
<1>2. IInv /\ LegsInv /\ LiveInv /\ [Next]_vars => LiveInv'
  BY LiveNext
<1> QED
  BY <1>1, <1>2, Invariant, LegsAlways, PTL DEF Spec

(* While the connection holds, no call in front of the first one that TAPI  *)
(* dialled, nor this call itself, keeps an item that the server retracted,  *)
(* in whatever order the messages of the other calls arrive.                *)
THEOREM FrontCallsAreLive ==
    Spec => [](disconnects = 0 =>
                  \A p \in DOMAIN stateHandlers :
                      InFront(stateHandlers, dials, p) => NotRetracted(stateHandlers[p], items))
<1>1. LiveInv => (disconnects = 0 =>
                     \A p \in DOMAIN stateHandlers :
                         InFront(stateHandlers, dials, p)
                             => NotRetracted(stateHandlers[p], items))
  BY DEF LiveInv, FrontLive
<1> QED
  BY <1>1, LiveAlways, PTL

(* Until a number is dialled from TAPI, every call that TAPI sees as alive  *)
(* has an item that is not retracted: only a handler of a dialled call      *)
(* takes a retract away from the call that it is for.                       *)
THEOREM LiveUntilDialled == Spec => [](dials = <<>> => LiveCallHasLiveItem)
<1>1. IInv /\ LiveInv => (dials = <<>> => LiveCallHasLiveItem)
  <2> SUFFICES ASSUME IInv, LiveInv, dials = <<>>, disconnects = 0,
                      NEW p \in DOMAIN stateHandlers, stateHandlers[p].branches # <<>>
               PROVE  \E n \in DOMAIN stateHandlers[p].branches :
                         items[stateHandlers[p].branches[n].item] # "retracted"
    BY DEF LiveCallHasLiveItem
  <2>1. NotRetracted(stateHandlers[p], items)
    BY DEF LiveInv, FrontLive, InFront
  <2>2. stateHandlers[p].branches \in Seq(CallStateData)
    BY DEF IInv, MachineInv, Handlers
  <2>3. 1 \in DOMAIN stateHandlers[p].branches
    BY <2>2, LenProperties, EmptySeq
  <2> QED
    BY <2>1, <2>3 DEF NotRetracted
<1> QED
  BY <1>1, Invariant, LiveAlways, PTL
=============================================================================
