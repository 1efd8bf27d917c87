------------------------- MODULE ThreadPool_proofs -------------------------
(***************************************************************************)
(* Proofs about ThreadPool, for any keys, any number of events and any     *)
(* number of threads.  Inv is the type invariant and what relates the      *)
(* threads to the set of keys in work; the rest follows from it.           *)
(***************************************************************************)
EXTENDS ThreadPool, SequenceTheorems, TLAPS

(* Removing one place of a sequence.                                        *)
Removed(s, i) == SubSeq(s, 1, i - 1) \o SubSeq(s, i + 1, Len(s))

LEMMA RemovedSequence ==
    ASSUME NEW S, NEW s \in Seq(S), NEW i \in DOMAIN s
    PROVE  /\ Removed(s, i) \in Seq(S)
           /\ Len(Removed(s, i)) = Len(s) - 1
           /\ \A j \in 1 .. Len(s) - 1 :
                 Removed(s, i)[j] = IF j < i THEN s[j] ELSE s[j + 1]
<1> DEFINE a == SubSeq(s, 1, i - 1)
           b == SubSeq(s, i + 1, Len(s))
<1>1. i \in 1 .. Len(s) /\ Len(s) \in Nat
  OBVIOUS
<1>2. a \in Seq(S) /\ Len(a) = i - 1 /\ \A j \in 1 .. i - 1 : a[j] = s[j]
  BY <1>1
<1>3. b \in Seq(S) /\ Len(b) = Len(s) - i
      /\ \A j \in 1 .. Len(s) - i : b[j] = s[j + i]
  BY <1>1
<1> HIDE DEF a, b
<1>4. a \o b \in Seq(S) /\ Len(a \o b) = Len(s) - 1
  BY <1>1, <1>2, <1>3
<1>5. ASSUME NEW j \in 1 .. Len(s) - 1
      PROVE  (a \o b)[j] = IF j < i THEN s[j] ELSE s[j + 1]
  <2>1. (a \o b)[j] = IF j <= Len(a) THEN a[j] ELSE b[j - Len(a)]
    <3>1. j \in 1 .. Len(a) + Len(b)
      <4>1. Len(a) + Len(b) = Len(s) - 1
        BY <1>1, <1>2, <1>3
      <4> QED
        BY <1>5, <4>1
    <3> QED
      BY <1>2, <1>3, <3>1, ConcatProperties
  <2>2. CASE j < i
    BY <1>1, <1>2, <1>5, <2>1, <2>2
  <2>3. CASE ~(j < i)
    <3>1. j - (i - 1) \in 1 .. Len(s) - i /\ (j - (i - 1)) + i = j + 1 /\ ~(j <= Len(a))
      BY <1>1, <1>2, <1>5, <2>3
    <3> QED
      BY <1>2, <1>3, <2>1, <2>3, <3>1
  <2> QED
    BY <2>2, <2>3
<1>6. Removed(s, i) = a \o b
  BY DEF Removed, a, b
<1> QED BY <1>4, <1>5, <1>6

-----------------------------------------------------------------------------
(* The invariant.                                                           *)

\* A thread that has an event whose key it has put into busy.
HasKey(w) == worker[w].at \in {"found", "running", "finishing"}

NotCreated == \A w \in Workers : w > threads => worker[w].at = "none"

HeldBusy ==
    \A w \in Workers : HasKey(w) => /\ worker[w].event \in Events
                                    /\ Key(worker[w].event) \in busy

KeysApart ==
    \A v, w \in Workers :
        HasKey(v) /\ HasKey(w) /\ Key(worker[v].event) = Key(worker[w].event)
        => v = w

Inv == TypeOK /\ NotCreated /\ HeldBusy /\ KeysApart

WorkerTypes == [at : Places, event : Events \cup {None}]

LEMMA InvInit == Init => Inv
<1>. SUFFICES ASSUME Init PROVE Inv
  OBVIOUS
<1>1. worker \in [Workers -> WorkerTypes]
  BY DEF Init, WorkerTypes, Places
<1>2. threads \in 0 .. MaxThreads
  BY PoolAssumption DEF Init
<1>8. list \in Seq(Events) /\ adder \in [at : {"idle", "spawn", "signal"}, size : Nat]
  BY DEF Init
<1>5. running \in Int /\ failures \in Nat
  BY DEF Init
<1>6. signal \in BOOLEAN /\ stop \in BOOLEAN
  BY Zenon DEF Init
<1>7. busy \subseteq Keys /\ deleted \subseteq Events /\ leaked \subseteq Events
  BY Zenon DEF Init
<1>3. TypeOK
  BY <1>1, <1>2, <1>5, <1>6, <1>7, <1>8 DEF TypeOK, WorkerTypes
<1>4. \A w \in Workers : worker[w].at = "none"
  BY DEF Init
<1>. QED
  BY <1>3, <1>4 DEF Inv, NotCreated, HeldBusy, KeysApart, HasKey

\* The events of the keys, whatever the numbers.
LEMMA KeyType == ASSUME NEW e \in Events PROVE Key(e) \in Keys
  BY DEF Events, Key

LEMMA AddInv ==
    ASSUME Inv, NEW e \in Events, Add(e)
    PROVE  Inv'
<1>1. list' \in Seq(Events)
  BY DEF Add, Inv, TypeOK
<1>2. Len(list) + 1 \in Nat
  BY DEF Inv, TypeOK
<1>3. adder' \in [at : {"idle", "spawn", "signal"}, size : Nat]
  BY <1>2 DEF Add
<1>4. TypeOK'
  BY <1>1, <1>3 DEF Add, Inv, TypeOK
<1>. QED
  BY <1>4 DEF Add, Inv, NotCreated, HeldBusy, KeysApart, HasKey

\* The new thread is one that was not created before.
LEMMA SpawnInv ==
    ASSUME Inv, SpawnWorkerThread
    PROVE  Inv' /\ worker[threads + 1].at = "none" /\ threads + 1 \in Workers
<1>1. threads + 1 \in Workers /\ threads \in Nat
  BY PoolAssumption
  DEF SpawnWorkerThread, CheckForThreadCreate, Inv, TypeOK, Workers
<1>2. worker[threads + 1].at = "none"
  BY <1>1 DEF Inv, NotCreated, Workers
<1>3. worker' \in [Workers -> WorkerTypes]
  BY <1>1 DEF SpawnWorkerThread, Inv, TypeOK, Places, WorkerTypes
<1>4. threads' \in 0 .. MaxThreads
  BY <1>1, PoolAssumption DEF SpawnWorkerThread, Workers
<1>5. TypeOK'
  BY <1>3, <1>4 DEF SpawnWorkerThread, Inv, TypeOK, WorkerTypes
<1>6. NotCreated'
  BY <1>1 DEF SpawnWorkerThread, Inv, TypeOK, NotCreated, Workers
<1>7. ASSUME NEW w \in Workers, HasKey(w)'
      PROVE  HasKey(w) /\ worker'[w] = worker[w]
  BY <1>1, <1>7 DEF SpawnWorkerThread, Inv, TypeOK, HasKey
<1>8. HeldBusy' /\ KeysApart'
  BY <1>7 DEF SpawnWorkerThread, Inv, HeldBusy, KeysApart
<1>. QED
  BY <1>1, <1>2, <1>5, <1>6, <1>8 DEF Inv

(* A thread that moves to a place where it has no new event, and frees no   *)
(* key of another.                                                          *)
LEMMA MovesInv ==
    ASSUME Inv, NEW w \in Workers, NEW place \in Places, Moves(w, place),
           place \in {"found", "running", "finishing"} => HasKey(w),
           worker[w].at # "none",
           UNCHANGED <<list, threads, adder, stop>>,
           busy' = busy, signal' \in BOOLEAN, running' \in Int, failures' \in Nat,
           deleted' \subseteq Events, leaked' \subseteq Events
    PROVE  Inv'
<1>1. worker' \in [Workers -> WorkerTypes]
  BY DEF Moves, Inv, TypeOK, WorkerTypes
<1>2. TypeOK'
  BY <1>1 DEF Inv, TypeOK, WorkerTypes
<1>3. NotCreated'
  BY DEF Moves, Inv, TypeOK, NotCreated
<1>4. ASSUME NEW v \in Workers, HasKey(v)'
      PROVE  HasKey(v) /\ worker'[v].event = worker[v].event
  BY <1>4 DEF Moves, Inv, TypeOK, HasKey
<1>5. HeldBusy' /\ KeysApart'
  BY <1>4 DEF Inv, HeldBusy, KeysApart
<1>. QED
  BY <1>2, <1>3, <1>5 DEF Inv

LEMMA FindRequestInv ==
    ASSUME Inv, NEW w \in Workers, FindRequest(w)
    PROVE  Inv'
<1>1. PICK i \in DOMAIN list :
         /\ CanRun(list[i])
         /\ busy' = busy \cup {Key(list[i])}
         /\ worker' = [worker EXCEPT ![w] = [at |-> "found", event |-> list[i]]]
         /\ list' = RemoveFromList(i)
  BY DEF FindRequest
<1>2. list[i] \in Events /\ Key(list[i]) \in Keys
  BY KeyType DEF Inv, TypeOK
<1>3. list' \in Seq(Events)
  BY <1>1, RemovedSequence DEF Inv, TypeOK, RemoveFromList, Removed
<1>4. worker' \in [Workers -> WorkerTypes]
  BY <1>1, <1>2 DEF Inv, TypeOK, Places, WorkerTypes
<1>5. busy' \subseteq Keys
  BY <1>1, <1>2 DEF Inv, TypeOK
<1>6. signal' \in BOOLEAN
  BY DEF FindRequest, Inv, TypeOK
<1>7. TypeOK'
  BY <1>3, <1>4, <1>5, <1>6 DEF FindRequest, Inv, TypeOK, WorkerTypes
<1>8. NotCreated'
  BY <1>1 DEF FindRequest, Inv, TypeOK, NotCreated
<1>9. worker'[w].event = list[i] /\ \A v \in Workers \ {w} : worker'[v] = worker[v]
  BY <1>1 DEF Inv, TypeOK
<1>10. HeldBusy'
  BY <1>1, <1>2, <1>9 DEF Inv, HeldBusy, HasKey
<1>11. \A v \in Workers \ {w} : HasKey(v)' => Key(worker'[v].event) # Key(list[i])
  BY <1>1, <1>9 DEF Inv, HeldBusy, HasKey, CanRun
<1>12. KeysApart'
  BY <1>9, <1>11 DEF Inv, KeysApart, HasKey
<1>. QED
  BY <1>7, <1>8, <1>10, <1>12 DEF Inv

LEMMA ReleaseInv ==
    ASSUME Inv, NEW w \in Workers, Release(w)
    PROVE  Inv'
<1>1. worker' \in [Workers -> WorkerTypes]
  BY DEF Release, Moves, Inv, TypeOK, Places, WorkerTypes
<1>2. TypeOK'
  BY <1>1 DEF Release, Inv, TypeOK, WorkerTypes
<1>3. NotCreated'
  BY DEF Release, Moves, Inv, TypeOK, NotCreated
<1>4. ASSUME NEW v \in Workers, HasKey(v)'
      PROVE  HasKey(v) /\ v # w /\ worker'[v] = worker[v]
  BY <1>4 DEF Release, Moves, Inv, TypeOK, HasKey
<1>5. HasKey(w)
  BY DEF Release, HasKey
<1>6. HeldBusy'
  BY <1>4, <1>5 DEF Release, Inv, HeldBusy, KeysApart
<1>7. KeysApart'
  BY <1>4 DEF Inv, KeysApart
<1>. QED
  BY <1>2, <1>3, <1>6, <1>7 DEF Inv

LEMMA LeaveInv ==
    ASSUME Inv, NEW w \in Workers, Leave(w)
    PROVE  Inv'
<1>1. worker' \in [Workers -> WorkerTypes]
  BY DEF Leave, Inv, TypeOK, Places, WorkerTypes
<1>2. TypeOK'
  BY <1>1 DEF Leave, Inv, TypeOK, WorkerTypes
<1>3. NotCreated'
  BY DEF Leave, Inv, TypeOK, NotCreated
<1>4. ASSUME NEW v \in Workers, HasKey(v)'
      PROVE  HasKey(v) /\ worker'[v] = worker[v]
  BY <1>4 DEF Leave, Inv, TypeOK, HasKey
<1>5. HeldBusy' /\ KeysApart'
  BY <1>4 DEF Leave, Inv, HeldBusy, KeysApart
<1>. QED
  BY <1>2, <1>3, <1>5 DEF Inv

LEMMA WorkerInv ==
    ASSUME Inv, NEW w \in Workers, WorkerStep(w)
    PROVE  Inv'
<1>. USE DEF HasKey, Places
<1>1. CASE LookForMore(w)
  BY <1>1, MovesInv DEF LookForMore, Inv, TypeOK
<1>2. CASE Wake(w)
  BY <1>2, MovesInv DEF Wake, Inv, TypeOK
<1>3. CASE End(w)
  BY <1>3, MovesInv DEF End, Inv, TypeOK
<1>4. CASE FindRequest(w)
  BY <1>4, FindRequestInv
<1>5. CASE FindNothing(w)
  BY <1>5, MovesInv DEF FindNothing, Inv, TypeOK
<1>6. CASE Start(w)
  BY <1>6, MovesInv DEF Start, Inv, TypeOK
<1>7. CASE Handle(w)
  <2>1. worker[w].event \in Events
    BY <1>7 DEF Handle, Inv, HeldBusy
  <2>2. deleted' \subseteq Events /\ leaked' \subseteq Events
    BY <1>7, <2>1 DEF Handle, Inv, TypeOK
  <2>. QED
    BY <1>7, <2>2, MovesInv DEF Handle, Inv, TypeOK
<1>8. CASE Release(w)
  BY <1>8, ReleaseInv
<1>9. CASE Leave(w)
  BY <1>9, LeaveInv
<1>. QED
  BY <1>1, <1>2, <1>3, <1>4, <1>5, <1>6, <1>7, <1>8, <1>9 DEF WorkerStep

LEMMA DestroyInv ==
    ASSUME Inv, Destroy
    PROVE  Inv'
<1>1. list' \in Seq(Events) /\ deleted' \subseteq Events
  BY DEF Destroy, Inv, TypeOK
<1>2. TypeOK'
  BY <1>1 DEF Destroy, Inv, TypeOK
<1>. QED
  BY <1>2 DEF Destroy, Inv, NotCreated, HeldBusy, KeysApart, HasKey

LEMMA InvNext == Inv /\ [Next]_vars => Inv'
<1>. SUFFICES ASSUME Inv, [Next]_vars PROVE Inv'
  OBVIOUS
<1>. USE DEF NotCreated, HeldBusy, KeysApart, HasKey
<1>1. CASE \E e \in Events : Add(e)
  BY <1>1, AddInv
<1>2. CASE SpawnWorkerThread
  BY <1>2, SpawnInv
<1>3. CASE NoNewThread
  BY <1>3 DEF NoNewThread, Inv, TypeOK
<1>4. CASE SignalAdded
  BY <1>4 DEF SignalAdded, Inv, TypeOK
<1>5. CASE \E w \in Workers : WorkerStep(w)
  BY <1>5, WorkerInv
<1>6. CASE Shutdown
  BY <1>6 DEF Shutdown, Inv, TypeOK
<1>7. CASE Destroy
  BY <1>7, DestroyInv
<1>8. CASE UNCHANGED vars
  BY <1>8 DEF vars, Inv, TypeOK
<1>. QED
  BY <1>1, <1>2, <1>3, <1>4, <1>5, <1>6, <1>7, <1>8 DEF Next, AdderStep

LEMMA InvAlways == Spec => []Inv
  BY InvInit, InvNext, PTL DEF Spec

(* The pool never has more than MaxThreads threads, and every event is one  *)
(* that the connection thread may add.                                      *)
THEOREM TypeCorrect == Spec => []TypeOK
<1>1. Inv => TypeOK
  BY DEF Inv
<1>. QED
  BY <1>1, InvAlways, PTL

-----------------------------------------------------------------------------
(* No lost wake-up.  Where a thread is decides; a step that makes an event  *)
(* run-able leaves a thread on its way to set the event or to search.       *)

\* A thread that will set the event or search.
Alert(w) == worker[w].at \in {"searching", "leaving", "start"}

LEMMA WakeupInit == Init => NoLostWakeup
  BY DEF Init, NoLostWakeup

LEMMA WakeupNext == Inv /\ NoLostWakeup /\ [Next]_vars => NoLostWakeup'
<1>. SUFFICES ASSUME Inv, NoLostWakeup, [Next]_vars PROVE NoLostWakeup'
  OBVIOUS
<1>. DEFINE Runs == \E i \in DOMAIN list : CanRun(list[i])
<1>0. Runs => signal \/ stop \/ adder.at # "idle" \/ \E w \in Workers : Alert(w)
  BY DEF NoLostWakeup, Alert
<1>00. NoLostWakeup' <=>
          (Runs' => (signal' \/ stop' \/ adder'.at # "idle" \/ \E w \in Workers : Alert(w)'))
  BY DEF NoLostWakeup, Alert
\* The thread w is alert after its step.
<1>a. ASSUME NEW w \in Workers, worker'[w].at \in {"searching", "leaving", "start"}
      PROVE  NoLostWakeup'
  BY <1>a DEF NoLostWakeup
\* A thread that was not alert has moved, and nothing else.
<1>b. ASSUME NEW w \in Workers, NEW place \in Places, Moves(w, place), ~Alert(w),
             UNCHANGED <<list, busy, signal, adder, stop>>
      PROVE  NoLostWakeup'
  <2>1. Runs' => Runs
    BY <1>b DEF CanRun
  <2>2. \A v \in Workers : Alert(v) => Alert(v)'
    BY <1>b DEF Moves, Inv, TypeOK, Alert
  <2>. QED
    BY <1>0, <1>00, <1>b, <2>1, <2>2
<1>1. CASE \E e \in Events : Add(e)
  BY <1>1 DEF Add, NoLostWakeup
<1>2. CASE SpawnWorkerThread
  <2>1. adder'.at = "signal"
    BY <1>2 DEF SpawnWorkerThread, Inv, TypeOK
  <2>. QED
    BY <2>1 DEF NoLostWakeup
<1>3. CASE NoNewThread
  <2>1. adder'.at = "signal"
    BY <1>3 DEF NoNewThread, Inv, TypeOK
  <2>. QED
    BY <2>1 DEF NoLostWakeup
<1>4. CASE SignalAdded
  BY <1>4 DEF SignalAdded, NoLostWakeup
<1>5. ASSUME NEW w \in Workers, WorkerStep(w) PROVE NoLostWakeup'
  <2>1. CASE LookForMore(w)
    <3>1. list # <<>> => signal'
      BY <2>1 DEF LookForMore, Inv, TypeOK
    <3>2. Runs' => list # <<>>
      BY <2>1 DEF LookForMore
    <3>. QED
      BY <1>00, <3>1, <3>2
  <2>2. CASE Wake(w)
    BY <1>a, <2>2 DEF Wake, Moves, Inv, TypeOK
  <2>3. CASE End(w)
    BY <2>3 DEF End, NoLostWakeup
  <2>4. CASE FindRequest(w)
    <3>1. list' # <<>> => signal'
      BY <2>4 DEF FindRequest, Inv, TypeOK
    <3>2. Runs' => list' # <<>>
      OBVIOUS
    <3>. QED
      BY <1>00, <3>1, <3>2
  <2>5. CASE FindNothing(w)
    <3>1. ~Runs'
      BY <2>5 DEF FindNothing, CanRun
    <3>. QED
      BY <1>00, <3>1
  <2>6. CASE Start(w)
    BY <1>b, <2>6 DEF Start, Alert, Places
  <2>7. CASE Handle(w)
    BY <1>b, <2>7 DEF Handle, Alert, Places
  <2>8. CASE Release(w)
    BY <1>a, <2>8 DEF Release, Moves, Inv, TypeOK
  <2>9. CASE Leave(w)
    BY <1>a, <2>9 DEF Leave, Inv, TypeOK
  <2>. QED
    BY <1>5, <2>1, <2>2, <2>3, <2>4, <2>5, <2>6, <2>7, <2>8, <2>9 DEF WorkerStep
<1>6. CASE Shutdown
  BY <1>6 DEF Shutdown, NoLostWakeup
<1>7. CASE Destroy
  BY <1>7 DEF Destroy, NoLostWakeup
<1>8. CASE UNCHANGED vars
  BY <1>8 DEF vars, NoLostWakeup, CanRun
<1>. QED
  BY <1>1, <1>2, <1>3, <1>4, <1>5, <1>6, <1>7, <1>8 DEF Next, AdderStep

(* No wake-up is lost: whatever the events, the keys and the number of      *)
(* threads, an event that can run is never left with all threads asleep.    *)
THEOREM WakeupKept == Spec => []NoLostWakeup
  BY WakeupInit, WakeupNext, InvAlways, PTL DEF Spec

-----------------------------------------------------------------------------
(* Where the events are.                                                    *)

\* A thread that has an event that is not gone.
Has(w) == worker[w].at \in {"found", "running"}

Listed == {list[i] : i \in DOMAIN list}

Gone == deleted \cup leaked

LEMMA HeldIs == \A e : e \in Held <=> \E w \in Workers : Has(w) /\ worker[w].event = e
  BY DEF Held, Has

LEMMA HeldIsNext ==
    \A e : e \in Held' <=> \E w \in Workers : Has(w)' /\ worker'[w].event = e
  BY DEF Held, Has

\* If no thread takes or gives back an event, they hold what they held.
LEMMA HeldSame ==
    ASSUME \A w \in Workers : /\ Has(w)' <=> Has(w)
                              /\ Has(w) => worker'[w].event = worker[w].event
    PROVE  Held' = Held
<1>1. \A e : e \in Held' <=> e \in Held
  BY HeldIs, HeldIsNext
<1>. QED
  BY <1>1

\* The steps that no event takes part in.
Quiet ==
    \/ AdderStep \/ Shutdown
    \/ \E w \in Workers :
          \/ LookForMore(w) \/ Wake(w) \/ End(w) \/ FindNothing(w)
          \/ Start(w) \/ Release(w) \/ Leave(w)

LEMMA QuietSteps ==
    ASSUME Inv, Quiet
    PROVE  UNCHANGED <<list, Held, deleted, leaked>>
<1>1. CASE SpawnWorkerThread
  <2>1. threads + 1 \in Workers /\ worker[threads + 1].at = "none"
    BY <1>1, SpawnInv
  <2>2. Held' = Held
    BY <1>1, <2>1, HeldSame DEF SpawnWorkerThread, Inv, TypeOK, Has
  <2>. QED
    BY <1>1, <2>2 DEF SpawnWorkerThread
<1>2. CASE NoNewThread \/ SignalAdded \/ Shutdown
  <2>1. Held' = Held
    BY <1>2 DEF NoNewThread, SignalAdded, Shutdown, Held
  <2>. QED
    BY <1>2, <2>1 DEF NoNewThread, SignalAdded, Shutdown
<1>3. ASSUME NEW w \in Workers,
             LookForMore(w) \/ Wake(w) \/ End(w) \/ FindNothing(w) \/ Start(w) \/ Release(w)
      PROVE  UNCHANGED <<list, Held, deleted, leaked>>
  <2>1. PICK place \in Places : /\ Moves(w, place)
                                /\ place \in {"found", "running"} <=> Has(w)
    BY <1>3
    DEF LookForMore, Wake, End, FindNothing, Start, Release, Has, Places
  <2>2. Held' = Held
    BY <2>1, HeldSame DEF Moves, Inv, TypeOK, Has
  <2>. QED
    BY <1>3, <2>2 DEF LookForMore, Wake, End, FindNothing, Start, Release
<1>4. ASSUME NEW w \in Workers, Leave(w)
      PROVE  UNCHANGED <<list, Held, deleted, leaked>>
  <2>1. Held' = Held
    BY <1>4, HeldSame DEF Leave, Inv, TypeOK, Has
  <2>. QED
    BY <1>4, <2>1 DEF Leave
<1>. QED
  BY <1>1, <1>2, <1>3, <1>4 DEF Quiet, AdderStep

\* A thread takes an event that can run from the list.
LEMMA FindRequestStep ==
    ASSUME Inv, NEW w \in Workers, FindRequest(w)
    PROVE  \E i \in DOMAIN list :
              /\ CanRun(list[i]) /\ \A j \in 1 .. i - 1 : ~CanRun(list[j])
              /\ list' = RemoveFromList(i)
              /\ Held' = Held \cup {list[i]}
              /\ UNCHANGED <<deleted, leaked>>
<1>1. PICK i \in DOMAIN list :
         /\ CanRun(list[i]) /\ \A j \in 1 .. i - 1 : ~CanRun(list[j])
         /\ worker' = [worker EXCEPT ![w] = [at |-> "found", event |-> list[i]]]
         /\ list' = RemoveFromList(i)
  BY DEF FindRequest
<1>2. Has(w)' /\ ~Has(w) /\ worker'[w].event = list[i]
  BY <1>1 DEF FindRequest, Has, Inv, TypeOK
<1>3. \A v \in Workers \ {w} : worker'[v] = worker[v] /\ (Has(v)' <=> Has(v))
  BY <1>1 DEF Has, Inv, TypeOK
<1>4. \A e : e \in Held' <=> e \in Held \cup {list[i]}
  BY <1>2, <1>3, HeldIs, HeldIsNext
<1>5. Held' = Held \cup {list[i]}
  BY <1>4
<1>. QED
  BY <1>1, <1>5 DEF FindRequest

\* A thread has handled its event, which no other thread has.
LEMMA HandleStep ==
    ASSUME Inv, NEW w \in Workers, Handle(w)
    PROVE  \E e \in Held :
              /\ Held' = Held \ {e} /\ list' = list
              /\ \/ deleted' = deleted \cup {e} /\ UNCHANGED leaked
                 \/ leaked' = leaked \cup {e} /\ UNCHANGED deleted
<1>. DEFINE e == worker[w].event
<1>1. Has(w) /\ ~Has(w)'
  BY DEF Handle, Moves, Has, Inv, TypeOK
<1>2. e \in Held
  BY <1>1, HeldIs
<1>3. \A v \in Workers \ {w} : worker'[v] = worker[v] /\ (Has(v)' <=> Has(v))
  BY DEF Handle, Moves, Has, Inv, TypeOK
<1>4. \A v \in Workers \ {w} : Has(v) => worker[v].event # e
  BY <1>1 DEF Inv, KeysApart, Has, HasKey
<1>5. \A x : x \in Held' <=> x \in Held \ {e}
  BY <1>1, <1>3, <1>4, HeldIs, HeldIsNext
<1>6. Held' = Held \ {e}
  BY <1>5
<1>. QED
  BY <1>2, <1>6 DEF Handle

-----------------------------------------------------------------------------
(* No event is lost or handled twice.                                       *)

\* The part of EachEventOnce that does not follow from Inv.
Once ==
    /\ \A i, j \in DOMAIN list : list[i] = list[j] => i = j
    /\ Listed \cap Held = {}
    /\ (Listed \cup Held) \cap Gone = {}
    /\ deleted \cap leaked = {}

LEMMA OnceIsEnough == Inv /\ Once => EachEventOnce
  BY DEF Inv, KeysApart, HasKey, Once, EachEventOnce, Present, Listed, Gone

LEMMA OnceInit == Init => Once
<1>. SUFFICES ASSUME Init PROVE Once
  OBVIOUS
<1>1. Held = {} /\ list = <<>> /\ DOMAIN list = {}
  BY DEF Init, Held
<1>. QED
  BY <1>1 DEF Init, Once, Listed, Gone

LEMMA OnceQuiet ==
    ASSUME Once, UNCHANGED <<list, Held, deleted, leaked>>
    PROVE  Once'
<1>1. Listed' = Listed /\ Gone' = Gone
  BY DEF Listed, Gone
<1>. QED
  BY <1>1 DEF Once

LEMMA OnceNext == Inv /\ Once /\ [Next]_vars => Once'
<1>. SUFFICES ASSUME Inv, Once, [Next]_vars PROVE Once'
  OBVIOUS
<1>1. ASSUME NEW e \in Events, Add(e) PROVE Once'
  <2>1. Held' = Held /\ Gone' = Gone /\ UNCHANGED <<deleted, leaked>>
    BY <1>1 DEF Add, Held, Gone
  <2>2. e \notin Listed \cup Held \cup Gone
    BY <1>1 DEF Add, Present, Listed, Gone
  <2>3. /\ Len(list') = Len(list) + 1 /\ Len(list) \in Nat
        /\ DOMAIN list' = 1 .. Len(list) + 1 /\ DOMAIN list = 1 .. Len(list)
        /\ list'[Len(list) + 1] = e /\ \A i \in DOMAIN list : list'[i] = list[i]
    BY <1>1 DEF Add, Inv, TypeOK
  <2>4. Listed' = Listed \cup {e}
    BY <2>3 DEF Listed
  <2>5. \A i, j \in DOMAIN list' : list'[i] = list'[j] => i = j
    BY <2>2, <2>3 DEF Listed, Once
  <2>. QED
    BY <2>1, <2>2, <2>4, <2>5 DEF Once
<1>2. ASSUME NEW w \in Workers, FindRequest(w) PROVE Once'
  <2>1. PICK i \in DOMAIN list :
           /\ list' = RemoveFromList(i) /\ Held' = Held \cup {list[i]}
           /\ UNCHANGED <<deleted, leaked>>
    BY <1>2, FindRequestStep
  <2>2. /\ Len(list) \in Nat /\ DOMAIN list = 1 .. Len(list)
        /\ DOMAIN list' = 1 .. Len(list) - 1
        /\ \A j \in 1 .. Len(list) - 1 :
              list'[j] = IF j < i THEN list[j] ELSE list[j + 1]
    <3>1. list' = Removed(list, i)
      BY <2>1 DEF RemoveFromList, Removed
    <3>2. list \in Seq(Events)
      BY DEF Inv, TypeOK
    <3>3. /\ Removed(list, i) \in Seq(Events)
          /\ Len(Removed(list, i)) = Len(list) - 1
          /\ \A j \in 1 .. Len(list) - 1 :
                Removed(list, i)[j] = IF j < i THEN list[j] ELSE list[j + 1]
      BY <3>2, RemovedSequence
    <3>. QED
      BY <3>1, <3>2, <3>3
  <2>3. \A j \in DOMAIN list' : \E k \in DOMAIN list : k # i /\ list'[j] = list[k]
    BY <2>2
  <2>4. Listed' \subseteq Listed /\ list[i] \in Listed /\ list[i] \notin Listed'
    BY <2>3 DEF Listed, Once
  <2>5. \A j, k \in DOMAIN list' : list'[j] = list'[k] => j = k
    <3>. SUFFICES ASSUME NEW j \in DOMAIN list', NEW k \in DOMAIN list',
                         list'[j] = list'[k]
                  PROVE  j = k
      OBVIOUS
    <3>. DEFINE at(n) == IF n < i THEN n ELSE n + 1
    <3>1. at(j) \in DOMAIN list /\ list[at(j)] = list'[j]
      BY <2>2
    <3>2. at(k) \in DOMAIN list /\ list[at(k)] = list'[k]
      BY <2>2
    <3>3. at(j) = at(k)
      BY <3>1, <3>2 DEF Once
    <3>. QED
      BY <3>3, <2>2
  <2>6. Gone' = Gone
    BY <2>1 DEF Gone
  <2>. QED
    BY <2>1, <2>4, <2>5, <2>6 DEF Once
<1>3. ASSUME NEW w \in Workers, Handle(w) PROVE Once'
  <2>1. PICK e \in Held :
           /\ Held' = Held \ {e} /\ list' = list
           /\ \/ deleted' = deleted \cup {e} /\ UNCHANGED leaked
              \/ leaked' = leaked \cup {e} /\ UNCHANGED deleted
    BY <1>3, HandleStep
  <2>2. Listed' = Listed /\ Gone' = Gone \cup {e}
    BY <2>1 DEF Listed, Gone
  <2>3. e \notin Gone /\ e \notin Listed
    BY DEF Once
  <2>4. deleted' \cap leaked' = {}
    BY <2>1, <2>3 DEF Once, Gone
  <2>. QED
    BY <2>1, <2>2, <2>3, <2>4 DEF Once
<1>4. CASE Destroy
  <2>1. Held' = Held /\ list' = <<>> /\ DOMAIN list' = {}
    BY <1>4 DEF Destroy, Held
  <2>2. Held = {}
    BY <1>4 DEF Destroy, Held
  <2>3. deleted' = deleted \cup Listed /\ leaked' = leaked /\ Listed' = {}
    BY <1>4, <2>1 DEF Destroy, Listed
  <2>4. deleted' \cap leaked' = {}
    BY <2>3 DEF Once, Gone
  <2>. QED
    BY <2>1, <2>2, <2>3, <2>4 DEF Once
<1>5. CASE Quiet
  BY <1>5, QuietSteps, OnceQuiet
<1>6. CASE UNCHANGED vars
  <2>1. Held' = Held
    BY <1>6 DEF vars, Held
  <2>. QED
    BY <1>6, <2>1, OnceQuiet DEF vars
<1>. QED
  BY <1>1, <1>2, <1>3, <1>4, <1>5, <1>6 DEF Next, WorkerStep, Quiet

(* No event is lost in the pool, handled twice or deleted twice, for any    *)
(* number of threads.                                                       *)
THEOREM EventsKept == Spec => []EachEventOnce
<1>1. Spec => []Once
  BY OnceInit, OnceNext, InvAlways, PTL DEF Spec
<1>. QED
  BY <1>1, InvAlways, OnceIsEnough, PTL

-----------------------------------------------------------------------------
(* The pool implements KeyedQueue.                                          *)

LEMMA QueueStarts == Init => Queue!QueueInit
<1>. SUFFICES ASSUME Init PROVE Queue!QueueInit
  OBVIOUS
<1>1. Held = {}
  BY DEF Init, Held
<1>. QED
  BY <1>1 DEF Init, Queue!QueueInit

LEMMA QueueSteps ==
    Inv /\ [Next]_vars => [Queue!QueueNext]_(Queue!queueVars)
<1>. SUFFICES ASSUME Inv, [Next]_vars
              PROVE  [Queue!QueueNext]_(Queue!queueVars)
  OBVIOUS
<1>. USE DEF Queue!QueueNext, Queue!queueVars
<1>1. ASSUME NEW e \in Events, Add(e) PROVE Queue!Arrive
  <2>1. Held' = Held /\ UNCHANGED <<deleted, leaked>>
    BY <1>1 DEF Add, Held
  <2>2. e \in Queue!Events \ (Held \cup (deleted \cup leaked))
    BY <1>1 DEF Add, Present, Events, Queue!Events
  <2>3. \A i \in DOMAIN list : list[i] # e
    BY <1>1 DEF Add, Present
  <2>4. list' = Append(list, e)
    BY <1>1 DEF Add
  <2>. QED
    BY <2>1, <2>2, <2>3, <2>4 DEF Queue!Arrive
<1>2. ASSUME NEW w \in Workers, FindRequest(w) PROVE Queue!Take
  <2>1. PICK i \in DOMAIN list :
           /\ CanRun(list[i]) /\ \A j \in 1 .. i - 1 : ~CanRun(list[j])
           /\ list' = RemoveFromList(i) /\ Held' = Held \cup {list[i]}
           /\ UNCHANGED <<deleted, leaked>>
    BY <1>2, FindRequestStep
  <2>2. \A j \in 1 .. i - 1 : Queue!Key(list[j]) # Queue!Key(list[i])
    BY <2>1 DEF CanRun, Key, Queue!Key
  <2>3. \A e \in Held : Key(e) \in busy
    BY HeldIs DEF Inv, HeldBusy, HasKey, Has
  <2>4. \A e \in Held : Queue!Key(e) # Queue!Key(list[i])
    BY <2>1, <2>3 DEF CanRun, Key, Queue!Key
  <2>. QED
    BY <2>1, <2>2, <2>4 DEF Queue!Take, RemoveFromList
<1>3. ASSUME NEW w \in Workers, Handle(w) PROVE Queue!Complete
  <2>1. PICK e \in Held :
           /\ Held' = Held \ {e} /\ list' = list
           /\ \/ deleted' = deleted \cup {e} /\ UNCHANGED leaked
              \/ leaked' = leaked \cup {e} /\ UNCHANGED deleted
    BY <1>3, HandleStep
  <2>2. deleted' \cup leaked' = (deleted \cup leaked) \cup {e}
    BY <2>1
  <2>. QED
    BY <2>1, <2>2 DEF Queue!Complete
<1>4. CASE Destroy
  <2>1. Held' = Held /\ Held = {}
    BY <1>4 DEF Destroy, Held
  <2>2. deleted' \cup leaked' = (deleted \cup leaked) \cup {list[i] : i \in DOMAIN list}
    BY <1>4 DEF Destroy
  <2>3. list' = <<>>
    BY <1>4 DEF Destroy
  <2>4. Queue!ThrowAway
    BY <2>1, <2>2, <2>3 DEF Queue!ThrowAway
  <2>. QED
    BY <2>4
<1>5. CASE Quiet
  BY <1>5, QuietSteps
<1>6. CASE UNCHANGED vars
  BY <1>6 DEF vars, Held
<1>. QED
  BY <1>1, <1>2, <1>3, <1>4, <1>5, <1>6 DEF Next, WorkerStep, Quiet

(* The pool keeps the promise of KeyedQueue: events with one key are        *)
(* handled one after the other in the order in which they were added.       *)
THEOREM Implementation == Spec => ImplementsQueue
  BY QueueStarts, QueueSteps, InvAlways, PTL
  DEF Spec, ImplementsQueue, Queue!QueueSpec
=============================================================================
