----------------------------- MODULE ThreadPool -----------------------------
(***************************************************************************)
(* CThreadPoolMgr of TSP++ (PoolMgr.h), which hands the events of the      *)
(* device to the line: a list of events, the set of keys in work, an       *)
(* auto-reset event that wakes one thread, and worker threads that are     *)
(* created as the list grows.  The connection thread adds the events.      *)
(* A definition marked "Mutation" is no part of the model.                 *)
(***************************************************************************)
EXTENDS Integers, Sequences, FiniteSets

CONSTANTS
    Keys,           \* the keys of events
    Numbers,        \* bound: the events of one key
    MaxThreads,     \* m_iMaxThreadCount
    MaxFailures     \* bound: threads that cannot be created

VARIABLES
    list,       \* m_lstRequests
    busy,       \* m_mapRunning: its keys, whose count is always 1
    signal,     \* m_evtRequest is set
    worker,     \* where each worker thread is, and the event it has
    threads,    \* m_iWorkerThreads
    running,    \* m_lRunningThreads
    adder,      \* where the connection thread is in Add, and iSize there
    failures,   \* how many threads could not be created
    stop,       \* the shutdown event of the provider is set
    deleted,    \* the events that were deleted (TPM_DelEvent)
    leaked      \* the events whose handling raised an exception

vars == <<list, busy, signal, worker, threads, running, adder, failures,
          stop, deleted, leaked>>

Workers == 1 .. MaxThreads

ASSUME PoolAssumption == MaxThreads \in Nat \ {0} /\ MaxFailures \in Nat

Held == {worker[w].event : w \in {v \in Workers :
                                     worker[v].at \in {"found", "running"}}}

Queue == INSTANCE KeyedQueue
            WITH waiting <- list, current <- Held, over <- deleted \cup leaked

Events == Keys \X Numbers
Key(e) == e[1]

\* m_mapRunning and a thread have no event.
None == <<>>

Places == {"none", "start", "waiting", "searching", "found", "running",
           "finishing", "leaving", "ended"}

Init ==
    /\ list = <<>> /\ busy = {} /\ signal = FALSE
    /\ worker = [w \in Workers |-> [at |-> "none", event |-> None]]
    /\ threads = 0 /\ running = 0
    /\ adder = [at |-> "idle", size |-> 0] /\ failures = 0
    /\ stop = FALSE /\ deleted = {} /\ leaked = {}

-----------------------------------------------------------------------------
(* The connection thread.                                                   *)

\* The events that were added and are not gone.
Present == {list[i] : i \in DOMAIN list} \cup Held

\* Add, in the critical section.
Add(e) ==
    /\ adder.at = "idle" /\ ~stop
    /\ e \notin Present \cup deleted \cup leaked
    /\ list' = Append(list, e)
    /\ adder' = [at |-> "spawn", size |-> Len(list) + 1]
    /\ UNCHANGED <<busy, signal, worker, threads, running, failures, stop,
                   deleted, leaked>>

CreationThreshold == 2

\* Mutation: one thread too many.
CheckTooLate ==
    \/ threads = 0
    \/ /\ adder.size > CreationThreshold /\ threads <= running + 1
       /\ threads <= MaxThreads

CheckForThreadCreate ==
    \/ threads = 0
    \/ /\ adder.size > CreationThreshold /\ threads <= running + 1
       /\ threads < MaxThreads

SpawnWorkerThread ==
    /\ adder.at = "spawn" /\ CheckForThreadCreate
    /\ worker' = [worker EXCEPT ![threads + 1].at = "start"]
    /\ threads' = threads + 1
    /\ adder' = [adder EXCEPT !.at = "signal"]
    /\ UNCHANGED <<list, busy, signal, running, failures, stop, deleted, leaked>>

\* A thread is not needed, or it cannot be created.
NoNewThread ==
    /\ adder.at = "spawn"
    /\ CheckForThreadCreate => failures < MaxFailures
    /\ failures' = IF CheckForThreadCreate THEN failures + 1 ELSE failures
    /\ adder' = [adder EXCEPT !.at = "signal"]
    /\ UNCHANGED <<list, busy, signal, worker, threads, running, stop,
                   deleted, leaked>>

\* The end of Add.
SignalAdded ==
    /\ adder.at = "signal" /\ signal' = TRUE
    /\ adder' = [at |-> "idle", size |-> 0]
    /\ UNCHANGED <<list, busy, worker, threads, running, failures, stop,
                   deleted, leaked>>

-----------------------------------------------------------------------------
(* A worker thread: Runner and GetNextAvailableRequest.                     *)

Moves(w, place) == worker' = [worker EXCEPT ![w].at = place]

\* Mutation: the thread waits for the next event that is added.
WaitOnly(w) ==
    /\ worker[w].at = "start" /\ ~stop
    /\ Moves(w, "waiting")
    /\ UNCHANGED <<list, busy, signal, threads, running, adder, failures, stop,
                   deleted, leaked>>

(* The beginning of GetNextAvailableRequest: the thread sets the event      *)
(* again if anything waits, perhaps for itself.                             *)
LookForMore(w) ==
    /\ worker[w].at = "start" /\ ~stop
    /\ signal' = (signal \/ list # <<>>)
    /\ Moves(w, "waiting")
    /\ UNCHANGED <<list, busy, threads, running, adder, failures, stop,
                   deleted, leaked>>

\* WaitForMultipleObjects: the event wakes one thread.
Wake(w) ==
    /\ worker[w].at = "waiting" /\ ~stop /\ signal
    /\ signal' = FALSE
    /\ Moves(w, "searching")
    /\ UNCHANGED <<list, busy, threads, running, adder, failures, stop,
                   deleted, leaked>>

\* Mutation: a thread that waits does not see the shutdown event.
EndAtStart(w) ==
    /\ worker[w].at = "start" /\ stop
    /\ Moves(w, "ended")
    /\ UNCHANGED <<list, busy, signal, threads, running, adder, failures, stop,
                   deleted, leaked>>

End(w) ==
    /\ worker[w].at \in {"start", "waiting"} /\ stop
    /\ Moves(w, "ended")
    /\ UNCHANGED <<list, busy, signal, threads, running, adder, failures, stop,
                   deleted, leaked>>

\* Mutation: every event can run.
CanAlwaysRun(e) == TRUE

\* TPM_CanRunEvent.
CanRun(e) == Key(e) \notin busy

\* Mutation: the request stays in the list.
LeaveInList(i) == list

RemoveFromList(i) ==
    SubSeq(list, 1, i - 1) \o SubSeq(list, i + 1, Len(list))

\* The search of the list: the first event that can run.
FindRequest(w) ==
    /\ worker[w].at = "searching"
    /\ \E i \in DOMAIN list :
          /\ CanRun(list[i]) /\ \A j \in 1 .. i - 1 : ~CanRun(list[j])
          /\ busy' = busy \cup {Key(list[i])}
          /\ worker' = [worker EXCEPT ![w] = [at |-> "found", event |-> list[i]]]
          /\ list' = RemoveFromList(i)
    /\ signal' = (signal \/ list' # <<>>)
    /\ UNCHANGED <<threads, running, adder, failures, stop, deleted, leaked>>

FindNothing(w) ==
    /\ worker[w].at = "searching"
    /\ \A i \in DOMAIN list : ~CanRun(list[i])
    /\ Moves(w, "waiting")
    /\ UNCHANGED <<list, busy, signal, threads, running, adder, failures, stop,
                   deleted, leaked>>

\* Runner counts itself as running.
Start(w) ==
    /\ worker[w].at = "found"
    /\ running' = running + 1
    /\ Moves(w, "running")
    /\ UNCHANGED <<list, busy, signal, threads, adder, failures, stop,
                   deleted, leaked>>

\* ReceiveData returns, and the event is deleted; or it raises an exception.
Handle(w) ==
    /\ worker[w].at = "running"
    /\ \/ deleted' = deleted \cup {worker[w].event} /\ UNCHANGED leaked
       \/ leaked' = leaked \cup {worker[w].event} /\ UNCHANGED deleted
    /\ Moves(w, "finishing")
    /\ UNCHANGED <<list, busy, signal, threads, running, adder, failures, stop>>

\* Mutation: the key is never free again.
KeepKey(w) ==
    /\ worker[w].at = "finishing"
    /\ Moves(w, "leaving")
    /\ UNCHANGED <<list, busy, signal, threads, running, adder, failures, stop,
                   deleted, leaked>>

\* The key is free again.
Release(w) ==
    /\ worker[w].at = "finishing"
    /\ busy' = busy \ {Key(worker[w].event)}
    /\ Moves(w, "leaving")
    /\ UNCHANGED <<list, signal, threads, running, adder, failures, stop,
                   deleted, leaked>>

Leave(w) ==
    /\ worker[w].at = "leaving"
    /\ running' = running - 1
    /\ worker' = [worker EXCEPT ![w] = [at |-> "start", event |-> None]]
    /\ UNCHANGED <<list, busy, signal, threads, adder, failures, stop,
                   deleted, leaked>>

-----------------------------------------------------------------------------
(* The end of the provider.                                                 *)

Shutdown ==
    /\ ~stop /\ adder.at = "idle" /\ stop' = TRUE
    /\ UNCHANGED <<list, busy, signal, worker, threads, running, adder,
                   failures, deleted, leaked>>

\* The destructor, when all worker threads have ended.
Destroy ==
    /\ stop /\ list # <<>>
    /\ \A w \in Workers : worker[w].at \in {"none", "ended"}
    /\ list' = <<>>
    /\ deleted' = deleted \cup {list[i] : i \in DOMAIN list}
    /\ UNCHANGED <<busy, signal, worker, threads, running, adder, failures,
                   stop, leaked>>

-----------------------------------------------------------------------------
AdderStep == SpawnWorkerThread \/ NoNewThread \/ SignalAdded

WorkerStep(w) ==
    \/ LookForMore(w) \/ Wake(w) \/ End(w)
    \/ FindRequest(w) \/ FindNothing(w)
    \/ Start(w) \/ Handle(w) \/ Release(w) \/ Leave(w)

Next ==
    \/ \E e \in Events : Add(e)
    \/ AdderStep
    \/ \E w \in Workers : WorkerStep(w)
    \/ Shutdown
    \/ Destroy

Spec == Init /\ [][Next]_vars

\* Every thread goes on: a wait of Windows ends, and ReceiveData returns.
FairSpec ==
    /\ Spec
    /\ WF_vars(AdderStep)
    /\ \A w \in Workers : WF_vars(WorkerStep(w))
    /\ WF_vars(Destroy)

-----------------------------------------------------------------------------
TypeOK ==
    /\ list \in Seq(Events) /\ busy \subseteq Keys /\ signal \in BOOLEAN
    /\ worker \in [Workers -> [at : Places, event : Events \cup {None}]]
    /\ threads \in 0 .. MaxThreads /\ running \in Int
    /\ adder \in [at : {"idle", "spawn", "signal"}, size : Nat]
    /\ failures \in Nat /\ stop \in BOOLEAN
    /\ deleted \subseteq Events /\ leaked \subseteq Events

(* No event is lost in the pool, handled by two threads or deleted twice:   *)
(* it is once in the list, or with one thread, or gone.                     *)
EachEventOnce ==
    /\ \A i, j \in DOMAIN list : list[i] = list[j] => i = j
    /\ \A v, w \in Workers :
          /\ worker[v].at \in {"found", "running"}
          /\ worker[w].at \in {"found", "running"}
          /\ worker[v].event = worker[w].event
          => v = w
    /\ {list[i] : i \in DOMAIN list} \cap Held = {}
    /\ Present \cap (deleted \cup leaked) = {}
    /\ deleted \cap leaked = {}

(* An auto-reset event wakes one thread, however often it is set, and that  *)
(* thread may find nothing it can run.  Still no event is left that could   *)
(* run with every thread asleep: the event is set, or a thread is about to  *)
(* set it or to search (GetNextAvailableRequest: "all events are processed  *)
(* quickly").                                                               *)
NoLostWakeup ==
    (\E i \in DOMAIN list : CanRun(list[i])) =>
        \/ signal \/ stop \/ adder.at # "idle"
        \/ \E w \in Workers : worker[w].at \in {"searching", "leaving", "start"}

\* The pool keeps the promise of KeyedQueue.
ImplementsQueue == Queue!QueueSpec

(* No event stays in the pool, as soon as there is a thread to handle it.   *)
(* (That it does not leave unhandled is part of ImplementsQueue.)           *)
EveryEventHandled ==
    \A e \in Events : []<>(stop \/ threads = 0 \/ e \notin Present)

\* When the provider stops, the threads end and no event remains.
StopEnds == []<>(stop => Present = {})
=============================================================================
