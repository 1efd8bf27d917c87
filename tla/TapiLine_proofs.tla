---------------------------- MODULE TapiLine_proofs ----------------------------
(***************************************************************************)
(* Theorems about the line and its requests, for any number of TAPI        *)
(* threads, calls, requests and notices.                                   *)
(***************************************************************************)
EXTENDS TapiLine, TLAPS, SequenceTheorems, WellFoundedInduction

-----------------------------------------------------------------------------
(* The state is consistent: what refers to something refers to a thing that *)
(* exists.                                                                  *)

\* What the machine has notified of its calls.
MachineOK ==
    /\ DOMAIN view \subseteq DOMAIN kind
    /\ \A id \in DOMAIN view :
          /\ view[id].removed <=> view[id].state = "IDLE"
          /\ kind[id] = "PhysicalCall" => Rank(view[id].state) >= 3
    /\ \A id \in DOMAIN kind : kind[id] # "MakeCall" => id \in DOMAIN view

\* The machine has notified this, and perhaps more, of the call.
NoticeTrue(notice) ==
    /\ notice.id \in DOMAIN view
    /\ Rank(notice.state) <= Rank(view[notice.id].state)

\* This is so after the step.
StaysTrue(notice) ==
    /\ notice.id \in DOMAIN view'
    /\ Rank(notice.state) <= Rank(view'[notice.id].state)

EventTrue(event) == event # NoNotice => NoticeTrue(event)

Working == {"begin", "dispatch", "setCallID", "complete", "reply", "setCallState"}
Answering == {"complete", "reply", "setCallState"}

\* A thread at work on a request, by what it is doing.
ThreadBound(d) ==
    /\ EventTrue(d.event) /\ EventTrue(d.later)
    /\ d.at \in Working \cup {"insert"} => d.request \in DOMAIN requests
    /\ d.at = "unsolicited" => d.later # NoNotice
    /\ d.at = "insert" => requests[d.request].command = "DROPCALL"
    /\ d.at = "setCallID" =>
          requests[d.request].command = "MAKECALL" /\ d.value \in DOMAIN kind
    /\ d.at \in Answering /\ ~d.remove =>
          /\ d.ok /\ requests[d.request].command = "MAKECALL"
          /\ d.event # NoNotice /\ d.event.state # "IDLE"
    /\ d.at = "setCallState" => ~d.remove

Bound ==
    /\ TypeOK /\ MachineOK
    /\ \A i \in DOMAIN notices : NoticeTrue(notices[i])
    /\ \A t \in Threads : ThreadBound(thread[t])
    /\ \A r \in DOMAIN requests : requests[r].call \in DOMAIN calls
    /\ \A c \in DOMAIN calls : calls[c].id # 0 => calls[c].id \in DOMAIN kind

-----------------------------------------------------------------------------
(* The sequences and the choices of the model.                              *)

\* A set of numbers that is not empty has a least one.
LEMMA LeastNatural ==
  ASSUME NEW T \in SUBSET Nat, T # {}
  PROVE  \E m \in T : \A k \in T : m <= k
<1> DEFINE Less == {p \in Nat \X Nat : p[1] < p[2]}
<1>1. IsWellFoundedOn(Less, Nat)
  BY NatLessThanWellFounded DEF OpToRel
<1>2. \E m \in T : \A k \in T : <<k, m>> \notin Less
  BY <1>1, WFMin
<1>3. \E m \in T : \A k \in T : ~ (k < m)
  BY <1>2
<1>. QED
  <2>1. PICK m \in T : \A k \in T : ~ (k < m)
    BY <1>3
  <2>2. m \in Nat /\ \A k \in T : k \in Nat
    OBVIOUS
  <2>3. \A k \in T : m <= k
    BY <2>1, <2>2
  <2>. QED BY <2>1, <2>3

\* The equation of the function in Without, for the first n elements.
Filters(f, q, R, n) ==
    f = [i \in 0 .. n |-> IF i = 0 THEN <<>>
                          ELSE IF q[i] \in R THEN f[i - 1]
                          ELSE Append(f[i - 1], q[i])]

\* There is such a function.
LEMMA FiltersExists ==
  ASSUME NEW q, NEW R, NEW n \in Nat
  PROVE  \E f : Filters(f, q, R, n)
<1> USE DEF Filters
<1> DEFINE Entry(f, i) == IF i = 0 THEN <<>>
                          ELSE IF q[i] \in R THEN f[i - 1]
                          ELSE Append(f[i - 1], q[i])
           Missing == {k \in Nat : ~ \E f : f = [i \in 0 .. k |-> Entry(f, i)]}
<1>1. SUFFICES ASSUME Missing # {}  PROVE FALSE
  OBVIOUS
<1>2. PICK m \in Missing : \A k \in Missing : m <= k
  BY <1>1, LeastNatural
<1>3. CASE m = 0
  <2>1. [i \in 0 .. 0 |-> <<>>] =
            [i \in 0 .. 0 |-> Entry([j \in 0 .. 0 |-> <<>>], i)]
    OBVIOUS
  <2>. QED BY <2>1, <1>2, <1>3
<1>4. CASE m # 0
  <2>1. PICK f : f = [i \in 0 .. m - 1 |-> Entry(f, i)]
    <3> HIDE DEF Entry
    <3>1. m - 1 \in Nat /\ m - 1 \notin Missing
      BY <1>2, <1>4
    <3>. QED BY <3>1
  <2> DEFINE g == [i \in 0 .. m |-> IF i = m THEN Entry(f, m) ELSE f[i]]
  <2>2. \A i \in 0 .. m - 1 : f[i] = Entry(f, i)
    BY <2>1
  <2>3. \A i \in 0 .. m : g[i] = Entry(g, i)
    <3> SUFFICES ASSUME NEW i \in 0 .. m  PROVE g[i] = Entry(g, i)
      OBVIOUS
    <3>1. i # 0 => i - 1 \in 0 .. m - 1 /\ g[i - 1] = f[i - 1]
      BY <1>2
    <3>2. Entry(g, i) = Entry(f, i)
      BY <3>1
    <3>3. i # m => g[i] = f[i] /\ i \in 0 .. m - 1
      BY <1>2
    <3>. HIDE DEF Entry
    <3>. QED BY <3>2, <3>3, <2>2
  <2>4. g = [i \in 0 .. m |-> Entry(g, i)]
    <3> HIDE DEF Entry
    <3>. QED BY <2>3
  <2>. QED BY <2>4, <1>2
<1>. QED BY <1>3, <1>4

\* Without returns a sequence of the same elements.
LEMMA WithoutType ==
  ASSUME NEW S, NEW q \in Seq(S), NEW R
  PROVE  Without(q, R) \in Seq(S)
<1> DEFINE kept == CHOOSE f : Filters(f, q, R, Len(q))
<1>1. Filters(kept, q, R, Len(q))
  <2>1. Len(q) \in Nat
    OBVIOUS
  <2>. QED BY <2>1, FiltersExists
<1>2. Without(q, R) = kept[Len(q)]
  BY DEF Without, Filters
<1> HIDE DEF kept
<1>3. /\ kept[0] = <<>>
      /\ \A i \in 1 .. Len(q) :
            kept[i] = IF q[i] \in R THEN kept[i - 1]
                      ELSE Append(kept[i - 1], q[i])
  <2>1. \A i \in 0 .. Len(q) :
            kept[i] = IF i = 0 THEN <<>>
                      ELSE IF q[i] \in R THEN kept[i - 1]
                      ELSE Append(kept[i - 1], q[i])
    BY <1>1 DEF Filters
  <2>. QED BY <2>1
<1> DEFINE Bad == {i \in 0 .. Len(q) : kept[i] \notin Seq(S)}
<1>4. Bad = {}
  <2>1. SUFFICES ASSUME Bad # {}  PROVE FALSE
    OBVIOUS
  <2>2. Bad \in SUBSET Nat
    OBVIOUS
  <2>3. PICK m \in Bad : \A k \in Bad : m <= k
    <3> HIDE DEF Bad
    <3>. QED BY <2>1, <2>2, LeastNatural
  <2>4. m \in 0 .. Len(q) /\ kept[m] \notin Seq(S)
    OBVIOUS
  <2>5. m # 0
    BY <2>4, <1>3, EmptySeq
  <2>6. m \in 1 .. Len(q) /\ m - 1 \in 0 .. Len(q) /\ ~ (m <= m - 1)
    BY <2>4, <2>5
  <2>7. kept[m - 1] \in Seq(S) /\ q[m] \in S
    BY <2>3, <2>6
  <2>8. Append(kept[m - 1], q[m]) \in Seq(S)
    BY <2>7, AppendProperties
  <2>. QED BY <2>4, <2>6, <2>7, <2>8, <1>3
<1>. QED BY <1>2, <1>4

\* What is in the queue afterwards was in it before.
LEMMA WithoutKeeps ==
  ASSUME NEW S, NEW q \in Seq(S), NEW R, NEW i \in DOMAIN Without(q, R)
  PROVE  \E j \in DOMAIN q : q[j] = Without(q, R)[i]
<1> DEFINE elements == {q[j] : j \in DOMAIN q}
<1>1. q \in Seq(elements)
  OBVIOUS
<1>2. Without(q, R) \in Seq(elements)
  <2> HIDE DEF elements
  <2>. QED BY <1>1, WithoutType
<1>. QED BY <1>2, ElementOfSeq

\* The place of a new request is a number.
LEMMA StartedType == Len(queue) \in Nat => Started \in 0 .. Len(queue)
<1> SUFFICES ASSUME Len(queue) \in Nat  PROVE Started \in 0 .. Len(queue)
  OBVIOUS
<1> DEFINE Fits(n) == n < Len(queue) => requests[queue[n + 1]].state = "NotProcessed"
           Candidates == {n \in 0 .. Len(queue) : Fits(n)}
<1>1. PICK n \in Candidates : \A k \in Candidates : n <= k
  <2>1. Len(queue) \in Candidates /\ Candidates \in SUBSET Nat
    OBVIOUS
  <2> HIDE DEF Candidates
  <2>. QED BY <2>1, LeastNatural
<1>2. \A i \in 1 .. n : requests[queue[i]].state # "NotProcessed"
  <2> SUFFICES ASSUME NEW i \in 1 .. n, requests[queue[i]].state = "NotProcessed"
               PROVE  FALSE
    OBVIOUS
  <2>1. i \in Nat /\ i - 1 \in 0 .. Len(queue) /\ (i - 1) + 1 = i /\ ~ (n <= i - 1)
    OBVIOUS
  <2>2. i - 1 \in Candidates
    BY <2>1
  <2>. QED BY <2>1, <2>2, <1>1
<1>3. Started \in 0 .. Len(queue)
  BY <1>1, <1>2 DEF Started
<1>. QED BY <1>3

-----------------------------------------------------------------------------
(* Types of the parts.                                                      *)

\* The ranks of the states of a call, in the order in which they are
\* notified.
LEMMA RankValues ==
    /\ Rank("OFFERING") = 1 /\ Rank("DIALTONE") = 1 /\ Rank("DIALING") = 2
    /\ Rank("PROCEEDING") = 3 /\ Rank("CONNECTED") = 4 /\ Rank("IDLE") = 5
  BY DEF Rank

\* IDLE alone has the last rank.
LEMMA RankType ==
  ASSUME NEW state \in LineCallStates
  PROVE  /\ Rank(state) \in 1 .. 5
         /\ Rank(state) = 5 <=> state = "IDLE"
  BY RankValues DEF LineCallStates, FirstStates

\* A thread at rest and a missing notice are values of their types.
LEMMA RestingType == Resting \in Doings /\ NoNotice \in Notices
  BY DEF Resting, Doings, Places, NoNotice, Notices, LineCallStates

\* After its request a thread rests, or handles the notice that is left.
LEMMA FinishType ==
  ASSUME NEW later \in Notices
  PROVE  /\ Finish(later) \in Doings
         /\ Finish(later).at \in {"resting", "unsolicited"}
         /\ Finish(later).at = "unsolicited" => later # NoNotice
         /\ Finish(later).event = NoNotice /\ Finish(later).later = later
  BY RestingType DEF Finish, Resting, Doings, Places

\* A thread that has received a notice looks for the current request.
LEMMA ReceivesType ==
  ASSUME NEW later \in Notices
  PROVE  /\ Receives(later) \in Doings /\ Receives(later).at = "fetch"
         /\ Receives(later).event = NoNotice /\ Receives(later).later = later
  BY RestingType DEF Receives, Resting, Doings, Places

\* With the current request a thread goes on to begin or to dispatch it.
LEMMA FetchedType ==
  ASSUME NEW event \in Notices, NEW later \in Notices,
         requests \in Seq(Requests), queue \in Seq(DOMAIN requests)
  PROVE  /\ Fetched(event, later) \in Doings
         /\ Fetched(event, later).at \in
               {"resting", "unsolicited", "begin", "dispatch"}
         /\ Fetched(event, later).at \in {"begin", "dispatch"} =>
               Fetched(event, later).request \in DOMAIN requests
         /\ Fetched(event, later).at = "unsolicited" =>
               Fetched(event, later).later # NoNotice
         /\ Fetched(event, later).event \in {event, NoNotice}
         /\ Fetched(event, later).later \in {event, later, NoNotice}
<1>1. CASE queue = <<>>
  BY <1>1, FinishType, RestingType DEF Fetched
<1>2. CASE queue # <<>>
  <2>1. Head(queue) \in DOMAIN requests /\ Head(queue) \in Nat
    BY <1>2, HeadTailProperties
  <2>. QED BY <1>2, <2>1, RestingType DEF Fetched, Resting, Doings, Places
<1>. QED BY <1>1, <1>2

\* A step of one thread leaves the other threads where they are.
LEMMA DoesType ==
  ASSUME NEW t \in Threads, NEW d \in Doings, thread \in [Threads -> Doings],
         Does(t, d)
  PROVE  /\ thread' \in [Threads -> Doings] /\ thread'[t] = d
         /\ \A u \in Threads \ {t} : thread'[u] = thread[u]
  BY DEF Does

-----------------------------------------------------------------------------
(* What no step does, and what is kept by it.                               *)

ViewKept ==
    /\ DOMAIN kind \subseteq DOMAIN kind'
    /\ \A id \in DOMAIN kind : kind'[id] = kind[id]
    /\ view \in [DOMAIN view -> Calls] /\ view' \in [DOMAIN view' -> Calls]
    /\ DOMAIN view \subseteq DOMAIN view'
    /\ \A id \in DOMAIN view :
          /\ Rank(view[id].state) <= Rank(view'[id].state)
          /\ view[id].removed => view'[id].removed

CommandsKept ==
    /\ DOMAIN requests \subseteq DOMAIN requests'
    /\ \A r \in DOMAIN requests :
          /\ requests'[r].command = requests[r].command
          /\ requests'[r].call = requests[r].call

\* A true notice stays true while calls are only notified further.
LEMMA NoticeStays ==
  ASSUME NEW notice \in Notices, NoticeTrue(notice), ViewKept
  PROVE  StaysTrue(notice)
<1>1. /\ notice.state \in LineCallStates
      /\ view[notice.id].state \in LineCallStates
      /\ view'[notice.id].state \in LineCallStates
  BY DEF NoticeTrue, ViewKept, Calls, Notices
<1>2. /\ Rank(notice.state) \in Nat /\ Rank(view[notice.id].state) \in Nat
      /\ Rank(view'[notice.id].state) \in Nat
  BY <1>1, RankType
<1>. QED BY <1>2 DEF NoticeTrue, StaysTrue, ViewKept

\* A thread that does nothing stays well-formed.
LEMMA ThreadsKept ==
  ASSUME Bound, CommandsKept, ViewKept,
         NEW T \in SUBSET Threads, \A u \in T : ThreadBound(thread[u])',
         \A u \in Threads \ T : thread'[u] = thread[u]
  PROVE  (\A u \in Threads : ThreadBound(thread[u]))'
<1> SUFFICES ASSUME NEW u \in Threads  PROVE ThreadBound(thread[u])'
  OBVIOUS
<1>1. CASE u \in T
  BY <1>1
<1>2. CASE u \notin T
  <2>1. thread'[u] = thread[u] /\ ThreadBound(thread[u])
    BY <1>2 DEF Bound
  <2>2. thread[u].event \in Notices /\ thread[u].later \in Notices
    BY DEF Bound, TypeOK, Doings
  <2>3. EventTrue(thread[u].event)' /\ EventTrue(thread[u].later)'
    BY <2>1, <2>2, NoticeStays DEF ThreadBound, EventTrue, NoticeTrue, StaysTrue
  <2>. QED BY <2>1, <2>3 DEF ThreadBound, CommandsKept, ViewKept, Working, Answering
<1>. QED BY <1>1, <1>2

\* If no thread moves and nothing is taken back, the threads stay consistent.
LEMMA ThreadsIdle ==
  ASSUME Bound, CommandsKept, ViewKept, UNCHANGED thread
  PROVE  (\A u \in Threads : ThreadBound(thread[u]))'
<1>1. {} \in SUBSET Threads /\ \A u \in {} : ThreadBound(thread[u])'
  OBVIOUS
<1>2. \A u \in Threads \ {} : thread'[u] = thread[u]
  OBVIOUS
<1>. QED BY <1>1, <1>2, ThreadsKept

\* The notices that are under way stay true.
LEMMA NoticesKept ==
  ASSUME Bound, ViewKept, NEW i \in DOMAIN notices
  PROVE  StaysTrue(notices[i])
  BY NoticeStays DEF Bound, TypeOK

\* The machine does nothing.
LEMMA ViewUnchanged ==
  ASSUME Bound, UNCHANGED <<kind, view>>
  PROVE  ViewKept
<1>1. \A id \in DOMAIN view : view[id].state \in LineCallStates
  BY DEF Bound, TypeOK, Calls
<1>2. \A id \in DOMAIN view : Rank(view[id].state) \in Nat
  BY <1>1, RankType
<1>. QED BY <1>2 DEF ViewKept, Bound, TypeOK

\* Requests that do not change keep their commands.
LEMMA RequestsUnchanged == UNCHANGED requests => CommandsKept
  BY DEF CommandsKept

\* A step of one thread that changes nothing else.
LEMMA ThreadOnlyBound ==
  ASSUME Bound, NEW t \in Threads, NEW d \in Doings, Does(t, d),
         ThreadBound(d), UNCHANGED <<calls, requests, queue, kind, view>>,
         notices' \in Seq(Notices),
         \A i \in DOMAIN notices' : NoticeTrue(notices'[i])
  PROVE  Bound'
<1>1. /\ thread' \in [Threads -> Doings] /\ thread'[t] = d
      /\ \A u \in Threads \ {t} : thread'[u] = thread[u]
  BY DoesType DEF Bound, TypeOK
<1>2. ThreadBound(thread[t])'
  BY <1>1 DEF ThreadBound, EventTrue, NoticeTrue
<1>3. (\A u \in Threads : ThreadBound(thread[u]))'
  <2>1. ViewKept /\ CommandsKept
    BY ViewUnchanged, RequestsUnchanged
  <2>2. {t} \in SUBSET Threads /\ \A u \in {t} : ThreadBound(thread[u])'
    BY <1>2
  <2>. QED BY <1>1, <2>1, <2>2, ThreadsKept
<1>4. TypeOK' /\ MachineOK'
  BY <1>1 DEF Bound, TypeOK, MachineOK
<1>5. (\A i \in DOMAIN notices : NoticeTrue(notices[i]))'
  BY DEF NoticeTrue
<1>. QED BY <1>3, <1>4, <1>5 DEF Bound

-----------------------------------------------------------------------------
(* What the shared parts of the actions do.                                 *)

\* A function on 1 .. n is a sequence.
LEMMA SeqOfFunction ==
  ASSUME NEW S, NEW n \in Nat, NEW f \in [1 .. n -> S]
  PROVE  f \in Seq(S) /\ Len(f) = n
  BY SeqDef

\* What an answer changes of a request.
Tells(old, new, ok) ==
    /\ new.command = old.command /\ new.call = old.call
    /\ new.dials = old.dials /\ new.sent
    /\ new.replies = IF old.sent THEN old.replies ELSE Append(old.replies, ok)

\* The first answer is the one that TAPI is told.
LEMMA TellsOnce ==
  ASSUME NEW old, NEW new, NEW later, NEW ok, NEW other,
         Tells(old, new, ok), Tells(new, later, other)
  PROVE  Tells(old, later, ok)
  BY DEF Tells

\* Answering a set of requests changes the answers of these requests only.
LEMMA AnsweredType ==
  ASSUME NEW rs \in Seq(Requests), NEW R, NEW ok \in BOOLEAN
  PROVE  /\ Answered(rs, R, ok) \in Seq(Requests)
         /\ DOMAIN Answered(rs, R, ok) = DOMAIN rs
         /\ \A r \in DOMAIN rs :
               /\ r \in R => Tells(rs[r], Answered(rs, R, ok)[r], ok)
               /\ r \notin R => Answered(rs, R, ok)[r] = rs[r]
<1> DEFINE new == Answered(rs, R, ok)
           told(r) == [rs[r] EXCEPT !.sent = TRUE,
                                    !.replies = Append(rs[r].replies, ok)]
           entry(r) == IF r \in R /\ ~rs[r].sent THEN told(r) ELSE rs[r]
<1>1. \A r \in DOMAIN rs :
         /\ entry(r) \in Requests
         /\ r \in R => Tells(rs[r], entry(r), ok)
         /\ r \notin R => entry(r) = rs[r]
  <2> SUFFICES ASSUME NEW r \in DOMAIN rs
               PROVE  /\ entry(r) \in Requests
                      /\ r \in R => Tells(rs[r], entry(r), ok)
    OBVIOUS
  <2>1. rs[r] \in Requests
    OBVIOUS
  <2>2. Append(rs[r].replies, ok) \in Seq(BOOLEAN)
    BY <2>1, AppendProperties DEF Requests
  <2>3. CASE rs[r].sent
    BY <2>1, <2>3 DEF Tells
  <2>4. CASE ~rs[r].sent
    <3>1. told(r) \in Requests /\ Tells(rs[r], told(r), ok)
      BY <2>1, <2>2, <2>4 DEF Requests, Tells
    <3>. HIDE DEF told
    <3>. QED BY <2>1, <2>4, <3>1
  <2>. QED BY <2>3, <2>4
<1>2. new = [r \in DOMAIN rs |-> entry(r)]
  BY DEF Answered
<1> HIDE DEF entry, new
<1>3. Len(rs) \in Nat /\ DOMAIN rs = 1 .. Len(rs)
  OBVIOUS
<1>4. new \in [1 .. Len(rs) -> Requests]
  BY <1>1, <1>2, <1>3
<1>5. new \in Seq(Requests) /\ DOMAIN new = DOMAIN rs
  BY <1>3, <1>4, SeqOfFunction
<1>6. \A r \in DOMAIN rs : new[r] = entry(r)
  BY <1>2
<1>. QED BY <1>1, <1>5, <1>6 DEF new

\* A change of one element of a sequence.
LEMMA ExceptType ==
  ASSUME NEW S, NEW s \in Seq(S), NEW i \in DOMAIN s, NEW e \in S,
         NEW new, new = [s EXCEPT ![i] = e]
  PROVE  /\ new \in Seq(S) /\ DOMAIN new = DOMAIN s /\ new[i] = e
         /\ \A j \in DOMAIN s \ {i} : new[j] = s[j]
<1>1. Len(s) \in Nat /\ DOMAIN s = 1 .. Len(s)
  OBVIOUS
<1>2. new \in [1 .. Len(s) -> S]
  BY <1>1
<1>. QED BY <1>1, <1>2, SeqOfFunction

\* A sequence that grew by one element, by its domain and its elements.
LEMMA AppendType ==
  ASSUME NEW S, NEW s \in Seq(S), NEW e \in S, NEW new, new = Append(s, e)
  PROVE  /\ new \in Seq(S) /\ Len(s) \in Nat
         /\ Len(s) + 1 \notin DOMAIN s
         /\ DOMAIN new = DOMAIN s \cup {Len(s) + 1}
         /\ new[Len(s) + 1] = e
         /\ \A j \in DOMAIN s : new[j] = s[j]
  BY AppendProperties

\* A request of R does this to the call.
Asks(R, command, c) ==
    \E r \in R : requests[r].command = command /\ requests[r].call = c

\* What becomes of a call when the requests of R fail.
CallFailed(R, c, old, new) ==
    \/ new = old /\ ~Asks(R, "DROPCALL", c)
    \/ new = [old EXCEPT !.dropped = FALSE]
    \/ /\ new = RemoveCallAppearance(old)
       /\ old.state = "UNKNOWN" /\ Asks(R, "MAKECALL", c)

\* Failed, call by call.
LEMMA FailedType ==
  ASSUME NEW cs \in Seq(Appearances), NEW R, NEW new, new = Failed(cs, R)
  PROVE  /\ new \in Seq(Appearances) /\ DOMAIN new = DOMAIN cs
         /\ \A c \in DOMAIN cs : CallFailed(R, c, cs[c], new[c])
<1> DEFINE entry(c) ==
             IF Asks(R, "MAKECALL", c) /\ cs[c].state = "UNKNOWN"
             THEN RemoveCallAppearance(cs[c])
             ELSE IF Asks(R, "DROPCALL", c) THEN [cs[c] EXCEPT !.dropped = FALSE]
             ELSE cs[c]
<1>1. \A c \in DOMAIN cs :
         entry(c) \in Appearances /\ CallFailed(R, c, cs[c], entry(c))
  <2> SUFFICES ASSUME NEW c \in DOMAIN cs
               PROVE  entry(c) \in Appearances /\ CallFailed(R, c, cs[c], entry(c))
    OBVIOUS
  <2>1. cs[c] \in Appearances
    OBVIOUS
  <2>2. /\ RemoveCallAppearance(cs[c]) \in Appearances
        /\ [cs[c] EXCEPT !.dropped = FALSE] \in Appearances
    BY <2>1 DEF RemoveCallAppearance, Appearances, LineCallStates
  <2>. QED BY <2>1, <2>2 DEF CallFailed
<1>2. new = [c \in DOMAIN cs |-> entry(c)]
  BY DEF Failed, Asks
<1> HIDE DEF entry
<1>3. Len(cs) \in Nat /\ DOMAIN cs = 1 .. Len(cs)
  OBVIOUS
<1>4. new \in [1 .. Len(cs) -> Appearances]
  BY <1>1, <1>2, <1>3
<1>5. new \in Seq(Appearances) /\ DOMAIN new = DOMAIN cs
  BY <1>3, <1>4, SeqOfFunction
<1>. QED BY <1>1, <1>2, <1>5

\* A request that fails leaves its call as it is, or removes it.
LEMMA FailedCall ==
  ASSUME NEW R, NEW c, NEW old \in Appearances, NEW new, CallFailed(R, c, old, new)
  PROVE  /\ new.dropped => old.dropped
         /\ \/ /\ new.id = old.id /\ new.state = old.state
               /\ new.open = old.open /\ new.listed = old.listed
            \/ /\ new.id = 0 /\ new.state = "IDLE" /\ ~new.listed
               /\ old.state = "UNKNOWN" /\ Asks(R, "MAKECALL", c)
  BY DEF CallFailed, RemoveCallAppearance, Appearances

\* SetRequestState changes the state of one request and takes its time limit
\* away.
LEMMA RequestStateType ==
  ASSUME TypeOK, NEW r \in DOMAIN requests,
         NEW state \in {"NotProcessed", "Initial", "Ignored", "Waiting", "Completed"},
         NEW new, new = RequestState(r, state)
  PROVE  /\ new \in Seq(Requests) /\ DOMAIN new = DOMAIN requests
         /\ new[r].state = state /\ ~new[r].overdue
         /\ \A q \in DOMAIN requests :
               /\ new[q].command = requests[q].command
               /\ new[q].call = requests[q].call
               /\ new[q].dialable = requests[q].dialable
               /\ new[q].sent = requests[q].sent
               /\ new[q].replies = requests[q].replies
               /\ new[q].dials = requests[q].dials
         /\ \A q \in DOMAIN requests \ {r} : new[q] = requests[q]
<1>1. requests \in Seq(Requests) /\ requests[r] \in Requests
  BY DEF TypeOK
<1> DEFINE e == [requests[r] EXCEPT !.state = state, !.overdue = FALSE]
<1>2. /\ e \in Requests /\ e.command = requests[r].command
      /\ e.call = requests[r].call /\ e.dialable = requests[r].dialable
      /\ e.sent = requests[r].sent /\ e.replies = requests[r].replies
      /\ e.dials = requests[r].dials /\ e.state = state /\ ~e.overdue
  BY <1>1 DEF Requests
<1>3. new = [requests EXCEPT ![r] = e]
  BY <1>1 DEF RequestState, Requests
<1> HIDE DEF e
<1>4. /\ new \in Seq(Requests) /\ DOMAIN new = DOMAIN requests /\ new[r] = e
      /\ \A q \in DOMAIN requests \ {r} : new[q] = requests[q]
  BY <1>1, <1>2, <1>3, ExceptType
<1>. QED BY <1>2, <1>4

\* What becomes of a call, by the state that is set, but for the mark that
\* it was dropped.
CallSet(c, state) ==
    IF state = "IDLE" /\ ~calls[c].open THEN RemoveCallAppearance(calls[c])
    ELSE [calls[c] EXCEPT !.state = state]

CallAfter(c, state) == [CallSet(c, state) EXCEPT !.dropped = calls'[c].dropped]

\* What becomes of the requests that drop a call, and of the mark.
DropsAfter(c, state) ==
    /\ calls'[c].dropped => calls[c].dropped
    /\ \A r \in DOMAIN requests :
          requests'[r] = requests[r] \/ requests[r].call = c
    /\ calls[c].state = "IDLE" \/ state # "IDLE" =>
          \A r \in DOMAIN requests :
             requests'[r] = requests[r] \/ Tells(requests[r], requests'[r], TRUE)

\* What becomes of the requests when some are answered.
RequestsAnswered ==
    /\ requests' \in Seq(Requests) /\ DOMAIN requests' = DOMAIN requests
    /\ \A r \in DOMAIN requests :
          \/ requests'[r] = requests[r]
          \/ \E ok \in BOOLEAN : Tells(requests[r], requests'[r], ok)

\* The queue only becomes shorter.
QueueShrinks ==
    /\ queue' \in Seq(DOMAIN requests)
    /\ \A r \in DOMAIN requests : InQueue(r)' => InQueue(r)

\* Removing requests from the queue puts none into it.
LEMMA WithoutShrinks ==
  ASSUME TypeOK, NEW R, queue' = Without(queue, R)
  PROVE  QueueShrinks
<1>1. queue' \in Seq(DOMAIN requests)
  BY WithoutType DEF TypeOK
<1>2. \A i \in DOMAIN queue' : \E j \in DOMAIN queue : queue[j] = queue'[i]
  BY WithoutKeeps DEF TypeOK
<1>. QED BY <1>1, <1>2 DEF QueueShrinks, InQueue

\* SetCallState, by its effect on the call and on the requests.
LEMMA SetCallStateEffect ==
  ASSUME TypeOK, NEW c \in DOMAIN calls, NEW state \in LineCallStates,
         SetCallState(c, state)
  PROVE  /\ calls' \in Seq(Appearances) /\ DOMAIN calls' = DOMAIN calls
         /\ \A b \in DOMAIN calls \ {c} : calls'[b] = calls[b]
         /\ calls'[c] = IF calls[c].state = "IDLE" THEN calls[c]
                        ELSE CallAfter(c, state)
         /\ RequestsAnswered /\ QueueShrinks
         /\ \A r \in DOMAIN requests :
               /\ r \in RequestsMaking(c) /\ calls[c].state # "IDLE" =>
                     Tells(requests[r], requests'[r], TRUE)
               /\ r \notin RequestsMaking(c) \/ calls[c].state = "IDLE" =>
                     \/ requests'[r] = requests[r]
                     \/ Tells(requests[r], requests'[r], FALSE)
         /\ DropsAfter(c, state)
<1> DEFINE ended == IF state = "IDLE"
                    THEN {r \in RequestsOf(c) : requests[r].state = "NotProcessed"}
                    ELSE {}
           making == RequestsMaking(c)
           told == Answered(requests, making, TRUE)
<1>1. calls \in Seq(Appearances) /\ requests \in Seq(Requests)
      /\ queue \in Seq(DOMAIN requests) /\ calls[c] \in Appearances
  BY DEF TypeOK
<1>2. CASE calls[c].state = "IDLE"
  <2>1. UNCHANGED <<calls, requests, queue>>
    BY <1>2 DEF SetCallState
  <2>2. DropsAfter(c, state)
    BY <2>1 DEF DropsAfter
  <2>. QED BY <1>1, <1>2, <2>1, <2>2
       DEF RequestsAnswered, QueueShrinks, InQueue, TypeOK
<1>3. CASE calls[c].state # "IDLE"
  <2> DEFINE set == [calls EXCEPT ![c] = CallSet(c, state)]
  <2>1. /\ calls' = Failed(set, ended)
        /\ requests' = Answered(told, ended, FALSE)
        /\ queue' = Without(queue, ended)
    BY <1>3 DEF SetCallState, CallSet
  <2>2. /\ CallSet(c, state) \in Appearances
        /\ CallSet(c, state).state # "UNKNOWN"
        /\ CallSet(c, state).dropped = calls[c].dropped
    <3>1. "UNKNOWN" \notin LineCallStates /\ "IDLE" \in LineCallStates
      BY DEF LineCallStates, FirstStates
    <3> DEFINE removed == RemoveCallAppearance(calls[c])
               other == [calls[c] EXCEPT !.state = state]
    <3>2. /\ removed \in Appearances /\ removed.state = "IDLE"
          /\ removed.dropped = calls[c].dropped
      BY <1>1, <3>1 DEF RemoveCallAppearance, Appearances
    <3>3. /\ other \in Appearances /\ other.state = state
          /\ other.dropped = calls[c].dropped
      BY <1>1 DEF Appearances
    <3>4. CallSet(c, state) \in {removed, other}
      BY DEF CallSet
    <3> HIDE DEF removed, other
    <3>. QED BY <3>1, <3>2, <3>3, <3>4
  <2>3. /\ set \in Seq(Appearances) /\ DOMAIN set = DOMAIN calls
        /\ set[c] = CallSet(c, state)
        /\ \A b \in DOMAIN calls \ {c} : set[b] = calls[b]
    BY <1>1, <2>2, ExceptType
  <2>4. \A r \in ended : requests[r].call = c
    BY DEF RequestsOf
  <2>5. state # "IDLE" => ended = {}
    OBVIOUS
  <2>6. making \subseteq RequestsOf(c)
    BY DEF RequestsMaking
  <2> HIDE DEF ended, making, told, set
  <2>7. /\ calls' \in Seq(Appearances) /\ DOMAIN calls' = DOMAIN calls
        /\ \A b \in DOMAIN calls : CallFailed(ended, b, set[b], calls'[b])
    BY <2>1, <2>3, FailedType
  <2>8. \A b \in DOMAIN calls \ {c} : calls'[b] = calls[b]
    <3> SUFFICES ASSUME NEW b \in DOMAIN calls \ {c}  PROVE calls'[b] = calls[b]
      OBVIOUS
    <3>1. calls' = Failed(set, ended) /\ set[b] = calls[b]
      BY <2>1, <2>3
    <3>2. \A r \in ended : requests[r].call # b
      BY <2>4
    <3>. QED BY <2>3, <3>1, <3>2 DEF Failed
  <2>9. /\ calls'[c] = CallAfter(c, state)
        /\ calls'[c].dropped => calls[c].dropped
    <3>1. CallFailed(ended, c, CallSet(c, state), calls'[c])
      BY <2>3, <2>7
    <3>2. \/ calls'[c] = CallSet(c, state)
          \/ calls'[c] = [CallSet(c, state) EXCEPT !.dropped = FALSE]
      BY <2>2, <3>1 DEF CallFailed
    <3>. QED BY <2>2, <3>2 DEF CallAfter, Appearances
  <2>10. /\ calls' \in Seq(Appearances) /\ DOMAIN calls' = DOMAIN calls
         /\ \A b \in DOMAIN calls \ {c} : calls'[b] = calls[b]
         /\ calls'[c] = CallAfter(c, state)
    BY <2>7, <2>8, <2>9
  <2>11. /\ told \in Seq(Requests) /\ DOMAIN told = DOMAIN requests
         /\ \A r \in DOMAIN requests :
               /\ r \in making => Tells(requests[r], told[r], TRUE)
               /\ r \notin making => told[r] = requests[r]
    <3>1. told = Answered(requests, making, TRUE) /\ TRUE \in BOOLEAN
      BY DEF told
    <3>2. /\ Answered(requests, making, TRUE) \in Seq(Requests)
          /\ DOMAIN Answered(requests, making, TRUE) = DOMAIN requests
      BY <1>1, AnsweredType
    <3>3. \A r \in DOMAIN requests :
             /\ r \in making =>
                   Tells(requests[r], Answered(requests, making, TRUE)[r], TRUE)
             /\ r \notin making =>
                   Answered(requests, making, TRUE)[r] = requests[r]
      BY <1>1, AnsweredType
    <3>. QED BY <3>1, <3>2, <3>3
  <2>12. /\ requests' \in Seq(Requests) /\ DOMAIN requests' = DOMAIN requests
         /\ \A r \in DOMAIN requests :
               /\ r \in ended => Tells(told[r], requests'[r], FALSE)
               /\ r \notin ended => requests'[r] = told[r]
    <3>1. requests' = Answered(told, ended, FALSE)
      BY <2>1
    <3>2. /\ Answered(told, ended, FALSE) \in Seq(Requests)
          /\ DOMAIN Answered(told, ended, FALSE) = DOMAIN told
          /\ \A r \in DOMAIN told :
                /\ r \in ended => Tells(told[r], Answered(told, ended, FALSE)[r], FALSE)
                /\ r \notin ended => Answered(told, ended, FALSE)[r] = told[r]
      BY <2>11, AnsweredType
    <3>. QED BY <2>11, <3>1, <3>2
  <2>13. \A r \in DOMAIN requests :
            /\ r \in making => Tells(requests[r], requests'[r], TRUE)
            /\ r \notin making => \/ requests'[r] = requests[r]
                                 \/ Tells(requests[r], requests'[r], FALSE)
    BY <2>11, <2>12, TellsOnce
  <2>14. RequestsAnswered
    BY <2>12, <2>13 DEF RequestsAnswered
  <2>15. QueueShrinks
    BY <2>1, WithoutShrinks
  <2>16. DropsAfter(c, state)
    <3>1. \A r \in DOMAIN requests :
             requests'[r] = requests[r] \/ requests[r].call = c
      BY <2>11, <2>12, <2>4, <2>6 DEF RequestsOf
    <3>2. ASSUME state # "IDLE", NEW r \in DOMAIN requests
          PROVE  \/ requests'[r] = requests[r]
                 \/ Tells(requests[r], requests'[r], TRUE)
      BY <2>11, <2>12, <2>5, <3>2
    <3>. QED BY <1>3, <2>9, <3>1, <3>2 DEF DropsAfter
  <2>17. \A r \in DOMAIN requests :
           /\ r \in RequestsMaking(c) => Tells(requests[r], requests'[r], TRUE)
           /\ r \notin RequestsMaking(c) =>
                 \/ requests'[r] = requests[r]
                 \/ Tells(requests[r], requests'[r], FALSE)
    BY <2>13 DEF making
  <2>. QED BY <1>3, <2>10, <2>14, <2>15, <2>16, <2>17
<1>. QED BY <1>2, <1>3

-----------------------------------------------------------------------------
(* Every step keeps the state consistent.                                   *)

\* What a thread does next is well-formed.
LEMMA FinishBound ==
  ASSUME NEW later \in Notices, EventTrue(later)
  PROVE  ThreadBound(Finish(later))
  BY FinishType DEF ThreadBound, EventTrue, Working, Answering

\* A thread that receives a true notice is consistent.
LEMMA ReceivesBound ==
  ASSUME NEW later \in Notices, EventTrue(later)
  PROVE  ThreadBound(Receives(later))
  BY ReceivesType DEF ThreadBound, EventTrue, Working, Answering

\* So is one that has fetched the current request.
LEMMA FetchedBound ==
  ASSUME Bound, NEW event \in Notices, NEW later \in Notices,
         EventTrue(event), EventTrue(later)
  PROVE  /\ Fetched(event, later) \in Doings
         /\ ThreadBound(Fetched(event, later))
<1>1. requests \in Seq(Requests) /\ queue \in Seq(DOMAIN requests)
  BY DEF Bound, TypeOK
<1>2. EventTrue(NoNotice)
  BY DEF EventTrue
<1>. QED BY <1>1, <1>2, FetchedType DEF ThreadBound, Working, Answering

\* The same with any change of the place and of the results.
LEMMA CompleteBound ==
  ASSUME Bound, NEW t \in Threads, thread[t].at \in Working,
         NEW ok \in BOOLEAN, NEW remove \in BOOLEAN,
         NEW later \in Notices, EventTrue(later),
         ~remove => /\ ok /\ requests[thread[t].request].command = "MAKECALL"
                    /\ thread[t].event # NoNotice
                    /\ thread[t].event.state # "IDLE",
         NEW d, d = [thread[t] EXCEPT !.at = "complete", !.ok = ok,
                                      !.remove = remove, !.later = later]
  PROVE  d \in Doings /\ ThreadBound(d)
<1>1. thread[t] \in Doings /\ ThreadBound(thread[t])
  BY DEF Bound, TypeOK
<1>2. /\ d \in Doings /\ d.at = "complete" /\ d.ok = ok /\ d.remove = remove
      /\ d.later = later /\ d.event = thread[t].event
      /\ d.request = thread[t].request
  BY <1>1 DEF Doings, Places
<1>. QED BY <1>1, <1>2 DEF ThreadBound, Working, Answering

\* One thread takes a step, and what the others refer to is kept.
LEMMA StepThreads ==
  ASSUME Bound, CommandsKept, ViewKept, NEW t \in Threads, NEW d \in Doings,
         ThreadBound(d), Does(t, d)
  PROVE  /\ thread' \in [Threads -> Doings]
         /\ (\A u \in Threads : ThreadBound(thread[u]))'
<1>1. /\ thread' \in [Threads -> Doings] /\ thread'[t] = d
      /\ \A u \in Threads \ {t} : thread'[u] = thread[u]
  BY DoesType DEF Bound, TypeOK
<1>2. d.event \in Notices /\ d.later \in Notices
  BY DEF Doings
<1>3. EventTrue(thread[t].event)' /\ EventTrue(thread[t].later)'
  BY <1>1, <1>2, NoticeStays DEF ThreadBound, EventTrue, NoticeTrue, StaysTrue
<1>4. ThreadBound(thread[t])'
  BY <1>1, <1>3 DEF ThreadBound, CommandsKept, ViewKept, Working, Answering
<1>5. {t} \in SUBSET Threads /\ \A u \in {t} : ThreadBound(thread[u])'
  BY <1>4
<1>. QED BY <1>1, <1>5, ThreadsKept

\* What a consistent thread holds, part by part.
LEMMA ThreadNotices ==
  ASSUME Bound, NEW t \in Threads
  PROVE  /\ thread[t] \in Doings /\ ThreadBound(thread[t])
         /\ thread[t].event \in Notices /\ thread[t].later \in Notices
         /\ EventTrue(thread[t].event) /\ EventTrue(thread[t].later)
         /\ NoNotice \in Notices /\ EventTrue(NoNotice)
  BY RestingType DEF Bound, TypeOK, Doings, ThreadBound, EventTrue

-----------------------------------------------------------------------------
\* The timer's tick keeps the state consistent.
LEMMA TimerFiresBound == Bound /\ TimerFires => Bound'
<1> SUFFICES ASSUME Bound, TimerFires  PROVE Bound'
  OBVIOUS
<1>1. Timer \in Threads
  BY DEF Threads
<1>2. Fetched(NoNotice, NoNotice) \in Doings /\ ThreadBound(Fetched(NoNotice, NoNotice))
  BY <1>1, ThreadNotices, FetchedBound
<1>3. notices' \in Seq(Notices) /\ \A i \in DOMAIN notices' : NoticeTrue(notices'[i])
  BY DEF Bound, TypeOK, TimerFires
<1>. QED BY <1>1, <1>2, <1>3, ThreadOnlyBound DEF TimerFires

\* So does the thread pool when it takes the next notice.
LEMMA PoolTakesBound == Bound /\ PoolTakes => Bound'
<1> SUFFICES ASSUME Bound, PoolTakes  PROVE Bound'
  OBVIOUS
<1>1. Pool \in Threads /\ notices \in Seq(Notices) /\ notices # <<>>
  BY DEF Threads, PoolTakes, Bound, TypeOK
<1>2. Head(notices) \in Notices /\ NoticeTrue(Head(notices))
  BY <1>1, HeadTailProperties DEF Bound
<1>3. Fetched(Head(notices), NoNotice) \in Doings
      /\ ThreadBound(Fetched(Head(notices), NoNotice))
  BY <1>1, <1>2, ThreadNotices, FetchedBound DEF EventTrue
<1>4. notices' \in Seq(Notices)
  BY <1>1, HeadTailProperties DEF PoolTakes
<1>5. \A i \in DOMAIN notices' : NoticeTrue(notices'[i])
  <2>1. \A i \in DOMAIN notices' : i + 1 \in DOMAIN notices
                                   /\ notices'[i] = notices[i + 1]
    BY <1>1 DEF PoolTakes
  <2>. QED BY <2>1 DEF Bound
<1>. QED BY <1>1, <1>3, <1>4, <1>5, ThreadOnlyBound DEF PoolTakes

\* So does a thread that looks for the current request.
LEMMA GetCurrentRequestBound ==
  ASSUME Bound, NEW t \in Threads, GetCurrentRequest(t)
  PROVE  Bound'
<1>1. /\ notices' \in Seq(Notices)
      /\ \A i \in DOMAIN notices' : NoticeTrue(notices'[i])
      /\ UNCHANGED <<calls, requests, queue, kind, view>>
  BY DEF Bound, TypeOK, GetCurrentRequest
<1>. QED BY <1>1, ThreadNotices, FetchedBound, ThreadOnlyBound DEF GetCurrentRequest

\* The steps that only move a thread on, from its request to what follows.
LEMMA HandlingBound ==
  ASSUME Bound, NEW t \in Threads, NEW r \in DOMAIN requests,
         \/ AnswerMakeCall(t, r) \/ AnswerDropCall(t, r)
         \/ RequestOverdue(t, r) \/ NotForRequest(t, r)
  PROVE  Bound'
<1>1. /\ notices' \in Seq(Notices)
      /\ \A i \in DOMAIN notices' : NoticeTrue(notices'[i])
      /\ UNCHANGED <<calls, requests, queue, kind, view>>
  BY DEF Bound, TypeOK, AnswerMakeCall, AnswerDropCall,
         RequestOverdue, NotForRequest
<1>2. Unhandled(t) \in Notices /\ EventTrue(Unhandled(t))
  BY ThreadNotices DEF Unhandled
<1>3. \A later \in {thread[t].later, Unhandled(t)} :
         Finish(later) \in Doings /\ ThreadBound(Finish(later))
  BY <1>2, ThreadNotices, FinishType, FinishBound
<1>4. CASE AnswerMakeCall(t, r)
  <2> DEFINE ended == thread[t].event.state = "IDLE"
             d == [thread[t] EXCEPT !.at = "complete", !.ok = ~ended,
                                    !.remove = ended, !.later = thread[t].later]
  <2>1. Does(t, d) /\ thread[t].at \in Working
    BY <1>4 DEF AnswerMakeCall, Completes, Concerns, Dispatched, Working
  <2>2. thread[t].event # NoNotice
        /\ requests[thread[t].request].command = "MAKECALL"
    BY <1>4 DEF AnswerMakeCall, Concerns, Dispatched
  <2>3. d \in Doings /\ ThreadBound(d)
    BY <2>1, <2>2, ThreadNotices, CompleteBound
  <2> HIDE DEF d
  <2>. QED BY <1>1, <2>1, <2>3, ThreadOnlyBound
<1>5. CASE AnswerDropCall(t, r)
  <2>1. CASE thread[t].event.state = "IDLE"
    <3> DEFINE d == [thread[t] EXCEPT !.at = "complete", !.ok = TRUE,
                                      !.remove = TRUE, !.later = thread[t].later]
    <3>1. Does(t, d) /\ thread[t].at \in Working
      BY <1>5, <2>1 DEF AnswerDropCall, Completes, Concerns, Dispatched, Working
    <3>2. d \in Doings /\ ThreadBound(d)
      BY <3>1, ThreadNotices, CompleteBound
    <3> HIDE DEF d
    <3>. QED BY <1>1, <3>1, <3>2, ThreadOnlyBound
  <2>2. CASE thread[t].event.state # "IDLE"
    BY <1>1, <1>3, <1>5, <2>2, ThreadOnlyBound DEF AnswerDropCall
  <2>. QED BY <2>1, <2>2
<1>6. CASE RequestOverdue(t, r)
  <2> DEFINE d == [thread[t] EXCEPT !.at = "complete", !.ok = FALSE,
                                    !.remove = TRUE, !.later = Unhandled(t)]
  <2>1. Does(t, d) /\ thread[t].at \in Working
    BY <1>6 DEF RequestOverdue, Completes, PassedOn, Dispatched, Working
  <2>2. d \in Doings /\ ThreadBound(d)
    BY <1>2, <2>1, CompleteBound
  <2> HIDE DEF d
  <2>. QED BY <1>1, <2>1, <2>2, ThreadOnlyBound
<1>7. CASE NotForRequest(t, r)
  BY <1>1, <1>3, <1>7, ThreadOnlyBound DEF NotForRequest
<1>. QED BY <1>4, <1>5, <1>6, <1>7

\* A step of one thread that changes requests and the queue, and no calls.
LEMMA RequestStepBound ==
  ASSUME Bound, NEW t \in Threads, NEW d \in Doings, Does(t, d), ThreadBound(d),
         CommandsKept, requests' \in Seq(Requests), DOMAIN requests' = DOMAIN requests,
         queue' \in Seq(DOMAIN requests),
         UNCHANGED <<calls, notices, kind, view>>
  PROVE  Bound'
<1>1. ViewKept
  BY ViewUnchanged
<1>2. /\ thread' \in [Threads -> Doings]
      /\ (\A u \in Threads : ThreadBound(thread[u]))'
  BY <1>1, StepThreads
<1>3. TypeOK' /\ MachineOK'
  BY <1>2 DEF Bound, TypeOK, MachineOK
<1>4. (\A i \in DOMAIN notices : NoticeTrue(notices[i]))'
  BY DEF NoticeTrue, Bound
<1>5. (\A r \in DOMAIN requests : requests[r].call \in DOMAIN calls)'
  BY DEF Bound, CommandsKept
<1>. QED BY <1>2, <1>3, <1>4, <1>5 DEF Bound

\* So does a thread that starts a request.
LEMMA BeginRequestBound ==
  ASSUME Bound, NEW t \in Threads, BeginRequest(t)
  PROVE  Bound'
<1> DEFINE r == thread[t].request
           d == [thread[t] EXCEPT !.at = "dispatch"]
<1>1. r \in DOMAIN requests /\ TypeOK
  BY ThreadNotices DEF BeginRequest, ThreadBound, Working, Bound
<1>2. requests' = RequestState(r, "Initial") /\ Does(t, d)
  BY DEF BeginRequest
<1>3. requests' \in Seq(Requests) /\ DOMAIN requests' = DOMAIN requests
  BY <1>1, <1>2, RequestStateType
<1>4. requests[r] \in Requests
  BY <1>1 DEF TypeOK
<1>5. CommandsKept
  BY <1>1, <1>2, <1>4, RequestStateType DEF CommandsKept
<1>6. /\ d \in Doings /\ d.at = "dispatch" /\ d.request = r
      /\ d.event = thread[t].event /\ d.later = thread[t].later
  BY ThreadNotices DEF Doings, Places
<1>7. ThreadBound(d)
  BY <1>1, <1>6, ThreadNotices DEF ThreadBound, Working, Answering
<1>8. queue' \in Seq(DOMAIN requests) /\ UNCHANGED <<calls, notices, kind, view>>
  BY <1>1 DEF BeginRequest, TypeOK
<1> HIDE DEF d
<1>. QED BY <1>2, <1>3, <1>5, <1>6, <1>7, <1>8, RequestStepBound

\* So does a make call request that cannot be started.
LEMMA StartMakeCallFailsBound ==
  ASSUME Bound, NEW t \in Threads, NEW r \in DOMAIN requests,
         StartMakeCallFails(t, r)
  PROVE  Bound'
<1> DEFINE d == [thread[t] EXCEPT !.at = "complete", !.ok = FALSE,
                                  !.remove = TRUE, !.later = thread[t].later]
<1>1. TypeOK /\ requests[r] \in Requests
  BY DEF Bound, TypeOK
<1>2. requests' = RequestState(r, "Ignored") /\ Does(t, d)
  BY DEF StartMakeCallFails, Completes
<1>3. requests' \in Seq(Requests) /\ DOMAIN requests' = DOMAIN requests
  BY <1>1, <1>2, RequestStateType
<1>4. CommandsKept
  BY <1>1, <1>2, RequestStateType DEF CommandsKept
<1>5. d \in Doings /\ ThreadBound(d)
  <2>1. thread[t].at \in Working
    BY DEF StartMakeCallFails, Dispatched, Working
  <2>. QED BY <2>1, ThreadNotices, CompleteBound
<1>6. queue' \in Seq(DOMAIN requests) /\ UNCHANGED <<calls, notices, kind, view>>
  BY <1>1 DEF StartMakeCallFails, TypeOK
<1> HIDE DEF d
<1>. QED BY <1>2, <1>3, <1>4, <1>5, <1>6, RequestStepBound

\* So does the start of a drop request.
LEMMA StartDropCallBound ==
  ASSUME Bound, NEW t \in Threads, NEW r \in DOMAIN requests,
         StartDropCall(t, r)
  PROVE  Bound'
<1>1. TypeOK /\ requests[r] \in Requests
  BY DEF Bound, TypeOK
<1>2. requests' = RequestState(r, "Waiting") /\ Does(t, Finish(thread[t].later))
  BY DEF StartDropCall
<1>3. requests' \in Seq(Requests) /\ DOMAIN requests' = DOMAIN requests
  BY <1>1, <1>2, RequestStateType
<1>4. CommandsKept
  BY <1>1, <1>2, RequestStateType DEF CommandsKept
<1>5. Finish(thread[t].later) \in Doings /\ ThreadBound(Finish(thread[t].later))
  BY ThreadNotices, FinishType, FinishBound
<1>6. queue' \in Seq(DOMAIN requests) /\ UNCHANGED <<calls, notices, kind, view>>
  BY <1>1 DEF StartDropCall, TypeOK
<1>. QED BY <1>2, <1>3, <1>4, <1>5, <1>6, RequestStepBound

\* So does noting the result of a request.
LEMMA CompleteRequestBound ==
  ASSUME Bound, NEW t \in Threads, CompleteRequest(t)
  PROVE  Bound'
<1> DEFINE r == thread[t].request
<1>1. /\ thread[t].at = "complete" /\ r \in DOMAIN requests /\ TypeOK
      /\ requests[r] \in Requests /\ thread[t] \in Doings
  BY ThreadNotices DEF CompleteRequest, ThreadBound, Working, Bound, TypeOK
<1>2. UNCHANGED <<calls, notices, kind, view>>
  BY DEF CompleteRequest
<1>3. CASE requests[r].state = "Completed"
  <2> DEFINE d == IF thread[t].remove THEN Finish(thread[t].later)
                  ELSE [thread[t] EXCEPT !.at = "setCallState"]
  <2>1. Does(t, d) /\ UNCHANGED <<requests, queue>>
    BY <1>3 DEF CompleteRequest
  <2>2. d \in Doings /\ ThreadBound(d)
    <3>1. CASE thread[t].remove
      BY <3>1, ThreadNotices, FinishType, FinishBound
    <3>2. CASE ~thread[t].remove
      <4> DEFINE e == [thread[t] EXCEPT !.at = "setCallState"]
      <4>1. /\ e \in Doings /\ e.at = "setCallState" /\ e.request = r
            /\ e.event = thread[t].event /\ e.later = thread[t].later
            /\ e.ok = thread[t].ok /\ e.remove = thread[t].remove
        BY <1>1 DEF Doings, Places
      <4>2. d = e
        BY <3>2
      <4> HIDE DEF d, e
      <4>3. ThreadBound(e)
        BY <1>1, <3>2, <4>1, ThreadNotices DEF ThreadBound, Working, Answering
      <4>. QED BY <4>1, <4>2, <4>3
    <3>. QED BY <3>1, <3>2
  <2>3. CommandsKept /\ requests' \in Seq(Requests)
        /\ DOMAIN requests' = DOMAIN requests /\ queue' \in Seq(DOMAIN requests)
    BY <1>1, <2>1 DEF CommandsKept, TypeOK
  <2> HIDE DEF d
  <2>. QED BY <1>2, <2>1, <2>2, <2>3, RequestStepBound
<1>4. CASE requests[r].state # "Completed"
  <2> DEFINE d == [thread[t] EXCEPT !.at = "reply",
                      !.current = queue # <<>> /\ Head(queue) = r,
                      !.send = ~requests[r].sent]
  <2>1. Does(t, d)
    BY <1>4 DEF CompleteRequest
  <2>2. /\ d \in Doings /\ d.at = "reply" /\ d.request = r
        /\ d.event = thread[t].event /\ d.later = thread[t].later
        /\ d.ok = thread[t].ok /\ d.remove = thread[t].remove
    BY <1>1 DEF Doings, Places
  <2> HIDE DEF d
  <2>3. ThreadBound(d)
    BY <1>1, <2>2, ThreadNotices DEF ThreadBound, Working, Answering
  <2>4. /\ CommandsKept /\ requests' \in Seq(Requests)
        /\ DOMAIN requests' = DOMAIN requests /\ queue' \in Seq(DOMAIN requests)
    <3>1. CASE thread[t].remove
      <4>1. requests' = RequestState(r, "Completed") /\ queue' = Without(queue, {r})
        BY <1>4, <3>1 DEF CompleteRequest
      <4>2. QueueShrinks
        BY <1>1, <4>1, WithoutShrinks
      <4>. QED BY <1>1, <4>1, <4>2, RequestStateType DEF CommandsKept, QueueShrinks
    <3>2. CASE ~thread[t].remove
      <4>1. UNCHANGED <<requests, queue>>
        BY <1>4, <3>2 DEF CompleteRequest
      <4>. QED BY <1>1, <4>1 DEF CommandsKept, TypeOK
    <3>. QED BY <3>1, <3>2
  <2>. QED BY <1>2, <2>1, <2>2, <2>3, <2>4, RequestStepBound
<1>. QED BY <1>3, <1>4

\* A step that does not touch the machine.
LEMMA LineStepBound ==
  ASSUME Bound, CommandsKept, UNCHANGED <<notices, kind, view>>,
         calls' \in Seq(Appearances), requests' \in Seq(Requests),
         queue' \in Seq(DOMAIN requests'), thread' \in [Threads -> Doings],
         (\A u \in Threads : ThreadBound(thread[u]))',
         DOMAIN calls \subseteq DOMAIN calls',
         \A r \in DOMAIN requests' \ DOMAIN requests :
            requests'[r].call \in DOMAIN calls',
         \A c \in DOMAIN calls' : calls'[c].id # 0 => calls'[c].id \in DOMAIN kind
  PROVE  Bound'
<1>1. TypeOK' /\ MachineOK'
  BY DEF Bound, TypeOK, MachineOK
<1>2. (\A i \in DOMAIN notices : NoticeTrue(notices[i]))'
  BY DEF NoticeTrue, Bound
<1>3. (\A r \in DOMAIN requests : requests[r].call \in DOMAIN calls)'
  BY DEF Bound, CommandsKept
<1>4. (\A c \in DOMAIN calls : calls[c].id # 0 => calls[c].id \in DOMAIN kind)'
  OBVIOUS
<1>. QED BY <1>1, <1>2, <1>3, <1>4 DEF Bound

\* The machine uses a new id.
LEMMA KindGrows ==
  ASSUME TypeOK, NEW k \in Kinds, kind' = Append(kind, k)
  PROVE  /\ kind' \in Seq(Kinds) /\ NextId \in Nat \ {0}
         /\ NextId \notin DOMAIN kind /\ DOMAIN kind' = DOMAIN kind \cup {NextId}
         /\ kind'[NextId] = k /\ \A id \in DOMAIN kind : kind'[id] = kind[id]
<1>1. kind \in Seq(Kinds)
  BY DEF TypeOK
<1>2. Len(kind) \in Nat
  BY <1>1
<1>. QED BY <1>1, <1>2, AppendType DEF NextId

\* The requests after one has dialled.
Dialled(r) == [RequestState(r, "Waiting") EXCEPT ![r].dials = @ + 1]

\* Dialling changes the number of dials of its own request only.
LEMMA DialType ==
  ASSUME TypeOK, NEW r \in DOMAIN requests
  PROVE  /\ Dialled(r) \in Seq(Requests) /\ DOMAIN Dialled(r) = DOMAIN requests
         /\ Dialled(r)[r].dials = requests[r].dials + 1
         /\ \A q \in DOMAIN requests :
               /\ Dialled(r)[q].command = requests[q].command
               /\ Dialled(r)[q].call = requests[q].call
               /\ Dialled(r)[q].sent = requests[q].sent
               /\ Dialled(r)[q].replies = requests[q].replies
         /\ \A q \in DOMAIN requests \ {r} : Dialled(r)[q] = requests[q]
<1> DEFINE old == RequestState(r, "Waiting")
           e == [old[r] EXCEPT !.dials = old[r].dials + 1]
           new == Dialled(r)
<1>1. /\ old \in Seq(Requests) /\ DOMAIN old = DOMAIN requests
      /\ \A q \in DOMAIN requests :
               /\ old[q].command = requests[q].command
               /\ old[q].call = requests[q].call
               /\ old[q].sent = requests[q].sent
               /\ old[q].replies = requests[q].replies
               /\ old[q].dials = requests[q].dials
      /\ \A q \in DOMAIN requests \ {r} : old[q] = requests[q]
  BY RequestStateType
<1>2. new = [old EXCEPT ![r] = e]
  <2>1. new = [old EXCEPT ![r].dials = old[r].dials + 1]
    BY DEF Dialled
  <2> HIDE DEF old, new
  <2>2. old[r] \in Requests
    BY <1>1
  <2>. QED BY <1>1, <2>1, <2>2 DEF Requests
<1> HIDE DEF old, new
<1>3. old[r] \in Requests
  BY <1>1
<1>4. /\ e \in Requests /\ e.command = old[r].command /\ e.call = old[r].call
      /\ e.sent = old[r].sent /\ e.replies = old[r].replies
      /\ e.dials = old[r].dials + 1
  BY <1>3 DEF Requests
<1> HIDE DEF e
<1>5. /\ new \in Seq(Requests) /\ DOMAIN new = DOMAIN old /\ new[r] = e
      /\ \A q \in DOMAIN old \ {r} : new[q] = old[q]
  BY <1>1, <1>2, <1>4, ExceptType
<1>6. /\ new \in Seq(Requests) /\ DOMAIN new = DOMAIN requests
      /\ new[r].dials = requests[r].dials + 1
      /\ \A q \in DOMAIN requests \ {r} : new[q] = requests[q]
  BY <1>1, <1>4, <1>5
<1>7. \A q \in DOMAIN requests :
               /\ new[q].command = requests[q].command
               /\ new[q].call = requests[q].call
               /\ new[q].sent = requests[q].sent
               /\ new[q].replies = requests[q].replies
  BY <1>1, <1>4, <1>5
<1>. QED BY <1>6, <1>7 DEF new

\* A call that a thread dials keeps the state consistent: its id is new.
LEMMA StartMakeCallBound ==
  ASSUME Bound, NEW t \in Threads, NEW r \in DOMAIN requests, StartMakeCall(t, r)
  PROVE  Bound'
<1> DEFINE d == [thread[t] EXCEPT !.at = "setCallID", !.value = NextId]
<1>1. TypeOK /\ thread[t].request = r
  BY DEF Bound, StartMakeCall, Dispatched
<1>2. /\ requests' \in Seq(Requests) /\ DOMAIN requests' = DOMAIN requests
      /\ CommandsKept
  <2>1. requests' = Dialled(r)
    BY DEF StartMakeCall, Dialled
  <2>. QED BY <1>1, <2>1, DialType DEF CommandsKept
<1>3. /\ kind' \in Seq(Kinds) /\ NextId \in Nat \ {0} /\ NextId \notin DOMAIN kind
      /\ DOMAIN kind' = DOMAIN kind \cup {NextId} /\ kind'[NextId] = "MakeCall"
      /\ \A id \in DOMAIN kind : kind'[id] = kind[id]
  BY <1>1, KindGrows DEF StartMakeCall, Kinds
<1>4. UNCHANGED <<calls, queue, notices, view>> /\ Does(t, d)
  BY DEF StartMakeCall
<1>5. ViewKept
  <2>1. \A id \in DOMAIN view : Rank(view[id].state) \in Nat
    <3>1. \A id \in DOMAIN view : view[id].state \in LineCallStates
      BY <1>1 DEF TypeOK, Calls
    <3>. QED BY <3>1, RankType
  <2>. QED BY <1>1, <1>3, <1>4, <2>1 DEF ViewKept, TypeOK
<1>6. /\ d \in Doings /\ d.at = "setCallID" /\ d.request = r /\ d.value = NextId
      /\ d.event = thread[t].event /\ d.later = thread[t].later
  <2>1. thread[t] \in Doings /\ NextId \in Nat
    BY <1>1, <1>3 DEF TypeOK
  <2> QED BY <1>1, <2>1 DEF Doings, Places
<1> HIDE DEF d
<1>7. /\ thread' \in [Threads -> Doings] /\ thread'[t] = d
      /\ \A u \in Threads \ {t} : thread'[u] = thread[u]
  BY <1>1, <1>4, <1>6, DoesType DEF TypeOK
<1>8. ThreadBound(thread[t])'
  <2>1. EventTrue(thread[t].event)' /\ EventTrue(thread[t].later)'
    BY <1>4, <1>6, <1>7, ThreadNotices DEF EventTrue, NoticeTrue
  <2>2. requests'[r].command = "MAKECALL"
    BY <1>2 DEF StartMakeCall, CommandsKept
  <2>. QED BY <2>1, <2>2, <1>2, <1>3, <1>6, <1>7 DEF ThreadBound, Working, Answering
<1>9. (\A u \in Threads : ThreadBound(thread[u]))'
  <2>1. {t} \in SUBSET Threads /\ \A u \in {t} : ThreadBound(thread[u])'
    BY <1>8
  <2>. QED BY <2>1, <1>2, <1>5, <1>7, ThreadsKept
<1>10. TypeOK'
  BY <1>1, <1>2, <1>3, <1>4, <1>7 DEF TypeOK
<1>11. MachineOK'
  BY <1>3, <1>4 DEF Bound, MachineOK
<1>12. (\A i \in DOMAIN notices : NoticeTrue(notices[i]))'
  BY <1>4 DEF NoticeTrue, Bound
<1>13. /\ (\A q \in DOMAIN requests : requests[q].call \in DOMAIN calls)'
       /\ (\A c \in DOMAIN calls : calls[c].id # 0 => calls[c].id \in DOMAIN kind)'
  BY <1>2, <1>3, <1>4 DEF Bound, CommandsKept
<1>. QED BY <1>9, <1>10, <1>11, <1>12, <1>13 DEF Bound

\* So does giving the call its id.
LEMMA SetCallIDBound ==
  ASSUME Bound, NEW t \in Threads, SetCallID(t)
  PROVE  Bound'
<1> DEFINE c == requests[thread[t].request].call
           e == [calls[c] EXCEPT !.id = thread[t].value]
<1>1. TypeOK /\ thread[t].request \in DOMAIN requests
      /\ thread[t].value \in DOMAIN kind /\ thread[t].value \in Nat
  BY ThreadNotices DEF SetCallID, Bound, ThreadBound, Working, Doings
<1>2. c \in DOMAIN calls /\ calls[c] \in Appearances
  BY <1>1 DEF Bound, TypeOK
<1>3. e \in Appearances /\ e.id = thread[t].value
  BY <1>1, <1>2 DEF Appearances
<1>4. calls' = [calls EXCEPT ![c] = e]
  BY <1>2 DEF SetCallID, Appearances
<1>5. Finish(thread[t].later) \in Doings /\ ThreadBound(Finish(thread[t].later))
  BY ThreadNotices, FinishType, FinishBound
<1>6. /\ UNCHANGED <<requests, queue, notices, kind, view>>
      /\ Does(t, Finish(thread[t].later))
  BY DEF SetCallID
<1> HIDE DEF e, c
<1>7. /\ calls' \in Seq(Appearances) /\ DOMAIN calls' = DOMAIN calls /\ calls'[c] = e
      /\ \A b \in DOMAIN calls \ {c} : calls'[b] = calls[b]
  BY <1>1, <1>2, <1>3, <1>4, ExceptType DEF TypeOK
<1>8. CommandsKept /\ ViewKept
  BY <1>6, RequestsUnchanged, ViewUnchanged
<1>9. /\ thread' \in [Threads -> Doings]
      /\ (\A u \in Threads : ThreadBound(thread[u]))'
  BY <1>5, <1>6, <1>8, StepThreads
<1>10. \A b \in DOMAIN calls' : calls'[b].id # 0 => calls'[b].id \in DOMAIN kind
  BY <1>1, <1>3, <1>7 DEF Bound
<1>. QED BY <1>1, <1>6, <1>7, <1>8, <1>9, <1>10, LineStepBound DEF TypeOK

\* What most steps leave alone of a request.
Same(old, new) ==
    /\ new.command = old.command /\ new.call = old.call
    /\ new.sent = old.sent /\ new.replies = old.replies
    /\ new.dials = old.dials

\* A request is queued.
QueueGrows(r) ==
    /\ queue' \in Seq(DOMAIN requests \cup {r})
    /\ \A q \in DOMAIN requests \cup {r} : InQueue(q)' => InQueue(q) \/ q = r

\* The queue gains one request and loses none.
LEMMA QueueAppended ==
  ASSUME TypeOK, NEW r, queue' = Append(queue, r)
  PROVE  QueueGrows(r)
<1>1. queue \in Seq(DOMAIN requests \cup {r})
  BY DEF TypeOK
<1>2. /\ queue' \in Seq(DOMAIN requests \cup {r})
      /\ DOMAIN queue' = DOMAIN queue \cup {Len(queue) + 1}
      /\ queue'[Len(queue) + 1] = r
      /\ \A i \in DOMAIN queue : queue'[i] = queue[i]
  BY <1>1, AppendType
<1>. QED BY <1>2 DEF QueueGrows, InQueue

\* A request that falls overdue is otherwise the same.
LEMMA TimePassesBound ==
  ASSUME Bound, NEW r \in DOMAIN requests, TimePasses(r)
  PROVE  /\ Bound' /\ DOMAIN requests' = DOMAIN requests
         /\ \A q \in DOMAIN requests : Same(requests[q], requests'[q])
<1> DEFINE e == [requests[r] EXCEPT !.overdue = TRUE]
<1>1. TypeOK /\ requests[r] \in Requests
  BY DEF Bound, TypeOK
<1>2. e \in Requests /\ Same(requests[r], e)
  BY <1>1 DEF Requests, Same
<1>3. requests' = [requests EXCEPT ![r] = e]
  BY <1>1 DEF TimePasses, Requests
<1> HIDE DEF e
<1>4. /\ requests' \in Seq(Requests) /\ DOMAIN requests' = DOMAIN requests
      /\ requests'[r] = e
      /\ \A q \in DOMAIN requests \ {r} : requests'[q] = requests[q]
  BY <1>1, <1>2, <1>3, ExceptType DEF TypeOK
<1>5. \A q \in DOMAIN requests : Same(requests[q], requests'[q])
  BY <1>2, <1>4 DEF Same
<1>6. CommandsKept
  BY <1>4, <1>5 DEF CommandsKept, Same
<1>7. UNCHANGED <<calls, queue, thread, notices, kind, view>>
  BY DEF TimePasses
<1>8. (\A u \in Threads : ThreadBound(thread[u]))'
  BY <1>6, <1>7, ViewUnchanged, ThreadsIdle
<1>9. Bound'
  <2>1. queue' \in Seq(DOMAIN requests')
    BY <1>1, <1>4, <1>7 DEF TypeOK
  <2>2. /\ calls' \in Seq(Appearances) /\ thread' \in [Threads -> Doings]
        /\ DOMAIN calls \subseteq DOMAIN calls'
        /\ \A c \in DOMAIN calls' : calls'[c].id # 0 => calls'[c].id \in DOMAIN kind
    BY <1>1, <1>7 DEF TypeOK, Bound
  <2>. QED BY <1>4, <1>6, <1>7, <1>8, <2>1, <2>2, LineStepBound
<1>. QED BY <1>4, <1>5, <1>9

\* What becomes of a call that TAPI closes.
CloseAfter(c) ==
    IF calls[c].state = "IDLE" THEN RemoveCallAppearance(calls[c])
    ELSE [calls[c] EXCEPT !.open = FALSE]

\* Closing a call changes that call only, and keeps the state consistent.
LEMMA CloseCallBound ==
  ASSUME Bound, NEW t \in Threads, NEW c \in DOMAIN calls, CloseCall(t, c)
  PROVE  /\ Bound' /\ DOMAIN calls' = DOMAIN calls /\ calls'[c] = CloseAfter(c)
         /\ \A b \in DOMAIN calls \ {c} : calls'[b] = calls[b]
<1>1. TypeOK /\ calls[c] \in Appearances
  BY DEF Bound, TypeOK
<1>2. /\ CloseAfter(c) \in Appearances
      /\ CloseAfter(c).id \in {0, calls[c].id}
  BY <1>1 DEF CloseAfter, RemoveCallAppearance, Appearances, LineCallStates
<1>3. calls' = [calls EXCEPT ![c] = CloseAfter(c)]
  BY <1>1 DEF CloseCall, CloseAfter
<1>4. /\ calls' \in Seq(Appearances) /\ DOMAIN calls' = DOMAIN calls
      /\ calls'[c] = CloseAfter(c)
      /\ \A b \in DOMAIN calls \ {c} : calls'[b] = calls[b]
  BY <1>1, <1>2, <1>3, ExceptType DEF TypeOK
<1>5. UNCHANGED <<requests, queue, thread, notices, kind, view>>
  BY DEF CloseCall
<1>6. CommandsKept
  BY <1>5, RequestsUnchanged
<1>7. (\A u \in Threads : ThreadBound(thread[u]))'
  BY <1>5, <1>6, ViewUnchanged, ThreadsIdle
<1>8. Bound'
  BY <1>1, <1>2, <1>4, <1>5, <1>6, <1>7, LineStepBound DEF Bound, TypeOK
<1>. QED BY <1>4, <1>8

\* A new request has not been answered and has not dialled.
LEMMA NewRequestType ==
  ASSUME NEW command \in {"MAKECALL", "DROPCALL"}, NEW c \in Nat,
         NEW dialable \in BOOLEAN, NEW new, new = NewRequest(command, c, dialable)
  PROVE  /\ new \in Requests /\ new.command = command /\ new.call = c
         /\ ~new.sent /\ new.replies = <<>> /\ new.dials = 0
<1>1. <<>> \in Seq(BOOLEAN)
  BY EmptySeq
<1>. QED BY <1>1 DEF NewRequest, Requests

\* A drop call of TAPI makes one request, and changes no call's id, state or
\* listing.
LEMMA DropCallBound ==
  ASSUME Bound, NEW t \in Threads, NEW c \in DOMAIN calls, DropCall(t, c)
  PROVE  /\ Bound'
         /\ DOMAIN calls' = DOMAIN calls
         /\ \A b \in DOMAIN calls : /\ calls'[b].id = calls[b].id
                                    /\ calls'[b].state = calls[b].state
                                    /\ calls'[b].listed = calls[b].listed
         /\ requests' = Append(requests, NewRequest("DROPCALL", c, FALSE))
         /\ \A u \in Threads \ {t} : thread'[u] = thread[u]
         /\ thread'[t].at = "insert" /\ thread'[t].request = Len(requests) + 1
<1> DEFINE e == [calls[c] EXCEPT !.dropped = TRUE]
           new == NewRequest("DROPCALL", c, FALSE)
           r == Len(requests) + 1
           d == [Resting EXCEPT !.at = "insert", !.value = Started, !.request = r]
<1>1. TypeOK /\ calls[c] \in Appearances /\ c \in Nat
  BY DEF Bound, TypeOK
<1>2. /\ e \in Appearances /\ e.id = calls[c].id /\ e.state = calls[c].state
      /\ e.listed = calls[c].listed
  BY <1>1 DEF Appearances
<1>3. calls' = [calls EXCEPT ![c] = e]
  BY <1>1 DEF DropCall, Appearances
<1> HIDE DEF e
<1>4. /\ calls' \in Seq(Appearances) /\ DOMAIN calls' = DOMAIN calls
      /\ calls'[c] = e
      /\ \A b \in DOMAIN calls \ {c} : calls'[b] = calls[b]
  BY <1>1, <1>2, <1>3, ExceptType DEF TypeOK
<1>5. requests' = Append(requests, NewRequest("DROPCALL", c, FALSE))
  BY DEF DropCall
<1>6. /\ new \in Requests /\ new.command = "DROPCALL" /\ new.call = c
  BY <1>1, NewRequestType
<1>7. UNCHANGED <<queue, notices, kind, view>> /\ Does(t, d)
  BY DEF DropCall
<1> HIDE DEF new, d
<1>8. /\ requests' \in Seq(Requests) /\ Len(requests) \in Nat
      /\ r \notin DOMAIN requests
      /\ DOMAIN requests' = DOMAIN requests \cup {r}
      /\ requests'[r] = new
      /\ \A q \in DOMAIN requests : requests'[q] = requests[q]
  <2>1. requests \in Seq(Requests) /\ requests' = Append(requests, new)
    BY <1>1, <1>5 DEF TypeOK, new
  <2>. QED BY <1>6, <2>1, AppendType
<1>9. /\ d \in Doings /\ d.at = "insert" /\ d.request = r
      /\ d.event = NoNotice /\ d.later = NoNotice
  <2>1. Started \in Nat /\ r \in Nat
    BY <1>1, <1>8, StartedType DEF TypeOK
  <2> HIDE DEF r
  <2>. QED BY <2>1, RestingType DEF d, Resting, Doings, Places
<1>10. /\ thread' \in [Threads -> Doings] /\ thread'[t] = d
      /\ \A u \in Threads \ {t} : thread'[u] = thread[u]
  BY <1>1, <1>7, <1>9, DoesType DEF TypeOK
<1>11. CommandsKept
  BY <1>6, <1>8 DEF CommandsKept
<1>12. (\A u \in Threads : ThreadBound(thread[u]))'
  <2>1. ThreadBound(thread[t])'
    BY <1>6, <1>8, <1>9, <1>10 DEF ThreadBound, EventTrue, Working, Answering
  <2>2. {t} \in SUBSET Threads /\ \A u \in {t} : ThreadBound(thread[u])'
    BY <2>1
  <2>. QED BY <1>7, <1>10, <1>11, <2>2, ViewUnchanged, ThreadsKept
<1>13. Bound'
  <2>1. queue' \in Seq(DOMAIN requests')
    BY <1>1, <1>6, <1>8, <1>7 DEF TypeOK
  <2>2. \A q \in DOMAIN requests' \ DOMAIN requests :
            requests'[q].call \in DOMAIN calls'
    BY <1>4, <1>6, <1>8
  <2>3. \A b \in DOMAIN calls' : calls'[b].id # 0 => calls'[b].id \in DOMAIN kind
    BY <1>2, <1>4 DEF Bound
  <2>. QED BY <1>4, <1>6, <1>8, <1>7, <1>10, <1>11, <1>12, <2>1, <2>2, <2>3, LineStepBound
<1>. QED BY <1>2, <1>4, <1>5, <1>9, <1>10, <1>13

\* The drop request enters the queue, and nothing leaves it.
LEMMA AddDropRequestBound ==
  ASSUME Bound, NEW t \in Threads, AddDropRequest(t)
  PROVE  Bound' /\ QueueGrows(thread[t].request)
<1> DEFINE r == thread[t].request
           place == IF thread[t].value > Len(queue) THEN Len(queue)
                    ELSE thread[t].value
           Elements == {q \in DOMAIN requests : InQueue(q) \/ q = r}
<1>1. /\ TypeOK /\ r \in DOMAIN requests /\ thread[t].value \in Nat
      /\ queue \in Seq(DOMAIN requests)
  BY ThreadNotices DEF AddDropRequest, ThreadBound, Bound, TypeOK, Doings
<1>2. Len(queue) \in Nat /\ place \in 0 .. Len(queue)
  BY <1>1
<1>3. queue' = SubSeq(queue, 1, place) \o <<r>>
                   \o SubSeq(queue, place + 1, Len(queue))
  BY DEF AddDropRequest
<1> HIDE DEF place
<1>4. queue \in Seq(Elements)
  BY <1>1 DEF InQueue
<1>5. queue' \in Seq(Elements)
  <2>1. /\ SubSeq(queue, 1, place) \in Seq(Elements)
        /\ SubSeq(queue, place + 1, Len(queue)) \in Seq(Elements)
    <3> HIDE DEF Elements
    <3>1. \A i \in 1 .. place : queue[i] \in Elements
      BY <1>2, <1>4
    <3>2. \A i \in place + 1 .. Len(queue) : queue[i] \in Elements
      BY <1>2, <1>4
    <3>. QED BY <1>2, <1>4, <3>1, <3>2, SubSeqProperties
  <2>2. <<r>> \in Seq(Elements)
    BY <1>1
  <2> HIDE DEF Elements, r
  <2>. QED BY <1>3, <2>1, <2>2, ConcatProperties
<1>6. QueueGrows(r)
  <2>1. \A i \in DOMAIN queue' : queue'[i] \in Elements
    <3> HIDE DEF Elements
    <3>. QED BY <1>5, ElementOfSeq
  <2>2. queue' \in Seq(DOMAIN requests \cup {r})
    <3>1. Elements \subseteq DOMAIN requests \cup {r}
      OBVIOUS
    <3> HIDE DEF Elements
    <3>. QED BY <1>5, <3>1
  <2>. QED BY <2>1, <2>2 DEF QueueGrows, InQueue
<1>7. Bound'
  <2> DEFINE d == IF thread[t].value = 0 \/ queue = <<>>
                  THEN Receives(NoNotice) ELSE Resting
  <2>1. Does(t, d) /\ UNCHANGED <<calls, requests, notices, kind, view>>
    BY DEF AddDropRequest
  <2>2. d \in Doings /\ ThreadBound(d)
    <3>1. Resting \in Doings /\ ThreadBound(Resting)
      BY RestingType DEF Resting, ThreadBound, EventTrue, Working, Answering
    <3>. QED BY <3>1, ThreadNotices, ReceivesType, ReceivesBound
  <2> HIDE DEF d
  <2>3. queue' \in Seq(DOMAIN requests)
    <3>1. DOMAIN requests \cup {r} = DOMAIN requests
      BY <1>1
    <3>. QED BY <1>6, <3>1 DEF QueueGrows
  <2>4. CommandsKept /\ requests' \in Seq(Requests) /\ DOMAIN requests' = DOMAIN requests
    BY <1>1, <2>1 DEF CommandsKept, TypeOK
  <2>. QED BY <2>1, <2>2, <2>3, <2>4, RequestStepBound
<1>. QED BY <1>6, <1>7

-----------------------------------------------------------------------------
(* The machine.                                                             *)

\* A call is notified.
LEMMA ShownType ==
  ASSUME Bound, NEW id, NEW state \in LineCallStates, view' = Shown(id, state)
  PROVE  /\ view' \in [DOMAIN view' -> Calls] /\ DOMAIN view' = DOMAIN view \cup {id}
         /\ view'[id].state = state /\ (view'[id].removed <=> state = "IDLE")
         /\ \A i \in DOMAIN view \ {id} : view'[i] = view[i]
<1>1. view \in [DOMAIN view -> Calls]
  BY DEF Bound, TypeOK
<1>. QED BY <1>1 DEF Shown, Calls

\* What is notified of a call is a call state.
LEMMA ViewRanks ==
  ASSUME TypeOK, NEW id \in DOMAIN view
  PROVE  view[id].state \in LineCallStates /\ Rank(view[id].state) \in 1 .. 5
<1>1. view[id].state \in LineCallStates
  BY DEF TypeOK, Calls
<1>. QED BY <1>1, RankType

\* A step of the machine, which the line does not notice yet.
LEMMA MachineStepBound ==
  ASSUME Bound, ViewKept, MachineOK', UNCHANGED <<calls, requests, queue, thread>>,
         kind' \in Seq(Kinds), notices' \in Seq(Notices),
         \A i \in DOMAIN notices' : StaysTrue(notices'[i])
  PROVE  Bound'
<1>1. CommandsKept
  BY RequestsUnchanged
<1>2. (\A u \in Threads : ThreadBound(thread[u]))'
  BY <1>1, ThreadsIdle
<1>3. TypeOK'
  BY DEF Bound, TypeOK, ViewKept
<1>4. (\A i \in DOMAIN notices : NoticeTrue(notices[i]))'
  BY DEF StaysTrue, NoticeTrue
<1>5. /\ (\A r \in DOMAIN requests : requests[r].call \in DOMAIN calls)'
      /\ (\A c \in DOMAIN calls : calls[c].id # 0 => calls[c].id \in DOMAIN kind)'
  BY DEF Bound, ViewKept
<1>. QED BY <1>2, <1>3, <1>4, <1>5 DEF Bound

\* A call from outside is a new one, and notified from the start.
LEMMA CallFromOutsideBound ==
  ASSUME Bound, NEW k \in OutsideKinds, CallFromOutside(k)
  PROVE  Bound' /\ ViewKept
<1> DEFINE state == IF k = "IncomingCall" THEN "OFFERING" ELSE "PROCEEDING"
           notice == [id |-> NextId, state |-> state]
<1>1. TypeOK /\ k \in Kinds /\ k # "MakeCall"
  BY LineAssumption DEF Bound
<1>2. /\ kind' = Append(kind, k) /\ view' = Shown(NextId, state)
      /\ notices' = Append(notices, notice)
      /\ UNCHANGED <<calls, requests, queue, thread>>
  BY DEF CallFromOutside
<1>3. /\ state \in LineCallStates /\ state # "IDLE"
      /\ k = "PhysicalCall" => Rank(state) >= 3
  BY RankValues DEF LineCallStates, FirstStates
<1> HIDE DEF state
<1>4. /\ kind' \in Seq(Kinds) /\ NextId \in Nat \ {0}
      /\ NextId \notin DOMAIN kind /\ DOMAIN kind' = DOMAIN kind \cup {NextId}
      /\ kind'[NextId] = k /\ \A id \in DOMAIN kind : kind'[id] = kind[id]
  BY <1>1, <1>2, KindGrows
<1>5. /\ view' \in [DOMAIN view' -> Calls]
      /\ DOMAIN view' = DOMAIN view \cup {NextId}
      /\ view'[NextId].state = state /\ ~view'[NextId].removed
      /\ \A i \in DOMAIN view \ {NextId} : view'[i] = view[i]
  BY <1>2, <1>3, ShownType
<1>6. NextId \notin DOMAIN view
  BY <1>4 DEF Bound, MachineOK
<1>7. ViewKept
  <2>1. \A i \in DOMAIN view : Rank(view[i].state) \in 1 .. 5
    BY <1>1, ViewRanks
  <2>2. \A i \in DOMAIN view : /\ Rank(view[i].state) <= Rank(view'[i].state)
                               /\ view[i].removed => view'[i].removed
    BY <2>1, <1>4, <1>5, <1>6
  <2>. QED BY <1>1, <2>2, <1>4, <1>5, <1>6 DEF ViewKept, TypeOK
<1>8. MachineOK'
  BY <1>3, <1>4, <1>5, <1>6 DEF Bound, MachineOK
<1>9. /\ notice \in Notices /\ notice.id = NextId /\ notice.state = state
  BY <1>3, <1>4 DEF Notices
<1> HIDE DEF notice
<1>10. /\ notices' \in Seq(Notices)
       /\ DOMAIN notices' = DOMAIN notices \cup {Len(notices) + 1}
       /\ notices'[Len(notices) + 1] = notice
       /\ \A i \in DOMAIN notices : notices'[i] = notices[i]
  BY <1>1, <1>2, <1>9, AppendType DEF TypeOK
<1>11. \A i \in DOMAIN notices' : StaysTrue(notices'[i])
  <2>1. Rank(state) \in Nat
    BY <1>3, RankType
  <2>2. StaysTrue(notice)
    BY <1>5, <1>9, <2>1 DEF StaysTrue
  <2>3. \A i \in DOMAIN notices : StaysTrue(notices'[i])
    BY <1>7, <1>10, NoticesKept
  <2>. QED BY <1>10, <2>2, <2>3
<1>12. Bound'
  BY <1>2, <1>4, <1>7, <1>8, <1>10, <1>11, MachineStepBound
<1>. QED BY <1>7, <1>12

\* A further notice of a call keeps the state consistent.
LEMMA NotifyBound ==
  ASSUME Bound, NEW id \in DOMAIN kind, NEW state \in States, Notify(id, state)
  PROVE  Bound' /\ ViewKept
<1> DEFINE notice == [id |-> id, state |-> state]
<1>1. TypeOK /\ state \in LineCallStates /\ state # "IDLE" /\ id \in Nat
  BY LineAssumption DEF Bound, TypeOK
<1>2. /\ view' = Shown(id, state) /\ notices' = Append(notices, notice)
      /\ UNCHANGED <<calls, requests, queue, thread, kind>>
  BY DEF Notify
<1>3. IF id \in DOMAIN view
      THEN ~view[id].removed /\ Rank(state) > Rank(view[id].state)
      ELSE state = "DIALTONE"
  BY DEF Notify
<1>4. /\ view' \in [DOMAIN view' -> Calls]
      /\ DOMAIN view' = DOMAIN view \cup {id}
      /\ view'[id].state = state /\ ~view'[id].removed
      /\ \A i \in DOMAIN view \ {id} : view'[i] = view[i]
  BY <1>1, <1>2, ShownType
<1>5. Rank(state) \in 1 .. 5
  BY <1>1, RankType
<1>6. ViewKept
  <2>1. \A i \in DOMAIN view : Rank(view[i].state) \in 1 .. 5
    BY <1>1, ViewRanks
  <2>2. \A i \in DOMAIN view : /\ Rank(view[i].state) <= Rank(view'[i].state)
                               /\ view[i].removed => view'[i].removed
    BY <2>1, <1>1, <1>2, <1>3, <1>4, <1>5
  <2>. QED BY <2>2, <1>1, <1>2, <1>3, <1>4, <1>5 DEF ViewKept, TypeOK
<1>7. MachineOK'
  <2>1. MachineOK
    BY DEF Bound
  <2>2. kind[id] = "PhysicalCall" => Rank(state) >= 3
    <3>1. CASE id \in DOMAIN view
      BY <1>3, <1>1, <1>5, <2>1, <3>1, ViewRanks DEF MachineOK
    <3>2. CASE id \notin DOMAIN view
      BY <2>1, <3>2 DEF MachineOK
    <3>. QED BY <3>1, <3>2
  <2>. QED BY <1>1, <1>2, <1>4, <2>1, <2>2 DEF MachineOK
<1>8. notice \in Notices /\ notice.id = id /\ notice.state = state
  BY <1>1 DEF Notices
<1> HIDE DEF notice
<1>9. /\ notices' \in Seq(Notices)
      /\ DOMAIN notices' = DOMAIN notices \cup {Len(notices) + 1}
      /\ notices'[Len(notices) + 1] = notice
      /\ \A i \in DOMAIN notices : notices'[i] = notices[i]
  BY <1>1, <1>2, <1>8, AppendType DEF TypeOK
<1>10. \A i \in DOMAIN notices' : StaysTrue(notices'[i])
  <2>1. StaysTrue(notice)
    BY <1>4, <1>5, <1>8 DEF StaysTrue
  <2>2. \A i \in DOMAIN notices : StaysTrue(notices'[i])
    BY <1>6, <1>9, NoticesKept
  <2>. QED BY <1>9, <2>1, <2>2
<1>11. Bound'
  BY <1>1, <1>2, <1>6, <1>7, <1>9, <1>10, MachineStepBound DEF TypeOK
<1>. QED BY <1>6, <1>11

\* A notice that is reported any number of times comes after the others.
LEMMA NoticesRepeated ==
  ASSUME notices \in Seq(Notices), NEW notice \in Notices, NEW n \in Nat,
         notices' = notices \o [i \in 1 .. n |-> notice]
  PROVE  /\ notices' \in Seq(Notices)
         /\ \A i \in DOMAIN notices' :
               \/ i \in DOMAIN notices /\ notices'[i] = notices[i]
               \/ i \notin DOMAIN notices /\ notices'[i] = notice
<1> DEFINE more == [i \in 1 .. n |-> notice]
<1>1. more \in Seq(Notices) /\ Len(more) = n /\ \A i \in 1 .. n : more[i] = notice
  <2>1. more \in [1 .. n -> Notices] /\ \A i \in 1 .. n : more[i] = notice
    OBVIOUS
  <2> HIDE DEF more
  <2>. QED BY <2>1, SeqOfFunction
<1>2. notices' = notices \o more
  OBVIOUS
<1> HIDE DEF more
<1>3. /\ notices' \in Seq(Notices) /\ Len(notices') = Len(notices) + n
      /\ \A i \in 1 .. Len(notices) + n :
            notices'[i] = IF i <= Len(notices) THEN notices[i]
                          ELSE more[i - Len(notices)]
  BY <1>1, <1>2, ConcatProperties
<1>4. DOMAIN notices = 1 .. Len(notices) /\ DOMAIN notices' = 1 .. Len(notices) + n
      /\ Len(notices) \in Nat
  BY <1>3
<1>5. SUFFICES ASSUME NEW i \in 1 .. Len(notices) + n
               PROVE  \/ i \in 1 .. Len(notices) /\ notices'[i] = notices[i]
                      \/ i \notin 1 .. Len(notices) /\ notices'[i] = notice
  BY <1>3, <1>4
<1>6. CASE i <= Len(notices)
  BY <1>3, <1>4, <1>6
<1>7. CASE ~(i <= Len(notices))
  <2>1. i - Len(notices) \in 1 .. n
    BY <1>4, <1>7
  <2>2. notices'[i] = more[i - Len(notices)] /\ more[i - Len(notices)] = notice
    BY <1>1, <1>3, <1>7, <2>1
  <2>. QED BY <1>4, <1>7, <2>2
<1>. QED BY <1>6, <1>7

\* So do the end of a call and the notices that report it.
LEMMA EndOfCallBound ==
  ASSUME Bound, NEW id \in DOMAIN kind, NEW n \in EndNotices, EndOfCall(id, n)
  PROVE  Bound' /\ ViewKept
<1> DEFINE notice == [id |-> id, state |-> "IDLE"]
<1>1. TypeOK /\ id \in Nat /\ n \in Nat /\ "IDLE" \in LineCallStates
  BY LineAssumption DEF Bound, TypeOK, LineCallStates
<1>2. /\ view' = Shown(id, "IDLE")
      /\ notices' = notices \o [i \in 1 .. n |-> notice]
      /\ UNCHANGED <<calls, requests, queue, thread, kind>>
  BY DEF EndOfCall
<1>3. id \in DOMAIN view /\ ~view[id].removed
  BY DEF EndOfCall
<1>4. /\ view' \in [DOMAIN view' -> Calls]
      /\ DOMAIN view' = DOMAIN view \cup {id}
      /\ view'[id].state = "IDLE" /\ view'[id].removed
      /\ \A i \in DOMAIN view \ {id} : view'[i] = view[i]
  BY <1>1, <1>2, ShownType
<1>5. ViewKept
  <2>1. \A i \in DOMAIN view : Rank(view[i].state) \in 1 .. 5
    BY <1>1, ViewRanks
  <2>2. \A i \in DOMAIN view : /\ Rank(view[i].state) <= Rank(view'[i].state)
                               /\ view[i].removed => view'[i].removed
    BY <2>1, <1>2, <1>3, <1>4, RankValues
  <2>. QED BY <1>1, <2>2, <1>2, <1>3, <1>4, RankValues DEF ViewKept, TypeOK
<1>6. MachineOK'
  BY <1>2, <1>3, <1>4, RankValues DEF Bound, MachineOK
<1>7. notice \in Notices /\ notice.id = id /\ notice.state = "IDLE"
  BY <1>1 DEF Notices
<1> HIDE DEF notice
<1>8. notices \in Seq(Notices)
  BY <1>1 DEF TypeOK
<1>9. /\ notices' \in Seq(Notices)
      /\ \A i \in DOMAIN notices' :
            \/ i \in DOMAIN notices /\ notices'[i] = notices[i]
            \/ i \notin DOMAIN notices /\ notices'[i] = notice
  BY <1>1, <1>2, <1>7, <1>8, NoticesRepeated
<1>10. \A i \in DOMAIN notices' : StaysTrue(notices'[i])
  <2>1. StaysTrue(notice)
    BY <1>4, <1>7, RankValues DEF StaysTrue
  <2>2. \A i \in DOMAIN notices : StaysTrue(notices[i])
    BY <1>5, NoticesKept
  <2>. QED BY <1>9, <2>1, <2>2
<1>11. Bound'
  BY <1>1, <1>2, <1>5, <1>6, <1>9, <1>10, MachineStepBound DEF TypeOK
<1>. QED BY <1>5, <1>11

-----------------------------------------------------------------------------
(* The other steps of the line.                                             *)

\* What ReplyToTapi records of its request.
Replied(old, new, d) ==
    /\ new.command = old.command /\ new.call = old.call
    /\ new.dials = old.dials /\ new.sent
    /\ new.replies = IF d.send THEN Append(old.replies, d.ok) ELSE old.replies

\* The requests that end with the call of a drop request.
Others(t) ==
    IF requests[thread[t].request].command = "DROPCALL" /\ thread[t].ok
    THEN RequestsOf(requests[thread[t].request].call) \ {thread[t].request}
    ELSE {}

\* The requests that fail with an answer and have one: not those that end with
\* a call that was dropped, which its success ends.
Failing(t) == IF thread[t].ok THEN Others(t) ELSE {thread[t].request}

\* What is known of a thread that answers.
LEMMA ReplyingThread ==
  ASSUME Bound, NEW t \in Threads, ReplyToTapi(t)
  PROVE  /\ thread[t] \in Doings /\ thread[t].ok \in BOOLEAN
         /\ thread[t].at = "reply" /\ ThreadBound(thread[t])
         /\ thread[t].request \in DOMAIN requests
         /\ \A r \in DOMAIN requests : requests[r] \in Requests
<1>1. thread[t] \in Doings /\ ThreadBound(thread[t])
  BY ThreadNotices
<1>2. thread[t].at = "reply"
  BY DEF ReplyToTapi
<1>3. thread[t].ok \in BOOLEAN
  BY <1>1 DEF Doings
<1>4. thread[t].request \in DOMAIN requests
  BY <1>1, <1>2 DEF ThreadBound, Working
<1>5. \A r \in DOMAIN requests : requests[r] \in Requests
  BY DEF Bound, TypeOK
<1>. QED BY <1>1, <1>2, <1>3, <1>4, <1>5

\* The answer is given to the request, failure to those behind it that are
\* cancelled with it, and nothing else is told.  Calls change as their requests
\* fail.
LEMMA ReplyToTapiBound ==
  ASSUME Bound, NEW t \in Threads, ReplyToTapi(t)
  PROVE  /\ Bound' /\ QueueShrinks /\ DOMAIN requests' = DOMAIN requests
         /\ Replied(requests[thread[t].request], requests'[thread[t].request],
                    thread[t])
         /\ \A q \in DOMAIN requests \ {thread[t].request} :
               /\ q \in Others(t) => Tells(requests[q], requests'[q], FALSE)
               /\ q \notin Others(t) => requests'[q] = requests[q]
         /\ DOMAIN calls' = DOMAIN calls
         /\ \A c \in DOMAIN calls : CallFailed(Failing(t), c, calls[c], calls'[c])
         /\ \A u \in Threads \ {t} : thread'[u] = thread[u]
         /\ thread'[t].at \in {"setCallState", "fetch", "resting", "unsolicited"}
         /\ thread'[t].at = "setCallState" =>
               /\ ~thread[t].remove /\ thread'[t].request = thread[t].request
               /\ thread'[t].ok = thread[t].ok /\ thread'[t].event = thread[t].event
<1> DEFINE r == thread[t].request
           e == [requests[r] EXCEPT !.sent = TRUE,
                    !.replies = IF thread[t].send
                                THEN Append(requests[r].replies, thread[t].ok)
                                ELSE requests[r].replies]
           told == [requests EXCEPT ![r] = e]
           others == Others(t)
<1>1. /\ TypeOK /\ r \in DOMAIN requests /\ requests[r] \in Requests
      /\ thread[t] \in Doings /\ thread[t].ok \in BOOLEAN
      /\ thread[t].at = "reply" /\ ThreadBound(thread[t])
  BY ReplyingThread DEF Bound
<1>2. e \in Requests /\ Replied(requests[r], e, thread[t])
  <2>1. Append(requests[r].replies, thread[t].ok) \in Seq(BOOLEAN)
    BY <1>1, AppendProperties DEF Requests
  <2>. QED BY <1>1, <2>1 DEF Requests, Replied
<1>3. told = [requests EXCEPT ![r].sent = TRUE,
                    ![r].replies = IF thread[t].send
                                   THEN Append(@, thread[t].ok) ELSE @]
  BY <1>1 DEF Requests
<1>4. /\ requests' = Answered(told, others, FALSE)
      /\ queue' = Without(queue, others)
      /\ calls' = Failed(calls, Failing(t))
      /\ UNCHANGED <<notices, kind, view>>
  BY <1>3 DEF ReplyToTapi, Others, Failing
<1> HIDE DEF e
<1>5. /\ told \in Seq(Requests) /\ DOMAIN told = DOMAIN requests /\ told[r] = e
      /\ \A q \in DOMAIN requests \ {r} : told[q] = requests[q]
  BY <1>1, <1>2, ExceptType DEF TypeOK
<1> HIDE DEF told, others
<1>6. /\ requests' \in Seq(Requests) /\ DOMAIN requests' = DOMAIN requests
      /\ \A q \in DOMAIN requests :
            /\ q \in others => Tells(told[q], requests'[q], FALSE)
            /\ q \notin others => requests'[q] = told[q]
  <2>1. /\ Answered(told, others, FALSE) \in Seq(Requests)
        /\ DOMAIN Answered(told, others, FALSE) = DOMAIN told
        /\ \A q \in DOMAIN told :
              /\ q \in others => Tells(told[q], Answered(told, others, FALSE)[q], FALSE)
              /\ q \notin others => Answered(told, others, FALSE)[q] = told[q]
    BY <1>5, AnsweredType
  <2>. QED BY <1>4, <1>5, <2>1
<1>7. r \notin others
  BY DEF others, Others
<1>8. /\ Replied(requests[r], requests'[r], thread[t])
      /\ \A q \in DOMAIN requests \ {r} :
            /\ q \in others => Tells(requests[q], requests'[q], FALSE)
            /\ q \notin others => requests'[q] = requests[q]
  BY <1>1, <1>2, <1>5, <1>6, <1>7
<1>9. QueueShrinks
  BY <1>1, <1>4, WithoutShrinks
<1>10. CommandsKept
  <2>1. \A q \in DOMAIN requests : /\ requests'[q].command = requests[q].command
                                   /\ requests'[q].call = requests[q].call
    BY <1>8 DEF Replied, Tells
  <2>. QED BY <1>6, <2>1 DEF CommandsKept
<1> DEFINE s == [thread[t] EXCEPT !.at = "setCallState"]
           d == IF ~thread[t].remove THEN s
                ELSE IF thread[t].current /\ queue' # <<>>
                THEN Receives(thread[t].later) ELSE Finish(thread[t].later)
<1>11. Does(t, d)
  BY DEF ReplyToTapi
<1>12. /\ s \in Doings /\ s.at = "setCallState" /\ s.request = r
       /\ s.ok = thread[t].ok /\ s.event = thread[t].event
       /\ s.remove = thread[t].remove /\ s.later = thread[t].later
  BY <1>1 DEF Doings, Places
<1> HIDE DEF s
<1>13. /\ d \in Doings /\ ThreadBound(d)
       /\ d.at \in {"setCallState", "fetch", "resting", "unsolicited"}
       /\ d.at = "setCallState" => ~thread[t].remove /\ d = s
  <2>1. CASE ~thread[t].remove
    <3>1. ThreadBound(s)
      BY <1>1, <1>12, <2>1 DEF ThreadBound, Working, Answering
    <3>. QED BY <1>12, <2>1, <3>1
  <2>2. CASE thread[t].remove
    <3>1. d \in {Receives(thread[t].later), Finish(thread[t].later)}
      BY <2>2
    <3>2. /\ Receives(thread[t].later) \in Doings
          /\ ThreadBound(Receives(thread[t].later))
          /\ Receives(thread[t].later).at = "fetch"
      BY ThreadNotices, ReceivesType, ReceivesBound
    <3>3. /\ Finish(thread[t].later) \in Doings
          /\ ThreadBound(Finish(thread[t].later))
          /\ Finish(thread[t].later).at \in {"resting", "unsolicited"}
      BY ThreadNotices, FinishType, FinishBound
    <3> HIDE DEF d
    <3>. QED BY <3>1, <3>2, <3>3
  <2>. QED BY <2>1, <2>2
<1> HIDE DEF d
<1>14. thread'[t] = d /\ \A u \in Threads \ {t} : thread'[u] = thread[u]
  BY <1>1, <1>11, <1>13, DoesType DEF TypeOK
<1>15. /\ calls' \in Seq(Appearances) /\ DOMAIN calls' = DOMAIN calls
       /\ \A c \in DOMAIN calls : CallFailed(Failing(t), c, calls[c], calls'[c])
  BY <1>1, <1>4, FailedType DEF TypeOK
<1>16. \A c \in DOMAIN calls' : calls'[c].id # 0 => calls'[c].id \in DOMAIN kind
  <2> SUFFICES ASSUME NEW c \in DOMAIN calls, calls'[c].id # 0
               PROVE  calls'[c].id \in DOMAIN kind
    BY <1>15
  <2>1. calls[c] \in Appearances /\ CallFailed(Failing(t), c, calls[c], calls'[c])
    BY <1>1, <1>15 DEF TypeOK
  <2>2. calls'[c].id = calls[c].id
    BY <2>1 DEF CallFailed, RemoveCallAppearance, Appearances
  <2>3. \A b \in DOMAIN calls : calls[b].id # 0 => calls[b].id \in DOMAIN kind
    BY DEF Bound
  <2>. QED BY <2>2, <2>3
<1>17. /\ thread' \in [Threads -> Doings]
       /\ (\A u \in Threads : ThreadBound(thread[u]))'
  BY <1>4, <1>10, <1>11, <1>13, ViewUnchanged, StepThreads
<1>18. Bound'
  BY <1>4, <1>6, <1>9, <1>10, <1>15, <1>16, <1>17, LineStepBound DEF QueueShrinks
<1>. QED BY <1>6, <1>8, <1>9, <1>12, <1>13, <1>14, <1>15, <1>18 DEF others

\* A failure leaves a call as it is, or removes one whose request it is about.
LEMMA ReplyToTapiCalls ==
  ASSUME Bound, NEW t \in Threads, ReplyToTapi(t), NEW c \in DOMAIN calls
  PROVE  /\ calls'[c].dropped => calls[c].dropped
         /\ \/ /\ calls'[c].id = calls[c].id /\ calls'[c].state = calls[c].state
               /\ calls'[c].open = calls[c].open
               /\ calls'[c].listed = calls[c].listed
            \/ /\ calls'[c].id = 0 /\ calls'[c].state = "IDLE"
               /\ ~calls'[c].listed /\ calls[c].state = "UNKNOWN"
               /\ Asks(Failing(t), "MAKECALL", c)
<1>1. calls[c] \in Appearances
  BY DEF Bound, TypeOK
<1>2. CallFailed(Failing(t), c, calls[c], calls'[c])
  BY ReplyToTapiBound
<1> DEFINE R == Failing(t)
           old == calls[c]
           new == calls'[c]
<1>3. old \in Appearances /\ CallFailed(R, c, old, new)
  BY <1>1, <1>2
<1> HIDE DEF R, old, new
<1>4. /\ new.dropped => old.dropped
      /\ \/ /\ new.id = old.id /\ new.state = old.state
            /\ new.open = old.open /\ new.listed = old.listed
         \/ /\ new.id = 0 /\ new.state = "IDLE" /\ ~new.listed
            /\ old.state = "UNKNOWN" /\ Asks(R, "MAKECALL", c)
  BY <1>3, FailedCall
<1>. QED BY <1>4 DEF R, old, new

\* What SetCallState leaves consistent.
LEMMA SetCallStateBound ==
  ASSUME Bound, NEW c \in DOMAIN calls, NEW state \in LineCallStates,
         SetCallState(c, state), NEW t \in Threads, NEW d \in Doings,
         ThreadBound(d), Does(t, d), UNCHANGED <<notices, kind, view>>
  PROVE  Bound'
<1>1. TypeOK
  BY DEF Bound
<1>2. /\ calls' \in Seq(Appearances) /\ DOMAIN calls' = DOMAIN calls
      /\ \A b \in DOMAIN calls \ {c} : calls'[b] = calls[b]
      /\ calls'[c] = IF calls[c].state = "IDLE" THEN calls[c]
                     ELSE CallAfter(c, state)
      /\ RequestsAnswered /\ QueueShrinks
  BY <1>1, SetCallStateEffect
<1>3. calls'[c].id \in {0, calls[c].id}
  <2>1. calls[c] \in Appearances
    BY <1>1 DEF TypeOK
  <2>. QED BY <1>2, <2>1 DEF CallAfter, CallSet, RemoveCallAppearance, Appearances
<1>4. CommandsKept
  <2>1. \A r \in DOMAIN requests :
           /\ requests'[r].command = requests[r].command
           /\ requests'[r].call = requests[r].call
    BY <1>2 DEF RequestsAnswered, Tells
  <2>. QED BY <1>2, <2>1 DEF CommandsKept, RequestsAnswered
<1>5. /\ thread' \in [Threads -> Doings]
      /\ (\A u \in Threads : ThreadBound(thread[u]))'
  BY <1>4, ViewUnchanged, StepThreads
<1>6. \A b \in DOMAIN calls' : calls'[b].id # 0 => calls'[b].id \in DOMAIN kind
  BY <1>2, <1>3 DEF Bound
<1>. QED BY <1>2, <1>4, <1>5, <1>6, LineStepBound DEF RequestsAnswered, QueueShrinks

\* The made call takes the state of its notice, and its request ends.
LEMMA SetMadeCallStateBound ==
  ASSUME Bound, NEW t \in Threads, SetMadeCallState(t)
  PROVE  /\ Bound'
         /\ \A u \in Threads \ {t} : thread'[u] = thread[u]
         /\ thread'[t].at = "complete" /\ thread'[t].ok /\ thread'[t].remove
         /\ thread'[t].request = thread[t].request
<1> DEFINE d == [thread[t] EXCEPT !.at = "complete", !.ok = TRUE, !.remove = TRUE,
                                  !.later = thread[t].later]
<1>1. /\ TypeOK /\ thread[t].request \in DOMAIN requests /\ thread[t] \in Doings
      /\ thread[t].at \in Working /\ thread[t].event \in Notices
  BY ThreadNotices DEF SetMadeCallState, ThreadBound, Working, Bound, TypeOK
<1>2. /\ requests[thread[t].request].call \in DOMAIN calls
      /\ thread[t].event.state \in LineCallStates
  BY <1>1 DEF Bound, Notices
<1>3. /\ SetCallState(requests[thread[t].request].call, thread[t].event.state)
      /\ Does(t, d) /\ UNCHANGED <<notices, kind, view>>
  BY DEF SetMadeCallState, Completes
<1>4. d \in Doings /\ ThreadBound(d)
  BY <1>1, ThreadNotices, CompleteBound
<1>5. d.at = "complete" /\ d.ok /\ d.remove /\ d.request = thread[t].request
  BY <1>1 DEF Doings
<1> HIDE DEF d
<1>6. Bound'
  BY <1>2, <1>3, <1>4, SetCallStateBound
<1>7. thread'[t] = d /\ \A u \in Threads \ {t} : thread'[u] = thread[u]
  BY <1>1, <1>3, <1>4, DoesType DEF TypeOK
<1>. QED BY <1>5, <1>6, <1>7

\* The appearance of a call that the line did not know.
LEMMA NewAppearanceType ==
  ASSUME NEW id \in Nat, NEW state \in LineCallStates \cup {"UNKNOWN"},
         NEW new, new = NewAppearance(id, state)
  PROVE  /\ new \in Appearances /\ new.id = id /\ new.state = state /\ new.listed
  BY DEF NewAppearance, Appearances

\* A new call, with the least state that the machine has notified of it.
NewCall(event) ==
    /\ kind[event.id] # "MakeCall" /\ event.id \in DOMAIN view
    /\ \E state \in {"OFFERING", "PROCEEDING"} :
          /\ calls' = Append(calls, NewAppearance(event.id, state))
          /\ Rank(state) <= Rank(view[event.id].state)

\* A notice without a request changes the call with its id, or makes one
\* appear.
LEMMA UnsolicitedBound ==
  ASSUME Bound, NEW t \in Threads, UnsolicitedCallEvent(t)
  PROVE  /\ Bound'
         /\ thread'[t] = Resting /\ \A u \in Threads \ {t} : thread'[u] = thread[u]
         /\ NoticeTrue(thread[t].later) /\ thread[t].later \in Notices
         /\ UNCHANGED <<kind, view>>
         /\ \/ \E c \in FindCallByCallID(thread[t].later.id) :
                  SetCallState(c, thread[t].later.state)
            \/ /\ FindCallByCallID(thread[t].later.id) = {}
               /\ UNCHANGED <<requests, queue>>
               /\ UNCHANGED calls \/ NewCall(thread[t].later)
<1> DEFINE event == thread[t].later
           new == CASE kind[event.id] = "IncomingCall" -> "OFFERING"
                    [] OTHER -> "PROCEEDING"
<1>1. /\ TypeOK /\ event \in Notices /\ NoticeTrue(event)
      /\ event.state \in LineCallStates /\ event.id \in Nat
  BY ThreadNotices DEF UnsolicitedCallEvent, ThreadBound, EventTrue, Bound, Notices
<1>2. event.id \in DOMAIN view /\ event.id \in DOMAIN kind /\ event.id # 0
  BY <1>1 DEF NoticeTrue, Bound, MachineOK, TypeOK
<1>3. Does(t, Resting) /\ UNCHANGED <<notices, kind, view>>
  BY DEF UnsolicitedCallEvent
<1>4. thread'[t] = Resting /\ \A u \in Threads \ {t} : thread'[u] = thread[u]
  BY <1>1, <1>3, DoesType, RestingType DEF TypeOK
<1>5. Resting \in Doings /\ ThreadBound(Resting)
  BY RestingType DEF Resting, ThreadBound, EventTrue, Working, Answering
<1>6. CASE FindCallByCallID(event.id) # {}
  <2>1. PICK c \in FindCallByCallID(event.id) : SetCallState(c, event.state)
    BY <1>6 DEF UnsolicitedCallEvent
  <2>2. c \in DOMAIN calls
    BY <2>1 DEF FindCallByCallID
  <2>3. Bound'
    BY <1>1, <1>3, <1>5, <2>1, <2>2, SetCallStateBound
  <2>. QED BY <1>1, <1>3, <1>4, <2>1, <2>3
<1>7. CASE FindCallByCallID(event.id) = {} /\ kind[event.id] = "MakeCall"
  <2>1. UNCHANGED <<calls, requests, queue>>
    BY <1>7 DEF UnsolicitedCallEvent
  <2>2. Bound'
    BY <1>1, <1>3, <1>5, <2>1, ThreadOnlyBound DEF Bound, TypeOK
  <2>. QED BY <1>1, <1>3, <1>4, <1>7, <2>1, <2>2
<1>8. CASE FindCallByCallID(event.id) = {} /\ kind[event.id] # "MakeCall"
  <2>1. /\ UNCHANGED <<requests, queue>>
        /\ calls' = Append(calls, NewAppearance(event.id, new))
    BY <1>8 DEF UnsolicitedCallEvent
  <2>2. /\ new \in {"OFFERING", "PROCEEDING"} /\ new \in LineCallStates
        /\ Rank(new) <= Rank(view[event.id].state)
    <3>1. Rank(view[event.id].state) \in 1 .. 5
      BY <1>1, <1>2, ViewRanks
    <3>2. CASE kind[event.id] = "IncomingCall"
      BY <3>1, <3>2, RankValues DEF LineCallStates, FirstStates
    <3>3. CASE kind[event.id] # "IncomingCall"
      <4>1. new = "PROCEEDING"
        BY <3>3
      <4>2. kind[event.id] = "PhysicalCall"
        <5>1. kind[event.id] \in Kinds
          BY <1>1, <1>2 DEF TypeOK
        <5>. QED BY <5>1, <1>8, <3>3 DEF Kinds
      <4> HIDE DEF new
      <4>. QED BY <1>2, <4>1, <4>2, RankValues
               DEF LineCallStates, FirstStates, Bound, MachineOK
    <3>. QED BY <3>2, <3>3
  <2> HIDE DEF new, event
  <2>3. NewCall(event)
    BY <1>2, <1>8, <2>1, <2>2 DEF NewCall
  <2>4. /\ calls' \in Seq(Appearances)
        /\ DOMAIN calls' = DOMAIN calls \cup {Len(calls) + 1}
        /\ calls'[Len(calls) + 1].id = event.id
        /\ \A c \in DOMAIN calls : calls'[c] = calls[c]
    <3> DEFINE call == NewAppearance(event.id, new)
    <3>1. call \in Appearances /\ call.id = event.id
      BY <1>1, <2>2, NewAppearanceType
    <3> HIDE DEF call
    <3>2. calls \in Seq(Appearances) /\ calls' = Append(calls, call)
      BY <1>1, <2>1 DEF TypeOK, call
    <3>. QED BY <3>1, <3>2, AppendType
  <2>5. Bound'
    <3>1. CommandsKept
      BY <2>1, RequestsUnchanged
    <3>2. /\ thread' \in [Threads -> Doings]
          /\ (\A u \in Threads : ThreadBound(thread[u]))'
      BY <1>3, <1>5, <3>1, ViewUnchanged, StepThreads
    <3>3. \A c \in DOMAIN calls' : calls'[c].id # 0 => calls'[c].id \in DOMAIN kind
      BY <1>2, <2>4 DEF Bound
    <3>. QED BY <1>1, <1>3, <2>1, <2>4, <3>1, <3>2, <3>3, LineStepBound DEF TypeOK
  <2>. QED BY <1>1, <1>3, <1>4, <1>8, <2>1, <2>3, <2>5 DEF event
<1>. QED BY <1>6, <1>7, <1>8

\* A make call of TAPI makes one call and one request, and dials at once only
\* if the queue is empty.
LEMMA MakeCallBound ==
  ASSUME Bound, NEW t \in Threads, NEW dialable \in BOOLEAN, MakeCall(t, dialable),
         NEW r, r = Len(requests) + 1, NEW c, c = Len(calls) + 1
  PROVE  /\ Bound' /\ UNCHANGED <<thread, notices, view>>
         /\ c \notin DOMAIN calls /\ DOMAIN calls' = DOMAIN calls \cup {c}
         /\ calls'[c].state \in {"UNKNOWN", "IDLE"} /\ ~calls'[c].dropped
         /\ calls'[c].state = "UNKNOWN" \/ requests'[r].sent
         /\ \A b \in DOMAIN calls : calls'[b] = calls[b]
         /\ r \notin DOMAIN requests /\ DOMAIN requests' = DOMAIN requests \cup {r}
         /\ requests'[r].command = "MAKECALL" /\ requests'[r].call = c
         /\ requests'[r].sent <=> requests'[r].replies # <<>>
         /\ ~ Granted(r)'
         /\ \A q \in DOMAIN requests : requests'[q] = requests[q]
         /\ \A q \in DOMAIN requests' : InQueue(q)' => InQueue(q) \/ q = r
         /\ \/ calls'[c].id = 0 /\ UNCHANGED kind /\ requests'[r].dials = 0
            \/ /\ calls'[c].id = NextId /\ kind' = Append(kind, "MakeCall")
               /\ requests'[r].dials = 1
<1> DEFINE request == NewRequest("MAKECALL", c, dialable)
           starts == queue = <<>>
           first == IF starts THEN NextId ELSE 0
           call == IF starts /\ ~dialable
                   THEN RemoveCallAppearance(NewAppearance(0, "UNKNOWN"))
                   ELSE NewAppearance(first, "UNKNOWN")
           waiting == [request EXCEPT !.state = "Waiting", !.dials = 1]
           failed == [request EXCEPT !.state = "Completed", !.sent = TRUE,
                                     !.replies = <<FALSE>>]
           new == IF ~starts THEN request
                  ELSE IF dialable THEN waiting ELSE failed
<1>1. /\ TypeOK /\ calls \in Seq(Appearances) /\ requests \in Seq(Requests)
      /\ Len(calls) \in Nat /\ Len(requests) \in Nat /\ c \in Nat
      /\ Len(kind) \in Nat /\ NextId \in Nat
  BY DEF Bound, TypeOK, NextId
<1>2. /\ calls' = Append(calls, call) /\ requests' = Append(requests, new)
      /\ queue' = IF starts /\ ~dialable THEN queue ELSE Append(queue, r)
      /\ kind' = IF starts /\ dialable THEN Append(kind, "MakeCall") ELSE kind
      /\ UNCHANGED <<thread, notices, view>>
  BY DEF MakeCall
<1>3. /\ call \in Appearances /\ ~call.dropped
      /\ call.state = IF starts /\ ~dialable THEN "IDLE" ELSE "UNKNOWN"
      /\ call.id = IF starts /\ dialable THEN NextId ELSE 0
  <2>1. first \in Nat /\ 0 \in Nat
    BY <1>1
  <2> HIDE DEF first
  <2>2. \A n \in Nat : /\ NewAppearance(n, "UNKNOWN") \in Appearances
                       /\ NewAppearance(n, "UNKNOWN").id = n
                       /\ NewAppearance(n, "UNKNOWN").state = "UNKNOWN"
                       /\ ~NewAppearance(n, "UNKNOWN").dropped
    BY NewAppearanceType DEF NewAppearance
  <2>3. CASE starts /\ ~dialable
    <3>1. call = RemoveCallAppearance(NewAppearance(0, "UNKNOWN"))
      BY <2>3
    <3>2. /\ call \in Appearances /\ ~call.dropped
          /\ call.state = "IDLE" /\ call.id = 0
      BY <2>1, <2>2, <3>1 DEF RemoveCallAppearance, Appearances, LineCallStates
    <3>. QED BY <2>3, <3>2
  <2>4. CASE ~(starts /\ ~dialable)
    <3>1. call = NewAppearance(first, "UNKNOWN")
      BY <2>4
    <3>2. first = IF starts /\ dialable THEN NextId ELSE 0
      BY <2>4 DEF first
    <3> HIDE DEF call
    <3>. QED BY <2>1, <2>2, <2>4, <3>1, <3>2
  <2>. QED BY <2>3, <2>4
<1>4. /\ request \in Requests /\ request.command = "MAKECALL" /\ request.call = c
      /\ ~request.sent /\ request.replies = <<>> /\ request.dials = 0
  BY <1>1, NewRequestType
<1>5. <<FALSE>> \in Seq(BOOLEAN) /\ <<FALSE>> # <<>>
      /\ DOMAIN <<FALSE>> = {1} /\ <<FALSE>>[1] = FALSE
  OBVIOUS
<1> HIDE DEF call, request
<1>6. /\ waiting \in Requests /\ waiting.command = "MAKECALL" /\ waiting.call = c
      /\ ~waiting.sent /\ waiting.replies = <<>> /\ waiting.dials = 1
  BY <1>4 DEF Requests
<1>7. /\ failed \in Requests /\ failed.command = "MAKECALL" /\ failed.call = c
      /\ failed.sent /\ failed.replies = <<FALSE>> /\ failed.dials = 0
  BY <1>4, <1>5 DEF Requests
<1> HIDE DEF waiting, failed
<1>8. /\ new \in Requests /\ new.command = "MAKECALL" /\ new.call = c
      /\ new.sent <=> new.replies # <<>>
      /\ \A i \in DOMAIN new.replies : ~new.replies[i]
      /\ new.dials = IF starts /\ dialable THEN 1 ELSE 0
      /\ starts /\ ~dialable => new.sent
  <2>1. CASE ~starts
    <3>1. new = request /\ request.replies = <<>> /\ DOMAIN request.replies = {}
      BY <1>4, <2>1
    <3>. QED BY <1>4, <2>1, <3>1
  <2>2. CASE starts /\ dialable
    <3>1. new = waiting /\ waiting.replies = <<>> /\ DOMAIN waiting.replies = {}
      BY <1>6, <2>2
    <3>. QED BY <1>6, <2>2, <3>1
  <2>3. CASE starts /\ ~dialable
    <3>1. new = failed
      BY <2>3
    <3> HIDE DEF new
    <3>2. /\ new.replies # <<>> /\ \A i \in DOMAIN new.replies : ~new.replies[i]
      BY <1>5, <1>7, <3>1
    <3>. QED BY <1>7, <2>3, <3>1, <3>2
  <2>. QED BY <2>1, <2>2, <2>3
<1> HIDE DEF new
<1>9. /\ calls' \in Seq(Appearances) /\ c \notin DOMAIN calls
      /\ DOMAIN calls' = DOMAIN calls \cup {c} /\ calls'[c] = call
      /\ \A b \in DOMAIN calls : calls'[b] = calls[b]
  BY <1>1, <1>2, <1>3, AppendType
<1>10. /\ requests' \in Seq(Requests) /\ r \notin DOMAIN requests
       /\ DOMAIN requests' = DOMAIN requests \cup {r} /\ requests'[r] = new
       /\ \A q \in DOMAIN requests : requests'[q] = requests[q]
  BY <1>1, <1>2, <1>8, AppendType
<1>11. ~ Granted(r)'
  BY <1>8, <1>10 DEF Granted
<1>12. /\ queue' \in Seq(DOMAIN requests')
       /\ \A q \in DOMAIN requests' : InQueue(q)' => InQueue(q) \/ q = r
  <2>1. CASE starts /\ ~dialable
    BY <1>1, <1>2, <1>10, <2>1 DEF InQueue, TypeOK
  <2>2. CASE ~(starts /\ ~dialable)
    <3>1. QueueGrows(r)
      BY <1>1, <1>2, <2>2, QueueAppended
    <3>. QED BY <1>10, <3>1 DEF QueueGrows
  <2>. QED BY <2>1, <2>2
<1>13. /\ kind' \in Seq(Kinds) /\ DOMAIN kind \subseteq DOMAIN kind'
       /\ \A id \in DOMAIN kind : kind'[id] = kind[id]
       /\ call.id # 0 => call.id \in DOMAIN kind'
       /\ \A id \in DOMAIN kind' \ DOMAIN kind : kind'[id] = "MakeCall"
  <2>1. CASE starts /\ dialable
    <3>1. kind' = Append(kind, "MakeCall") /\ "MakeCall" \in Kinds
      BY <1>2, <2>1 DEF Kinds
    <3>2. /\ kind' \in Seq(Kinds) /\ DOMAIN kind' = DOMAIN kind \cup {NextId}
          /\ kind'[NextId] = "MakeCall"
          /\ \A id \in DOMAIN kind : kind'[id] = kind[id]
      BY <1>1, <3>1, KindGrows
    <3>. QED BY <1>3, <2>1, <3>2
  <2>2. CASE ~(starts /\ dialable)
    BY <1>1, <1>2, <1>3, <2>2 DEF TypeOK
  <2>. QED BY <2>1, <2>2
<1>14. ViewKept
  <2>1. \A id \in DOMAIN view : Rank(view[id].state) \in 1 .. 5
    BY <1>1, ViewRanks
  <2>2. view' = view /\ view \in [DOMAIN view -> Calls]
    BY <1>1, <1>2 DEF TypeOK
  <2>. QED BY <1>13, <2>1, <2>2 DEF ViewKept
<1>15. CommandsKept
  BY <1>10 DEF CommandsKept
<1>16. Bound'
  <2>1. (\A u \in Threads : ThreadBound(thread[u]))'
    BY <1>2, <1>14, <1>15, ThreadsIdle
  <2>2. TypeOK'
    BY <1>1, <1>2, <1>9, <1>10, <1>12, <1>13 DEF TypeOK
  <2>3. MachineOK'
    BY <1>2, <1>13 DEF Bound, MachineOK
  <2>4. (\A i \in DOMAIN notices : NoticeTrue(notices[i]))'
    BY <1>2 DEF Bound, NoticeTrue
  <2>5. (\A q \in DOMAIN requests : requests[q].call \in DOMAIN calls)'
    BY <1>8, <1>9, <1>10 DEF Bound
  <2>6. (\A b \in DOMAIN calls : calls[b].id # 0 => calls[b].id \in DOMAIN kind)'
    BY <1>9, <1>13 DEF Bound
  <2>. QED BY <2>1, <2>2, <2>3, <2>4, <2>5, <2>6 DEF Bound
<1>17. \/ calls'[c].id = 0 /\ UNCHANGED kind /\ requests'[r].dials = 0
       \/ /\ calls'[c].id = NextId /\ kind' = Append(kind, "MakeCall")
          /\ requests'[r].dials = 1
  BY <1>2, <1>3, <1>8, <1>9, <1>10
<1>. QED BY <1>2, <1>3, <1>8, <1>9, <1>10, <1>11, <1>12, <1>16, <1>17

-----------------------------------------------------------------------------
\* The empty line is consistent.
LEMMA InitBound == Init => Bound
<1> SUFFICES ASSUME Init  PROVE Bound
  OBVIOUS
<1>1. /\ calls = <<>> /\ requests = <<>> /\ queue = <<>> /\ notices = <<>>
      /\ kind = <<>> /\ view = <<>> /\ thread = [t \in Threads |-> Resting]
  BY DEF Init, ViewInit
<1>2. /\ DOMAIN calls = {} /\ DOMAIN requests = {} /\ DOMAIN notices = {}
      /\ DOMAIN kind = {} /\ DOMAIN view = {}
  BY <1>1
<1>3. /\ calls \in Seq(Appearances) /\ requests \in Seq(Requests)
      /\ queue \in Seq(DOMAIN requests) /\ notices \in Seq(Notices)
      /\ kind \in Seq(Kinds)
  BY <1>1, EmptySeq
<1>4. view \in [DOMAIN view -> Calls]
  <2>1. view = [id \in {} |-> id]
    BY <1>1
  <2>. QED BY <1>2, <2>1
<1>5. TypeOK
  BY <1>1, <1>3, <1>4, RestingType DEF TypeOK
<1>6. \A t \in Threads : ThreadBound(thread[t])
  BY <1>1, RestingType DEF Resting, ThreadBound, EventTrue, Working, Answering
<1>. QED BY <1>2, <1>5, <1>6 DEF Bound, MachineOK

\* Every step keeps it consistent.
LEMMA NextBound == Bound /\ [Next]_vars => Bound'
<1> SUFFICES ASSUME Bound, [Next]_vars  PROVE Bound'
  OBVIOUS
<1>1. CASE UNCHANGED vars
  BY <1>1 DEF vars, Bound, TypeOK, MachineOK, NoticeTrue, ThreadBound, EventTrue
<1>2. ASSUME NEW t \in TapiThreads, TapiStep(t)  PROVE Bound'
  <2>1. t \in Threads
    BY DEF Threads
  <2>2. ASSUME NEW dialable \in Dialable, MakeCall(t, dialable)  PROVE Bound'
    BY <2>1, <2>2, LineAssumption, MakeCallBound
  <2>3. ASSUME NEW c \in DOMAIN calls, DropCall(t, c)  PROVE Bound'
    BY <2>1, <2>3, DropCallBound
  <2>4. ASSUME NEW c \in DOMAIN calls, CloseCall(t, c)  PROVE Bound'
    BY <2>1, <2>4, CloseCallBound
  <2>. QED BY <1>2, <2>2, <2>3, <2>4 DEF TapiStep
<1>3. ASSUME NEW t \in Threads, ThreadStep(t)  PROVE Bound'
  <2>1. ASSUME NEW r \in DOMAIN requests, HandleRequest(t, r)  PROVE Bound'
    BY <2>1, StartMakeCallBound, StartMakeCallFailsBound, StartDropCallBound,
       HandlingBound DEF HandleRequest
  <2>. QED BY <1>3, <2>1, GetCurrentRequestBound, AddDropRequestBound,
              BeginRequestBound, SetCallIDBound, CompleteRequestBound,
              ReplyToTapiBound, SetMadeCallStateBound, UnsolicitedBound
           DEF ThreadStep
<1>4. CASE TimerFires \/ PoolTakes
  BY <1>4, TimerFiresBound, PoolTakesBound
<1>5. ASSUME NEW r \in DOMAIN requests, TimePasses(r)  PROVE Bound'
  BY <1>5, TimePassesBound
<1>6. CASE MachineStep
  BY <1>6, CallFromOutsideBound, NotifyBound, EndOfCallBound DEF MachineStep
<1>. QED BY <1>1, <1>2, <1>3, <1>4, <1>5, <1>6 DEF Next

\* The state is consistent: a thread at work on a request works on one that
\* exists, of the right command, and no notice, event or appearance is ahead
\* of what the machine has notified.
THEOREM Consistent == Spec => []Bound
  BY InitBound, NextBound, PTL DEF Spec

(* The variables keep their types, whatever the machine, TAPI and time do   *)
(* to the line: calls and requests are the ones that were created, and no   *)
(* thread holds a request that does not exist.                              *)
THEOREM TypeCorrect == Spec => []TypeOK
<1>1. Bound => TypeOK
  BY DEF Bound
<1>. QED BY <1>1, Consistent, PTL

-----------------------------------------------------------------------------
(* What the steps do, as far as the answers and the calls depend on it.     *)

\* What a thread does, and that the others do what they did.
LEMMA DoesValue ==
  ASSUME TypeOK, NEW t \in Threads, NEW d, Does(t, d)
  PROVE  thread'[t] = d /\ \A u \in Threads \ {t} : thread'[u] = thread[u]
  BY DEF TypeOK, Does

\* The thread goes on and has nothing to say about a call.
CalmStep(t) ==
    /\ UNCHANGED <<calls, kind, view>> /\ DOMAIN requests' = DOMAIN requests
    /\ \A r \in DOMAIN requests :
          /\ Same(requests[r], requests'[r])
          /\ requests[r].command = "MAKECALL" /\ InQueue(r)' => InQueue(r)
    /\ \A u \in Threads \ {t} : thread'[u] = thread[u]
    /\ thread'[t].at \notin Answering \cup {"setCallID"}

\* Requests and a queue that do not change are the same.
LEMMA SameUnchanged ==
  UNCHANGED <<requests, queue>> =>
      /\ DOMAIN requests' = DOMAIN requests
      /\ \A r \in DOMAIN requests : /\ Same(requests[r], requests'[r])
                                    /\ InQueue(r)' => InQueue(r)
  BY DEF Same, InQueue

\* SetRequestState leaves commands, calls and answers alone.
LEMMA RequestStateSame ==
  ASSUME TypeOK, NEW r \in DOMAIN requests,
         NEW state \in {"NotProcessed", "Initial", "Ignored", "Waiting", "Completed"},
         requests' = RequestState(r, state)
  PROVE  /\ DOMAIN requests' = DOMAIN requests
         /\ \A q \in DOMAIN requests : Same(requests[q], requests'[q])
  BY RequestStateType DEF Same

\* These steps of a thread answer nothing, dial nothing and touch no call.
LEMMA CalmSteps ==
  ASSUME Bound, NEW t \in Threads,
         \/ t = Timer /\ TimerFires
         \/ t = Pool /\ PoolTakes
         \/ GetCurrentRequest(t) \/ BeginRequest(t) \/ AddDropRequest(t)
         \/ \E r \in DOMAIN requests :
               \/ StartDropCall(t, r) \/ NotForRequest(t, r)
               \/ AnswerDropCall(t, r) /\ thread[t].event.state # "IDLE"
  PROVE  CalmStep(t)
<1>1. TypeOK /\ requests \in Seq(Requests) /\ queue \in Seq(DOMAIN requests)
  BY DEF Bound, TypeOK
<1>2. \A event \in Notices, later \in Notices :
         Fetched(event, later).at \notin Answering \cup {"setCallID"}
  BY <1>1, FetchedType DEF Answering
<1>3. \A later \in Notices :
         /\ Finish(later).at \notin Answering \cup {"setCallID"}
         /\ Receives(later).at \notin Answering \cup {"setCallID"}
  BY FinishType, ReceivesType DEF Answering
<1>4. /\ thread[t].later \in Notices /\ NoNotice \in Notices
      /\ Unhandled(t) \in Notices
  BY ThreadNotices DEF Unhandled
<1>5. CASE t = Timer /\ TimerFires
  BY <1>1, <1>2, <1>4, <1>5, DoesValue, SameUnchanged DEF TimerFires, CalmStep
<1>6. CASE t = Pool /\ PoolTakes
  <2>1. Head(notices) \in Notices
    BY <1>1, <1>6, HeadTailProperties DEF PoolTakes, TypeOK
  <2>. QED BY <1>1, <1>2, <1>4, <1>6, <2>1, DoesValue, SameUnchanged
           DEF PoolTakes, CalmStep
<1>7. CASE GetCurrentRequest(t)
  BY <1>1, <1>2, <1>4, <1>7, DoesValue, SameUnchanged DEF GetCurrentRequest, CalmStep
<1>8. CASE BeginRequest(t)
  <2>1. thread[t].request \in DOMAIN requests
    BY <1>8, ThreadNotices DEF BeginRequest, ThreadBound, Working
  <2>2. /\ DOMAIN requests' = DOMAIN requests
        /\ \A q \in DOMAIN requests : Same(requests[q], requests'[q])
    BY <1>1, <1>8, <2>1, RequestStateSame DEF BeginRequest
  <2>3. /\ thread'[t] = [thread[t] EXCEPT !.at = "dispatch"]
        /\ \A u \in Threads \ {t} : thread'[u] = thread[u]
    BY <1>1, <1>8, DoesValue DEF BeginRequest
  <2>4. thread'[t].at = "dispatch"
    BY <2>3, ThreadNotices DEF Doings
  <2>5. UNCHANGED <<calls, queue, kind, view>>
    BY <1>8 DEF BeginRequest
  <2>. QED BY <2>2, <2>3, <2>4, <2>5 DEF CalmStep, Answering, InQueue
<1>9. CASE AddDropRequest(t)
  <2>1. /\ thread[t].request \in DOMAIN requests
        /\ requests[thread[t].request].command = "DROPCALL"
    BY <1>9, ThreadNotices DEF AddDropRequest, ThreadBound
  <2>2. QueueGrows(thread[t].request)
    BY <1>9, AddDropRequestBound
  <2>3. /\ UNCHANGED <<calls, requests, kind, view>>
        /\ Does(t, IF thread[t].value = 0 \/ queue = <<>>
                   THEN Receives(NoNotice) ELSE Resting)
    BY <1>9 DEF AddDropRequest
  <2>4. /\ thread'[t] \in {Receives(NoNotice), Resting}
        /\ \A u \in Threads \ {t} : thread'[u] = thread[u]
    BY <1>1, <2>3, DoesValue
  <2>5. thread'[t].at \notin Answering \cup {"setCallID"}
    BY <1>3, <1>4, <2>4 DEF Resting, Answering
  <2>6. \A r \in DOMAIN requests :
           /\ Same(requests[r], requests'[r])
           /\ requests[r].command = "MAKECALL" /\ InQueue(r)' => InQueue(r)
    BY <2>1, <2>2, <2>3 DEF QueueGrows, Same
  <2>. QED BY <2>3, <2>4, <2>5, <2>6 DEF CalmStep
<1>10. ASSUME NEW r \in DOMAIN requests, StartDropCall(t, r)  PROVE CalmStep(t)
  <2>1. /\ DOMAIN requests' = DOMAIN requests
        /\ \A q \in DOMAIN requests : Same(requests[q], requests'[q])
    BY <1>1, <1>10, RequestStateSame DEF StartDropCall
  <2>2. /\ thread'[t] = Finish(thread[t].later)
        /\ \A u \in Threads \ {t} : thread'[u] = thread[u]
    BY <1>1, <1>10, DoesValue DEF StartDropCall
  <2>3. UNCHANGED <<calls, queue, kind, view>>
    BY <1>10 DEF StartDropCall
  <2>. QED BY <1>3, <1>4, <2>1, <2>2, <2>3 DEF CalmStep, InQueue
<1>11. ASSUME NEW r \in DOMAIN requests, NotForRequest(t, r)  PROVE CalmStep(t)
  BY <1>1, <1>3, <1>4, <1>11, DoesValue, SameUnchanged DEF NotForRequest, CalmStep
<1>12. ASSUME NEW r \in DOMAIN requests,
              AnswerDropCall(t, r) /\ thread[t].event.state # "IDLE"
       PROVE  CalmStep(t)
  BY <1>1, <1>3, <1>4, <1>12, DoesValue, SameUnchanged DEF AnswerDropCall, CalmStep
<1>. QED BY <1>5, <1>6, <1>7, <1>8, <1>9, <1>10, <1>11, <1>12

\* The event of the thread is about the call of its request.
Concerned(t) ==
    LET r == thread[t].request
    IN  /\ thread[t].event # NoNotice
        /\ thread[t].event.id = calls[requests[r].call].id
        /\ requests[r].command = "DROPCALL" => thread[t].event.state = "IDLE"

\* The thread has a result for its request.
CompletingStep(t) ==
    /\ UNCHANGED <<calls, queue, kind, view>> /\ DOMAIN requests' = DOMAIN requests
    /\ \A r \in DOMAIN requests : Same(requests[r], requests'[r])
    /\ \A u \in Threads \ {t} : thread'[u] = thread[u]
    /\ thread[t].request \in DOMAIN requests /\ thread'[t].at = "complete"
    /\ thread'[t].request = thread[t].request /\ thread'[t].event = thread[t].event
    /\ thread'[t].ok => Concerned(t)

\* Completing a request is left to the thread that handles it.
LEMMA CompletesEffect ==
  ASSUME Bound, NEW t \in Threads, NEW ok \in BOOLEAN, NEW remove, NEW later,
         Completes(t, ok, remove, later)
  PROVE  /\ thread'[t].at = "complete" /\ thread'[t].request = thread[t].request
         /\ thread'[t].event = thread[t].event /\ thread'[t].ok = ok
         /\ \A u \in Threads \ {t} : thread'[u] = thread[u]
<1> DEFINE d == [thread[t] EXCEPT !.at = "complete", !.ok = ok, !.remove = remove,
                                  !.later = later]
<1>1. thread'[t] = d /\ \A u \in Threads \ {t} : thread'[u] = thread[u]
  BY DoesValue DEF Completes, Bound
<1>2. /\ d.at = "complete" /\ d.request = thread[t].request
      /\ d.event = thread[t].event /\ d.ok = ok
  BY ThreadNotices DEF Doings
<1>. QED BY <1>1, <1>2

\* These steps find a result for the request, and do nothing else with it.
LEMMA CompletingSteps ==
  ASSUME Bound, NEW t \in Threads, NEW r \in DOMAIN requests,
         \/ StartMakeCallFails(t, r) \/ AnswerMakeCall(t, r) \/ RequestOverdue(t, r)
         \/ AnswerDropCall(t, r) /\ thread[t].event.state = "IDLE"
  PROVE  CompletingStep(t)
<1>1. TypeOK /\ thread[t].request = r /\ UNCHANGED <<calls, queue, kind, view>>
  BY DEF Bound, StartMakeCallFails, AnswerMakeCall, RequestOverdue, AnswerDropCall,
         PassedOn, Concerns, Dispatched
<1>2. /\ DOMAIN requests' = DOMAIN requests
      /\ \A q \in DOMAIN requests : Same(requests[q], requests'[q])
  <2>1. CASE StartMakeCallFails(t, r)
    BY <1>1, <2>1, RequestStateSame DEF StartMakeCallFails
  <2>2. CASE ~StartMakeCallFails(t, r)
    <3>1. UNCHANGED <<requests, queue>>
      BY <2>2 DEF AnswerMakeCall, RequestOverdue, AnswerDropCall
    <3>. QED BY <3>1, SameUnchanged
  <2>. QED BY <2>1, <2>2
<1>3. /\ thread'[t].at = "complete" /\ thread'[t].request = thread[t].request
      /\ thread'[t].event = thread[t].event
      /\ thread'[t].ok => Concerned(t)
      /\ \A u \in Threads \ {t} : thread'[u] = thread[u]
  <2>1. CASE StartMakeCallFails(t, r)
    <3>1. Completes(t, FALSE, TRUE, thread[t].later)
      BY <2>1 DEF StartMakeCallFails
    <3>. QED BY <1>1, <3>1, CompletesEffect
  <2>2. CASE RequestOverdue(t, r)
    <3>1. Completes(t, FALSE, TRUE, Unhandled(t))
      BY <2>2 DEF RequestOverdue
    <3>. QED BY <1>1, <3>1, CompletesEffect
  <2>3. CASE AnswerMakeCall(t, r)
    <3>1. Concerned(t)
      BY <1>1, <2>3 DEF AnswerMakeCall, Concerns, Concerned
    <3>2. Completes(t, thread[t].event.state # "IDLE", thread[t].event.state = "IDLE",
                    thread[t].later)
      BY <2>3 DEF AnswerMakeCall
    <3>. QED BY <1>1, <3>1, <3>2, CompletesEffect
  <2>4. CASE AnswerDropCall(t, r) /\ thread[t].event.state = "IDLE"
    <3>1. Concerned(t)
      BY <1>1, <2>4 DEF AnswerDropCall, Concerns, Concerned
    <3>2. Completes(t, TRUE, TRUE, thread[t].later)
      BY <2>4 DEF AnswerDropCall
    <3>. QED BY <1>1, <3>1, <3>2, CompletesEffect
  <2>. QED BY <2>1, <2>2, <2>3, <2>4
<1>. QED BY <1>1, <1>2, <1>3 DEF CompletingStep

\* The result is noted, and what the thread does next with it.
LEMMA CompleteRequestEffect ==
  ASSUME Bound, NEW t \in Threads, CompleteRequest(t)
  PROVE  /\ UNCHANGED <<calls, kind, view>> /\ DOMAIN requests' = DOMAIN requests
         /\ \A q \in DOMAIN requests : /\ Same(requests[q], requests'[q])
                                       /\ InQueue(q)' => InQueue(q)
         /\ \A u \in Threads \ {t} : thread'[u] = thread[u]
         /\ thread[t].at = "complete" /\ thread'[t].at # "setCallID"
         /\ thread'[t].at \in Answering =>
               /\ thread'[t].ok = thread[t].ok /\ thread'[t].event = thread[t].event
               /\ thread'[t].request = thread[t].request
               /\ thread'[t].remove = thread[t].remove
         /\ thread'[t].at = "reply" =>
               thread'[t].send = ~requests[thread[t].request].sent
<1> DEFINE r == thread[t].request
<1>1. /\ TypeOK /\ r \in DOMAIN requests /\ thread[t] \in Doings
      /\ thread[t].at = "complete" /\ UNCHANGED <<calls, kind, view>>
  BY ThreadNotices DEF CompleteRequest, ThreadBound, Working, Bound
<1>2. CASE requests[r].state = "Completed"
  <2>1. UNCHANGED <<requests, queue>>
    BY <1>2 DEF CompleteRequest
  <2>2. /\ thread'[t] \in {Finish(thread[t].later),
                           [thread[t] EXCEPT !.at = "setCallState"]}
        /\ \A u \in Threads \ {t} : thread'[u] = thread[u]
    BY <1>1, <1>2, DoesValue DEF CompleteRequest
  <2>3. Finish(thread[t].later).at \in {"resting", "unsolicited"}
    BY ThreadNotices, FinishType
  <2>4. CASE thread'[t] = Finish(thread[t].later)
    BY <1>1, <2>1, <2>2, <2>3, <2>4, SameUnchanged DEF Answering
  <2>5. CASE thread'[t] = [thread[t] EXCEPT !.at = "setCallState"]
    <3>1. /\ thread'[t].at = "setCallState" /\ thread'[t].request = r
          /\ thread'[t].event = thread[t].event /\ thread'[t].ok = thread[t].ok
          /\ thread'[t].remove = thread[t].remove
      BY <1>1, <2>5 DEF Doings
    <3>. QED BY <1>1, <2>1, <2>2, <3>1, SameUnchanged DEF Answering
  <2>. QED BY <2>2, <2>4, <2>5
<1>3. CASE requests[r].state # "Completed"
  <2> DEFINE d == [thread[t] EXCEPT !.at = "reply",
                      !.current = queue # <<>> /\ Head(queue) = r,
                      !.send = ~requests[r].sent]
  <2>1. thread'[t] = d /\ \A u \in Threads \ {t} : thread'[u] = thread[u]
    BY <1>1, <1>3, DoesValue DEF CompleteRequest
  <2>2. /\ d.at = "reply" /\ d.request = r /\ d.event = thread[t].event
        /\ d.ok = thread[t].ok /\ d.remove = thread[t].remove
        /\ d.send = ~requests[r].sent
    BY <1>1 DEF Doings
  <2> HIDE DEF d
  <2>3. /\ DOMAIN requests' = DOMAIN requests
        /\ \A q \in DOMAIN requests : /\ Same(requests[q], requests'[q])
                                      /\ InQueue(q)' => InQueue(q)
    <3>1. CASE thread[t].remove
      <4>1. requests' = RequestState(r, "Completed") /\ queue' = Without(queue, {r})
        BY <1>3, <3>1 DEF CompleteRequest
      <4>. QED BY <1>1, <4>1, RequestStateSame, WithoutShrinks DEF QueueShrinks
    <3>2. CASE ~thread[t].remove
      <4>1. UNCHANGED <<requests, queue>>
        BY <1>3, <3>2 DEF CompleteRequest
      <4>. QED BY <4>1, SameUnchanged
    <3>. QED BY <3>1, <3>2
  <2>. QED BY <1>1, <2>1, <2>2, <2>3
<1>. QED BY <1>2, <1>3

\* Dialling, by its effect: one dial more, a new id, and the thread holds it.
LEMMA StartMakeCallEffect ==
  ASSUME Bound, NEW t \in Threads, NEW r \in DOMAIN requests, StartMakeCall(t, r)
  PROVE  /\ UNCHANGED <<calls, queue, view>> /\ DOMAIN requests' = DOMAIN requests
         /\ thread[t].request = r /\ thread[t].at = "dispatch"
         /\ requests[r].command = "MAKECALL"
         /\ requests'[r].dials = requests[r].dials + 1
         /\ \A q \in DOMAIN requests :
               /\ requests'[q].command = requests[q].command
               /\ requests'[q].call = requests[q].call
               /\ requests'[q].sent = requests[q].sent
               /\ requests'[q].replies = requests[q].replies
         /\ \A q \in DOMAIN requests \ {r} : requests'[q] = requests[q]
         /\ \A u \in Threads \ {t} : thread'[u] = thread[u]
         /\ thread'[t].at = "setCallID" /\ thread'[t].request = r
         /\ thread'[t].value = NextId /\ NextId \in Nat \ {0}
         /\ NextId \notin DOMAIN kind /\ DOMAIN kind' = DOMAIN kind \cup {NextId}
         /\ kind'[NextId] = "MakeCall"
         /\ \A id \in DOMAIN kind : kind'[id] = kind[id]
<1>1. /\ TypeOK /\ thread[t].request = r /\ thread[t].at = "dispatch"
      /\ requests[r].command = "MAKECALL"
  BY DEF Bound, StartMakeCall, Dispatched
<1>2. /\ requests' = Dialled(r) /\ kind' = Append(kind, "MakeCall")
      /\ UNCHANGED <<calls, queue, view>>
      /\ Does(t, [thread[t] EXCEPT !.at = "setCallID", !.value = NextId])
  BY DEF StartMakeCall, Dialled
<1>3. /\ kind' \in Seq(Kinds) /\ NextId \in Nat \ {0}
      /\ NextId \notin DOMAIN kind /\ DOMAIN kind' = DOMAIN kind \cup {NextId}
      /\ kind'[NextId] = "MakeCall" /\ \A id \in DOMAIN kind : kind'[id] = kind[id]
  BY <1>1, <1>2, KindGrows DEF Kinds
<1>4. /\ thread'[t] = [thread[t] EXCEPT !.at = "setCallID", !.value = NextId]
      /\ \A u \in Threads \ {t} : thread'[u] = thread[u]
  BY <1>1, <1>2, DoesValue
<1>5. /\ thread'[t].at = "setCallID" /\ thread'[t].request = r
      /\ thread'[t].value = NextId
  BY <1>1, <1>4, ThreadNotices DEF Doings
<1>6. /\ DOMAIN requests' = DOMAIN requests
      /\ requests'[r].dials = requests[r].dials + 1
      /\ \A q \in DOMAIN requests :
               /\ requests'[q].command = requests[q].command
               /\ requests'[q].call = requests[q].call
               /\ requests'[q].sent = requests[q].sent
               /\ requests'[q].replies = requests[q].replies
      /\ \A q \in DOMAIN requests \ {r} : requests'[q] = requests[q]
  BY <1>1, <1>2, DialType
<1>. QED BY <1>1, <1>2, <1>3, <1>4, <1>5, <1>6

\* The call gets the id that the thread holds, and nothing else changes.
LEMMA SetCallIDEffect ==
  ASSUME Bound, NEW t \in Threads, SetCallID(t)
  PROVE  LET c == requests[thread[t].request].call
         IN  /\ UNCHANGED <<requests, queue, kind, view>>
             /\ thread[t].at = "setCallID" /\ thread[t].request \in DOMAIN requests
             /\ c \in DOMAIN calls /\ DOMAIN calls' = DOMAIN calls
             /\ calls'[c].id = thread[t].value /\ calls'[c].state = calls[c].state
             /\ calls'[c].listed = calls[c].listed
             /\ calls'[c].dropped = calls[c].dropped
             /\ \A b \in DOMAIN calls \ {c} : calls'[b] = calls[b]
             /\ \A u \in Threads \ {t} : thread'[u] = thread[u]
             /\ thread'[t].at \in {"resting", "unsolicited"}
<1> DEFINE c == requests[thread[t].request].call
<1>1. /\ TypeOK /\ thread[t].at = "setCallID" /\ thread[t].request \in DOMAIN requests
  BY ThreadNotices DEF SetCallID, Bound, ThreadBound, Working
<1>2. c \in DOMAIN calls
  BY <1>1 DEF Bound
<1>3. calls[c] \in Appearances /\ calls \in Seq(Appearances)
  BY <1>1, <1>2 DEF TypeOK
<1>4. /\ calls' = [calls EXCEPT ![c].id = thread[t].value]
      /\ UNCHANGED <<requests, queue, kind, view>>
  BY DEF SetCallID
<1> HIDE DEF c
<1>5. /\ DOMAIN calls' = DOMAIN calls
      /\ calls'[c].id = thread[t].value /\ calls'[c].state = calls[c].state
      /\ calls'[c].listed = calls[c].listed
      /\ calls'[c].dropped = calls[c].dropped
      /\ \A b \in DOMAIN calls \ {c} : calls'[b] = calls[b]
  BY <1>2, <1>3, <1>4 DEF Appearances
<1>6. /\ thread'[t] = Finish(thread[t].later)
      /\ \A u \in Threads \ {t} : thread'[u] = thread[u]
  BY <1>1, DoesValue DEF SetCallID
<1>7. Finish(thread[t].later).at \in {"resting", "unsolicited"}
  BY ThreadNotices, FinishType
<1>. QED BY <1>1, <1>2, <1>4, <1>5, <1>6, <1>7 DEF c

-----------------------------------------------------------------------------
(* Requests are answered before the state of their call is set.             *)

\* sent says that there is a reply, and no thread forgets it.
Replying ==
    /\ \A r \in DOMAIN requests : requests[r].sent <=> requests[r].replies # <<>>
    /\ \A t \in Threads :
          thread[t].at = "reply" /\ ~thread[t].send => requests[thread[t].request].sent
    /\ StateAfterReply
    /\ \A p, q \in DOMAIN requests :
          /\ requests[p].command = "MAKECALL" /\ requests[q].command = "MAKECALL"
          /\ requests[p].call = requests[q].call
          => p = q

\* What a step must not do: take back an answer, or queue a request again.
LEMMA ReplyingStep ==
  ASSUME Bound, Replying, CommandsKept,
         \A r \in DOMAIN requests :
            /\ requests[r].sent => requests'[r].sent
            /\ requests'[r].sent <=> requests'[r].replies # <<>>
            /\ requests[r].command = "MAKECALL" /\ InQueue(r)' =>
                  /\ InQueue(r)
                  /\ calls'[requests[r].call].state # "UNKNOWN" =>
                        \/ calls[requests[r].call].state # "UNKNOWN"
                        \/ requests'[r].sent,
         \A r \in DOMAIN requests' \ DOMAIN requests :
            /\ requests'[r].sent <=> requests'[r].replies # <<>>
            /\ \/ requests'[r].command = "DROPCALL"
               \/ /\ DOMAIN requests' = DOMAIN requests \cup {r}
                  /\ requests'[r].call \notin DOMAIN calls
                  /\ \/ calls'[requests'[r].call].state = "UNKNOWN"
                     \/ requests'[r].sent,
         \A u \in Threads :
            thread'[u].at = "reply" /\ ~thread'[u].send =>
               \/ thread'[u] = thread[u]
               \/ /\ thread'[u].request \in DOMAIN requests
                  /\ requests'[thread'[u].request].sent
  PROVE  Replying'
<1>1. (\A r \in DOMAIN requests : requests[r].sent <=> requests[r].replies # <<>>)'
  OBVIOUS
<1>2. (\A t \in Threads : thread[t].at = "reply" /\ ~thread[t].send =>
                             requests[thread[t].request].sent)'
  <2> SUFFICES ASSUME NEW u \in Threads, thread'[u].at = "reply", ~thread'[u].send
               PROVE  requests'[thread'[u].request].sent
    OBVIOUS
  <2>1. CASE thread'[u] = thread[u]
    <3>1. requests[thread[u].request].sent
      BY <2>1 DEF Replying
    <3>2. thread[u].request \in DOMAIN requests
      BY <2>1, ThreadNotices DEF ThreadBound, Working
    <3>. QED BY <2>1, <3>1, <3>2
  <2>2. CASE thread'[u] # thread[u]
    BY <2>2
  <2>. QED BY <2>1, <2>2
<1>3. StateAfterReply'
  <2> SUFFICES ASSUME NEW r \in DOMAIN requests', InQueue(r)',
                      requests'[r].command = "MAKECALL",
                      calls'[requests'[r].call].state # "UNKNOWN"
               PROVE  requests'[r].replies # <<>>
    BY DEF StateAfterReply
  <2>1. CASE r \in DOMAIN requests
    <3>1. /\ requests[r].command = "MAKECALL" /\ requests'[r].call = requests[r].call
          /\ InQueue(r)
          /\ calls[requests[r].call].state # "UNKNOWN" \/ requests'[r].sent
      BY <2>1 DEF CommandsKept
    <3>2. calls[requests[r].call].state # "UNKNOWN" => requests[r].sent
      BY <2>1, <3>1 DEF Replying, StateAfterReply
    <3>. QED BY <2>1, <3>1, <3>2
  <2>2. CASE r \notin DOMAIN requests
    BY <2>2
  <2>. QED BY <2>1, <2>2
<1>4. ASSUME NEW p \in DOMAIN requests', NEW q \in DOMAIN requests',
             requests'[p].command = "MAKECALL", requests'[q].command = "MAKECALL",
             requests'[p].call = requests'[q].call
      PROVE  p = q
  <2>1. \A r \in DOMAIN requests : requests'[r].call \in DOMAIN calls
    BY DEF Bound, CommandsKept
  <2>2. CASE p \in DOMAIN requests /\ q \in DOMAIN requests
    BY <1>4, <2>2 DEF Replying, CommandsKept
  <2>3. CASE p \notin DOMAIN requests
    <3>1. /\ DOMAIN requests' = DOMAIN requests \cup {p}
          /\ requests'[p].call \notin DOMAIN calls
      BY <1>4, <2>3
    <3>. QED BY <1>4, <2>1, <3>1
  <2>4. CASE q \notin DOMAIN requests
    <3>1. /\ DOMAIN requests' = DOMAIN requests \cup {q}
          /\ requests'[q].call \notin DOMAIN calls
      BY <1>4, <2>4
    <3>. QED BY <1>4, <2>1, <3>1
  <2>. QED BY <2>2, <2>3, <2>4
<1>. QED BY <1>1, <1>2, <1>3, <1>4 DEF Replying

\* Steps that answer nothing and set no state.
LEMMA ReplyingSame ==
  ASSUME Bound, Replying, DOMAIN requests' = DOMAIN requests,
         \A r \in DOMAIN requests :
            /\ requests'[r].command = requests[r].command
            /\ requests'[r].call = requests[r].call
            /\ requests'[r].sent = requests[r].sent
            /\ requests'[r].replies = requests[r].replies
            /\ requests[r].command = "MAKECALL" /\ InQueue(r)' => InQueue(r),
         DOMAIN calls \subseteq DOMAIN calls',
         \A c \in DOMAIN calls : calls'[c].state # "UNKNOWN" => calls[c].state # "UNKNOWN",
         \A u \in Threads :
            thread'[u].at = "reply" /\ ~thread'[u].send =>
               \/ thread'[u] = thread[u]
               \/ /\ thread'[u].request \in DOMAIN requests
                  /\ requests[thread'[u].request].sent
  PROVE  Replying'
<1>1. CommandsKept
  BY DEF CommandsKept
<1>2. \A r \in DOMAIN requests : requests[r].call \in DOMAIN calls
  BY DEF Bound
<1>3. \A r \in DOMAIN requests :
            /\ requests[r].sent => requests'[r].sent
            /\ requests'[r].sent <=> requests'[r].replies # <<>>
  BY DEF Replying
<1>. QED BY <1>1, <1>2, <1>3, ReplyingStep

\* Steps without an answer keep the order of answer and state.
LEMMA CalmReplying ==
  ASSUME Bound, Replying, NEW t \in Threads, CalmStep(t) \/ CompletingStep(t)
  PROVE  Replying'
<1>1. /\ UNCHANGED calls /\ DOMAIN requests' = DOMAIN requests
      /\ \A r \in DOMAIN requests :
            /\ Same(requests[r], requests'[r])
            /\ requests[r].command = "MAKECALL" /\ InQueue(r)' => InQueue(r)
      /\ \A u \in Threads \ {t} : thread'[u] = thread[u]
      /\ thread'[t].at # "reply"
  BY DEF CalmStep, CompletingStep, Answering, InQueue
<1>. QED BY <1>1, ReplyingSame DEF Same

\* So does noting the result.
LEMMA CompleteRequestReplying ==
  ASSUME Bound, Replying, NEW t \in Threads, CompleteRequest(t)
  PROVE  Replying'
<1>1. /\ UNCHANGED calls /\ DOMAIN requests' = DOMAIN requests
      /\ \A r \in DOMAIN requests : /\ Same(requests[r], requests'[r])
                                    /\ InQueue(r)' => InQueue(r)
      /\ \A u \in Threads \ {t} : thread'[u] = thread[u]
      /\ thread'[t].at = "reply" =>
            /\ thread'[t].request = thread[t].request
            /\ thread'[t].send = ~requests[thread[t].request].sent
  BY CompleteRequestEffect DEF Answering
<1>2. thread[t].request \in DOMAIN requests
  BY ThreadNotices DEF CompleteRequest, ThreadBound, Working
<1>. QED BY <1>1, <1>2, ReplyingSame DEF Same

\* So does dialling.
LEMMA StartMakeCallReplying ==
  ASSUME Bound, Replying, NEW t \in Threads, NEW r \in DOMAIN requests,
         StartMakeCall(t, r)
  PROVE  Replying'
<1>1. /\ UNCHANGED <<calls, queue>> /\ DOMAIN requests' = DOMAIN requests
      /\ \A q \in DOMAIN requests :
            /\ requests'[q].command = requests[q].command
            /\ requests'[q].call = requests[q].call
            /\ requests'[q].sent = requests[q].sent
            /\ requests'[q].replies = requests[q].replies
      /\ \A u \in Threads \ {t} : thread'[u] = thread[u]
      /\ thread'[t].at = "setCallID"
  BY StartMakeCallEffect
<1>2. \A q \in DOMAIN requests : InQueue(q)' => InQueue(q)
  BY <1>1 DEF InQueue
<1>. QED BY <1>1, <1>2, ReplyingSame

\* So does the id of the call.
LEMMA SetCallIDReplying ==
  ASSUME Bound, Replying, NEW t \in Threads, SetCallID(t)
  PROVE  Replying'
<1>1. /\ UNCHANGED <<requests, queue>> /\ DOMAIN calls' = DOMAIN calls
      /\ \A c \in DOMAIN calls : calls'[c].state = calls[c].state
      /\ \A u \in Threads \ {t} : thread'[u] = thread[u]
      /\ thread'[t].at # "reply"
  BY SetCallIDEffect
<1>2. \A q \in DOMAIN requests : InQueue(q)' => InQueue(q)
  BY <1>1 DEF InQueue
<1>. QED BY <1>1, <1>2, ReplyingSame

\* An answer is a reply.
LEMMA TellsReply ==
  ASSUME NEW old \in Requests, NEW new, NEW ok,
         old.sent <=> old.replies # <<>>, Tells(old, new, ok)
  PROVE  new.sent /\ new.replies # <<>>
<1>1. Append(old.replies, ok) # <<>>
  <2>1. \A S : \A s \in Seq(S), e \in S : Append(s, e) # <<>>
    BY AppendProperties
  <2>2. old.replies \in Seq(BOOLEAN \cup {ok})
    BY DEF Requests
  <2>. QED BY <2>1, <2>2
<1>. QED BY <1>1 DEF Tells

\* The answer is what lets the state of the call be set.
LEMMA ReplyToTapiReplying ==
  ASSUME Bound, Replying, NEW t \in Threads, ReplyToTapi(t)
  PROVE  Replying'
<1> DEFINE r == thread[t].request
<1>1. /\ r \in DOMAIN requests /\ \A q \in DOMAIN requests : requests[q] \in Requests
      /\ thread[t].at = "reply" /\ thread[t].ok \in BOOLEAN
  BY ReplyingThread
<1>2. /\ QueueShrinks /\ DOMAIN requests' = DOMAIN requests
      /\ Replied(requests[r], requests'[r], thread[t])
      /\ \A q \in DOMAIN requests \ {r} :
            \/ requests'[q] = requests[q]
            \/ Tells(requests[q], requests'[q], FALSE)
      /\ \A u \in Threads \ {t} : thread'[u] = thread[u]
      /\ thread'[t].at # "reply"
  BY ReplyToTapiBound
<1>4. requests'[r].sent /\ requests'[r].replies # <<>>
  <2>1. Append(requests[r].replies, thread[t].ok) # <<>>
    BY <1>1, AppendProperties DEF Requests
  <2>2. ~thread[t].send => requests[r].replies # <<>>
    BY <1>1 DEF Replying
  <2>. QED BY <1>2, <2>1, <2>2 DEF Replied
<1>5. \A q \in DOMAIN requests \ {r} :
         /\ requests'[q].command = requests[q].command
         /\ requests'[q].call = requests[q].call
         /\ requests[q].sent => requests'[q].sent
         /\ requests'[q].sent <=> requests'[q].replies # <<>>
  <2> SUFFICES ASSUME NEW q \in DOMAIN requests \ {r}
               PROVE  /\ requests'[q].command = requests[q].command
                      /\ requests'[q].call = requests[q].call
                      /\ requests[q].sent => requests'[q].sent
                      /\ requests'[q].sent <=> requests'[q].replies # <<>>
    OBVIOUS
  <2>1. requests[q].sent <=> requests[q].replies # <<>>
    BY DEF Replying
  <2>2. CASE requests'[q] = requests[q]
    BY <2>1, <2>2
  <2>3. CASE Tells(requests[q], requests'[q], FALSE)
    <3>1. requests'[q].sent /\ requests'[q].replies # <<>>
      BY <1>1, <2>1, <2>3, TellsReply
    <3>. QED BY <2>3, <3>1 DEF Tells
  <2>. QED BY <1>2, <2>2, <2>3
<1>6. CommandsKept
  BY <1>2, <1>5 DEF CommandsKept, Replied
<1>7. \A q \in DOMAIN requests : InQueue(q)' => InQueue(q)
  BY <1>2 DEF QueueShrinks
<1>8. \A q \in Failing(t) : q \in DOMAIN requests /\ requests'[q].sent
  <2>1. \A q \in Others(t) : q \in DOMAIN requests \ {r}
    BY DEF Others, RequestsOf
  <2>2. \A q \in Others(t) : requests'[q].sent
    BY <2>1, ReplyToTapiBound DEF Tells
  <2>. QED BY <1>1, <1>4, <2>1, <2>2 DEF Failing
<1>9. ASSUME NEW q \in DOMAIN requests, requests[q].command = "MAKECALL",
             calls'[requests[q].call].state # "UNKNOWN",
             calls[requests[q].call].state = "UNKNOWN"
      PROVE  requests'[q].sent
  <2> DEFINE c == requests[q].call
  <2>1. c \in DOMAIN calls
    BY DEF Bound
  <2>2. calls[c].state = "UNKNOWN" /\ calls'[c].state # "UNKNOWN"
    BY <1>9
  <2> HIDE DEF c
  <2>3. Asks(Failing(t), "MAKECALL", c)
    BY <2>1, <2>2, ReplyToTapiCalls
  <2>4. PICK p \in Failing(t) : requests[p].command = "MAKECALL" /\ requests[p].call = c
    BY <2>3 DEF Asks
  <2>5. p = q
    BY <1>8, <1>9, <2>4 DEF c, Replying
  <2>. QED BY <1>8, <2>5
<1>. QED BY <1>2, <1>4, <1>5, <1>6, <1>7, <1>9, ReplyingStep

\* SetCallState answers the request that makes the call.
LEMMA SetCallStateReplying ==
  ASSUME Bound, Replying, NEW c \in DOMAIN calls, NEW state \in LineCallStates,
         SetCallState(c, state),
         \A u \in Threads : thread'[u].at = "reply" => thread'[u] = thread[u]
  PROVE  Replying'
<1>1. TypeOK /\ \A q \in DOMAIN requests : requests[q] \in Requests
  BY DEF Bound, TypeOK
<1>2. /\ DOMAIN calls' = DOMAIN calls
      /\ \A b \in DOMAIN calls \ {c} : calls'[b] = calls[b]
      /\ calls'[c] = IF calls[c].state = "IDLE" THEN calls[c] ELSE CallAfter(c, state)
      /\ RequestsAnswered /\ QueueShrinks
      /\ \A r \in DOMAIN requests :
            r \in RequestsMaking(c) /\ calls[c].state # "IDLE" =>
               Tells(requests[r], requests'[r], TRUE)
  BY <1>1, SetCallStateEffect
<1>3. \A r \in DOMAIN requests :
         /\ requests'[r].command = requests[r].command
         /\ requests'[r].call = requests[r].call
         /\ requests[r].sent => requests'[r].sent
         /\ requests'[r].sent <=> requests'[r].replies # <<>>
  <2> SUFFICES ASSUME NEW r \in DOMAIN requests
               PROVE  /\ requests'[r].command = requests[r].command
                      /\ requests'[r].call = requests[r].call
                      /\ requests[r].sent => requests'[r].sent
                      /\ requests'[r].sent <=> requests'[r].replies # <<>>
    OBVIOUS
  <2>1. requests[r].sent <=> requests[r].replies # <<>>
    BY DEF Replying
  <2>2. CASE requests'[r] = requests[r]
    BY <2>1, <2>2
  <2>3. ASSUME NEW ok \in BOOLEAN, Tells(requests[r], requests'[r], ok)
        PROVE  /\ requests'[r].command = requests[r].command
               /\ requests'[r].call = requests[r].call
               /\ requests'[r].sent /\ requests'[r].replies # <<>>
    BY <1>1, <2>1, <2>3, TellsReply DEF Tells
  <2>. QED BY <1>2, <2>2, <2>3 DEF RequestsAnswered
<1>4. DOMAIN requests' = DOMAIN requests
  BY <1>2 DEF RequestsAnswered
<1>5. CommandsKept
  BY <1>3, <1>4 DEF CommandsKept
<1>6. \A r \in DOMAIN requests :
         requests[r].command = "MAKECALL" /\ InQueue(r)' =>
            /\ InQueue(r)
            /\ calls'[requests[r].call].state # "UNKNOWN" =>
                  \/ calls[requests[r].call].state # "UNKNOWN"
                  \/ requests'[r].sent
  <2> SUFFICES ASSUME NEW r \in DOMAIN requests, requests[r].command = "MAKECALL",
                      InQueue(r)'
               PROVE  /\ InQueue(r)
                      /\ calls'[requests[r].call].state # "UNKNOWN" =>
                            \/ calls[requests[r].call].state # "UNKNOWN"
                            \/ requests'[r].sent
    OBVIOUS
  <2>1. InQueue(r) /\ requests[r].call \in DOMAIN calls
    BY <1>2 DEF QueueShrinks, Bound
  <2>2. CASE requests[r].call # c
    BY <1>2, <2>1, <2>2
  <2>3. CASE requests[r].call = c /\ calls[c].state = "UNKNOWN"
    <3>1. r \in RequestsMaking(c)
      BY <2>1, <2>3 DEF RequestsMaking, RequestsOf
    <3>. QED BY <1>2, <2>1, <2>3, <3>1 DEF Tells
  <2>4. CASE requests[r].call = c /\ calls[c].state # "UNKNOWN"
    BY <2>1, <2>4
  <2>. QED BY <2>2, <2>3, <2>4
<1>. QED BY <1>3, <1>4, <1>5, <1>6, ReplyingStep

\* The state of a call is set by the answer to its request, or by an event.
LEMMA SetMadeCallReplying ==
  ASSUME Bound, Replying, NEW t \in Threads, SetMadeCallState(t)
  PROVE  Replying'
<1>1. /\ thread[t].request \in DOMAIN requests /\ thread[t].event \in Notices
      /\ SetCallState(requests[thread[t].request].call, thread[t].event.state)
  BY ThreadNotices DEF SetMadeCallState, ThreadBound, Working
<1>2. /\ requests[thread[t].request].call \in DOMAIN calls
      /\ thread[t].event.state \in LineCallStates
  BY <1>1 DEF Bound, Notices
<1>3. \A u \in Threads : thread'[u].at = "reply" => thread'[u] = thread[u]
  BY SetMadeCallStateBound
<1>. QED BY <1>1, <1>2, <1>3, SetCallStateReplying

\* An appearance that is appended changes no other one.
LEMMA NewCallEffect ==
  ASSUME Bound, NEW event \in Notices, NewCall(event),
         NEW n, n = Len(calls) + 1
  PROVE  /\ n \notin DOMAIN calls /\ DOMAIN calls' = DOMAIN calls \cup {n}
         /\ calls'[n].id = event.id /\ calls'[n].listed
         /\ Active(calls'[n]) /\ ~calls'[n].dropped
         /\ Rank(calls'[n].state) <= Rank(view[event.id].state)
         /\ \A c \in DOMAIN calls : calls'[c] = calls[c]
<1>1. PICK state \in {"OFFERING", "PROCEEDING"} :
         /\ calls' = Append(calls, NewAppearance(event.id, state))
         /\ Rank(state) <= Rank(view[event.id].state)
  BY DEF NewCall
<1> DEFINE new == NewAppearance(event.id, state)
<1>2. new \in Appearances /\ new.id = event.id /\ new.state = state /\ new.listed
  BY NewAppearanceType DEF Notices, LineCallStates, FirstStates
<1>3. ~new.dropped
  BY DEF NewAppearance
<1> HIDE DEF new
<1>4. calls \in Seq(Appearances) /\ calls' = Append(calls, new)
  BY <1>1 DEF Bound, TypeOK, new
<1>5. /\ n \notin DOMAIN calls /\ DOMAIN calls' = DOMAIN calls \cup {n}
      /\ calls'[n] = new /\ \A c \in DOMAIN calls : calls'[c] = calls[c]
  BY <1>2, <1>4, AppendType
<1>. QED BY <1>1, <1>2, <1>3, <1>5 DEF Active

\* A notice without a request sets a state too: SetCallState answers first.
LEMMA UnsolicitedReplying ==
  ASSUME Bound, Replying, NEW t \in Threads, UnsolicitedCallEvent(t)
  PROVE  Replying'
<1>1. /\ thread[t].later \in Notices
      /\ \A u \in Threads : thread'[u].at = "reply" => thread'[u] = thread[u]
  BY UnsolicitedBound DEF Resting
<1>2. ASSUME NEW c \in FindCallByCallID(thread[t].later.id),
             SetCallState(c, thread[t].later.state)
      PROVE  Replying'
  <2>1. c \in DOMAIN calls /\ thread[t].later.state \in LineCallStates
    BY <1>1 DEF FindCallByCallID, Notices
  <2>. QED BY <1>1, <1>2, <2>1, SetCallStateReplying
<1>3. CASE UNCHANGED <<requests, queue>> /\ (UNCHANGED calls \/ NewCall(thread[t].later))
  <2>1. /\ DOMAIN calls \subseteq DOMAIN calls'
        /\ \A c \in DOMAIN calls : calls'[c] = calls[c]
    BY <1>1, <1>3, NewCallEffect
  <2>2. \A q \in DOMAIN requests : InQueue(q)' => InQueue(q)
    BY <1>3 DEF InQueue
  <2>. QED BY <1>1, <1>3, <2>1, <2>2, ReplyingSame
<1>. QED BY <1>2, <1>3, UnsolicitedBound

\* A new request has no answer, and its call has no state; or there is nothing
\* to dial and TAPI is told at once.
LEMMA MakeCallReplying ==
  ASSUME Bound, Replying, NEW t \in Threads, NEW dialable \in BOOLEAN,
         MakeCall(t, dialable)
  PROVE  Replying'
<1> DEFINE r == Len(requests) + 1
           c == Len(calls) + 1
<1>1. /\ UNCHANGED thread
      /\ calls'[c].state = "UNKNOWN" \/ requests'[r].sent
      /\ c \notin DOMAIN calls
      /\ \A b \in DOMAIN calls : calls'[b] = calls[b]
      /\ r \notin DOMAIN requests /\ DOMAIN requests' = DOMAIN requests \cup {r}
      /\ requests'[r].call = c /\ (requests'[r].sent <=> requests'[r].replies # <<>>)
      /\ \A q \in DOMAIN requests : requests'[q] = requests[q]
      /\ \A q \in DOMAIN requests' : InQueue(q)' => InQueue(q) \/ q = r
  BY MakeCallBound
<1> HIDE DEF r, c
<1>2. CommandsKept
  BY <1>1 DEF CommandsKept
<1>3. \A q \in DOMAIN requests : requests[q].call \in DOMAIN calls
  BY DEF Bound
<1>4. \A q \in DOMAIN requests : requests[q].sent <=> requests[q].replies # <<>>
  BY DEF Replying
<1>. QED BY <1>1, <1>2, <1>3, <1>4, ReplyingStep

\* What a request to drop a call adds.
LEMMA DropCallEffect ==
  ASSUME Bound, NEW t \in Threads, NEW c \in DOMAIN calls, DropCall(t, c),
         NEW r, r = Len(requests) + 1
  PROVE  /\ DOMAIN calls' = DOMAIN calls
         /\ \A b \in DOMAIN calls : /\ calls'[b].id = calls[b].id
                                    /\ calls'[b].state = calls[b].state
                                    /\ calls'[b].listed = calls[b].listed
         /\ UNCHANGED <<queue, kind, view>>
         /\ Active(calls[c])
         /\ r \notin DOMAIN requests /\ DOMAIN requests' = DOMAIN requests \cup {r}
         /\ requests'[r].command = "DROPCALL" /\ requests'[r].call = c
         /\ ~requests'[r].sent /\ requests'[r].replies = <<>>
         /\ requests'[r].dials = 0
         /\ \A q \in DOMAIN requests : requests'[q] = requests[q]
         /\ \A u \in Threads \ {t} : thread'[u] = thread[u]
         /\ thread'[t].at = "insert" /\ thread'[t].request = r
<1> DEFINE new == NewRequest("DROPCALL", c, FALSE)
<1>1. /\ new \in Requests /\ new.command = "DROPCALL" /\ new.call = c
      /\ ~new.sent /\ new.replies = <<>> /\ new.dials = 0
  <2>1. c \in Nat
    BY DEF Bound, TypeOK
  <2>. QED BY <2>1, NewRequestType
<1>2. requests' = Append(requests, new) /\ requests \in Seq(Requests)
  BY DropCallBound DEF Bound, TypeOK
<1> HIDE DEF new
<1>3. /\ r \notin DOMAIN requests /\ DOMAIN requests' = DOMAIN requests \cup {r}
      /\ requests'[r] = new
      /\ \A q \in DOMAIN requests : requests'[q] = requests[q]
  BY <1>1, <1>2, AppendType
<1>. QED BY <1>1, <1>3, DropCallBound DEF DropCall

\* A new drop request sets no state.
LEMMA DropCallReplying ==
  ASSUME Bound, Replying, NEW t \in Threads, NEW c \in DOMAIN calls, DropCall(t, c)
  PROVE  Replying'
<1> DEFINE r == Len(requests) + 1
<1>1. /\ \A b \in DOMAIN calls : calls'[b].state = calls[b].state
      /\ UNCHANGED queue
      /\ DOMAIN requests' = DOMAIN requests \cup {r}
      /\ requests'[r].command = "DROPCALL"
      /\ ~requests'[r].sent /\ requests'[r].replies = <<>>
      /\ \A q \in DOMAIN requests : requests'[q] = requests[q]
      /\ \A u \in Threads \ {t} : thread'[u] = thread[u]
      /\ thread'[t].at = "insert"
  BY DropCallEffect
<1> HIDE DEF r
<1>2. CommandsKept
  BY <1>1 DEF CommandsKept
<1>3. \A q \in DOMAIN requests : /\ requests[q].call \in DOMAIN calls
                                 /\ requests[q].sent <=> requests[q].replies # <<>>
                                 /\ InQueue(q)' => InQueue(q)
  BY <1>1 DEF Bound, Replying, InQueue
<1>. QED BY <1>1, <1>2, <1>3, ReplyingStep

\* Closing a call leaves its state and its requests as they are.
LEMMA CloseCallReplying ==
  ASSUME Bound, Replying, NEW t \in Threads, NEW c \in DOMAIN calls, CloseCall(t, c)
  PROVE  Replying'
<1>1. /\ DOMAIN calls' = DOMAIN calls /\ calls'[c] = CloseAfter(c)
      /\ \A b \in DOMAIN calls \ {c} : calls'[b] = calls[b]
  BY CloseCallBound
<1>2. UNCHANGED <<requests, queue, thread>> /\ calls[c] \in Appearances
  BY DEF CloseCall, Bound, TypeOK
<1>3. CloseAfter(c).state = calls[c].state
  BY <1>2 DEF CloseAfter, RemoveCallAppearance, Appearances
<1>4. \A b \in DOMAIN calls : calls'[b].state = calls[b].state
  BY <1>1, <1>3
<1>5. \A q \in DOMAIN requests : InQueue(q)' => InQueue(q)
  BY <1>2 DEF InQueue
<1>. QED BY <1>1, <1>2, <1>4, <1>5, ReplyingSame

\* Time and the machine change nothing that is told.
LEMMA ElsewhereReplying ==
  ASSUME Bound, Replying,
         (\E r \in DOMAIN requests : TimePasses(r)) \/ MachineStep
  PROVE  Replying'
<1>1. /\ UNCHANGED <<calls, queue, thread>> /\ DOMAIN requests' = DOMAIN requests
      /\ \A q \in DOMAIN requests : Same(requests[q], requests'[q])
  <2>1. CASE MachineStep
    BY <2>1 DEF MachineStep, CallFromOutside, Notify, EndOfCall, Same
  <2>2. ASSUME NEW r \in DOMAIN requests, TimePasses(r)
        PROVE  /\ UNCHANGED <<calls, queue, thread>>
               /\ DOMAIN requests' = DOMAIN requests
               /\ \A q \in DOMAIN requests : Same(requests[q], requests'[q])
    <3>1. UNCHANGED <<calls, queue, thread>>
      BY <2>2 DEF TimePasses
    <3>. QED BY <2>2, <3>1, TimePassesBound
  <2>. QED BY <2>1, <2>2
<1>2. \A q \in DOMAIN requests : InQueue(q)' => InQueue(q)
  BY <1>1 DEF InQueue
<1>. QED BY <1>1, <1>2, ReplyingSame DEF Same

\* There is nothing to answer at first.
LEMMA InitReplying == Init => Replying
  BY DEF Init, Replying, StateAfterReply, Resting

\* Every step keeps the order of answer and state.
LEMMA NextReplying == Bound /\ Replying /\ [Next]_vars => Replying'
<1> SUFFICES ASSUME Bound, Replying, [Next]_vars  PROVE Replying'
  OBVIOUS
<1>1. CASE UNCHANGED vars
  BY <1>1 DEF vars, Replying, StateAfterReply, InQueue
<1>2. ASSUME NEW t \in TapiThreads, TapiStep(t)  PROVE Replying'
  <2>1. t \in Threads
    BY DEF Threads
  <2>2. ASSUME NEW dialable \in Dialable, MakeCall(t, dialable)  PROVE Replying'
    BY <2>1, <2>2, LineAssumption, MakeCallReplying
  <2>. QED BY <1>2, <2>1, <2>2, DropCallReplying, CloseCallReplying DEF TapiStep
<1>3. ASSUME NEW t \in Threads, ThreadStep(t)  PROVE Replying'
  <2>1. ASSUME NEW r \in DOMAIN requests, HandleRequest(t, r)  PROVE Replying'
    <3>1. CASE StartMakeCall(t, r)
      BY <3>1, StartMakeCallReplying
    <3>2. CASE ~StartMakeCall(t, r)
      BY <2>1, <3>2, CalmSteps, CompletingSteps, CalmReplying DEF HandleRequest
    <3>. QED BY <3>1, <3>2
  <2>2. CASE GetCurrentRequest(t) \/ BeginRequest(t) \/ AddDropRequest(t)
    BY <2>2, CalmSteps, CalmReplying
  <2>. QED BY <1>3, <2>1, <2>2, SetCallIDReplying, CompleteRequestReplying,
              ReplyToTapiReplying, SetMadeCallReplying, UnsolicitedReplying
           DEF ThreadStep
<1>4. CASE TimerFires \/ PoolTakes
  <2>1. Timer \in Threads /\ Pool \in Threads
    BY DEF Threads
  <2>. QED BY <1>4, <2>1, CalmSteps, CalmReplying
<1>5. CASE (\E r \in DOMAIN requests : TimePasses(r)) \/ MachineStep
  BY <1>5, ElsewhereReplying
<1>. QED BY <1>1, <1>2, <1>3, <1>4, <1>5 DEF Next

(* No state of a call that TAPI makes is passed on before the request was   *)
(* answered: SetCallState answers it first (Call.cpp), whichever thread     *)
(* comes with the state, and the reply that CompleteRequest has promised to *)
(* itself by m_fResponseSent is made before anything else depends on it.    *)
THEOREM AnsweredBeforeState == Spec => []StateAfterReply
<1>1. Bound /\ Replying /\ [Next]_vars => Replying'
  BY NextReplying
<1>2. Replying => StateAfterReply
  BY DEF Replying
<1>. QED BY <1>1, <1>2, InitReplying, Consistent, PTL DEF Spec

-----------------------------------------------------------------------------
(* A call of the machine has one appearance on the line.                    *)

\* No appearance on the line has the id.
Unlisted(id) == \A c \in DOMAIN calls : calls[c].listed => calls[c].id # id

\* A call of the machine that has no appearance yet, though a thread is about
\* to give its id to one, is no call that UnsolicitedCallEvent could add.
IdsApart ==
    /\ \A b, c \in DOMAIN calls :
          /\ calls[b].listed /\ calls[c].listed
          /\ calls[b].id = calls[c].id /\ calls[b].id # 0
          => b = c
    /\ \A t \in Threads : thread[t].at = "setCallID" =>
          kind[thread[t].value] = "MakeCall" /\ Unlisted(thread[t].value)
    /\ \A t, u \in Threads :
          /\ thread[t].at = "setCallID" /\ thread[u].at = "setCallID"
          /\ thread[t].value = thread[u].value
          => t = u

\* An id that waits for its appearance is one of the machine.
LEMMA ValueKnown ==
  ASSUME Bound, NEW t \in Threads, thread[t].at = "setCallID"
  PROVE  thread[t].value \in DOMAIN kind /\ thread[t].value # 0
  BY ThreadNotices DEF ThreadBound, Bound, TypeOK

\* Steps that give no appearance an id.
LEMMA IdsApartStep ==
  ASSUME Bound, IdsApart,
         \A id \in DOMAIN kind : kind'[id] = kind[id],
         \A c \in DOMAIN calls' : calls'[c].listed =>
            \/ calls'[c].id = 0
            \/ c \in DOMAIN calls /\ calls[c].listed /\ calls'[c].id = calls[c].id,
         \A u \in Threads : thread'[u].at = "setCallID" => thread'[u] = thread[u]
  PROVE  IdsApart'
<1>1. (\A b, c \in DOMAIN calls :
          /\ calls[b].listed /\ calls[c].listed
          /\ calls[b].id = calls[c].id /\ calls[b].id # 0
          => b = c)'
  BY DEF IdsApart
<1>2. (\A t \in Threads : thread[t].at = "setCallID" =>
          kind[thread[t].value] = "MakeCall" /\ Unlisted(thread[t].value))'
  <2> SUFFICES ASSUME NEW t \in Threads, thread'[t].at = "setCallID"
               PROVE  /\ kind'[thread'[t].value] = "MakeCall"
                      /\ Unlisted(thread[t].value)'
    OBVIOUS
  <2>1. thread'[t] = thread[t]
    OBVIOUS
  <2>2. /\ thread[t].value \in DOMAIN kind /\ thread[t].value # 0
        /\ kind[thread[t].value] = "MakeCall" /\ Unlisted(thread[t].value)
    BY <2>1, ValueKnown DEF IdsApart
  <2>. QED BY <2>1, <2>2 DEF Unlisted
<1>3. (\A t, u \in Threads :
          /\ thread[t].at = "setCallID" /\ thread[u].at = "setCallID"
          /\ thread[t].value = thread[u].value
          => t = u)'
  BY DEF IdsApart
<1>. QED BY <1>1, <1>2, <1>3 DEF IdsApart

\* Steps that only let a thread go on.
LEMMA IdsApartThread ==
  ASSUME Bound, IdsApart, NEW t \in Threads, UNCHANGED <<calls, kind>>,
         \A u \in Threads \ {t} : thread'[u] = thread[u],
         thread'[t].at # "setCallID"
  PROVE  IdsApart'
  BY IdsApartStep

\* Setting the state of a call gives no id away.
LEMMA SetCallStateIdsApart ==
  ASSUME Bound, IdsApart, NEW c \in DOMAIN calls, NEW state \in LineCallStates,
         SetCallState(c, state), UNCHANGED kind,
         \A u \in Threads : thread'[u].at = "setCallID" => thread'[u] = thread[u]
  PROVE  IdsApart'
<1>1. /\ DOMAIN calls' = DOMAIN calls
      /\ \A b \in DOMAIN calls \ {c} : calls'[b] = calls[b]
      /\ calls'[c] = IF calls[c].state = "IDLE" THEN calls[c] ELSE CallAfter(c, state)
  BY SetCallStateEffect DEF Bound
<1>2. calls'[c].listed => calls[c].listed /\ calls'[c].id = calls[c].id
  <2>1. calls[c] \in Appearances
    BY DEF Bound, TypeOK
  <2>. QED BY <1>1, <2>1 DEF CallAfter, CallSet, RemoveCallAppearance, Appearances
<1>. QED BY <1>1, <1>2, IdsApartStep

\* A call that is removed with its request has no id any more.
LEMMA ReplyToTapiIdsApart ==
  ASSUME Bound, IdsApart, NEW t \in Threads, ReplyToTapi(t)
  PROVE  IdsApart'
<1>1. /\ DOMAIN calls' = DOMAIN calls
      /\ \A u \in Threads \ {t} : thread'[u] = thread[u]
      /\ thread'[t].at # "setCallID"
  BY ReplyToTapiBound
<1>2. \A id \in DOMAIN kind : kind'[id] = kind[id]
  BY DEF ReplyToTapi
<1>3. ASSUME NEW c \in DOMAIN calls, calls'[c].listed
      PROVE  calls[c].listed /\ calls'[c].id = calls[c].id
  BY <1>3, ReplyToTapiCalls
<1>. QED BY <1>1, <1>2, <1>3, IdsApartStep

\* Nor does the state of the made call.
LEMMA SetMadeCallIdsApart ==
  ASSUME Bound, IdsApart, NEW t \in Threads, SetMadeCallState(t)
  PROVE  IdsApart'
<1>1. /\ thread[t].request \in DOMAIN requests /\ thread[t].event \in Notices
      /\ SetCallState(requests[thread[t].request].call, thread[t].event.state)
      /\ UNCHANGED kind
  BY ThreadNotices DEF SetMadeCallState, ThreadBound, Working
<1>2. /\ requests[thread[t].request].call \in DOMAIN calls
      /\ thread[t].event.state \in LineCallStates
  BY <1>1 DEF Bound, Notices
<1>3. \A u \in Threads : thread'[u].at = "setCallID" => thread'[u] = thread[u]
  BY SetMadeCallStateBound
<1>. QED BY <1>1, <1>2, <1>3, SetCallStateIdsApart

\* A new call of the machine is not one that TAPI makes.
LEMMA UnsolicitedIdsApart ==
  ASSUME Bound, IdsApart, NEW t \in Threads, UnsolicitedCallEvent(t)
  PROVE  IdsApart'
<1> DEFINE event == thread[t].later
           n == Len(calls) + 1
<1>1. /\ event \in Notices /\ NoticeTrue(event) /\ UNCHANGED kind
      /\ \A u \in Threads : thread'[u].at = "setCallID" => thread'[u] = thread[u]
  BY UnsolicitedBound DEF Resting
<1>2. ASSUME NEW c \in FindCallByCallID(event.id), SetCallState(c, event.state)
      PROVE  IdsApart'
  <2>1. c \in DOMAIN calls /\ event.state \in LineCallStates
    BY <1>1 DEF FindCallByCallID, Notices
  <2>. QED BY <1>1, <1>2, <2>1, SetCallStateIdsApart
<1>3. CASE UNCHANGED calls
  BY <1>1, <1>3, IdsApartStep
<1>4. CASE FindCallByCallID(event.id) = {} /\ NewCall(event)
  <2>1. /\ n \notin DOMAIN calls /\ DOMAIN calls' = DOMAIN calls \cup {n}
        /\ calls'[n].id = event.id
        /\ \A c \in DOMAIN calls : calls'[c] = calls[c]
    BY <1>1, <1>4, NewCallEffect
  <2>2. Unlisted(event.id) /\ kind[event.id] # "MakeCall"
    BY <1>4 DEF FindCallByCallID, Unlisted, NewCall
  <2> HIDE DEF event, n
  <2>3. (\A b, c \in DOMAIN calls :
            /\ calls[b].listed /\ calls[c].listed
            /\ calls[b].id = calls[c].id /\ calls[b].id # 0
            => b = c)'
    BY <2>1, <2>2 DEF IdsApart, Unlisted
  <2>4. (\A u \in Threads : thread[u].at = "setCallID" =>
            kind[thread[u].value] = "MakeCall" /\ Unlisted(thread[u].value))'
    BY <1>1, <2>1, <2>2 DEF IdsApart, Unlisted
  <2>5. (\A u, v \in Threads :
            /\ thread[u].at = "setCallID" /\ thread[v].at = "setCallID"
            /\ thread[u].value = thread[v].value
            => u = v)'
    BY <1>1 DEF IdsApart
  <2>. QED BY <2>3, <2>4, <2>5 DEF IdsApart
<1>. QED BY <1>2, <1>3, <1>4, UnsolicitedBound

\* The id that a thread has waited with goes to one appearance.
LEMMA SetCallIDIdsApart ==
  ASSUME Bound, IdsApart, NEW t \in Threads, SetCallID(t)
  PROVE  IdsApart'
<1> DEFINE c == requests[thread[t].request].call
<1>1. /\ UNCHANGED kind /\ thread[t].at = "setCallID"
      /\ c \in DOMAIN calls /\ DOMAIN calls' = DOMAIN calls
      /\ calls'[c].id = thread[t].value /\ calls'[c].listed = calls[c].listed
      /\ \A b \in DOMAIN calls \ {c} : calls'[b] = calls[b]
      /\ \A u \in Threads \ {t} : thread'[u] = thread[u]
      /\ thread'[t].at # "setCallID"
  BY SetCallIDEffect
<1> HIDE DEF c
<1>2. Unlisted(thread[t].value)
  BY <1>1 DEF IdsApart
<1>3. (\A a, b \in DOMAIN calls :
          /\ calls[a].listed /\ calls[b].listed
          /\ calls[a].id = calls[b].id /\ calls[a].id # 0
          => a = b)'
  BY <1>1, <1>2 DEF IdsApart, Unlisted
<1>4. (\A u \in Threads : thread[u].at = "setCallID" =>
          kind[thread[u].value] = "MakeCall" /\ Unlisted(thread[u].value))'
  <2> SUFFICES ASSUME NEW u \in Threads, thread'[u].at = "setCallID"
               PROVE  /\ kind'[thread'[u].value] = "MakeCall"
                      /\ Unlisted(thread[u].value)'
    OBVIOUS
  <2>1. u # t /\ thread'[u] = thread[u]
    BY <1>1
  <2>2. /\ kind[thread[u].value] = "MakeCall" /\ Unlisted(thread[u].value)
        /\ thread[u].value # thread[t].value
    BY <1>1, <2>1 DEF IdsApart
  <2>. QED BY <1>1, <2>1, <2>2 DEF Unlisted
<1>5. (\A u, v \in Threads :
          /\ thread[u].at = "setCallID" /\ thread[v].at = "setCallID"
          /\ thread[u].value = thread[v].value
          => u = v)'
  BY <1>1 DEF IdsApart
<1>. QED BY <1>3, <1>4, <1>5 DEF IdsApart

\* A new id is the id of nothing else.
LEMMA StartMakeCallIdsApart ==
  ASSUME Bound, IdsApart, NEW t \in Threads, NEW r \in DOMAIN requests,
         StartMakeCall(t, r)
  PROVE  IdsApart'
<1>1. /\ UNCHANGED calls
      /\ \A u \in Threads \ {t} : thread'[u] = thread[u]
      /\ thread'[t].value = NextId /\ NextId \in Nat \ {0}
      /\ NextId \notin DOMAIN kind /\ kind'[NextId] = "MakeCall"
      /\ \A id \in DOMAIN kind : kind'[id] = kind[id]
  BY StartMakeCallEffect
<1>2. \A c \in DOMAIN calls : calls[c].id # NextId
  BY <1>1 DEF Bound
<1>3. \A u \in Threads : thread[u].at = "setCallID" => thread[u].value \in DOMAIN kind
  BY ValueKnown
<1>4. (\A a, b \in DOMAIN calls :
          /\ calls[a].listed /\ calls[b].listed
          /\ calls[a].id = calls[b].id /\ calls[a].id # 0
          => a = b)'
  BY <1>1 DEF IdsApart
<1>5. (\A u \in Threads : thread[u].at = "setCallID" =>
          kind[thread[u].value] = "MakeCall" /\ Unlisted(thread[u].value))'
  <2> SUFFICES ASSUME NEW u \in Threads, thread'[u].at = "setCallID"
               PROVE  /\ kind'[thread'[u].value] = "MakeCall"
                      /\ Unlisted(thread[u].value)'
    OBVIOUS
  <2>1. CASE u = t
    BY <1>1, <1>2, <2>1 DEF Unlisted
  <2>2. CASE u # t
    BY <1>1, <1>3, <2>2 DEF IdsApart, Unlisted
  <2>. QED BY <2>1, <2>2
<1>6. (\A u, v \in Threads :
          /\ thread[u].at = "setCallID" /\ thread[v].at = "setCallID"
          /\ thread[u].value = thread[v].value
          => u = v)'
  BY <1>1, <1>3 DEF IdsApart
<1>. QED BY <1>4, <1>5, <1>6 DEF IdsApart

\* A call dialled at once gets a new id.
LEMMA MakeCallIdsApart ==
  ASSUME Bound, IdsApart, NEW t \in Threads, NEW dialable \in BOOLEAN,
         MakeCall(t, dialable)
  PROVE  IdsApart'
<1> DEFINE c == Len(calls) + 1
<1>1. /\ UNCHANGED thread
      /\ c \notin DOMAIN calls /\ DOMAIN calls' = DOMAIN calls \cup {c}
      /\ \A b \in DOMAIN calls : calls'[b] = calls[b]
      /\ \/ calls'[c].id = 0 /\ UNCHANGED kind
         \/ calls'[c].id = NextId /\ kind' = Append(kind, "MakeCall")
  BY MakeCallBound
<1> HIDE DEF c
<1>2. CASE calls'[c].id = 0 /\ UNCHANGED kind
  BY <1>1, <1>2, IdsApartStep
<1>3. CASE calls'[c].id = NextId /\ kind' = Append(kind, "MakeCall")
  <2>1. /\ NextId \in Nat \ {0} /\ NextId \notin DOMAIN kind
        /\ \A id \in DOMAIN kind : kind'[id] = kind[id]
    <3>1. kind \in Seq(Kinds) /\ "MakeCall" \in Kinds
      BY DEF Bound, TypeOK, Kinds
    <3>. QED BY <1>3, <3>1, KindGrows DEF Bound
  <2>2. \A b \in DOMAIN calls : calls[b].id # NextId
    BY <2>1 DEF Bound
  <2>3. \A u \in Threads : thread[u].at = "setCallID" => thread[u].value \in DOMAIN kind
    BY ValueKnown
  <2>4. (\A a, b \in DOMAIN calls :
            /\ calls[a].listed /\ calls[b].listed
            /\ calls[a].id = calls[b].id /\ calls[a].id # 0
            => a = b)'
    BY <1>1, <1>3, <2>2 DEF IdsApart
  <2>5. (\A u \in Threads : thread[u].at = "setCallID" =>
            kind[thread[u].value] = "MakeCall" /\ Unlisted(thread[u].value))'
    BY <1>1, <1>3, <2>1, <2>3 DEF IdsApart, Unlisted
  <2>6. (\A u, v \in Threads :
            /\ thread[u].at = "setCallID" /\ thread[v].at = "setCallID"
            /\ thread[u].value = thread[v].value
            => u = v)'
    BY <1>1 DEF IdsApart
  <2>. QED BY <2>4, <2>5, <2>6 DEF IdsApart
<1>. QED BY <1>1, <1>2, <1>3

\* Drop and close give no id away.
LEMMA TapiIdsApart ==
  ASSUME Bound, IdsApart, NEW t \in Threads, NEW c \in DOMAIN calls,
         DropCall(t, c) \/ CloseCall(t, c)
  PROVE  IdsApart'
<1>1. CASE DropCall(t, c)
  <2>1. /\ DOMAIN calls' = DOMAIN calls /\ UNCHANGED kind
        /\ \A b \in DOMAIN calls : /\ calls'[b].id = calls[b].id
                                   /\ calls'[b].listed = calls[b].listed
        /\ \A u \in Threads \ {t} : thread'[u] = thread[u]
        /\ thread'[t].at = "insert"
    BY <1>1, DropCallBound DEF DropCall
  <2>. QED BY <2>1, IdsApartStep
<1>2. CASE CloseCall(t, c)
  <2>1. /\ DOMAIN calls' = DOMAIN calls /\ calls'[c] = CloseAfter(c)
        /\ \A b \in DOMAIN calls \ {c} : calls'[b] = calls[b]
    BY <1>2, CloseCallBound
  <2>2. UNCHANGED <<thread, kind>> /\ calls[c] \in Appearances
    BY <1>2 DEF CloseCall, Bound, TypeOK
  <2>3. CloseAfter(c).listed => calls[c].listed /\ CloseAfter(c).id = calls[c].id
    BY <2>2 DEF CloseAfter, RemoveCallAppearance, Appearances
  <2>. QED BY <2>1, <2>2, <2>3, IdsApartStep
<1>. QED BY <1>1, <1>2

\* Nor does what happens outside the line.
LEMMA ElsewhereIdsApart ==
  ASSUME Bound, IdsApart, (\E r \in DOMAIN requests : TimePasses(r)) \/ MachineStep
  PROVE  IdsApart'
<1>1. UNCHANGED <<calls, thread>>
  BY DEF TimePasses, MachineStep, CallFromOutside, Notify, EndOfCall
<1>2. \A id \in DOMAIN kind : kind'[id] = kind[id]
  <2>1. CASE MachineStep
    <3>1. ViewKept
      BY <2>1, CallFromOutsideBound, NotifyBound, EndOfCallBound DEF MachineStep
    <3>. QED BY <3>1 DEF ViewKept
  <2>2. CASE \E r \in DOMAIN requests : TimePasses(r)
    BY <2>2 DEF TimePasses
  <2>. QED BY <2>1, <2>2
<1>. QED BY <1>1, <1>2, IdsApartStep

\* There are no ids at first.
LEMMA InitIdsApart == Init => IdsApart
  BY DEF Init, IdsApart, Resting

\* Every step keeps the ids apart.
LEMMA NextIdsApart == Bound /\ IdsApart /\ [Next]_vars => IdsApart'
<1> SUFFICES ASSUME Bound, IdsApart, [Next]_vars  PROVE IdsApart'
  OBVIOUS
<1>1. CASE UNCHANGED vars
  BY <1>1 DEF vars, IdsApart, Unlisted
<1>2. ASSUME NEW t \in TapiThreads, TapiStep(t)  PROVE IdsApart'
  <2>1. t \in Threads
    BY DEF Threads
  <2>2. ASSUME NEW dialable \in Dialable, MakeCall(t, dialable)  PROVE IdsApart'
    BY <2>1, <2>2, LineAssumption, MakeCallIdsApart
  <2>. QED BY <1>2, <2>1, <2>2, TapiIdsApart DEF TapiStep
<1>3. ASSUME NEW t \in Threads, CalmStep(t) \/ CompletingStep(t)  PROVE IdsApart'
  BY <1>3, IdsApartThread DEF CalmStep, CompletingStep
<1>4. ASSUME NEW t \in Threads, ThreadStep(t)  PROVE IdsApart'
  <2>1. ASSUME NEW r \in DOMAIN requests, HandleRequest(t, r)  PROVE IdsApart'
    <3>1. CASE StartMakeCall(t, r)
      BY <3>1, StartMakeCallIdsApart
    <3>2. CASE ~StartMakeCall(t, r)
      BY <1>3, <2>1, <3>2, CalmSteps, CompletingSteps DEF HandleRequest
    <3>. QED BY <3>1, <3>2
  <2>2. CASE GetCurrentRequest(t) \/ BeginRequest(t) \/ AddDropRequest(t)
    BY <1>3, <2>2, CalmSteps
  <2>3. CASE CompleteRequest(t)
    BY <2>3, CompleteRequestEffect, IdsApartThread
  <2>4. CASE ReplyToTapi(t)
    BY <2>4, ReplyToTapiIdsApart
  <2>. QED BY <1>4, <2>1, <2>2, <2>3, <2>4, SetCallIDIdsApart, SetMadeCallIdsApart,
              UnsolicitedIdsApart DEF ThreadStep
<1>5. CASE TimerFires \/ PoolTakes
  <2>1. Timer \in Threads /\ Pool \in Threads
    BY DEF Threads
  <2>. QED BY <1>3, <1>5, <2>1, CalmSteps
<1>6. CASE (\E r \in DOMAIN requests : TimePasses(r)) \/ MachineStep
  BY <1>6, ElsewhereIdsApart
<1>. QED BY <1>1, <1>2, <1>4, <1>5, <1>6 DEF Next

(* FindCallByCallID never has a choice, however the threads interleave: an  *)
(* id that DRV_MakeCall was given is unknown to the line until SetCallID,   *)
(* and UnsolicitedCallEvent adds no call that comes from TAPI.              *)
THEOREM OneAppearanceEach == Spec => []OneAppearance
<1>1. Bound /\ IdsApart /\ [Next]_vars => IdsApart'
  BY NextIdsApart
<1>2. Bound /\ IdsApart => OneAppearance
  <2>1. Bound => 0 \notin DOMAIN kind
    BY DEF Bound, TypeOK
  <2>. QED BY <2>1 DEF IdsApart, OneAppearance
<1>. QED BY <1>1, <1>2, InitIdsApart, Consistent, PTL DEF Spec

-----------------------------------------------------------------------------
(* Until a call that TAPI makes has its id, nothing is done for it.         *)

\* The request has not dialled, or its call does not have its id yet.
Dialling(r) ==
    /\ requests[r].command = "MAKECALL"
    /\ \/ requests[r].dials = 0
       \/ /\ requests[r].dials = 1
          /\ \E t \in Threads :
                thread[t].at = "setCallID" /\ thread[t].request = r

\* Nothing else has been done for the call of the request, but that it may have
\* been removed.
Untouched(r) ==
    /\ calls[requests[r].call].id = 0
    /\ calls[requests[r].call].state \in {"UNKNOWN", "IDLE"}
    /\ ~Granted(r)
    /\ \A q \in DOMAIN requests : requests[q].call = requests[r].call => q = r
    /\ \A t \in Threads :
          thread[t].at \in Answering /\ thread[t].request = r => ~thread[t].ok

DialOrder ==
    /\ \A t \in Threads :
          thread[t].at = "setCallID" => requests[thread[t].request].dials >= 1
    /\ \A t, u \in Threads :
          /\ thread[t].at = "setCallID" /\ thread[u].at = "setCallID"
          /\ thread[t].request = thread[u].request /\ t # u
          => requests[thread[t].request].dials >= 2
    /\ \A r \in DOMAIN requests : Dialling(r) => Untouched(r)

\* A reply adds a success to those there were if it is one.
LEMMA GrantedAppend ==
  ASSUME NEW s \in Seq(BOOLEAN), NEW ok \in BOOLEAN,
         NEW new, new = s \/ new = Append(s, ok),
         NEW i \in DOMAIN new, new[i]
  PROVE  ok \/ \E j \in DOMAIN s : s[j]
<1>1. CASE new = s
  BY <1>1, Zenon
<1>2. CASE new = Append(s, ok)
  <2>1. /\ DOMAIN new = DOMAIN s \cup {Len(s) + 1}
        /\ new[Len(s) + 1] = ok
        /\ \A j \in DOMAIN s : new[j] = s[j]
    BY <1>2, AppendType
  <2>2. CASE i = Len(s) + 1
    BY <2>1, <2>2, Zenon
  <2>3. CASE i \in DOMAIN s
    BY <2>1, <2>3, Zenon
  <2>. QED BY <2>1, <2>2, <2>3
<1>. QED BY <1>1, <1>2

\* A request that is granted after a step was granted before, or told success
\* in it.
LEMMA GrantedBefore ==
  ASSUME Bound, NEW r \in DOMAIN requests, NEW ok \in BOOLEAN, Granted(r)',
         \/ requests'[r].replies = requests[r].replies
         \/ requests'[r].replies = Append(requests[r].replies, ok)
  PROVE  ok \/ Granted(r)
<1> DEFINE s == requests[r].replies
           new == requests'[r].replies
<1>1. s \in Seq(BOOLEAN)
  <2>1. requests[r] \in Requests
    BY DEF Bound, TypeOK
  <2>. QED BY <2>1 DEF Requests
<1>2. PICK i \in DOMAIN new : new[i]
  BY Zenon DEF Granted
<1>3. new = s \/ new = Append(s, ok)
  OBVIOUS
<1> HIDE DEF s, new
<1>4. ok \/ \E j \in DOMAIN s : s[j]
  BY <1>1, <1>2, <1>3, GrantedAppend, Zenon
<1>. QED BY <1>4, Zenon DEF Granted, s

\* The same with an answer that only the first time counts.
LEMMA TellsGranted ==
  ASSUME Bound, NEW r \in DOMAIN requests, NEW ok \in BOOLEAN,
         Tells(requests[r], requests'[r], ok), Granted(r)'
  PROVE  ok \/ Granted(r)
<1>1. \/ requests'[r].replies = requests[r].replies
      \/ requests'[r].replies = Append(requests[r].replies, ok)
  BY DEF Tells
<1>. QED BY <1>1, GrantedBefore

\* A call stays untouched when the step gives it no id, no state, no answer
\* and no request.
LEMMA UntouchedStays ==
  ASSUME CommandsKept, NEW r \in DOMAIN requests, Untouched(r),
         calls'[requests[r].call].id = 0,
         calls'[requests[r].call].state \in {"UNKNOWN", "IDLE"},
         ~Granted(r)',
         \A q \in DOMAIN requests' \ DOMAIN requests :
            requests'[q].call # requests[r].call,
         \A u \in Threads :
            thread'[u].at \in Answering /\ thread'[u].request = r => ~thread'[u].ok
  PROVE  Untouched(r)'
<1>1. (\A q \in DOMAIN requests : requests[q].call = requests[r].call => q = r)'
  BY DEF CommandsKept, Untouched
<1>. QED BY <1>1 DEF CommandsKept, Untouched

\* Steps in which no request dials.
LEMMA DialOrderStep ==
  ASSUME Bound, DialOrder, CommandsKept,
         \A r \in DOMAIN requests : requests'[r].dials = requests[r].dials,
         \A u \in Threads : thread'[u].at = "setCallID" => thread'[u] = thread[u],
         \A r \in DOMAIN requests : Untouched(r) /\ Dialling(r)' =>
            /\ calls'[requests[r].call].id = 0
            /\ calls'[requests[r].call].state \in {"UNKNOWN", "IDLE"}
            /\ ~Granted(r)'
            /\ \A q \in DOMAIN requests' \ DOMAIN requests :
                  requests'[q].call # requests[r].call
            /\ \A u \in Threads :
                  thread'[u].at \in Answering /\ thread'[u].request = r =>
                     ~thread'[u].ok,
         \A r \in DOMAIN requests' \ DOMAIN requests : Dialling(r)' => Untouched(r)'
  PROVE  DialOrder'
<1>1. \A t \in Threads : thread[t].at = "setCallID" =>
         thread[t].request \in DOMAIN requests
  BY ThreadNotices DEF ThreadBound, Working
<1>2. (\A t \in Threads :
          thread[t].at = "setCallID" => requests[thread[t].request].dials >= 1)'
  BY <1>1 DEF DialOrder
<1>3. (\A t, u \in Threads :
          /\ thread[t].at = "setCallID" /\ thread[u].at = "setCallID"
          /\ thread[t].request = thread[u].request /\ t # u
          => requests[thread[t].request].dials >= 2)'
  BY <1>1 DEF DialOrder
<1>4. (\A r \in DOMAIN requests : Dialling(r) => Untouched(r))'
  <2> SUFFICES ASSUME NEW r \in DOMAIN requests', Dialling(r)'  PROVE Untouched(r)'
    OBVIOUS
  <2>1. CASE r \in DOMAIN requests
    <3>1. Dialling(r)
      BY <2>1 DEF Dialling, CommandsKept
    <3>2. Untouched(r)
      BY <2>1, <3>1 DEF DialOrder
    <3>3. /\ calls'[requests[r].call].id = 0
          /\ calls'[requests[r].call].state \in {"UNKNOWN", "IDLE"}
          /\ ~Granted(r)'
          /\ \A q \in DOMAIN requests' \ DOMAIN requests :
                requests'[q].call # requests[r].call
          /\ \A u \in Threads :
                thread'[u].at \in Answering /\ thread'[u].request = r =>
                   ~thread'[u].ok
      BY <2>1, <3>2
    <3>. QED BY <2>1, <3>2, <3>3, UntouchedStays
  <2>2. CASE r \notin DOMAIN requests
    BY <2>2
  <2>. QED BY <2>1, <2>2
<1>. QED BY <1>2, <1>3, <1>4 DEF DialOrder

\* Steps that also leave the calls alone.
LEMMA DialOrderThread ==
  ASSUME Bound, DialOrder, UNCHANGED calls, DOMAIN requests' = DOMAIN requests,
         \A r \in DOMAIN requests :
            /\ requests'[r].command = requests[r].command
            /\ requests'[r].call = requests[r].call
            /\ requests'[r].dials = requests[r].dials
            /\ Untouched(r) => ~Granted(r)',
         \A u \in Threads : thread'[u].at = "setCallID" => thread'[u] = thread[u],
         \A u \in Threads : thread'[u].at \in Answering /\ thread'[u].ok =>
            \/ /\ thread[u].at \in Answering /\ thread[u].ok
               /\ thread'[u].request = thread[u].request
            \/ ~Untouched(thread'[u].request)
  PROVE  DialOrder'
<1>1. CommandsKept
  BY DEF CommandsKept
<1>2. \A r \in DOMAIN requests : Untouched(r) =>
         \A u \in Threads :
            thread'[u].at \in Answering /\ thread'[u].request = r => ~thread'[u].ok
  BY DEF Untouched
<1>3. \A r \in DOMAIN requests : Untouched(r) =>
            /\ calls'[requests[r].call].id = 0
            /\ calls'[requests[r].call].state \in {"UNKNOWN", "IDLE"}
  BY DEF Untouched
<1>. QED BY <1>1, <1>2, <1>3, DialOrderStep

\* Steps without an answer leave a dialling call untouched.
LEMMA CalmDialOrder ==
  ASSUME Bound, DialOrder, NEW t \in Threads, CalmStep(t)
  PROVE  DialOrder'
<1>1. \A r \in DOMAIN requests : Same(requests[r], requests'[r])
  BY DEF CalmStep
<1>2. \A r \in DOMAIN requests : Untouched(r) => ~Granted(r)'
  BY <1>1 DEF Same, Granted, Untouched
<1>. QED BY <1>1, <1>2, DialOrderThread DEF CalmStep, Same

\* No event is about a call without an id.
LEMMA ConcernedTouched ==
  ASSUME Bound, NEW t \in Threads, Concerned(t)
  PROVE  ~Untouched(thread[t].request)
<1>1. /\ thread[t].event # NoNotice
      /\ thread[t].event.id = calls[requests[thread[t].request].call].id
  BY DEF Concerned
<1>2. thread[t].event.id \in DOMAIN kind
  BY <1>1, ThreadNotices DEF ThreadBound, EventTrue, NoticeTrue, Bound, MachineOK
<1>3. 0 \notin DOMAIN kind
  BY DEF Bound, TypeOK
<1>. QED BY <1>1, <1>2, <1>3 DEF Untouched

\* So do steps that find a result: a success is about a call that has its id.
LEMMA CompletingDialOrder ==
  ASSUME Bound, DialOrder, NEW t \in Threads, CompletingStep(t)
  PROVE  DialOrder'
<1>1. \A r \in DOMAIN requests : Same(requests[r], requests'[r])
  BY DEF CompletingStep
<1>2. \A r \in DOMAIN requests : Untouched(r) => ~Granted(r)'
  BY <1>1 DEF Same, Granted, Untouched
<1>3. thread'[t].ok => ~Untouched(thread'[t].request)
  BY ConcernedTouched DEF CompletingStep
<1>. QED BY <1>1, <1>2, <1>3, DialOrderThread DEF CompletingStep, Same

\* So does noting the result.
LEMMA CompleteRequestDialOrder ==
  ASSUME Bound, DialOrder, NEW t \in Threads, CompleteRequest(t)
  PROVE  DialOrder'
<1>1. /\ UNCHANGED calls /\ DOMAIN requests' = DOMAIN requests
      /\ \A q \in DOMAIN requests : Same(requests[q], requests'[q])
      /\ \A u \in Threads \ {t} : thread'[u] = thread[u]
      /\ thread[t].at = "complete" /\ thread'[t].at # "setCallID"
      /\ thread'[t].at \in Answering =>
            /\ thread'[t].ok = thread[t].ok
            /\ thread'[t].request = thread[t].request
  BY CompleteRequestEffect
<1>2. \A r \in DOMAIN requests : Untouched(r) => ~Granted(r)'
  BY <1>1 DEF Same, Granted, Untouched
<1>. QED BY <1>1, <1>2, DialOrderThread DEF Same, Answering

\* The replies that ReplyToTapi makes are those of its thread, and failures.
LEMMA ReplyGranted ==
  ASSUME Bound, NEW t \in Threads, ReplyToTapi(t),
         NEW r \in DOMAIN requests, Granted(r)'
  PROVE  Granted(r) \/ (r = thread[t].request /\ thread[t].ok)
<1>1. thread[t].ok \in BOOLEAN
  BY ThreadNotices DEF Doings
<1>2. CASE r = thread[t].request
  <2>1. \/ requests'[r].replies = requests[r].replies
        \/ requests'[r].replies = Append(requests[r].replies, thread[t].ok)
    BY <1>2, ReplyToTapiBound DEF Replied
  <2>. QED BY <1>1, <1>2, <2>1, GrantedBefore
<1>3. CASE r # thread[t].request
  <2>1. \/ requests'[r] = requests[r]
        \/ Tells(requests[r], requests'[r], FALSE)
    BY <1>3, ReplyToTapiBound
  <2>2. \/ requests'[r].replies = requests[r].replies
        \/ requests'[r].replies = Append(requests[r].replies, FALSE)
    BY <2>1 DEF Tells
  <2>. QED BY <2>2, GrantedBefore
<1>. QED BY <1>2, <1>3

\* What ReplyToTapi keeps of the requests.
LEMMA ReplyKeeps ==
  ASSUME Bound, NEW t \in Threads, ReplyToTapi(t)
  PROVE  /\ DOMAIN requests' = DOMAIN requests
         /\ \A q \in DOMAIN requests :
               /\ requests'[q].command = requests[q].command
               /\ requests'[q].call = requests[q].call
               /\ requests'[q].dials = requests[q].dials
<1>1. /\ DOMAIN requests' = DOMAIN requests
      /\ Replied(requests[thread[t].request], requests'[thread[t].request], thread[t])
      /\ \A q \in DOMAIN requests \ {thread[t].request} :
            \/ requests'[q] = requests[q]
            \/ Tells(requests[q], requests'[q], FALSE)
  BY ReplyToTapiBound
<1>. QED BY <1>1 DEF Replied, Tells

\* So do answers: a success is told of a call that has been touched.
LEMMA ReplyToTapiDialOrder ==
  ASSUME Bound, DialOrder, NEW t \in Threads, ReplyToTapi(t)
  PROVE  DialOrder'
<1>1. /\ thread[t].at = "reply"
      /\ \A u \in Threads \ {t} : thread'[u] = thread[u]
      /\ thread'[t].at # "setCallID"
      /\ thread'[t].at \in Answering =>
            thread'[t].request = thread[t].request /\ thread'[t].ok = thread[t].ok
  BY ReplyToTapiBound DEF ReplyToTapi, Answering
<1>2. \A r \in DOMAIN requests : Untouched(r) => ~Granted(r)'
  <2> SUFFICES ASSUME NEW r \in DOMAIN requests, Untouched(r), Granted(r)'
               PROVE  FALSE
    OBVIOUS
  <2>. QED BY <1>1, ReplyGranted DEF Untouched, Answering
<1>3. ASSUME NEW r \in DOMAIN requests, Untouched(r)
      PROVE  /\ calls'[requests[r].call].id = 0
             /\ calls'[requests[r].call].state \in {"UNKNOWN", "IDLE"}
  <2> DEFINE c == requests[r].call
  <2>1. c \in DOMAIN calls
    BY DEF Bound
  <2>2. \/ calls'[c].id = calls[c].id /\ calls'[c].state = calls[c].state
        \/ calls'[c].id = 0 /\ calls'[c].state = "IDLE"
    BY <2>1, ReplyToTapiCalls
  <2>3. calls[c].id = 0 /\ calls[c].state \in {"UNKNOWN", "IDLE"}
    BY <1>3 DEF Untouched
  <2> HIDE DEF c
  <2>4. calls'[c].id = 0 /\ calls'[c].state \in {"UNKNOWN", "IDLE"}
    BY <2>2, <2>3
  <2>. QED BY <2>4 DEF c
<1>4. ASSUME NEW r \in DOMAIN requests, Untouched(r), NEW u \in Threads,
             thread'[u].at \in Answering, thread'[u].request = r
      PROVE  ~thread'[u].ok
  BY <1>1, <1>4 DEF Untouched, Answering
<1>5. CommandsKept
  BY ReplyKeeps DEF CommandsKept
<1>. QED BY <1>1, <1>2, <1>3, <1>4, <1>5, ReplyKeeps, DialOrderStep

\* What SetCallState keeps of the requests, and which success it tells.
LEMMA SetCallStateKeeps ==
  ASSUME Bound, NEW c \in DOMAIN calls, NEW state \in LineCallStates,
         SetCallState(c, state)
  PROVE  /\ DOMAIN requests' = DOMAIN requests
         /\ \A q \in DOMAIN requests :
               /\ requests'[q].command = requests[q].command
               /\ requests'[q].call = requests[q].call
               /\ requests'[q].dials = requests[q].dials
               /\ Granted(q)' => \/ Granted(q)
                                 \/ /\ requests[q].command = "MAKECALL"
                                    /\ requests[q].call = c
<1>1. /\ RequestsAnswered
      /\ \A r \in DOMAIN requests :
               r \notin RequestsMaking(c) =>
                     \/ requests'[r] = requests[r]
                     \/ Tells(requests[r], requests'[r], FALSE)
  BY SetCallStateEffect DEF Bound
<1>2. DOMAIN requests' = DOMAIN requests
  BY <1>1 DEF RequestsAnswered
<1>3. ASSUME NEW q \in DOMAIN requests, Granted(q)', ~Granted(q)
      PROVE  requests[q].command = "MAKECALL" /\ requests[q].call = c
  <2>1. requests'[q] # requests[q]
    BY <1>3 DEF Granted
  <2>2. ~Tells(requests[q], requests'[q], FALSE)
    BY <1>3, TellsGranted
  <2>3. q \in RequestsMaking(c)
    BY <1>1, <2>1, <2>2
  <2>. QED BY <2>3 DEF RequestsMaking, RequestsOf
<1>4. \A q \in DOMAIN requests :
               /\ requests'[q].command = requests[q].command
               /\ requests'[q].call = requests[q].call
               /\ requests'[q].dials = requests[q].dials
  BY <1>1 DEF RequestsAnswered, Tells
<1>. QED BY <1>2, <1>3, <1>4

\* The state of a call is set that has been touched.
LEMMA SetCallStateDialOrder ==
  ASSUME Bound, DialOrder, NEW c \in DOMAIN calls, NEW state \in LineCallStates,
         SetCallState(c, state), NEW t \in Threads,
         \A r \in DOMAIN requests : Untouched(r) => requests[r].call # c,
         \A u \in Threads \ {t} : thread'[u] = thread[u],
         thread'[t].at # "setCallID",
         thread'[t].at \in Answering => ~Untouched(thread'[t].request)
  PROVE  DialOrder'
<1>1. \A b \in DOMAIN calls \ {c} : calls'[b] = calls[b]
  BY SetCallStateEffect DEF Bound
<1>2. /\ DOMAIN requests' = DOMAIN requests
      /\ \A q \in DOMAIN requests :
               /\ requests'[q].command = requests[q].command
               /\ requests'[q].call = requests[q].call
               /\ requests'[q].dials = requests[q].dials
               /\ Granted(q)' => Granted(q) \/ requests[q].call = c
  BY SetCallStateKeeps
<1>3. CommandsKept
  BY <1>2 DEF CommandsKept
<1>4. ASSUME NEW r \in DOMAIN requests, Untouched(r)
      PROVE  /\ calls'[requests[r].call].id = 0
             /\ calls'[requests[r].call].state \in {"UNKNOWN", "IDLE"}
             /\ ~Granted(r)'
             /\ \A u \in Threads :
                   thread'[u].at \in Answering /\ thread'[u].request = r =>
                      ~thread'[u].ok
  <2>1. requests[r].call # c /\ requests[r].call \in DOMAIN calls
    BY <1>4 DEF Bound
  <2>2. \A u \in Threads :
           thread'[u].at \in Answering /\ thread'[u].request = r => ~thread'[u].ok
    BY <1>4 DEF Untouched
  <2>. QED BY <1>1, <1>2, <1>4, <2>1, <2>2 DEF Untouched
<1>. QED BY <1>2, <1>3, <1>4, DialOrderStep

\* A thread with a success of its request is not about an untouched call.
LEMMA SetMadeCallTouched ==
  ASSUME Bound, NEW t \in Threads, thread[t].at = "setCallState",
         NEW r \in DOMAIN requests, Untouched(r)
  PROVE  requests[r].call # requests[thread[t].request].call
<1>1. thread[t].request \in DOMAIN requests /\ thread[t].ok
  BY ThreadNotices DEF ThreadBound, Working, Answering
<1>. QED BY <1>1 DEF Untouched, Answering

\* So does the state of a made call, which has been touched.
LEMMA SetMadeCallDialOrder ==
  ASSUME Bound, DialOrder, NEW t \in Threads, SetMadeCallState(t)
  PROVE  DialOrder'
<1>1. /\ thread[t].request \in DOMAIN requests /\ thread[t].event \in Notices
      /\ SetCallState(requests[thread[t].request].call, thread[t].event.state)
      /\ thread[t].at = "setCallState"
  BY ThreadNotices DEF SetMadeCallState, ThreadBound, Working
<1>2. /\ requests[thread[t].request].call \in DOMAIN calls
      /\ thread[t].event.state \in LineCallStates
  BY <1>1 DEF Bound, Notices
<1>3. \A r \in DOMAIN requests :
         Untouched(r) => requests[r].call # requests[thread[t].request].call
  BY <1>1, SetMadeCallTouched
<1>4. /\ \A u \in Threads \ {t} : thread'[u] = thread[u]
      /\ thread'[t].at = "complete" /\ thread'[t].request = thread[t].request
  BY SetMadeCallStateBound
<1>. QED BY <1>1, <1>2, <1>3, <1>4, SetCallStateDialOrder

\* A notice without a request finds its call by the id, which a dialling call
\* has not got.
LEMMA UnsolicitedDialOrder ==
  ASSUME Bound, DialOrder, NEW t \in Threads, UnsolicitedCallEvent(t)
  PROVE  DialOrder'
<1> DEFINE event == thread[t].later
<1>1. /\ event \in Notices /\ NoticeTrue(event)
      /\ \A u \in Threads \ {t} : thread'[u] = thread[u]
      /\ thread'[t].at = "resting"
  BY UnsolicitedBound DEF Resting
<1>2. ASSUME NEW c \in FindCallByCallID(event.id), SetCallState(c, event.state)
      PROVE  DialOrder'
  <2>1. c \in DOMAIN calls /\ event.state \in LineCallStates
    BY <1>1 DEF FindCallByCallID, Notices
  <2>2. event.id \in DOMAIN kind /\ 0 \notin DOMAIN kind
    BY <1>1 DEF NoticeTrue, Bound, MachineOK, TypeOK
  <2>3. \A r \in DOMAIN requests : Untouched(r) => requests[r].call # c
    BY <1>2, <2>2 DEF Untouched, FindCallByCallID
  <2>. QED BY <1>1, <1>2, <2>1, <2>3, SetCallStateDialOrder DEF Answering
<1>3. CASE UNCHANGED requests /\ (UNCHANGED calls \/ NewCall(event))
  <2>1. \A c \in DOMAIN calls : calls'[c] = calls[c]
    BY <1>1, <1>3, NewCallEffect
  <2>2. CommandsKept
    BY <1>3, RequestsUnchanged
  <2>3. \A r \in DOMAIN requests : requests[r].call \in DOMAIN calls
    BY DEF Bound
  <2>4. ASSUME NEW r \in DOMAIN requests, Untouched(r)
        PROVE  /\ calls'[requests[r].call].id = 0
               /\ calls'[requests[r].call].state \in {"UNKNOWN", "IDLE"}
               /\ ~Granted(r)'
               /\ \A u \in Threads :
                     thread'[u].at \in Answering /\ thread'[u].request = r =>
                        ~thread'[u].ok
    BY <1>1, <1>3, <2>1, <2>3, <2>4 DEF Untouched, Granted, Answering
  <2> HIDE DEF event
  <2>. QED BY <1>1, <1>3, <2>2, <2>4, DialOrderStep
<1>. QED BY <1>2, <1>3, UnsolicitedBound

\* The call gets the id that it was dialled with: it is no longer dialling.
LEMMA SetCallIDDialOrder ==
  ASSUME Bound, DialOrder, NEW t \in Threads, SetCallID(t)
  PROVE  DialOrder'
<1> SUFFICES ASSUME NEW q, q = thread[t].request, NEW c, c = requests[q].call
             PROVE  DialOrder'
  OBVIOUS
<1>1. /\ UNCHANGED requests /\ thread[t].at = "setCallID" /\ q \in DOMAIN requests
      /\ DOMAIN calls' = DOMAIN calls
      /\ \A b \in DOMAIN calls \ {c} : calls'[b] = calls[b]
      /\ \A u \in Threads \ {t} : thread'[u] = thread[u]
      /\ thread'[t].at \in {"resting", "unsolicited"}
  BY SetCallIDEffect
<1>2. CommandsKept
  BY <1>1, RequestsUnchanged
<1>3. requests[q].dials >= 1 /\ requests[q].dials \in Nat
  <2>1. requests[q] \in Requests
    BY <1>1 DEF Bound, TypeOK
  <2>. QED BY <1>1, <2>1 DEF DialOrder, Requests
<1>4. ~Dialling(q)'
  <2> SUFFICES ASSUME Dialling(q)'  PROVE FALSE
    OBVIOUS
  <2>1. requests[q].dials = 1
    BY <1>1, <1>3 DEF Dialling
  <2>2. PICK u \in Threads : thread'[u].at = "setCallID" /\ thread'[u].request = q
    BY <1>1, <1>3 DEF Dialling
  <2>3. u # t /\ thread'[u] = thread[u]
    BY <1>1, <2>2
  <2>4. requests[q].dials >= 2
    BY <1>1, <2>2, <2>3 DEF DialOrder
  <2>. QED BY <2>1, <2>4
<1>5. ASSUME NEW r \in DOMAIN requests, Untouched(r), Dialling(r)'
      PROVE  /\ calls'[requests[r].call].id = 0
             /\ calls'[requests[r].call].state \in {"UNKNOWN", "IDLE"}
             /\ ~Granted(r)'
             /\ \A u \in Threads :
                   thread'[u].at \in Answering /\ thread'[u].request = r =>
                      ~thread'[u].ok
  <2>1. r # q /\ requests[r].call # c /\ requests[r].call \in DOMAIN calls
    BY <1>1, <1>4, <1>5 DEF Untouched, Bound
  <2>2. ~Granted(r)'
    BY <1>1, <1>5 DEF Untouched, Granted
  <2>3. \A u \in Threads :
           thread'[u].at \in Answering /\ thread'[u].request = r => ~thread'[u].ok
    BY <1>1, <1>5 DEF Untouched, Answering
  <2>. QED BY <1>1, <1>5, <2>1, <2>2, <2>3 DEF Untouched
<1>. QED BY <1>1, <1>2, <1>5, DialOrderStep

\* A request that dials again is dialling no more.
LEMMA StartMakeCallDialOrder ==
  ASSUME Bound, DialOrder, NEW t \in Threads, NEW r \in DOMAIN requests,
         StartMakeCall(t, r)
  PROVE  DialOrder'
<1>1. /\ UNCHANGED calls /\ DOMAIN requests' = DOMAIN requests
      /\ thread[t].at = "dispatch" /\ thread[t].request = r
      /\ requests[r].command = "MAKECALL"
      /\ requests'[r].dials = requests[r].dials + 1
      /\ \A q \in DOMAIN requests :
            /\ requests'[q].command = requests[q].command
            /\ requests'[q].call = requests[q].call
            /\ requests'[q].replies = requests[q].replies
      /\ \A q \in DOMAIN requests \ {r} : requests'[q] = requests[q]
      /\ \A u \in Threads \ {t} : thread'[u] = thread[u]
      /\ thread'[t].at = "setCallID" /\ thread'[t].request = r
  BY StartMakeCallEffect
<1>2. \A q \in DOMAIN requests : requests[q].dials \in Nat
  <2>1. \A q \in DOMAIN requests : requests[q] \in Requests
    BY DEF Bound, TypeOK
  <2>. QED BY <2>1 DEF Requests
<1>3. \A u \in Threads : thread[u].at = "setCallID" =>
         thread[u].request \in DOMAIN requests
  BY ThreadNotices DEF ThreadBound, Working
<1>4. CommandsKept
  BY <1>1 DEF CommandsKept
<1>5. (\A u \in Threads :
          thread[u].at = "setCallID" => requests[thread[u].request].dials >= 1)'
  <2> SUFFICES ASSUME NEW u \in Threads, thread'[u].at = "setCallID"
               PROVE  requests'[thread'[u].request].dials >= 1
    OBVIOUS
  <2>1. CASE thread'[u].request = r
    BY <1>1, <1>2, <2>1
  <2>2. CASE thread'[u].request # r
    <3>1. u # t /\ thread'[u] = thread[u]
      BY <1>1, <2>2
    <3>2. thread[u].request \in DOMAIN requests
      BY <1>3, <3>1
    <3>3. requests[thread[u].request].dials >= 1
      BY <3>1 DEF DialOrder
    <3>. QED BY <1>1, <2>2, <3>1, <3>2, <3>3
  <2>. QED BY <2>1, <2>2
<1>6. (\A u, v \in Threads :
          /\ thread[u].at = "setCallID" /\ thread[v].at = "setCallID"
          /\ thread[u].request = thread[v].request /\ u # v
          => requests[thread[u].request].dials >= 2)'
  <2> SUFFICES ASSUME NEW u \in Threads, NEW v \in Threads, u # v,
                      thread'[u].at = "setCallID", thread'[v].at = "setCallID",
                      thread'[u].request = thread'[v].request
               PROVE  requests'[thread'[u].request].dials >= 2
    OBVIOUS
  <2>1. CASE u # t /\ v # t
    <3>1. thread'[u] = thread[u] /\ thread'[v] = thread[v]
      BY <1>1, <2>1
    <3>2. /\ thread[u].request \in DOMAIN requests
          /\ requests[thread[u].request].dials >= 2
      BY <1>3, <3>1 DEF DialOrder
    <3>3. CASE thread[u].request = r
      BY <1>1, <1>2, <3>1, <3>2, <3>3
    <3>4. CASE thread[u].request # r
      BY <1>1, <3>1, <3>2, <3>4
    <3>. QED BY <3>3, <3>4
  <2>2. ASSUME NEW w \in Threads, w # t, thread'[w].at = "setCallID",
               thread'[w].request = r
        PROVE  requests'[r].dials >= 2
    <3>1. thread'[w] = thread[w]
      BY <1>1, <2>2
    <3>2. requests[r].dials >= 1
      BY <2>2, <3>1 DEF DialOrder
    <3>. QED BY <1>1, <1>2, <3>2
  <2>. QED BY <1>1, <2>1, <2>2
<1>7. (\A q \in DOMAIN requests : Dialling(q) => Untouched(q))'
  <2> SUFFICES ASSUME NEW q \in DOMAIN requests, Dialling(q)'  PROVE Untouched(q)'
    BY <1>1
  <2>1. Dialling(q)
    <3>1. CASE q = r
      <4>1. requests[r].dials = 0
        BY <1>1, <1>2, <3>1 DEF Dialling
      <4>. QED BY <1>1, <3>1, <4>1 DEF Dialling
    <3>2. CASE q # r
      BY <1>1, <3>2 DEF Dialling
    <3>. QED BY <3>1, <3>2
  <2>2. Untouched(q)
    BY <2>1 DEF DialOrder
  <2>3. ~Granted(q)'
    BY <1>1, <2>2 DEF Untouched, Granted
  <2>4. \A u \in Threads :
           thread'[u].at \in Answering /\ thread'[u].request = q => ~thread'[u].ok
    BY <1>1, <2>2 DEF Untouched, Answering
  <2>5. /\ calls'[requests[q].call].id = 0
        /\ calls'[requests[q].call].state \in {"UNKNOWN", "IDLE"}
    BY <1>1, <2>2 DEF Untouched
  <2>. QED BY <1>1, <1>4, <2>2, <2>3, <2>4, <2>5, UntouchedStays
<1>. QED BY <1>5, <1>6, <1>7 DEF DialOrder

\* A new request is dialling with nothing done, or has its id at once.
LEMMA MakeCallDialOrder ==
  ASSUME Bound, DialOrder, NEW t \in Threads, NEW dialable \in BOOLEAN,
         MakeCall(t, dialable)
  PROVE  DialOrder'
<1> SUFFICES ASSUME NEW r, r = Len(requests) + 1, NEW c, c = Len(calls) + 1
             PROVE  DialOrder'
  OBVIOUS
<1>1. /\ UNCHANGED thread
      /\ c \notin DOMAIN calls /\ calls'[c].state \in {"UNKNOWN", "IDLE"}
      /\ \A b \in DOMAIN calls : calls'[b] = calls[b]
      /\ r \notin DOMAIN requests /\ DOMAIN requests' = DOMAIN requests \cup {r}
      /\ requests'[r].call = c /\ ~Granted(r)'
      /\ \A q \in DOMAIN requests : requests'[q] = requests[q]
      /\ \/ calls'[c].id = 0 /\ requests'[r].dials = 0
         \/ requests'[r].dials = 1
  BY MakeCallBound
<1>2. CommandsKept
  BY <1>1 DEF CommandsKept
<1>3. \A q \in DOMAIN requests : requests[q].call \in DOMAIN calls
  BY DEF Bound
<1>4. \A u \in Threads : thread[u].at \in Answering \cup {"setCallID"} =>
         thread[u].request \in DOMAIN requests
  BY ThreadNotices DEF ThreadBound, Working, Answering
<1>5. Dialling(r)' => Untouched(r)'
  <2> SUFFICES ASSUME Dialling(r)'  PROVE Untouched(r)'
    OBVIOUS
  <2>1. calls'[c].id = 0
    BY <1>1, <1>4 DEF Dialling
  <2>2. (\A q \in DOMAIN requests : requests[q].call = requests[r].call => q = r)'
    BY <1>1, <1>3
  <2>3. (\A u \in Threads : thread[u].at \in Answering /\ thread[u].request = r =>
                               ~thread[u].ok)'
    BY <1>1, <1>4
  <2>. QED BY <1>1, <2>1, <2>2, <2>3 DEF Untouched
<1>6. ASSUME NEW q \in DOMAIN requests, Untouched(q)
      PROVE  /\ calls'[requests[q].call].id = 0
             /\ calls'[requests[q].call].state \in {"UNKNOWN", "IDLE"}
             /\ ~Granted(q)'
             /\ requests'[r].call # requests[q].call
             /\ \A u \in Threads :
                   thread'[u].at \in Answering /\ thread'[u].request = q =>
                      ~thread'[u].ok
  <2>1. requests[q].call \in DOMAIN calls /\ requests[q].call # c
    BY <1>1, <1>3
  <2>2. ~Granted(q)'
    BY <1>1, <1>6 DEF Untouched, Granted
  <2>. QED BY <1>1, <1>6, <2>1, <2>2 DEF Untouched
<1>. QED BY <1>1, <1>2, <1>5, <1>6, DialOrderStep

\* A call is dropped that has a state, so not one that dials.
LEMMA DropCallDialOrder ==
  ASSUME Bound, DialOrder, NEW t \in Threads, NEW c \in DOMAIN calls, DropCall(t, c)
  PROVE  DialOrder'
<1> SUFFICES ASSUME NEW r, r = Len(requests) + 1 PROVE DialOrder'
  OBVIOUS
<1>1. /\ DOMAIN calls' = DOMAIN calls
      /\ \A b \in DOMAIN calls : /\ calls'[b].id = calls[b].id
                                 /\ calls'[b].state = calls[b].state
  BY DropCallEffect
<1>2. /\ r \notin DOMAIN requests /\ DOMAIN requests' = DOMAIN requests \cup {r}
      /\ requests'[r].command = "DROPCALL" /\ requests'[r].call = c
      /\ \A q \in DOMAIN requests : requests'[q] = requests[q]
  BY DropCallEffect
<1>3. /\ \A u \in Threads \ {t} : thread'[u] = thread[u]
      /\ thread'[t].at = "insert"
  BY DropCallEffect
<1>4. calls[c].state \notin {"UNKNOWN", "IDLE"}
  <2>1. Active(calls[c])
    BY DropCallEffect
  <2> QED
    BY <2>1 DEF Active
<1>5. CommandsKept
  BY <1>2 DEF CommandsKept
<1>6. \A q \in DOMAIN requests : requests[q].call \in DOMAIN calls
  BY DEF Bound
<1>7. \A q \in DOMAIN requests' \ DOMAIN requests : ~Dialling(q)'
  BY <1>2 DEF Dialling
<1>8. ASSUME NEW q \in DOMAIN requests, Untouched(q)
      PROVE  /\ calls'[requests[q].call].id = 0
             /\ calls'[requests[q].call].state \in {"UNKNOWN", "IDLE"}
             /\ ~Granted(q)'
             /\ requests'[r].call # requests[q].call
             /\ \A u \in Threads :
                   thread'[u].at \in Answering /\ thread'[u].request = q =>
                      ~thread'[u].ok
  <2>1. requests'[r].call # requests[q].call
    BY <1>1, <1>2, <1>3, <1>8, <1>4 DEF Untouched
  <2>2. ~Granted(q)'
    BY <1>1, <1>2, <1>3, <1>8 DEF Untouched, Granted
  <2>. QED BY <1>1, <1>2, <1>3, <1>6, <1>8, <2>1, <2>2 DEF Untouched, Answering
<1>. QED BY <1>1, <1>2, <1>3, <1>5, <1>7, <1>8, DialOrderStep

\* Closing a call gives it neither an id nor a state.
LEMMA CloseCallDialOrder ==
  ASSUME Bound, DialOrder, NEW t \in Threads, NEW c \in DOMAIN calls, CloseCall(t, c)
  PROVE  DialOrder'
<1>1. /\ DOMAIN calls' = DOMAIN calls /\ calls'[c] = CloseAfter(c)
      /\ \A b \in DOMAIN calls \ {c} : calls'[b] = calls[b]
  BY CloseCallBound
<1>2. UNCHANGED <<requests, thread>> /\ calls[c] \in Appearances
  BY DEF CloseCall, Bound, TypeOK
<1>3. calls'[c].state = calls[c].state /\ calls'[c].id \in {0, calls[c].id}
  BY <1>1, <1>2 DEF CloseAfter, RemoveCallAppearance, Appearances
<1>4. \A q \in DOMAIN requests : requests[q].call \in DOMAIN calls
  BY DEF Bound
<1>5. ASSUME NEW q \in DOMAIN requests, Untouched(q)
      PROVE  /\ calls'[requests[q].call].id = 0
             /\ calls'[requests[q].call].state \in {"UNKNOWN", "IDLE"}
             /\ ~Granted(q)'
             /\ \A u \in Threads :
                   thread'[u].at \in Answering /\ thread'[u].request = q =>
                      ~thread'[u].ok
  BY <1>1, <1>2, <1>3, <1>4, <1>5 DEF Untouched, Granted
<1>6. CommandsKept
  BY <1>2, RequestsUnchanged
<1>. QED BY <1>2, <1>5, <1>6, DialOrderStep

\* What happens outside the line does not touch its calls.
LEMMA ElsewhereDialOrder ==
  ASSUME Bound, DialOrder, (\E r \in DOMAIN requests : TimePasses(r)) \/ MachineStep
  PROVE  DialOrder'
<1>1. /\ UNCHANGED <<calls, thread>> /\ DOMAIN requests' = DOMAIN requests
      /\ \A q \in DOMAIN requests : Same(requests[q], requests'[q])
  <2>1. CASE MachineStep
    BY <2>1 DEF MachineStep, CallFromOutside, Notify, EndOfCall, Same
  <2>2. ASSUME NEW r \in DOMAIN requests, TimePasses(r)
        PROVE  /\ UNCHANGED <<calls, thread>>
               /\ DOMAIN requests' = DOMAIN requests
               /\ \A q \in DOMAIN requests : Same(requests[q], requests'[q])
    <3>1. UNCHANGED <<calls, thread>>
      BY <2>2 DEF TimePasses
    <3>. QED BY <2>2, <3>1, TimePassesBound
  <2>. QED BY <2>1, <2>2
<1>2. \A r \in DOMAIN requests : Untouched(r) => ~Granted(r)'
  BY <1>1 DEF Same, Granted, Untouched
<1>. QED BY <1>1, <1>2, DialOrderThread DEF Same

\* No call is being dialled at first.
LEMMA InitDialOrder == Init => DialOrder
  BY DEF Init, DialOrder, Resting

\* Every step leaves the calls untouched that are being dialled.
LEMMA NextDialOrder == Bound /\ DialOrder /\ [Next]_vars => DialOrder'
<1> SUFFICES ASSUME Bound, DialOrder, [Next]_vars  PROVE DialOrder'
  OBVIOUS
<1>1. CASE UNCHANGED vars
  BY <1>1 DEF vars, DialOrder, Dialling, Untouched, Granted
<1>2. ASSUME NEW t \in TapiThreads, TapiStep(t)  PROVE DialOrder'
  <2>1. t \in Threads
    BY DEF Threads
  <2>2. ASSUME NEW dialable \in Dialable, MakeCall(t, dialable)  PROVE DialOrder'
    BY <2>1, <2>2, LineAssumption, MakeCallDialOrder
  <2>. QED BY <1>2, <2>1, <2>2, DropCallDialOrder, CloseCallDialOrder DEF TapiStep
<1>3. ASSUME NEW t \in Threads, ThreadStep(t)  PROVE DialOrder'
  <2>1. ASSUME NEW r \in DOMAIN requests, HandleRequest(t, r)  PROVE DialOrder'
    <3>1. CASE StartMakeCall(t, r)
      BY <3>1, StartMakeCallDialOrder
    <3>2. CASE ~StartMakeCall(t, r)
      BY <2>1, <3>2, CalmSteps, CompletingSteps, CalmDialOrder, CompletingDialOrder
         DEF HandleRequest
    <3>. QED BY <3>1, <3>2
  <2>2. CASE GetCurrentRequest(t) \/ BeginRequest(t) \/ AddDropRequest(t)
    BY <2>2, CalmSteps, CalmDialOrder
  <2>. QED BY <1>3, <2>1, <2>2, SetCallIDDialOrder, CompleteRequestDialOrder,
              ReplyToTapiDialOrder, SetMadeCallDialOrder, UnsolicitedDialOrder
           DEF ThreadStep
<1>4. CASE TimerFires \/ PoolTakes
  <2>1. Timer \in Threads /\ Pool \in Threads
    BY DEF Threads
  <2>. QED BY <1>4, <2>1, CalmSteps, CalmDialOrder
<1>5. CASE (\E r \in DOMAIN requests : TimePasses(r)) \/ MachineStep
  BY <1>5, ElsewhereDialOrder
<1>. QED BY <1>1, <1>2, <1>3, <1>4, <1>5 DEF Next

\* What is done for a call of TAPI begins with its id.
THEOREM IdFirst == Spec => [](\A r \in DOMAIN requests : Dialling(r) => Untouched(r))
<1>1. Bound /\ DialOrder /\ [Next]_vars => DialOrder'
  BY NextDialOrder
<1>2. DialOrder => \A r \in DOMAIN requests : Dialling(r) => Untouched(r)
  BY DEF DialOrder
<1>. QED BY <1>1, <1>2, InitDialOrder, Consistent, PTL DEF Spec

-----------------------------------------------------------------------------
(* A call that is marked as dropped has a request that does it.             *)

\* The request is one to drop the call, and TAPI was not told that it failed.
Drops(r, c) ==
    requests[r].command = "DROPCALL" /\ requests[r].call = c /\ ~Refused(r)

Marked(call) == call.dropped /\ call.state # "IDLE"

MarksTrue ==
    \A c \in DOMAIN calls :
        Marked(calls[c]) => \E r \in DOMAIN requests : Drops(r, c)

\* The same answers, or one more that is a success, refuse nothing.
LEMMA RefusedBefore ==
  ASSUME Bound, NEW r \in DOMAIN requests, NEW ok \in BOOLEAN, Refused(r)',
         \/ requests'[r].replies = requests[r].replies
         \/ requests'[r].replies = Append(requests[r].replies, ok)
  PROVE  ~ok \/ Refused(r)
<1> DEFINE s == requests[r].replies
           new == requests'[r].replies
<1>1. s \in Seq(BOOLEAN)
  <2>1. requests[r] \in Requests
    BY DEF Bound, TypeOK
  <2>. QED BY <2>1 DEF Requests
<1>2. PICK i \in DOMAIN new : ~new[i]
  BY Zenon DEF Refused
<1>3. new = s \/ new = Append(s, ok)
  OBVIOUS
<1> HIDE DEF s, new
<1>4. ~ok \/ \E j \in DOMAIN s : ~s[j]
  <2>1. CASE new = s
    BY <1>2, <2>1, Zenon
  <2>2. CASE new = Append(s, ok)
    <3>1. /\ DOMAIN new = DOMAIN s \cup {Len(s) + 1}
          /\ new[Len(s) + 1] = ok
          /\ \A j \in DOMAIN s : new[j] = s[j]
      BY <1>1, <2>2, AppendType
    <3>2. CASE i = Len(s) + 1
      BY <1>2, <3>1, <3>2, Zenon
    <3>3. CASE i \in DOMAIN s
      BY <1>2, <3>1, <3>3, Zenon
    <3>. QED BY <1>2, <3>1, <3>2, <3>3
  <2>. QED BY <1>3, <2>1, <2>2
<1>. QED BY <1>4, Zenon DEF Refused, s

\* A request that dropped a call and is not refused still does.
LEMMA DropsStays ==
  ASSUME CommandsKept, NEW r \in DOMAIN requests, NEW c, Drops(r, c), ~Refused(r)'
  PROVE  r \in DOMAIN requests' /\ Drops(r, c)'
  BY DEF CommandsKept, Drops

\* Steps that mark no call.
LEMMA MarksStep ==
  ASSUME Bound, MarksTrue, CommandsKept,
         \A c \in DOMAIN calls' : Marked(calls'[c]) =>
            /\ c \in DOMAIN calls /\ Marked(calls[c])
            /\ \A r \in DOMAIN requests : Drops(r, c) => ~Refused(r)'
  PROVE  MarksTrue'
<1> SUFFICES ASSUME NEW c \in DOMAIN calls', Marked(calls'[c])
             PROVE  \E r \in DOMAIN requests' : Drops(r, c)'
  BY DEF MarksTrue
<1>1. PICK r \in DOMAIN requests : Drops(r, c)
  BY DEF MarksTrue
<1>2. ~Refused(r)'
  BY <1>1
<1>. QED BY <1>1, <1>2, DropsStays

\* Steps without an answer.
LEMMA MarksSame ==
  ASSUME Bound, MarksTrue, CommandsKept,
         \A r \in DOMAIN requests : requests'[r].replies = requests[r].replies,
         \A c \in DOMAIN calls' : Marked(calls'[c]) =>
            c \in DOMAIN calls /\ Marked(calls[c])
  PROVE  MarksTrue'
<1>1. \A r \in DOMAIN requests : ~Refused(r) => ~Refused(r)'
  BY DEF Refused
<1>. QED BY <1>1, MarksStep DEF Drops

\* Steps that change neither calls nor answers.
LEMMA CalmMarks ==
  ASSUME Bound, MarksTrue, UNCHANGED calls, DOMAIN requests' = DOMAIN requests,
         \A r \in DOMAIN requests : Same(requests[r], requests'[r])
  PROVE  MarksTrue'
<1>1. CommandsKept
  BY DEF CommandsKept, Same
<1>2. \A r \in DOMAIN requests : requests'[r].replies = requests[r].replies
  BY DEF Same
<1>. QED BY <1>1, <1>2, MarksSame

\* A call that is dropped gets a request that has no answer yet.
LEMMA DropCallMarks ==
  ASSUME Bound, MarksTrue, NEW t \in Threads, NEW c \in DOMAIN calls, DropCall(t, c)
  PROVE  MarksTrue'
<1> SUFFICES ASSUME NEW r, r = Len(requests) + 1 PROVE MarksTrue'
  OBVIOUS
<1>1. DOMAIN calls' = DOMAIN calls
  BY DropCallEffect
<1>2. /\ r \notin DOMAIN requests /\ DOMAIN requests' = DOMAIN requests \cup {r}
      /\ requests'[r].command = "DROPCALL" /\ requests'[r].call = c
      /\ \A q \in DOMAIN requests : requests'[q] = requests[q]
  BY DropCallEffect
<1>3. requests'[r].replies = <<>>
  BY DropCallEffect
<1>4. ASSUME NEW b \in DOMAIN calls, Marked(calls'[b])
      PROVE  \E q \in DOMAIN requests' : Drops(q, b)'
  <2>1. CASE b = c
    <3>1. ~Refused(r)'
      BY <1>3 DEF Refused
    <3>. QED BY <1>2, <2>1, <3>1 DEF Drops
  <2>2. CASE b # c
    <3>1. calls'[b] = calls[b]
      BY <2>2 DEF DropCall, Bound, TypeOK
    <3>2. PICK q \in DOMAIN requests : Drops(q, b)
      BY <1>4, <3>1 DEF MarksTrue
    <3>. QED BY <1>2, <3>2 DEF Drops, Refused
  <2>. QED BY <2>1, <2>2
<1>. QED BY <1>1, <1>4 DEF MarksTrue

\* A new call is not marked.
LEMMA MakeCallMarks ==
  ASSUME Bound, MarksTrue, NEW t \in Threads, NEW dialable \in BOOLEAN,
         MakeCall(t, dialable)
  PROVE  MarksTrue'
<1> SUFFICES ASSUME NEW r, r = Len(requests) + 1, NEW c, c = Len(calls) + 1
             PROVE  MarksTrue'
  OBVIOUS
<1>1. /\ DOMAIN calls' = DOMAIN calls \cup {c} /\ ~calls'[c].dropped
      /\ \A b \in DOMAIN calls : calls'[b] = calls[b]
      /\ DOMAIN requests' = DOMAIN requests \cup {r}
      /\ \A q \in DOMAIN requests : requests'[q] = requests[q]
  BY MakeCallBound
<1>2. CommandsKept
  BY <1>1 DEF CommandsKept
<1>. QED BY <1>1, <1>2, MarksSame DEF Marked

\* Closing a call leaves its mark, or ends it.
LEMMA CloseCallMarks ==
  ASSUME Bound, MarksTrue, NEW t \in Threads, NEW c \in DOMAIN calls, CloseCall(t, c)
  PROVE  MarksTrue'
<1>1. /\ DOMAIN calls' = DOMAIN calls /\ calls'[c] = CloseAfter(c)
      /\ \A b \in DOMAIN calls \ {c} : calls'[b] = calls[b]
  BY CloseCallBound
<1>2. UNCHANGED requests /\ calls[c] \in Appearances
  BY DEF CloseCall, Bound, TypeOK
<1>3. Marked(calls'[c]) => Marked(calls[c])
  BY <1>1, <1>2 DEF CloseAfter, RemoveCallAppearance, Appearances, Marked
<1>. QED BY <1>1, <1>2, <1>3, RequestsUnchanged, MarksSame

\* So does the id of a call.
LEMMA SetCallIDMarks ==
  ASSUME Bound, MarksTrue, NEW t \in Threads, SetCallID(t)
  PROVE  MarksTrue'
<1> SUFFICES ASSUME NEW c, c = requests[thread[t].request].call  PROVE MarksTrue'
  OBVIOUS
<1>1. /\ UNCHANGED requests /\ c \in DOMAIN calls /\ DOMAIN calls' = DOMAIN calls
      /\ calls'[c].state = calls[c].state /\ calls'[c].dropped = calls[c].dropped
      /\ \A b \in DOMAIN calls \ {c} : calls'[b] = calls[b]
  BY SetCallIDEffect
<1>2. Marked(calls'[c]) => Marked(calls[c])
  BY <1>1 DEF Marked
<1>. QED BY <1>1, <1>2, RequestsUnchanged, MarksSame

\* A state other than IDLE refuses nothing, and IDLE ends the call.
LEMMA SetCallStateMarks ==
  ASSUME Bound, MarksTrue, NEW c \in DOMAIN calls, NEW state \in LineCallStates,
         SetCallState(c, state)
  PROVE  MarksTrue'
<1>1. /\ DOMAIN calls' = DOMAIN calls
      /\ \A b \in DOMAIN calls \ {c} : calls'[b] = calls[b]
      /\ calls'[c] = IF calls[c].state = "IDLE" THEN calls[c] ELSE CallAfter(c, state)
      /\ DropsAfter(c, state)
  BY SetCallStateEffect DEF Bound
<1>2. CommandsKept
  BY SetCallStateKeeps DEF CommandsKept
<1>3. ASSUME Marked(calls'[c])
      PROVE  Marked(calls[c]) /\ (calls[c].state = "IDLE" \/ state # "IDLE")
  <2>1. calls[c] \in Appearances
    BY DEF Bound, TypeOK
  <2>2. CASE calls[c].state = "IDLE"
    BY <1>1, <1>3, <2>2 DEF Marked
  <2>3. CASE calls[c].state # "IDLE"
    <3>1. calls'[c].dropped /\ calls'[c].state # "IDLE" /\ calls'[c] = CallAfter(c, state)
      BY <1>1, <1>3, <2>3 DEF Marked
    <3>2. state # "IDLE"
      BY <2>1, <3>1 DEF CallAfter, CallSet, RemoveCallAppearance, Appearances
    <3>. QED BY <1>1, <2>3, <3>1, <3>2 DEF Marked, DropsAfter
  <2>. QED BY <2>2, <2>3
<1>4. ASSUME NEW b \in DOMAIN calls, Marked(calls'[b]), NEW r \in DOMAIN requests,
             Drops(r, b), Refused(r)'
      PROVE  FALSE
  <2>1. \/ requests'[r] = requests[r]
        \/ Tells(requests[r], requests'[r], TRUE)
    <3>1. CASE b = c
      BY <1>1, <1>3, <1>4, <3>1 DEF DropsAfter
    <3>2. CASE b # c
      BY <1>1, <1>4, <3>2 DEF DropsAfter, Drops
    <3>. QED BY <3>1, <3>2
  <2>2. \/ requests'[r].replies = requests[r].replies
        \/ requests'[r].replies = Append(requests[r].replies, TRUE)
    BY <2>1 DEF Tells
  <2>3. Refused(r)
    BY <1>4, <2>2, RefusedBefore
  <2>. QED BY <1>4, <2>3 DEF Drops
<1>5. \A b \in DOMAIN calls : Marked(calls'[b]) => Marked(calls[b])
  BY <1>1, <1>3
<1>. QED BY <1>1, <1>2, <1>4, <1>5, MarksStep

\* The state of a made call is set by its thread.
LEMMA SetMadeCallMarks ==
  ASSUME Bound, MarksTrue, NEW t \in Threads, SetMadeCallState(t)
  PROVE  MarksTrue'
<1>1. /\ thread[t].request \in DOMAIN requests /\ thread[t].event \in Notices
      /\ SetCallState(requests[thread[t].request].call, thread[t].event.state)
  BY ThreadNotices DEF SetMadeCallState, ThreadBound, Working
<1>2. /\ requests[thread[t].request].call \in DOMAIN calls
      /\ thread[t].event.state \in LineCallStates
  BY <1>1 DEF Bound, Notices
<1>. QED BY <1>1, <1>2, SetCallStateMarks

\* That of others by a notice, which may also make a call appear.
LEMMA UnsolicitedMarks ==
  ASSUME Bound, MarksTrue, NEW t \in Threads, UnsolicitedCallEvent(t)
  PROVE  MarksTrue'
<1> SUFFICES ASSUME NEW event, event = thread[t].later  PROVE MarksTrue'
  OBVIOUS
<1>1. event \in Notices
  BY UnsolicitedBound
<1>2. ASSUME NEW c \in FindCallByCallID(event.id), SetCallState(c, event.state)
      PROVE  MarksTrue'
  <2>1. c \in DOMAIN calls /\ event.state \in LineCallStates
    BY <1>1 DEF FindCallByCallID, Notices
  <2>. QED BY <1>2, <2>1, SetCallStateMarks
<1>3. CASE UNCHANGED requests /\ UNCHANGED calls
  BY <1>3, RequestsUnchanged, MarksSame
<1>4. CASE UNCHANGED requests /\ NewCall(event)
  <2> DEFINE n == Len(calls) + 1
  <2>1. /\ DOMAIN calls' = DOMAIN calls \cup {n} /\ ~calls'[n].dropped
        /\ \A c \in DOMAIN calls : calls'[c] = calls[c]
    BY <1>1, <1>4, NewCallEffect
  <2> HIDE DEF n
  <2>2. \A c \in DOMAIN calls' : Marked(calls'[c]) =>
           c \in DOMAIN calls /\ Marked(calls[c])
    BY <2>1 DEF Marked
  <2>. QED BY <1>4, <2>2, RequestsUnchanged, MarksSame
<1>. QED BY <1>2, <1>3, <1>4, UnsolicitedBound

\* A request to drop a call that is refused takes the mark away, whether it is
\* the one of the thread or one that ends with another.
LEMMA ReplyToTapiMarks ==
  ASSUME Bound, MarksTrue, NEW t \in Threads, ReplyToTapi(t)
  PROVE  MarksTrue'
<1> DEFINE r == thread[t].request
<1>1. /\ DOMAIN calls' = DOMAIN calls
      /\ Replied(requests[r], requests'[r], thread[t])
      /\ \A q \in DOMAIN requests \ {r} :
            /\ q \in Others(t) => Tells(requests[q], requests'[q], FALSE)
            /\ q \notin Others(t) => requests'[q] = requests[q]
  BY ReplyToTapiBound
<1>2. CommandsKept
  BY ReplyKeeps DEF CommandsKept
<1>3. thread[t].ok \in BOOLEAN
  BY ReplyingThread
<1>4. \A c \in DOMAIN calls : Marked(calls'[c]) => Marked(calls[c])
  BY ReplyToTapiCalls DEF Marked
<1>5. ASSUME NEW c \in DOMAIN calls, Marked(calls'[c]), NEW q \in DOMAIN requests,
             Drops(q, c), Refused(q)'
      PROVE  FALSE
  <2>1. ~Refused(q) /\ requests[q].command = "DROPCALL" /\ requests[q].call = c
    BY <1>5 DEF Drops
  <2>2. q \in Failing(t)
    <3>1. CASE q = r
      <4>1. \/ requests'[q].replies = requests[q].replies
            \/ requests'[q].replies = Append(requests[q].replies, thread[t].ok)
        BY <1>1, <3>1 DEF Replied
      <4>2. ~thread[t].ok
        BY <1>3, <1>5, <2>1, <4>1, RefusedBefore
      <4>. QED BY <3>1, <4>2 DEF Failing
    <3>2. CASE q # r
      <4>1. requests'[q] # requests[q]
        BY <1>5, <2>1 DEF Refused
      <4>2. q \in Others(t)
        BY <1>1, <3>2, <4>1
      <4>. QED BY <4>2 DEF Failing, Others
    <3>. QED BY <3>1, <3>2
  <2>3. Asks(Failing(t), "DROPCALL", c)
    BY <2>1, <2>2 DEF Asks
  <2>4. /\ CallFailed(Failing(t), c, calls[c], calls'[c])
        /\ calls[c] \in Appearances
    <3>1. \A b \in DOMAIN calls : CallFailed(Failing(t), b, calls[b], calls'[b])
      BY ReplyToTapiBound
    <3>2. calls \in Seq(Appearances)
      BY DEF Bound, TypeOK
    <3>. QED BY <3>1, <3>2
  <2>5. calls'[c].dropped /\ calls'[c].state # "IDLE"
    BY <1>5 DEF Marked
  <2>. QED BY <2>3, <2>4, <2>5 DEF CallFailed, RemoveCallAppearance, Appearances
<1>. QED BY <1>1, <1>2, <1>4, <1>5, MarksStep

\* No call is marked at first.
LEMMA InitMarks == Init => MarksTrue
  BY DEF Init, MarksTrue

\* Every step keeps the marks true.
LEMMA NextMarks == Bound /\ MarksTrue /\ [Next]_vars => MarksTrue'
<1> SUFFICES ASSUME Bound, MarksTrue, [Next]_vars  PROVE MarksTrue'
  OBVIOUS
<1>1. ASSUME UNCHANGED <<calls, requests, queue>>  PROVE MarksTrue'
  BY <1>1, SameUnchanged, CalmMarks
<1>2. ASSUME NEW t \in TapiThreads, TapiStep(t)  PROVE MarksTrue'
  <2>1. t \in Threads
    BY DEF Threads
  <2>2. ASSUME NEW dialable \in Dialable, MakeCall(t, dialable)  PROVE MarksTrue'
    BY <2>1, <2>2, LineAssumption, MakeCallMarks
  <2>. QED BY <1>2, <2>1, <2>2, DropCallMarks, CloseCallMarks DEF TapiStep
<1>3. ASSUME NEW t \in Threads, CalmStep(t) \/ CompletingStep(t)  PROVE MarksTrue'
  BY <1>3, CalmMarks DEF CalmStep, CompletingStep
<1>4. ASSUME NEW t \in Threads, ThreadStep(t)  PROVE MarksTrue'
  <2>1. ASSUME NEW r \in DOMAIN requests, HandleRequest(t, r)  PROVE MarksTrue'
    <3>1. CASE StartMakeCall(t, r)
      <4>1. /\ UNCHANGED calls /\ DOMAIN requests' = DOMAIN requests
            /\ \A q \in DOMAIN requests :
                  /\ requests'[q].command = requests[q].command
                  /\ requests'[q].call = requests[q].call
                  /\ requests'[q].replies = requests[q].replies
        BY <3>1, StartMakeCallEffect
      <4>2. CommandsKept
        BY <4>1 DEF CommandsKept
      <4>. QED BY <4>1, <4>2, MarksSame
    <3>2. CASE ~StartMakeCall(t, r)
      BY <1>3, <2>1, <3>2, CalmSteps, CompletingSteps DEF HandleRequest
    <3>. QED BY <3>1, <3>2
  <2>2. CASE GetCurrentRequest(t) \/ BeginRequest(t) \/ AddDropRequest(t)
    BY <1>3, <2>2, CalmSteps
  <2>3. CASE CompleteRequest(t)
    BY <2>3, CompleteRequestEffect, CalmMarks
  <2>. QED BY <1>4, <2>1, <2>2, <2>3, SetCallIDMarks, ReplyToTapiMarks,
              SetMadeCallMarks, UnsolicitedMarks DEF ThreadStep
<1>5. CASE TimerFires \/ PoolTakes
  <2>1. Timer \in Threads /\ Pool \in Threads
    BY DEF Threads
  <2>. QED BY <1>3, <1>5, <2>1, CalmSteps
<1>6. ASSUME NEW r \in DOMAIN requests, TimePasses(r)  PROVE MarksTrue'
  <2>1. UNCHANGED calls
    BY <1>6 DEF TimePasses
  <2>. QED BY <1>6, <2>1, TimePassesBound, CalmMarks
<1>7. CASE MachineStep
  <2>1. UNCHANGED <<calls, requests, queue>>
    BY <1>7 DEF MachineStep, CallFromOutside, Notify, EndOfCall
  <2>. QED BY <1>1, <2>1
<1>. QED BY <1>1, <1>2, <1>4, <1>5, <1>6, <1>7 DEF Next, vars

(* lineDrop is never swallowed for good: whichever thread ends a request to *)
(* drop a call, and by whatever, an answer that it failed takes the mark of *)
(* the call away with it (RTDropCall::Failed), and the other answer is that *)
(* of its end.                                                              *)
THEOREM DropMayBeRepeated == Spec => []MarkedCallIsDropped
<1>1. Bound /\ MarksTrue /\ [Next]_vars => MarksTrue'
  BY NextMarks
<1>2. MarksTrue => MarkedCallIsDropped
  <2> SUFFICES ASSUME MarksTrue, NEW c \in DOMAIN calls, Active(calls[c]),
                      calls[c].dropped
               PROVE  \E r \in DOMAIN requests :
                         /\ requests[r].command = "DROPCALL" /\ requests[r].call = c
                         /\ ~Refused(r)
    BY DEF MarkedCallIsDropped
  <2>1. Marked(calls[c])
    BY DEF Active, Marked
  <2>. QED BY <2>1 DEF MarksTrue, Drops
<1>. QED BY <1>1, <1>2, InitMarks, Consistent, PTL DEF Spec

-----------------------------------------------------------------------------
(* What stays true of the calls and requests that there are.                *)

Kept ==
    /\ CommandsKept /\ ViewKept
    /\ \A r \in DOMAIN requests : requests'[r].dials >= requests[r].dials

\* The dials of a request are a number.
LEMMA DialsNumbers ==
  ASSUME Bound
  PROVE  \A r \in DOMAIN requests : requests[r].dials \in Nat
<1>1. \A r \in DOMAIN requests : requests[r] \in Requests
  BY DEF Bound, TypeOK
<1>. QED BY <1>1 DEF Requests

\* Requests that are the same are kept.
LEMMA SameKept ==
  ASSUME Bound, DOMAIN requests' = DOMAIN requests, ViewKept,
         \A r \in DOMAIN requests : Same(requests[r], requests'[r])
  PROVE  Kept
  BY DialsNumbers DEF Kept, CommandsKept, Same

\* A new id leaves the others and what is known of them.
LEMMA KindGrowsKept ==
  ASSUME Bound, UNCHANGED view, kind' = Append(kind, "MakeCall")
  PROVE  ViewKept
<1>1. /\ DOMAIN kind \subseteq DOMAIN kind'
      /\ \A id \in DOMAIN kind : kind'[id] = kind[id]
  <2>1. TypeOK /\ "MakeCall" \in Kinds
    BY DEF Bound, Kinds
  <2>. QED BY <2>1, KindGrows
<1>2. \A id \in DOMAIN view : Rank(view[id].state) \in 1 .. 5
  BY ViewRanks DEF Bound
<1>3. view \in [DOMAIN view -> Calls]
  BY DEF Bound, TypeOK
<1>. QED BY <1>1, <1>2, <1>3 DEF ViewKept

\* A make call of TAPI takes nothing back.
LEMMA MakeCallKept ==
  ASSUME Bound, NEW t \in Threads, NEW dialable \in BOOLEAN, MakeCall(t, dialable)
  PROVE  Kept
<1> DEFINE r == Len(requests) + 1
           c == Len(calls) + 1
<1>1. /\ DOMAIN requests' = DOMAIN requests \cup {r}
      /\ \A q \in DOMAIN requests : requests'[q] = requests[q]
      /\ UNCHANGED view
      /\ UNCHANGED kind \/ kind' = Append(kind, "MakeCall")
  BY MakeCallBound
<1> HIDE DEF r, c
<1>2. ViewKept
  BY <1>1, ViewUnchanged, KindGrowsKept
<1>. QED BY <1>1, <1>2, DialsNumbers DEF Kept, CommandsKept

\* Nor does a drop call.
LEMMA DropCallKept ==
  ASSUME Bound, NEW t \in Threads, NEW c \in DOMAIN calls, DropCall(t, c)
  PROVE  Kept
<1> DEFINE r == Len(requests) + 1
<1>1. /\ DOMAIN requests' = DOMAIN requests \cup {r}
      /\ \A q \in DOMAIN requests : requests'[q] = requests[q]
      /\ UNCHANGED <<kind, view>>
  BY DropCallEffect
<1> HIDE DEF r
<1>2. ViewKept
  BY <1>1, ViewUnchanged
<1>. QED BY <1>1, <1>2, DialsNumbers DEF Kept, CommandsKept

\* Nor does a thread that dials.
LEMMA StartMakeCallKept ==
  ASSUME Bound, NEW t \in Threads, NEW r \in DOMAIN requests, StartMakeCall(t, r)
  PROVE  Kept
<1>1. /\ UNCHANGED view /\ DOMAIN requests' = DOMAIN requests
      /\ requests'[r].dials = requests[r].dials + 1
      /\ \A q \in DOMAIN requests :
            /\ requests'[q].command = requests[q].command
            /\ requests'[q].call = requests[q].call
      /\ \A q \in DOMAIN requests \ {r} : requests'[q] = requests[q]
  BY StartMakeCallEffect
<1>2. ViewKept
  BY <1>1, KindGrowsKept DEF StartMakeCall
<1>3. \A q \in DOMAIN requests : requests'[q].dials >= requests[q].dials
  BY <1>1, DialsNumbers
<1>. QED BY <1>1, <1>2, <1>3 DEF Kept, CommandsKept

\* Nor does the state of a call.
LEMMA SetCallStateKept ==
  ASSUME Bound, NEW c \in DOMAIN calls, NEW state \in LineCallStates,
         SetCallState(c, state), UNCHANGED <<kind, view>>
  PROVE  Kept
  BY SetCallStateKeeps, ViewUnchanged, DialsNumbers DEF Kept, CommandsKept

\* Nor does the state of a made call.
LEMMA SetMadeCallKept ==
  ASSUME Bound, NEW t \in Threads, SetMadeCallState(t)
  PROVE  Kept
<1>1. /\ thread[t].request \in DOMAIN requests /\ thread[t].event \in Notices
      /\ SetCallState(requests[thread[t].request].call, thread[t].event.state)
      /\ UNCHANGED <<kind, view>>
  BY ThreadNotices DEF SetMadeCallState, ThreadBound, Working
<1>2. /\ requests[thread[t].request].call \in DOMAIN calls
      /\ thread[t].event.state \in LineCallStates
  BY <1>1 DEF Bound, Notices
<1>. QED BY <1>1, <1>2, SetCallStateKept

\* Nor does a notice without a request.
LEMMA UnsolicitedKept ==
  ASSUME Bound, NEW t \in Threads, UnsolicitedCallEvent(t)
  PROVE  Kept
<1>1. thread[t].later \in Notices /\ UNCHANGED <<kind, view>>
  BY UnsolicitedBound
<1>2. ASSUME NEW c \in FindCallByCallID(thread[t].later.id),
             SetCallState(c, thread[t].later.state)
      PROVE  Kept
  <2>1. c \in DOMAIN calls /\ thread[t].later.state \in LineCallStates
    BY <1>1 DEF FindCallByCallID, Notices
  <2>. QED BY <1>1, <1>2, <2>1, SetCallStateKept
<1>3. CASE UNCHANGED <<requests, queue>>
  BY <1>1, <1>3, SameUnchanged, SameKept, ViewUnchanged
<1>. QED BY <1>2, <1>3, UnsolicitedBound

\* Nor does an answer.
LEMMA ReplyToTapiKept ==
  ASSUME Bound, NEW t \in Threads, ReplyToTapi(t)
  PROVE  Kept
<1>1. UNCHANGED <<kind, view>>
  BY DEF ReplyToTapi
<1>. QED BY <1>1, ReplyKeeps, ViewUnchanged, DialsNumbers DEF Kept, CommandsKept

\* No step takes back a command, a notified state or a dial.
LEMMA NextKept == Bound /\ [Next]_vars => Kept
<1> SUFFICES ASSUME Bound, [Next]_vars  PROVE Kept
  OBVIOUS
<1>1. ASSUME UNCHANGED <<requests, queue, kind, view>>  PROVE Kept
  BY <1>1, SameUnchanged, SameKept, ViewUnchanged
<1>2. ASSUME NEW t \in TapiThreads, TapiStep(t)  PROVE Kept
  <2>1. t \in Threads
    BY DEF Threads
  <2>2. ASSUME NEW dialable \in Dialable, MakeCall(t, dialable)  PROVE Kept
    BY <2>1, <2>2, LineAssumption, MakeCallKept
  <2>3. ASSUME NEW c \in DOMAIN calls, CloseCall(t, c)  PROVE Kept
    BY <1>1, <2>3 DEF CloseCall
  <2>. QED BY <1>2, <2>1, <2>2, <2>3, DropCallKept DEF TapiStep
<1>3. ASSUME NEW t \in Threads, CalmStep(t) \/ CompletingStep(t)  PROVE Kept
  BY <1>3, SameKept, ViewUnchanged DEF CalmStep, CompletingStep
<1>4. ASSUME NEW t \in Threads, ThreadStep(t)  PROVE Kept
  <2>1. ASSUME NEW r \in DOMAIN requests, HandleRequest(t, r)  PROVE Kept
    <3>1. CASE StartMakeCall(t, r)
      BY <3>1, StartMakeCallKept
    <3>2. CASE ~StartMakeCall(t, r)
      BY <1>3, <2>1, <3>2, CalmSteps, CompletingSteps DEF HandleRequest
    <3>. QED BY <3>1, <3>2
  <2>2. CASE GetCurrentRequest(t) \/ BeginRequest(t) \/ AddDropRequest(t)
    BY <1>3, <2>2, CalmSteps
  <2>3. CASE CompleteRequest(t)
    BY <2>3, CompleteRequestEffect, SameKept, ViewUnchanged
  <2>4. CASE SetCallID(t)
    BY <1>1, <2>4 DEF SetCallID
  <2>. QED BY <1>4, <2>1, <2>2, <2>3, <2>4, ReplyToTapiKept, SetMadeCallKept,
              UnsolicitedKept DEF ThreadStep
<1>5. CASE TimerFires \/ PoolTakes
  <2>1. Timer \in Threads /\ Pool \in Threads
    BY DEF Threads
  <2>. QED BY <1>3, <1>5, <2>1, CalmSteps
<1>6. ASSUME NEW r \in DOMAIN requests, TimePasses(r)  PROVE Kept
  <2>1. UNCHANGED <<kind, view>>
    BY <1>6 DEF TimePasses
  <2>. QED BY <1>6, <2>1, TimePassesBound, SameKept, ViewUnchanged
<1>7. CASE MachineStep
  <2>1. ViewKept
    BY <1>7, CallFromOutsideBound, NotifyBound, EndOfCallBound DEF MachineStep
  <2>2. UNCHANGED <<requests, queue>>
    BY <1>7 DEF MachineStep, CallFromOutside, Notify, EndOfCall
  <2>. QED BY <2>1, <2>2, SameUnchanged, SameKept
<1>. QED BY <1>1, <1>2, <1>4, <1>5, <1>6, <1>7 DEF Next, vars

-----------------------------------------------------------------------------
(* What is told and shown of a call is true of the call of the machine.     *)

\* A success of the request is, or would be, one of the server.
Truthful(r) ==
    LET c == requests[r].call
    IN  \/ calls[c].id = 0 \/ Redialled(c)
        \/ /\ calls[c].id \in DOMAIN view
           /\ requests[r].command = "DROPCALL" => view[calls[c].id].removed

\* The state that OnMakeCall is to set is one of the call of its request.
FollowsUp(d) ==
    LET c == requests[d.request].call
    IN  Redialled(c) \/ calls[c].state = "IDLE" \/ calls[c].id = d.event.id

\* The machine has notified a state of the call that is as far, or farther.
ShownTruly(c) ==
    /\ calls[c].id \in DOMAIN view
    /\ Rank(calls[c].state) <= Rank(view[calls[c].id].state)

Faithful ==
    /\ \A r \in DOMAIN requests : Granted(r) => Truthful(r)
    /\ \A t \in Threads : thread[t].at \in Answering /\ thread[t].ok =>
          Truthful(thread[t].request) /\ (~thread[t].remove => FollowsUp(thread[t]))
    /\ \A c \in DOMAIN calls : Active(calls[c]) /\ ~Redialled(c) => ShownTruly(c)

\* The appearance keeps the call that it shows, until that one has ended.
CallKept(c) ==
    \/ Redialled(c)
    \/ /\ calls'[c].id = calls[c].id \/ (calls'[c].id = 0 /\ calls'[c].state = "IDLE")
       /\ calls[c].state = "IDLE" => calls'[c].state = "IDLE"

\* A call that was dialled twice stays one.
LEMMA RedialledStays ==
  ASSUME Bound, Bound', Kept, NEW c, Redialled(c)
  PROVE  Redialled(c)'
<1>1. PICK r \in DOMAIN requests : requests[r].call = c /\ requests[r].dials > 1
  BY DEF Redialled
<1>2. /\ r \in DOMAIN requests' /\ requests'[r].call = c
      /\ requests'[r].dials >= requests[r].dials
  BY <1>1 DEF Kept, CommandsKept
<1>3. requests'[r] \in Requests
  BY <1>2 DEF Bound, TypeOK
<1>4. requests[r].dials \in Nat /\ requests'[r].dials \in Nat
  BY <1>3, DialsNumbers DEF Requests
<1>. QED BY <1>1, <1>2, <1>4 DEF Redialled

\* A true answer stays true.
LEMMA TruthfulStays ==
  ASSUME Bound, Bound', Kept, NEW r \in DOMAIN requests, Truthful(r),
         CallKept(requests[r].call)
  PROVE  Truthful(r)'
<1> DEFINE c == requests[r].call
<1>1. requests'[r].call = c /\ requests'[r].command = requests[r].command
  BY DEF Kept, CommandsKept
<1>2. CASE Redialled(requests[r].call)
  <2>1. Redialled(requests[r].call)'
    <3>1. \A b : Redialled(b) => Redialled(b)'
      BY RedialledStays
    <3>. QED BY <1>1, <1>2, <3>1 DEF Redialled
  <2>. QED BY <2>1 DEF Truthful
<1>3. CASE ~Redialled(requests[r].call)
  <2>1. calls'[c].id = 0 \/ calls'[c].id = calls[c].id
    BY <1>3 DEF CallKept
  <2>2. CASE calls'[c].id = 0
    BY <1>1, <2>2 DEF Truthful
  <2>3. CASE calls'[c].id = calls[c].id /\ calls[c].id # 0
    <3>1. /\ calls[c].id \in DOMAIN view
          /\ requests[r].command = "DROPCALL" => view[calls[c].id].removed
      BY <1>3, <2>3 DEF Truthful
    <3>2. /\ calls[c].id \in DOMAIN view'
          /\ view[calls[c].id].removed => view'[calls[c].id].removed
      BY <3>1 DEF Kept, ViewKept
    <3>. QED BY <1>1, <2>3, <3>1, <3>2 DEF Truthful
  <2>. QED BY <2>1, <2>2, <2>3
<1>. QED BY <1>2, <1>3

\* The state of a call that is shown truly is so after the step.
LEMMA ShownStays ==
  ASSUME Bound, Kept, NEW c \in DOMAIN calls, ShownTruly(c),
         calls'[c].id = calls[c].id, calls'[c].state = calls[c].state,
         calls[c].state \in LineCallStates
  PROVE  ShownTruly(c)'
<1>1. Rank(calls[c].state) \in Nat
  BY RankType
<1>2. /\ view[calls[c].id].state \in LineCallStates
      /\ view'[calls[c].id].state \in LineCallStates
      /\ calls[c].id \in DOMAIN view'
      /\ Rank(view[calls[c].id].state) <= Rank(view'[calls[c].id].state)
  BY DEF ShownTruly, Kept, ViewKept, Calls
<1>3. /\ Rank(view[calls[c].id].state) \in Nat
      /\ Rank(view'[calls[c].id].state) \in Nat
  BY <1>2, RankType
<1>. QED BY <1>1, <1>2, <1>3 DEF ShownTruly

\* What a step must do.
LEMMA FaithfulStep ==
  ASSUME Bound, Bound', Faithful, Kept,
         \A r \in DOMAIN requests :
            Granted(r)' => Truthful(r) /\ CallKept(requests[r].call),
         \A r \in DOMAIN requests' \ DOMAIN requests : ~Granted(r)',
         \A u \in Threads : thread'[u].at \in Answering /\ thread'[u].ok =>
            /\ thread'[u].request \in DOMAIN requests
            /\ CallKept(requests[thread'[u].request].call)
            /\ Truthful(thread'[u].request)
            /\ ~thread'[u].remove => FollowsUp(thread'[u]),
         \A c \in DOMAIN calls' :
            \/ ShownTruly(c)' \/ ~Active(calls'[c]) \/ Redialled(c)'
            \/ /\ c \in DOMAIN calls /\ calls'[c].id = calls[c].id
               /\ calls'[c].state = calls[c].state
               /\ calls'[c].listed = calls[c].listed
  PROVE  Faithful'
<1>1. (\A r \in DOMAIN requests : Granted(r) => Truthful(r))'
  BY TruthfulStays
<1>2. (\A t \in Threads : thread[t].at \in Answering /\ thread[t].ok =>
          Truthful(thread[t].request) /\ (~thread[t].remove => FollowsUp(thread[t])))'
  <2> SUFFICES ASSUME NEW u \in Threads, thread'[u].at \in Answering, thread'[u].ok
               PROVE  /\ Truthful(thread[u].request)'
                      /\ ~thread'[u].remove => FollowsUp(thread[u])'
    BY DEF Answering
  <2>1. PICK r \in DOMAIN requests : r = thread'[u].request
    OBVIOUS
  <2>2. /\ CallKept(requests[r].call) /\ Truthful(r)
        /\ ~thread'[u].remove => FollowsUp(thread'[u])
    BY <2>1
  <2>3. Truthful(thread[u].request)'
    <3>1. Truthful(r)'
      BY <2>2, TruthfulStays
    <3>. QED BY <2>1, <3>1 DEF Truthful
  <2>4. ASSUME ~thread'[u].remove  PROVE FollowsUp(thread[u])'
    <3>1. PICK c : c = requests[r].call
      OBVIOUS
    <3>2. requests'[r].call = c
      BY <3>1 DEF Kept, CommandsKept
    <3>3. \/ Redialled(c) \/ calls[c].state = "IDLE"
          \/ calls[c].id = thread'[u].event.id
      BY <2>1, <2>2, <2>4, <3>1 DEF FollowsUp
    <3>4. \/ Redialled(c)' \/ calls'[c].state = "IDLE"
          \/ calls'[c].id = thread'[u].event.id
      BY <2>2, <3>1, <3>3, RedialledStays DEF CallKept
    <3>. QED BY <2>1, <3>2, <3>4 DEF FollowsUp
  <2>. QED BY <2>3, <2>4
<1>3. (\A c \in DOMAIN calls : Active(calls[c]) /\ ~Redialled(c) => ShownTruly(c))'
  <2> SUFFICES ASSUME NEW c \in DOMAIN calls', Active(calls'[c]), ~Redialled(c)',
                      ~ShownTruly(c)'
               PROVE  FALSE
    OBVIOUS
  <2>1. /\ c \in DOMAIN calls /\ calls'[c].id = calls[c].id
        /\ calls'[c].state = calls[c].state
        /\ calls'[c].listed = calls[c].listed
    OBVIOUS
  <2>2. Active(calls[c]) /\ ~Redialled(c)
    BY <2>1, RedialledStays DEF Active
  <2>3. ShownTruly(c) /\ calls[c].state \in LineCallStates
    <3>1. calls[c] \in Appearances
      BY <2>1 DEF Bound, TypeOK
    <3>. QED BY <2>1, <2>2, <3>1 DEF Faithful, Active, Appearances
  <2>. QED BY <2>1, <2>3, ShownStays
<1>. QED BY <1>1, <1>2, <1>3 DEF Faithful

\* A thread with a result is at work on a request that there is.
LEMMA AnsweringKnown ==
  ASSUME Bound, NEW u \in Threads, thread[u].at \in Answering
  PROVE  thread[u].request \in DOMAIN requests
  BY ThreadNotices DEF ThreadBound, Working, Answering

\* Steps that leave the calls alone.
LEMMA FaithfulThread ==
  ASSUME Bound, Bound', Faithful, Kept, UNCHANGED calls,
         DOMAIN requests' = DOMAIN requests,
         \A r \in DOMAIN requests : Granted(r)' => Granted(r) \/ Truthful(r),
         \A u \in Threads : thread'[u].at \in Answering /\ thread'[u].ok =>
            \/ thread'[u] = thread[u]
            \/ /\ thread'[u].request \in DOMAIN requests
               /\ Truthful(thread'[u].request)
               /\ ~thread'[u].remove => FollowsUp(thread'[u])
  PROVE  Faithful'
<1>1. \A c : CallKept(c)
  BY DEF CallKept
<1>2. \A r \in DOMAIN requests : Granted(r)' => Truthful(r) /\ CallKept(requests[r].call)
  BY <1>1 DEF Faithful
<1>3. \A u \in Threads : thread'[u].at \in Answering /\ thread'[u].ok =>
            /\ thread'[u].request \in DOMAIN requests
            /\ CallKept(requests[thread'[u].request].call)
            /\ Truthful(thread'[u].request)
            /\ ~thread'[u].remove => FollowsUp(thread'[u])
  BY <1>1, AnsweringKnown DEF Faithful
<1>4. \A c \in DOMAIN calls' : /\ c \in DOMAIN calls /\ calls'[c].id = calls[c].id
                               /\ calls'[c].state = calls[c].state
                               /\ calls'[c].listed = calls[c].listed
  OBVIOUS
<1>. QED BY <1>2, <1>3, <1>4, FaithfulStep

\* What is granted depends on the answers alone.
LEMMA SameGranted ==
  ASSUME NEW r, requests'[r].replies = requests[r].replies, Granted(r)'
  PROVE  Granted(r)
  BY DEF Granted

\* Steps without an answer keep the line faithful.
LEMMA CalmFaithful ==
  ASSUME Bound, Bound', Faithful, Kept, NEW t \in Threads, CalmStep(t)
  PROVE  Faithful'
<1>1. \A r \in DOMAIN requests : Granted(r)' => Granted(r)
  BY SameGranted DEF CalmStep, Same
<1>. QED BY <1>1, FaithfulThread DEF CalmStep

\* An answer to a request is one about its call: the machine has notified it.
LEMMA ConcernedTruthful ==
  ASSUME Bound, NEW t \in Threads, Concerned(t)
  PROVE  Truthful(thread[t].request)
<1> DEFINE event == thread[t].event
           c == requests[thread[t].request].call
<1>1. /\ event # NoNotice /\ event.id = calls[c].id
      /\ requests[thread[t].request].command = "DROPCALL" => event.state = "IDLE"
  BY DEF Concerned
<1>2. event \in Notices /\ NoticeTrue(event)
  BY <1>1, ThreadNotices DEF ThreadBound, EventTrue
<1>3. ASSUME event.state = "IDLE"  PROVE view[event.id].removed
  <2>1. /\ event.id \in DOMAIN view /\ Rank("IDLE") <= Rank(view[event.id].state)
        /\ view[event.id].state \in LineCallStates
    BY <1>2, <1>3 DEF NoticeTrue, Bound, TypeOK, Calls
  <2>2. view[event.id].state = "IDLE"
    BY <2>1, RankValues, RankType
  <2>. QED BY <2>1, <2>2 DEF Bound, MachineOK
<1>. QED BY <1>1, <1>2, <1>3 DEF Truthful, NoticeTrue

\* A result found by a step is true, since its notice is.
LEMMA CompletingFaithful ==
  ASSUME Bound, Bound', Faithful, Kept, NEW t \in Threads, CompletingStep(t)
  PROVE  Faithful'
<1>1. \A r \in DOMAIN requests : Granted(r)' => Granted(r)
  BY SameGranted DEF CompletingStep, Same
<1>2. ASSUME thread'[t].ok
      PROVE  /\ thread'[t].request \in DOMAIN requests
             /\ Truthful(thread'[t].request) /\ FollowsUp(thread'[t])
  BY <1>2, ConcernedTruthful DEF CompletingStep, Concerned, FollowsUp
<1>. QED BY <1>1, <1>2, FaithfulThread DEF CompletingStep

\* A thread goes on to give its answer.
LEMMA AnswerGoesOn ==
  ASSUME Bound, Faithful, NEW t \in Threads, thread[t].at \in Answering,
         thread[t].ok, thread'[t].request = thread[t].request,
         thread'[t].event = thread[t].event,
         ~thread'[t].remove => ~thread[t].remove
  PROVE  /\ thread'[t].request \in DOMAIN requests
         /\ Truthful(thread'[t].request)
         /\ ~thread'[t].remove => FollowsUp(thread'[t])
  BY AnsweringKnown DEF Faithful, FollowsUp

\* Noting the result keeps the line faithful.
LEMMA CompleteRequestFaithful ==
  ASSUME Bound, Bound', Faithful, Kept, NEW t \in Threads, CompleteRequest(t)
  PROVE  Faithful'
<1>1. /\ UNCHANGED calls /\ DOMAIN requests' = DOMAIN requests
      /\ \A q \in DOMAIN requests : Same(requests[q], requests'[q])
      /\ \A u \in Threads \ {t} : thread'[u] = thread[u]
      /\ thread[t].at = "complete"
      /\ thread'[t].at \in Answering =>
            /\ thread'[t].ok = thread[t].ok /\ thread'[t].event = thread[t].event
            /\ thread'[t].request = thread[t].request
            /\ thread'[t].remove = thread[t].remove
  BY CompleteRequestEffect
<1>2. \A r \in DOMAIN requests : Granted(r)' => Granted(r)
  BY <1>1, SameGranted DEF Same
<1>3. ASSUME thread'[t].at \in Answering, thread'[t].ok
      PROVE  /\ thread'[t].request \in DOMAIN requests
             /\ Truthful(thread'[t].request)
             /\ ~thread'[t].remove => FollowsUp(thread'[t])
  BY <1>1, <1>3, AnswerGoesOn DEF Answering
<1>. QED BY <1>1, <1>2, <1>3, FaithfulThread

\* An answer repeats the result that the thread found.
LEMMA ReplyToTapiFaithful ==
  ASSUME Bound, Bound', Faithful, Kept, NEW t \in Threads, ReplyToTapi(t)
  PROVE  Faithful'
<1>1. /\ DOMAIN calls' = DOMAIN calls /\ thread[t].at = "reply"
      /\ \A u \in Threads \ {t} : thread'[u] = thread[u]
      /\ thread'[t].at \in {"setCallState", "fetch", "resting", "unsolicited"}
      /\ thread'[t].at = "setCallState" =>
            /\ ~thread[t].remove /\ thread'[t].request = thread[t].request
            /\ thread'[t].ok = thread[t].ok /\ thread'[t].event = thread[t].event
  BY ReplyToTapiBound DEF ReplyToTapi
<1>2. \A r \in DOMAIN requests : Granted(r)' => Granted(r) \/ Truthful(r)
  BY <1>1, ReplyGranted DEF Faithful, Answering
<1>3. ASSUME thread'[t].at \in Answering, thread'[t].ok
      PROVE  /\ thread'[t].request \in DOMAIN requests
             /\ Truthful(thread'[t].request)
             /\ ~thread'[t].remove => FollowsUp(thread'[t])
  BY <1>1, <1>3, AnswerGoesOn DEF Answering
<1>4. ASSUME NEW c \in DOMAIN calls
      PROVE  \/ calls'[c].id = 0 /\ calls'[c].state = "IDLE"
             \/ /\ calls'[c].id = calls[c].id /\ calls'[c].state = calls[c].state
                /\ calls'[c].listed = calls[c].listed
  BY ReplyToTapiCalls
<1>5. \A c \in DOMAIN calls : CallKept(c)
  BY <1>4 DEF CallKept
<1>6. \A r \in DOMAIN requests : requests[r].call \in DOMAIN calls
  BY DEF Bound
<1>7. \A r \in DOMAIN requests :
         Granted(r)' => Truthful(r) /\ CallKept(requests[r].call)
  BY <1>2, <1>5, <1>6 DEF Faithful
<1>8. ASSUME NEW u \in Threads, thread'[u].at \in Answering, thread'[u].ok
      PROVE  /\ thread'[u].request \in DOMAIN requests
             /\ CallKept(requests[thread'[u].request].call)
             /\ Truthful(thread'[u].request)
             /\ ~thread'[u].remove => FollowsUp(thread'[u])
  <2>1. CASE u = t
    BY <1>3, <1>5, <1>6, <1>8, <2>1
  <2>2. CASE u # t
    BY <1>1, <1>5, <1>6, <1>8, <2>2, AnsweringKnown DEF Faithful
  <2>. QED BY <2>1, <2>2
<1>9. \A c \in DOMAIN calls' :
         \/ ~Active(calls'[c])
         \/ /\ c \in DOMAIN calls /\ calls'[c].id = calls[c].id
            /\ calls'[c].state = calls[c].state
            /\ calls'[c].listed = calls[c].listed
  BY <1>1, <1>4 DEF Active
<1>. QED BY <1>7, <1>8, <1>9, ReplyKeeps, FaithfulStep

\* A state of the call is set that the machine has notified.
LEMMA SetCallStateFaithful ==
  ASSUME Bound, Bound', Faithful, Kept, NEW c \in DOMAIN calls,
         NEW state \in LineCallStates, SetCallState(c, state), UNCHANGED view,
         \A r \in DOMAIN requests :
            requests[r].command = "MAKECALL" /\ requests[r].call = c => Truthful(r),
         \/ Redialled(c) \/ calls[c].state = "IDLE"
         \/ calls[c].id \in DOMAIN view /\ Rank(state) <= Rank(view[calls[c].id].state),
         \A u \in Threads : thread'[u].at \in Answering =>
            \/ thread'[u] = thread[u]
            \/ /\ thread'[u].request \in DOMAIN requests
               /\ Truthful(thread'[u].request) /\ thread'[u].remove
  PROVE  Faithful'
<1>1. /\ DOMAIN calls' = DOMAIN calls
      /\ \A b \in DOMAIN calls \ {c} : calls'[b] = calls[b]
      /\ calls'[c] = IF calls[c].state = "IDLE" THEN calls[c] ELSE CallAfter(c, state)
  BY SetCallStateEffect DEF Bound
<1>2. calls[c] \in Appearances
  BY DEF Bound, TypeOK
<1>3. calls[c].state # "IDLE" =>
         \/ /\ calls'[c].id = 0 /\ calls'[c].state = "IDLE"
         \/ /\ calls'[c].id = calls[c].id /\ calls'[c].state = state
            /\ calls'[c].listed = calls[c].listed
  BY <1>1, <1>2 DEF CallAfter, CallSet, RemoveCallAppearance, Appearances
<1>4. \A b \in DOMAIN calls : CallKept(b)
  BY <1>1, <1>3 DEF CallKept
<1>5. /\ DOMAIN requests' = DOMAIN requests
      /\ \A r \in DOMAIN requests : Granted(r)' => Truthful(r)
  BY SetCallStateKeeps DEF Faithful
<1>6. \A r \in DOMAIN requests : requests[r].call \in DOMAIN calls
  BY DEF Bound
<1>7. \A u \in Threads : thread'[u].at \in Answering /\ thread'[u].ok =>
            /\ thread'[u].request \in DOMAIN requests
            /\ CallKept(requests[thread'[u].request].call)
            /\ Truthful(thread'[u].request)
            /\ ~thread'[u].remove => FollowsUp(thread'[u])
  BY <1>4, <1>6, AnsweringKnown DEF Faithful
<1>8. \A b \in DOMAIN calls' :
            \/ ShownTruly(b)' \/ ~Active(calls'[b]) \/ Redialled(b)'
            \/ /\ b \in DOMAIN calls /\ calls'[b].id = calls[b].id
               /\ calls'[b].state = calls[b].state
               /\ calls'[b].listed = calls[b].listed
  <2> SUFFICES \/ ShownTruly(c)' \/ ~Active(calls'[c]) \/ Redialled(c)'
               \/ /\ calls'[c].id = calls[c].id
                  /\ calls'[c].state = calls[c].state
                  /\ calls'[c].listed = calls[c].listed
    BY <1>1
  <2>1. CASE calls[c].state = "IDLE"
    BY <1>1, <2>1
  <2>2. CASE Redialled(c)
    BY <2>2, RedialledStays
  <2>3. CASE calls[c].state # "IDLE" /\ ~Redialled(c)
    <3>1. CASE calls'[c].id = 0 /\ calls'[c].state = "IDLE"
      BY <3>1 DEF Active
    <3>2. CASE calls'[c].id = calls[c].id /\ calls'[c].state = state
      BY <2>3, <3>2 DEF ShownTruly
    <3>. QED BY <1>3, <2>3, <3>1, <3>2
  <2>. QED BY <2>1, <2>2, <2>3
<1>. QED BY <1>4, <1>5, <1>6, <1>7, <1>8, FaithfulStep

\* The state of a made call is that of a true notice.
LEMMA SetMadeCallFaithful ==
  ASSUME Bound, Bound', Faithful, Kept, NEW t \in Threads, SetMadeCallState(t)
  PROVE  Faithful'
<1> SUFFICES ASSUME NEW q, q = thread[t].request, NEW c, c = requests[q].call
             PROVE  Faithful'
  OBVIOUS
<1>1. /\ q \in DOMAIN requests /\ thread[t].event \in Notices
      /\ SetCallState(c, thread[t].event.state) /\ UNCHANGED view
      /\ thread[t].at \in Answering /\ thread[t].at = "setCallState"
  BY ThreadNotices DEF SetMadeCallState, ThreadBound, Working, Answering
<1>2. c \in DOMAIN calls /\ thread[t].event.state \in LineCallStates
  BY <1>1 DEF Bound, Notices
<1>3. /\ ~thread[t].remove /\ thread[t].ok /\ requests[q].command = "MAKECALL"
      /\ NoticeTrue(thread[t].event)
  BY <1>1, ThreadNotices DEF ThreadBound, EventTrue
<1>4. Truthful(q) /\ FollowsUp(thread[t])
  BY <1>1, <1>3 DEF Faithful
<1>5. \A r \in DOMAIN requests :
         requests[r].command = "MAKECALL" /\ requests[r].call = c => Truthful(r)
  BY <1>3, <1>4 DEF Truthful
<1>6. \/ Redialled(c) \/ calls[c].state = "IDLE"
      \/ /\ calls[c].id \in DOMAIN view
         /\ Rank(thread[t].event.state) <= Rank(view[calls[c].id].state)
  BY <1>3, <1>4 DEF FollowsUp, NoticeTrue
<1>7. \A u \in Threads : thread'[u].at \in Answering =>
            \/ thread'[u] = thread[u]
            \/ /\ thread'[u].request \in DOMAIN requests
               /\ Truthful(thread'[u].request) /\ thread'[u].remove
  BY <1>1, <1>4, SetMadeCallStateBound
<1>. QED BY <1>1, <1>2, <1>5, <1>6, <1>7, SetCallStateFaithful

\* So is the state of a call that a notice without a request changes, or
\* makes appear.
LEMMA UnsolicitedFaithful ==
  ASSUME Bound, Bound', Faithful, Kept, NEW t \in Threads, UnsolicitedCallEvent(t)
  PROVE  Faithful'
<1> SUFFICES ASSUME NEW event, event = thread[t].later  PROVE Faithful'
  OBVIOUS
<1>1. /\ event \in Notices /\ NoticeTrue(event) /\ UNCHANGED view
      /\ \A u \in Threads \ {t} : thread'[u] = thread[u]
      /\ thread'[t].at = "resting"
  BY UnsolicitedBound DEF Resting
<1>2. ASSUME NEW c \in FindCallByCallID(event.id), SetCallState(c, event.state)
      PROVE  Faithful'
  <2>1. c \in DOMAIN calls /\ event.state \in LineCallStates /\ calls[c].id = event.id
    BY <1>1, <1>2 DEF FindCallByCallID, Notices
  <2>2. \A r \in DOMAIN requests :
           requests[r].command = "MAKECALL" /\ requests[r].call = c => Truthful(r)
    BY <1>1, <2>1 DEF Truthful, NoticeTrue
  <2>. QED BY <1>1, <1>2, <2>1, <2>2, SetCallStateFaithful DEF NoticeTrue, Answering
<1>3. CASE UNCHANGED requests /\ UNCHANGED calls
  <2>1. \A r \in DOMAIN requests : Granted(r)' => Granted(r)
    BY <1>3, SameGranted
  <2>. QED BY <1>1, <1>3, <2>1, FaithfulThread DEF Answering
<1>4. CASE UNCHANGED requests /\ NewCall(event)
  <2> DEFINE n == Len(calls) + 1
  <2>1. /\ n \notin DOMAIN calls /\ DOMAIN calls' = DOMAIN calls \cup {n}
        /\ calls'[n].id = event.id
        /\ Rank(calls'[n].state) <= Rank(view[event.id].state)
        /\ \A c \in DOMAIN calls : calls'[c] = calls[c]
    BY <1>1, <1>4, NewCallEffect
  <2> HIDE DEF n
  <2>2. \A c \in DOMAIN calls : CallKept(c)
    BY <2>1 DEF CallKept
  <2>3. \A r \in DOMAIN requests : requests[r].call \in DOMAIN calls
    BY DEF Bound
  <2>4. \A r \in DOMAIN requests :
           Granted(r)' => Truthful(r) /\ CallKept(requests[r].call)
    BY <1>4, <2>2, <2>3, SameGranted DEF Faithful
  <2>5. \A u \in Threads : thread'[u].at \in Answering /\ thread'[u].ok =>
            /\ thread'[u].request \in DOMAIN requests
            /\ CallKept(requests[thread'[u].request].call)
            /\ Truthful(thread'[u].request)
            /\ ~thread'[u].remove => FollowsUp(thread'[u])
    <3>1. \A u \in Threads : thread'[u].at \in Answering => thread'[u] = thread[u]
      BY <1>1 DEF Answering
    <3>. QED BY <2>2, <2>3, <3>1, AnsweringKnown DEF Faithful
  <2>6. \A c \in DOMAIN calls' :
            \/ ShownTruly(c)'
            \/ /\ c \in DOMAIN calls /\ calls'[c].id = calls[c].id
               /\ calls'[c].state = calls[c].state
               /\ calls'[c].listed = calls[c].listed
    BY <1>1, <2>1 DEF ShownTruly, NoticeTrue
  <2>. QED BY <1>4, <2>4, <2>5, <2>6, FaithfulStep
<1>. QED BY <1>2, <1>3, <1>4, UnsolicitedBound

\* The call that gets an id has not been touched, or was dialled again.
LEMMA SetCallIDUntouched ==
  ASSUME Bound, DialOrder, NEW t \in Threads, thread[t].at = "setCallID",
         NEW q \in DOMAIN requests, q = thread[t].request
  PROVE  Redialled(requests[q].call) \/ Untouched(q)
<1>1. requests[q].dials >= 1 /\ requests[q].dials \in Nat
  BY DialsNumbers DEF DialOrder
<1>2. CASE requests[q].dials = 1
  <2>1. requests[q].command = "MAKECALL"
    BY ThreadNotices DEF ThreadBound
  <2>2. Dialling(q)
    BY <1>2, <2>1 DEF Dialling
  <2>. QED BY <2>2 DEF DialOrder
<1>3. CASE requests[q].dials > 1
  BY <1>3 DEF Redialled
<1>. QED BY <1>1, <1>2, <1>3

\* So no answer and no state depended on it before.
LEMMA SetCallIDFaithful ==
  ASSUME Bound, Bound', Faithful, Kept, DialOrder, NEW t \in Threads, SetCallID(t)
  PROVE  Faithful'
<1> SUFFICES ASSUME NEW q, q = thread[t].request, NEW c, c = requests[q].call
             PROVE  Faithful'
  OBVIOUS
<1>1. /\ UNCHANGED requests /\ thread[t].at = "setCallID" /\ q \in DOMAIN requests
      /\ c \in DOMAIN calls /\ DOMAIN calls' = DOMAIN calls
      /\ calls'[c].state = calls[c].state
      /\ \A b \in DOMAIN calls \ {c} : calls'[b] = calls[b]
      /\ \A u \in Threads \ {t} : thread'[u] = thread[u]
      /\ thread'[t].at \in {"resting", "unsolicited"}
  BY SetCallIDEffect
<1>2. Redialled(c) \/ Untouched(q)
  BY <1>1, SetCallIDUntouched
<1>3. \A b \in DOMAIN calls : b = c \/ CallKept(b)
  BY <1>1 DEF CallKept
<1>4. \A r \in DOMAIN requests : Granted(r)' => Truthful(r) /\ CallKept(requests[r].call)
  <2> SUFFICES ASSUME NEW r \in DOMAIN requests, Granted(r)'
               PROVE  Truthful(r) /\ CallKept(requests[r].call)
    OBVIOUS
  <2>1. Granted(r)
    BY <1>1, SameGranted
  <2>2. requests[r].call \in DOMAIN calls
    BY DEF Bound
  <2>3. requests[r].call = c => Redialled(c)
    BY <1>1, <1>2, <2>1 DEF Untouched
  <2>. QED BY <1>3, <2>1, <2>2, <2>3 DEF Faithful, CallKept
<1>5. \A u \in Threads : thread'[u].at \in Answering /\ thread'[u].ok =>
            /\ thread'[u].request \in DOMAIN requests
            /\ CallKept(requests[thread'[u].request].call)
            /\ Truthful(thread'[u].request)
            /\ ~thread'[u].remove => FollowsUp(thread'[u])
  <2> SUFFICES ASSUME NEW u \in Threads, thread'[u].at \in Answering, thread'[u].ok
               PROVE  /\ thread'[u].request \in DOMAIN requests
                      /\ CallKept(requests[thread'[u].request].call)
                      /\ Truthful(thread'[u].request)
                      /\ ~thread'[u].remove => FollowsUp(thread'[u])
    OBVIOUS
  <2>1. thread'[u] = thread[u]
    BY <1>1 DEF Answering
  <2>2. /\ thread[u].request \in DOMAIN requests
        /\ requests[thread[u].request].call \in DOMAIN calls
    BY <2>1, AnsweringKnown DEF Bound
  <2>3. requests[thread[u].request].call = c => Redialled(c)
    BY <1>1, <1>2, <2>1, <2>2 DEF Untouched
  <2>. QED BY <1>3, <2>1, <2>2, <2>3 DEF Faithful, CallKept
<1>6. \A b \in DOMAIN calls' :
            \/ ~Active(calls'[b]) \/ Redialled(b)'
            \/ /\ b \in DOMAIN calls /\ calls'[b].id = calls[b].id
               /\ calls'[b].state = calls[b].state
               /\ calls'[b].listed = calls[b].listed
  <2>1. Redialled(c)' \/ ~Active(calls'[c])
    <3>1. CASE Redialled(c)
      BY <3>1, RedialledStays
    <3>2. CASE Untouched(q)
      BY <1>1, <3>2 DEF Untouched, Active
    <3>. QED BY <1>2, <3>1, <3>2
  <2>. QED BY <1>1, <2>1
<1>. QED BY <1>1, <1>4, <1>5, <1>6, FaithfulStep

\* Dialling answers nothing and shows nothing.
LEMMA StartMakeCallFaithful ==
  ASSUME Bound, Bound', Faithful, Kept, NEW t \in Threads, NEW r \in DOMAIN requests,
         StartMakeCall(t, r)
  PROVE  Faithful'
<1>1. /\ UNCHANGED calls /\ DOMAIN requests' = DOMAIN requests
      /\ \A q \in DOMAIN requests : requests'[q].replies = requests[q].replies
      /\ \A u \in Threads \ {t} : thread'[u] = thread[u]
      /\ thread'[t].at = "setCallID"
  BY StartMakeCallEffect
<1>2. \A q \in DOMAIN requests : Granted(q)' => Granted(q)
  BY <1>1, SameGranted
<1>. QED BY <1>1, <1>2, FaithfulThread DEF Answering

\* TAPI's own steps: a new call has no state, and none gets another call.
LEMMA MakeCallFaithful ==
  ASSUME Bound, Bound', Faithful, Kept, NEW t \in Threads, NEW dialable \in BOOLEAN,
         MakeCall(t, dialable)
  PROVE  Faithful'
<1> SUFFICES ASSUME NEW r, r = Len(requests) + 1, NEW c, c = Len(calls) + 1
             PROVE  Faithful'
  OBVIOUS
<1>1. /\ UNCHANGED thread
      /\ DOMAIN calls' = DOMAIN calls \cup {c}
      /\ calls'[c].state \in {"UNKNOWN", "IDLE"}
      /\ \A b \in DOMAIN calls : calls'[b] = calls[b]
      /\ DOMAIN requests' = DOMAIN requests \cup {r} /\ ~Granted(r)'
      /\ \A q \in DOMAIN requests : requests'[q] = requests[q]
  BY MakeCallBound
<1>2. \A b \in DOMAIN calls : CallKept(b)
  BY <1>1 DEF CallKept
<1>3. \A q \in DOMAIN requests : requests[q].call \in DOMAIN calls
  BY DEF Bound
<1>4. \A q \in DOMAIN requests : Granted(q)' => Truthful(q) /\ CallKept(requests[q].call)
  BY <1>1, <1>2, <1>3, SameGranted DEF Faithful
<1>5. \A u \in Threads : thread'[u].at \in Answering /\ thread'[u].ok =>
            /\ thread'[u].request \in DOMAIN requests
            /\ CallKept(requests[thread'[u].request].call)
            /\ Truthful(thread'[u].request)
            /\ ~thread'[u].remove => FollowsUp(thread'[u])
  BY <1>1, <1>2, <1>3, AnsweringKnown DEF Faithful
<1>6. \A b \in DOMAIN calls' :
            \/ ~Active(calls'[b])
            \/ /\ b \in DOMAIN calls /\ calls'[b].id = calls[b].id
               /\ calls'[b].state = calls[b].state
               /\ calls'[b].listed = calls[b].listed
  BY <1>1 DEF Active
<1>. QED BY <1>1, <1>4, <1>5, <1>6, FaithfulStep

\* A drop call of TAPI claims nothing.
LEMMA DropCallFaithful ==
  ASSUME Bound, Bound', Faithful, Kept, NEW t \in Threads, NEW c \in DOMAIN calls,
         DropCall(t, c)
  PROVE  Faithful'
<1> DEFINE r == Len(requests) + 1
<1>1. /\ DOMAIN calls' = DOMAIN calls
      /\ \A b \in DOMAIN calls : /\ calls'[b].id = calls[b].id
                                 /\ calls'[b].state = calls[b].state
                                 /\ calls'[b].listed = calls[b].listed
      /\ DOMAIN requests' = DOMAIN requests \cup {r}
      /\ requests'[r].replies = <<>>
      /\ \A q \in DOMAIN requests : requests'[q] = requests[q]
      /\ \A u \in Threads \ {t} : thread'[u] = thread[u]
      /\ thread'[t].at = "insert"
  BY DropCallEffect
<1> HIDE DEF r
<1>2. \A b \in DOMAIN calls : CallKept(b)
  BY <1>1 DEF CallKept
<1>3. \A q \in DOMAIN requests : requests[q].call \in DOMAIN calls
  BY DEF Bound
<1>4. \A q \in DOMAIN requests : Granted(q)' => Truthful(q) /\ CallKept(requests[q].call)
  BY <1>1, <1>2, <1>3, SameGranted DEF Faithful
<1>5. \A q \in DOMAIN requests' \ DOMAIN requests : ~Granted(q)'
  BY <1>1 DEF Granted
<1>6. \A u \in Threads : thread'[u].at \in Answering /\ thread'[u].ok =>
            /\ thread'[u].request \in DOMAIN requests
            /\ CallKept(requests[thread'[u].request].call)
            /\ Truthful(thread'[u].request)
            /\ ~thread'[u].remove => FollowsUp(thread'[u])
  <2>1. \A u \in Threads : thread'[u].at \in Answering => thread'[u] = thread[u]
    BY <1>1 DEF Answering
  <2>. QED BY <1>2, <1>3, <2>1, AnsweringKnown DEF Faithful
<1>. QED BY <1>1, <1>4, <1>5, <1>6, FaithfulStep

\* A closed call claims nothing.
LEMMA CloseCallFaithful ==
  ASSUME Bound, Bound', Faithful, Kept, NEW t \in Threads, NEW c \in DOMAIN calls,
         CloseCall(t, c)
  PROVE  Faithful'
<1>1. /\ DOMAIN calls' = DOMAIN calls /\ calls'[c] = CloseAfter(c)
      /\ \A b \in DOMAIN calls \ {c} : calls'[b] = calls[b]
  BY CloseCallBound
<1>2. UNCHANGED <<requests, thread>> /\ calls[c] \in Appearances
  BY DEF CloseCall, Bound, TypeOK
<1>3. /\ calls'[c].state = calls[c].state
      /\ \/ calls'[c].id = 0 /\ calls'[c].state = "IDLE"
         \/ calls'[c].id = calls[c].id /\ calls'[c].listed = calls[c].listed
  BY <1>1, <1>2 DEF CloseAfter, RemoveCallAppearance, Appearances
<1>4. \A b \in DOMAIN calls : CallKept(b)
  BY <1>1, <1>3 DEF CallKept
<1>5. \A q \in DOMAIN requests : requests[q].call \in DOMAIN calls
  BY DEF Bound
<1>6. \A q \in DOMAIN requests : Granted(q)' => Truthful(q) /\ CallKept(requests[q].call)
  BY <1>2, <1>4, <1>5, SameGranted DEF Faithful
<1>7. \A u \in Threads : thread'[u].at \in Answering /\ thread'[u].ok =>
            /\ thread'[u].request \in DOMAIN requests
            /\ CallKept(requests[thread'[u].request].call)
            /\ Truthful(thread'[u].request)
            /\ ~thread'[u].remove => FollowsUp(thread'[u])
  BY <1>2, <1>4, <1>5, AnsweringKnown DEF Faithful
<1>8. \A b \in DOMAIN calls' :
            \/ ~Active(calls'[b])
            \/ /\ b \in DOMAIN calls /\ calls'[b].id = calls[b].id
               /\ calls'[b].state = calls[b].state
               /\ calls'[b].listed = calls[b].listed
  BY <1>1, <1>3 DEF Active
<1>. QED BY <1>2, <1>6, <1>7, <1>8, FaithfulStep

\* What the machine notifies can only go further than the line shows.
LEMMA ElsewhereFaithful ==
  ASSUME Bound, Bound', Faithful, Kept,
         (\E r \in DOMAIN requests : TimePasses(r)) \/ MachineStep
  PROVE  Faithful'
<1>1. UNCHANGED <<calls, thread>>
  BY DEF TimePasses, MachineStep, CallFromOutside, Notify, EndOfCall
<1>2. /\ DOMAIN requests' = DOMAIN requests
      /\ \A q \in DOMAIN requests : Same(requests[q], requests'[q])
  <2>1. CASE MachineStep
    BY <2>1 DEF MachineStep, CallFromOutside, Notify, EndOfCall, Same
  <2>2. CASE \E r \in DOMAIN requests : TimePasses(r)
    BY <2>2, TimePassesBound
  <2>. QED BY <2>1, <2>2
<1>3. \A r \in DOMAIN requests : Granted(r)' => Granted(r)
  BY <1>2, SameGranted DEF Same
<1>. QED BY <1>1, <1>2, <1>3, FaithfulThread

\* There is nothing to be faithful to at first.
LEMMA InitFaithful == Init => Faithful
  BY DEF Init, Faithful, Resting, Answering

\* Every step keeps the line faithful.
LEMMA NextFaithful ==
  Bound /\ Bound' /\ DialOrder /\ Faithful /\ [Next]_vars => Faithful'
<1> SUFFICES ASSUME Bound, Bound', DialOrder, Faithful, [Next]_vars  PROVE Faithful'
  OBVIOUS
<1>1. Kept
  BY NextKept
<1>2. CASE UNCHANGED vars
  <2>1. UNCHANGED <<calls, requests, thread>>
    BY <1>2 DEF vars
  <2>2. \A r \in DOMAIN requests : Granted(r)' => Granted(r)
    BY <2>1, SameGranted
  <2>. QED BY <1>1, <2>1, <2>2, FaithfulThread
<1>3. ASSUME NEW t \in TapiThreads, TapiStep(t)  PROVE Faithful'
  <2>1. t \in Threads
    BY DEF Threads
  <2>2. ASSUME NEW dialable \in Dialable, MakeCall(t, dialable)  PROVE Faithful'
    BY <1>1, <2>1, <2>2, LineAssumption, MakeCallFaithful
  <2>. QED BY <1>1, <1>3, <2>1, <2>2, DropCallFaithful, CloseCallFaithful DEF TapiStep
<1>4. ASSUME NEW t \in Threads, ThreadStep(t)  PROVE Faithful'
  <2>1. ASSUME NEW r \in DOMAIN requests, HandleRequest(t, r)  PROVE Faithful'
    <3>1. CASE StartMakeCall(t, r)
      BY <1>1, <3>1, StartMakeCallFaithful
    <3>2. CASE ~StartMakeCall(t, r)
      BY <1>1, <2>1, <3>2, CalmSteps, CompletingSteps, CalmFaithful, CompletingFaithful
         DEF HandleRequest
    <3>. QED BY <3>1, <3>2
  <2>2. CASE GetCurrentRequest(t) \/ BeginRequest(t) \/ AddDropRequest(t)
    BY <1>1, <2>2, CalmSteps, CalmFaithful
  <2>. QED BY <1>1, <1>4, <2>1, <2>2, SetCallIDFaithful, CompleteRequestFaithful,
              ReplyToTapiFaithful, SetMadeCallFaithful, UnsolicitedFaithful
           DEF ThreadStep
<1>5. CASE TimerFires \/ PoolTakes
  <2>1. Timer \in Threads /\ Pool \in Threads
    BY DEF Threads
  <2>. QED BY <1>1, <1>5, <2>1, CalmSteps, CalmFaithful
<1>6. CASE (\E r \in DOMAIN requests : TimePasses(r)) \/ MachineStep
  BY <1>1, <1>6, ElsewhereFaithful
<1>. QED BY <1>2, <1>3, <1>4, <1>5, <1>6 DEF Next

\* The line is faithful: what TAPI was told of a request, what a thread is
\* about to tell, and what the line shows of a call, are all true of the call
\* in the machine, unless the call has been dialled twice.
THEOREM LineIsFaithful == Spec => []Faithful
<1>1. Bound /\ DialOrder /\ [Next]_vars => DialOrder'
  BY NextDialOrder
<1>2. Bound /\ Bound' /\ DialOrder /\ Faithful /\ [Next]_vars => Faithful'
  BY NextFaithful
<1>. QED BY <1>1, <1>2, InitDialOrder, InitFaithful, Consistent, PTL DEF Spec

(* A success that TAPI is told is one of the server, though three places    *)
(* answer a request: OnMakeCall and OnDropCall take only an event of their  *)
(* own call, the time limit ends a request with a failure, and SetCallState *)
(* answers only when the machine has notified a state of that call.         *)
THEOREM SuccessIsReal == Spec => []RepliesAreTrue
<1>1. Faithful => RepliesAreTrue
  BY DEF Faithful, Truthful, RepliesAreTrue
<1>. QED BY <1>1, LineIsFaithful, PTL

(* The line never shows more of a call than the machine has notified of it, *)
(* however late OnMakeCall sets a state, unless the call was dialled twice. *)
THEOREM LineFollows == Spec => []LineFollowsMachine
<1>1. Faithful => LineFollowsMachine
  BY DEF Faithful, ShownTruly, LineFollowsMachine
<1>. QED BY <1>1, LineIsFaithful, PTL

-----------------------------------------------------------------------------
(* What the line shows of a call moves forward, as the machine's notices    *)
(* do: they reach the line one at a time and in order, although a notice    *)
(* may be used at once, kept for later or used up.                          *)

\* Of two notices of one call the first is not of a later state.  The same is
\* said of an appearance and a notice.
Before(m, n) == m.id = n.id => Rank(m.state) <= Rank(n.state)

\* What the pool's thread has taken and not yet used up.
Held == {thread[Pool].event, thread[Pool].later} \ {NoNotice}

\* The notices that may yet set the state of a call.
Waiting == Held \cup {notices[i] : i \in DOMAIN notices}

InOrder ==
    /\ \A t \in Threads \ {Pool} :
          thread[t].event = NoNotice /\ thread[t].later = NoNotice
    /\ \A m, n \in Held : m = n
    /\ \A i, j \in DOMAIN notices : i < j => Before(notices[i], notices[j])
    /\ \A m \in Held : \A i \in DOMAIN notices : Before(m, notices[i])
    /\ \A n \in Waiting : kind[n.id] = "PhysicalCall" => Rank(n.state) >= 3
    /\ \A c \in DOMAIN calls : \A n \in Waiting :
          Active(calls[c]) /\ ~Redialled(c) => Before(calls[c], n)

\* What a step may not do to the calls that the line shows.
MovesForward ==
    \A c \in DOMAIN calls :
        /\ calls[c].state = "IDLE" => calls'[c].state = "IDLE"
        /\ Active(calls[c]) /\ ~Redialled(c)' =>
              Rank(calls[c].state) <= Rank(calls'[c].state)

\* A thread has nothing after a step that it did not have before.
LessHeld ==
    \A u \in Threads :
        /\ thread'[u].event \in {NoNotice, thread[u].event, thread[u].later}
        /\ thread'[u].later \in {NoNotice, thread[u].event, thread[u].later}

\* How a step changes an appearance: not at all, to the end, by a notice that
\* the pool's thread has, or, as long as it is not active, in another way.
ShowsNotice(c) ==
    \/ calls'[c].state = "IDLE"
    \/ /\ calls'[c].state = calls[c].state
       /\ Active(calls'[c]) => Active(calls[c]) /\ calls'[c].id = calls[c].id
    \/ /\ calls[c].state # "IDLE"
       /\ Redialled(c) \/ \E m \in Held :
             /\ calls[c].id = m.id /\ calls'[c].id = m.id
             /\ calls'[c].state = m.state

CallsFollow ==
    /\ DOMAIN calls \subseteq DOMAIN calls'
    /\ \A c \in DOMAIN calls : ShowsNotice(c)
    /\ \A c \in DOMAIN calls' \ DOMAIN calls : Active(calls'[c]) =>
          \E m \in Held : m.id = calls'[c].id /\ Rank(calls'[c].state) <= Rank(m.state)

\* An active call has a state with a rank.
LEMMA ActiveRank ==
  ASSUME TypeOK, NEW c \in DOMAIN calls, Active(calls[c])
  PROVE  calls[c].state \in LineCallStates /\ Rank(calls[c].state) \in Nat
<1>1. calls[c] \in Appearances
  BY DEF TypeOK
<1>2. calls[c].state \in LineCallStates
  BY <1>1 DEF Appearances, Active
<1>. QED BY <1>2, RankType

\* A waiting notice is one that the machine has made.
LEMMA WaitingTrue ==
  ASSUME Bound, NEW n \in Waiting
  PROVE  n \in Notices /\ NoticeTrue(n) /\ Rank(n.state) \in Nat
<1>1. Pool \in Threads /\ notices \in Seq(Notices)
  BY DEF Threads, Bound, TypeOK
<1>2. ASSUME n \in Held  PROVE n \in Notices /\ NoticeTrue(n)
  BY <1>1, <1>2, ThreadNotices DEF Held, EventTrue
<1>3. ASSUME n \notin Held  PROVE n \in Notices /\ NoticeTrue(n)
  <2>1. PICK i \in DOMAIN notices : n = notices[i]
    BY <1>3 DEF Waiting
  <2>. QED BY <1>1, <2>1 DEF Bound
<1>4. n \in Notices /\ NoticeTrue(n)
  BY <1>2, <1>3
<1>. QED BY <1>4, RankType DEF Notices

\* A call that follows the notices it is shown by moves forward.
LEMMA FollowsForward ==
  ASSUME Bound, Bound', Kept, InOrder, CallsFollow
  PROVE  MovesForward
<1> SUFFICES ASSUME NEW c \in DOMAIN calls
             PROVE  /\ calls[c].state = "IDLE" => calls'[c].state = "IDLE"
                    /\ Active(calls[c]) /\ ~Redialled(c)' =>
                          Rank(calls[c].state) <= Rank(calls'[c].state)
  BY DEF MovesForward
<1>1. ShowsNotice(c)
  BY DEF CallsFollow
<1>2. calls[c].state = "IDLE" => calls'[c].state = "IDLE"
  BY <1>1 DEF ShowsNotice
<1>3. ASSUME Active(calls[c]), ~Redialled(c)'
      PROVE  Rank(calls[c].state) <= Rank(calls'[c].state)
  <2>1. calls[c].state \in LineCallStates /\ Rank(calls[c].state) \in 1 .. 5
    BY <1>3, ActiveRank, RankType DEF Bound
  <2>2. ~Redialled(c)
    BY <1>3, RedialledStays
  <2>3. CASE calls'[c].state = "IDLE"
    BY <2>1, <2>3, RankValues
  <2>4. CASE calls'[c].state = calls[c].state
    BY <2>1, <2>4
  <2>5. ASSUME NEW m \in Held, calls[c].id = m.id, calls'[c].state = m.state
        PROVE  Rank(calls[c].state) <= Rank(calls'[c].state)
    <3>1. Before(calls[c], m)
      BY <1>3, <2>2 DEF InOrder, Waiting
    <3>. QED BY <2>5, <3>1 DEF Before
  <2>. QED BY <1>1, <2>2, <2>3, <2>4, <2>5 DEF ShowsNotice
<1>. QED BY <1>2, <1>3

\* The threads take no notices from the queue, and set states by those they
\* have: the order stays.
LEMMA InOrderStep ==
  ASSUME Bound, Bound', Kept, InOrder, UNCHANGED notices, LessHeld, CallsFollow
  PROVE  InOrder'
<1>1. Pool \in Threads
  BY DEF Threads
<1>2. (\A t \in Threads \ {Pool} :
          thread[t].event = NoNotice /\ thread[t].later = NoNotice)'
  BY DEF InOrder, LessHeld
<1>3. Held' \subseteq Held /\ Waiting' \subseteq Waiting
  BY <1>1 DEF Held, Waiting, LessHeld
<1>4. (\A m, n \in Held : m = n)'
  BY <1>3 DEF InOrder
<1>5. (\A i, j \in DOMAIN notices : i < j => Before(notices[i], notices[j]))'
  BY DEF InOrder, Before
<1>6. (\A m \in Held : \A i \in DOMAIN notices : Before(m, notices[i]))'
  BY <1>3 DEF InOrder, Before
<1>7. (\A n \in Waiting : kind[n.id] = "PhysicalCall" => Rank(n.state) >= 3)'
  <2> SUFFICES ASSUME NEW n \in Waiting', kind'[n.id] = "PhysicalCall"
               PROVE  Rank(n.state) >= 3
    OBVIOUS
  <2>1. n \in Waiting /\ n.id \in DOMAIN kind
    BY <1>3, WaitingTrue DEF NoticeTrue, Bound, MachineOK
  <2>2. kind[n.id] = "PhysicalCall"
    BY <2>1 DEF Kept, ViewKept
  <2>. QED BY <2>1, <2>2 DEF InOrder
<1>8. (\A c \in DOMAIN calls : \A n \in Waiting :
          Active(calls[c]) /\ ~Redialled(c) => Before(calls[c], n))'
  <2> SUFFICES ASSUME NEW c \in DOMAIN calls', NEW n \in Waiting',
                      Active(calls'[c]), ~Redialled(c)', calls'[c].id = n.id
               PROVE  Rank(calls'[c].state) <= Rank(n.state)
    BY DEF Before
  <2>1. n \in Waiting /\ Rank(n.state) \in Nat
    BY <1>3, WaitingTrue
  <2>2. ASSUME NEW m \in Held, m.id = n.id  PROVE Rank(m.state) <= Rank(n.state)
    <3>1. m \in Waiting /\ Rank(m.state) \in Nat
      BY WaitingTrue DEF Waiting
    <3>2. CASE n \in Held
      <4>1. m = n
        BY <3>2 DEF InOrder
      <4>. QED BY <3>1, <4>1
    <3>3. CASE n \notin Held
      <4>1. PICK i \in DOMAIN notices : n = notices[i]
        BY <2>1, <3>3 DEF Waiting
      <4>2. Before(m, n)
        BY <4>1 DEF InOrder
      <4>. QED BY <2>2, <4>2 DEF Before
    <3>. QED BY <3>2, <3>3
  <2>3. Rank(calls'[c].state) \in Nat /\ calls'[c].state # "IDLE"
    <3>1. calls'[c] \in Appearances
      BY DEF Bound, TypeOK
    <3>2. calls'[c].state \in LineCallStates /\ calls'[c].state # "IDLE"
      BY <3>1 DEF Appearances, Active
    <3>. QED BY <3>2, RankType
  <2>4. CASE c \notin DOMAIN calls
    <3>1. PICK m \in Held : m.id = calls'[c].id /\ Rank(calls'[c].state) <= Rank(m.state)
      BY <2>4 DEF CallsFollow
    <3>2. m \in Waiting /\ Rank(m.state) \in Nat
      BY WaitingTrue DEF Waiting
    <3>3. Rank(m.state) <= Rank(n.state)
      BY <2>2, <3>1
    <3>. QED BY <2>1, <2>3, <3>1, <3>2, <3>3
  <2>5. CASE c \in DOMAIN calls
    <3>1. ShowsNotice(c) /\ ~Redialled(c)
      BY <2>5, RedialledStays DEF CallsFollow
    <3>2. CASE /\ calls'[c].state = calls[c].state
               /\ Active(calls[c]) /\ calls'[c].id = calls[c].id
      <4>1. Before(calls[c], n)
        BY <2>1, <2>5, <3>1, <3>2 DEF InOrder
      <4>. QED BY <3>2, <4>1 DEF Before
    <3>3. ASSUME NEW m \in Held, calls'[c].id = m.id, calls'[c].state = m.state
          PROVE  Rank(calls'[c].state) <= Rank(n.state)
      BY <2>2, <3>3
    <3>. QED BY <2>3, <3>1, <3>2, <3>3 DEF ShowsNotice
  <2>. QED BY <2>4, <2>5
<1>. QED BY <1>2, <1>4, <1>5, <1>6, <1>7, <1>8 DEF InOrder

\* A thread that goes on as told keeps at most what it had.
LEMMA DoesHold ==
  ASSUME Bound, NEW t \in Threads, NEW d, Does(t, d),
         d.event \in {NoNotice, thread[t].event, thread[t].later},
         d.later \in {NoNotice, thread[t].event, thread[t].later}
  PROVE  LessHeld
<1>1. thread'[t] = d /\ \A u \in Threads \ {t} : thread'[u] = thread[u]
  BY DoesValue DEF Bound
<1>. QED BY <1>1 DEF LessHeld

\* A thread that finishes, or begins again, has at most a notice for later.
LEMMA FinishHolds ==
  ASSUME Bound, NEW t \in Threads, NEW later \in Notices,
         later \in {NoNotice, thread[t].event, thread[t].later},
         \/ Does(t, Finish(later)) \/ Does(t, Receives(later))
         \/ Does(t, Fetched(NoNotice, later))
  PROVE  LessHeld
<1>1. NoNotice \in Notices /\ requests \in Seq(Requests)
      /\ queue \in Seq(DOMAIN requests)
  BY RestingType DEF Bound, TypeOK
<1>2. /\ Finish(later).event = NoNotice /\ Finish(later).later = later
      /\ Receives(later).event = NoNotice /\ Receives(later).later = later
  BY FinishType, ReceivesType
<1>3. /\ Fetched(NoNotice, later).event = NoNotice
      /\ Fetched(NoNotice, later).later \in {later, NoNotice}
  BY <1>1, FetchedType
<1>4. CASE Does(t, Finish(later))
  BY <1>2, <1>4, DoesHold
<1>5. CASE Does(t, Receives(later))
  BY <1>2, <1>5, DoesHold
<1>6. CASE Does(t, Fetched(NoNotice, later))
  BY <1>3, <1>6, DoesHold
<1>. QED BY <1>4, <1>5, <1>6

\* A thread that completes a request keeps its event, and what is left over.
LEMMA CompletesHold ==
  ASSUME Bound, NEW t \in Threads, NEW ok, NEW remove,
         NEW later \in {NoNotice, thread[t].event, thread[t].later},
         Completes(t, ok, remove, later)
  PROVE  LessHeld
<1> DEFINE d == [thread[t] EXCEPT !.at = "complete", !.ok = ok, !.remove = remove,
                                  !.later = later]
<1>1. d.event = thread[t].event /\ d.later = later
  BY ThreadNotices DEF Doings
<1>2. Does(t, d)
  BY DEF Completes
<1> HIDE DEF d
<1>. QED BY <1>1, <1>2, DoesHold

\* No step on a request gets a thread a notice that it did not have.
LEMMA RequestHolds ==
  ASSUME Bound, NEW t \in Threads, NEW r \in DOMAIN requests, HandleRequest(t, r)
  PROVE  LessHeld
<1>1. /\ thread[t] \in Doings /\ thread[t].later \in Notices
      /\ Unhandled(t) \in Notices /\ Unhandled(t) \in {thread[t].event, thread[t].later}
  BY ThreadNotices DEF Unhandled
<1>2. CASE StartMakeCall(t, r)
  <2> DEFINE d == [thread[t] EXCEPT !.at = "setCallID", !.value = NextId]
  <2>1. d.event = thread[t].event /\ d.later = thread[t].later
    BY <1>1 DEF Doings
  <2>2. Does(t, d)
    BY <1>2 DEF StartMakeCall
  <2> HIDE DEF d
  <2>. QED BY <2>1, <2>2, DoesHold
<1>3. CASE StartMakeCallFails(t, r)
  BY <1>3, CompletesHold DEF StartMakeCallFails
<1>4. CASE StartDropCall(t, r)
  BY <1>1, <1>4, FinishHolds DEF StartDropCall
<1>5. CASE AnswerMakeCall(t, r)
  BY <1>5, CompletesHold DEF AnswerMakeCall
<1>6. CASE AnswerDropCall(t, r)
  <2>1. \/ Completes(t, TRUE, TRUE, thread[t].later)
        \/ Does(t, Finish(thread[t].later))
    BY <1>6 DEF AnswerDropCall
  <2>. QED BY <1>1, <2>1, CompletesHold, FinishHolds
<1>7. CASE RequestOverdue(t, r)
  BY <1>1, <1>7, CompletesHold DEF RequestOverdue
<1>8. CASE NotForRequest(t, r)
  BY <1>1, <1>8, FinishHolds DEF NotForRequest
<1>. QED BY <1>2, <1>3, <1>4, <1>5, <1>6, <1>7, <1>8 DEF HandleRequest

\* So does a thread that answers.
LEMMA ReplyHolds ==
  ASSUME Bound, NEW t \in Threads, ReplyToTapi(t)
  PROVE  UNCHANGED notices /\ LessHeld
<1> DEFINE s == [thread[t] EXCEPT !.at = "setCallState"]
           f == Finish(thread[t].later)
           g == Receives(thread[t].later)
           d == IF ~thread[t].remove THEN s
                ELSE IF thread[t].current /\ queue' # <<>> THEN g ELSE f
<1>1. UNCHANGED notices
  BY DEF ReplyToTapi
<1>2. Does(t, d)
  BY DEF ReplyToTapi
<1>3. /\ s.event = thread[t].event /\ s.later = thread[t].later
      /\ f.event = NoNotice /\ f.later = thread[t].later
      /\ g.event = NoNotice /\ g.later = thread[t].later
  BY ThreadNotices, FinishType, ReceivesType DEF Doings
<1> HIDE DEF s, f, g
<1>4. d.event \in {NoNotice, thread[t].event} /\ d.later = thread[t].later
  BY <1>3
<1> HIDE DEF d
<1>. QED BY <1>1, <1>2, <1>4, DoesHold

\* No step of a thread does.
LEMMA ThreadStepHolds ==
  ASSUME Bound, NEW t \in Threads, ThreadStep(t)
  PROVE  UNCHANGED notices /\ LessHeld
<1>1. /\ thread[t] \in Doings /\ thread[t].later \in Notices /\ NoNotice \in Notices
      /\ Resting.event = NoNotice /\ Resting.later = NoNotice
  BY ThreadNotices DEF Resting
<1>2. CASE AddDropRequest(t)
  <2>1. UNCHANGED notices /\ (Does(t, Receives(NoNotice)) \/ Does(t, Resting))
    BY <1>2 DEF AddDropRequest
  <2>. QED BY <1>1, <2>1, FinishHolds, DoesHold
<1>3. CASE GetCurrentRequest(t)
  <2>1. UNCHANGED notices /\ Does(t, Fetched(NoNotice, thread[t].later))
    BY <1>3 DEF GetCurrentRequest
  <2>. QED BY <1>1, <2>1, FinishHolds
<1>4. CASE BeginRequest(t)
  <2> DEFINE d == [thread[t] EXCEPT !.at = "dispatch"]
  <2>1. d.event = thread[t].event /\ d.later = thread[t].later
    BY <1>1 DEF Doings
  <2>2. UNCHANGED notices /\ Does(t, d)
    BY <1>4 DEF BeginRequest
  <2> HIDE DEF d
  <2>. QED BY <2>1, <2>2, DoesHold
<1>5. ASSUME NEW r \in DOMAIN requests, HandleRequest(t, r)
      PROVE  UNCHANGED notices /\ LessHeld
  <2>1. UNCHANGED notices
    BY <1>5 DEF HandleRequest, StartMakeCall, StartMakeCallFails, StartDropCall,
                AnswerMakeCall, AnswerDropCall, RequestOverdue, NotForRequest
  <2>. QED BY <1>5, <2>1, RequestHolds
<1>6. CASE SetCallID(t)
  <2>1. UNCHANGED notices /\ Does(t, Finish(thread[t].later))
    BY <1>6 DEF SetCallID
  <2>. QED BY <1>1, <2>1, FinishHolds
<1>7. CASE CompleteRequest(t)
  <2> SUFFICES ASSUME NEW current, NEW send,
                      current = (queue # <<>> /\ Head(queue) = thread[t].request),
                      send = ~requests[thread[t].request].sent
               PROVE  UNCHANGED notices /\ LessHeld
    OBVIOUS
  <2> DEFINE d == [thread[t] EXCEPT !.at = "setCallState"]
             e == [thread[t] EXCEPT !.at = "reply", !.current = current, !.send = send]
  <2>1. /\ d.event = thread[t].event /\ d.later = thread[t].later
        /\ e.event = thread[t].event /\ e.later = thread[t].later
    BY <1>1 DEF Doings
  <2>2. /\ UNCHANGED notices
        /\ Does(t, Finish(thread[t].later)) \/ Does(t, d) \/ Does(t, e)
    BY <1>7 DEF CompleteRequest
  <2> HIDE DEF d, e
  <2>3. Does(t, d) => LessHeld
    BY <2>1, DoesHold
  <2>4. Does(t, e) => LessHeld
    BY <2>1, DoesHold
  <2>5. Does(t, Finish(thread[t].later)) => LessHeld
    BY <1>1, FinishHolds
  <2>. QED BY <2>2, <2>3, <2>4, <2>5
<1>8. CASE ReplyToTapi(t)
  BY <1>8, ReplyHolds
<1>9. CASE SetMadeCallState(t)
  BY <1>9, CompletesHold DEF SetMadeCallState
<1>10. CASE UnsolicitedCallEvent(t)
  <2>1. UNCHANGED notices /\ Does(t, Resting)
    BY <1>10 DEF UnsolicitedCallEvent
  <2>. QED BY <1>1, <2>1, DoesHold
<1>. QED BY <1>2, <1>3, <1>4, <1>5, <1>6, <1>7, <1>8, <1>9, <1>10 DEF ThreadStep

\* Calls that stay the same follow.
LEMMA SameFollow == UNCHANGED calls => CallsFollow
  BY DEF CallsFollow, ShowsNotice

\* Only the pool's thread has a notice.
LEMMA OnlyPoolHolds ==
  ASSUME InOrder, NEW t \in Threads, NEW m \in {thread[t].event, thread[t].later},
         m # NoNotice
  PROVE  m \in Held
  BY DEF InOrder, Held

\* A state that is set by a notice of the call.
LEMMA SetCallStateFollows ==
  ASSUME Bound, NEW c \in DOMAIN calls, NEW m \in Held, m \in Notices,
         SetCallState(c, m.state),
         Redialled(c) \/ calls[c].state = "IDLE" \/ calls[c].id = m.id
  PROVE  CallsFollow
<1>1. /\ DOMAIN calls' = DOMAIN calls
      /\ \A b \in DOMAIN calls \ {c} : calls'[b] = calls[b]
      /\ calls'[c] = IF calls[c].state = "IDLE" THEN calls[c] ELSE CallAfter(c, m.state)
  <2>1. TypeOK /\ m.state \in LineCallStates
    BY DEF Bound, Notices
  <2>. QED BY <2>1, SetCallStateEffect
<1>2. calls[c] \in Appearances
  BY DEF Bound, TypeOK
<1>3. ShowsNotice(c)
  <2>1. CASE calls[c].state = "IDLE"
    BY <1>1, <2>1 DEF ShowsNotice
  <2>2. CASE calls[c].state # "IDLE"
    <3>1. \/ calls'[c].state = "IDLE"
          \/ calls'[c].id = calls[c].id /\ calls'[c].state = m.state
      BY <1>1, <1>2, <2>2 DEF CallAfter, CallSet, RemoveCallAppearance, Appearances
    <3>. QED BY <2>2, <3>1 DEF ShowsNotice
  <2>. QED BY <2>1, <2>2
<1>4. \A b \in DOMAIN calls \ {c} : ShowsNotice(b)
  BY <1>1 DEF ShowsNotice
<1>. QED BY <1>1, <1>3, <1>4 DEF CallsFollow

\* OnMakeCall sets a state by the event of its call.
LEMMA SetMadeCallFollows ==
  ASSUME Bound, Faithful, InOrder, NEW t \in Threads, SetMadeCallState(t)
  PROVE  CallsFollow
<1> SUFFICES ASSUME NEW q, q = thread[t].request, NEW c, c = requests[q].call,
                    NEW m, m = thread[t].event
             PROVE  CallsFollow
  OBVIOUS
<1>1. /\ q \in DOMAIN requests /\ m \in Notices /\ SetCallState(c, m.state)
      /\ thread[t].at \in Answering /\ thread[t].at = "setCallState"
  BY ThreadNotices DEF SetMadeCallState, ThreadBound, Working, Answering
<1>2. ~thread[t].remove /\ thread[t].ok /\ m # NoNotice
  BY <1>1, ThreadNotices DEF ThreadBound
<1>3. FollowsUp(thread[t])
  BY <1>1, <1>2 DEF Faithful
<1>4. Redialled(c) \/ calls[c].state = "IDLE" \/ calls[c].id = m.id
  BY <1>3 DEF FollowsUp
<1>5. c \in DOMAIN calls /\ m \in Held
  BY <1>1, <1>2, OnlyPoolHolds DEF Bound
<1>. QED BY <1>1, <1>4, <1>5, SetCallStateFollows

\* UnsolicitedEvent sets a state by the notice too.  A call that it makes
\* appear is of the first state of its kind, which no notice of it precedes.
LEMMA UnsolicitedFollows ==
  ASSUME Bound, InOrder, NEW t \in Threads, UnsolicitedCallEvent(t)
  PROVE  CallsFollow
<1> SUFFICES ASSUME NEW m, m = thread[t].later  PROVE CallsFollow
  OBVIOUS
<1>1. /\ m \in Notices /\ NoticeTrue(m)
      /\ \/ \E c \in FindCallByCallID(m.id) : SetCallState(c, m.state)
         \/ FindCallByCallID(m.id) = {} /\ (UNCHANGED calls \/ NewCall(m))
  BY UnsolicitedBound
<1>2. m # NoNotice
  BY ThreadNotices DEF UnsolicitedCallEvent, ThreadBound
<1>3. m \in Held
  BY <1>2, OnlyPoolHolds
<1>4. ASSUME NEW c \in FindCallByCallID(m.id), SetCallState(c, m.state)
      PROVE  CallsFollow
  <2>1. c \in DOMAIN calls /\ calls[c].id = m.id
    BY <1>4 DEF FindCallByCallID
  <2>. QED BY <1>1, <1>3, <1>4, <2>1, SetCallStateFollows
<1>5. ASSUME FindCallByCallID(m.id) = {}, NewCall(m)  PROVE CallsFollow
  <2> SUFFICES ASSUME NEW n, n = Len(calls) + 1  PROVE CallsFollow
    OBVIOUS
  <2> DEFINE state == IF kind[m.id] = "IncomingCall" THEN "OFFERING" ELSE "PROCEEDING"
             new == NewAppearance(m.id, state)
  <2>1. /\ kind[m.id] # "MakeCall" /\ kind[m.id] \in Kinds
    BY <1>1, <1>5 DEF NewCall, NoticeTrue, Bound, MachineOK, TypeOK
  <2>2. calls' = Append(calls, new)
    BY <1>5, <2>1 DEF UnsolicitedCallEvent
  <2>3. Rank(state) <= Rank(m.state)
    <3>1. Rank(m.state) \in 1 .. 5
      BY <1>1, RankType DEF Notices
    <3>2. CASE kind[m.id] = "IncomingCall"
      BY <3>1, <3>2, RankValues
    <3>3. CASE kind[m.id] = "PhysicalCall"
      <4>1. Rank(m.state) >= 3
        BY <1>3, <3>3 DEF InOrder, Waiting
      <4>. QED BY <3>1, <3>3, <4>1, RankValues
    <3>. QED BY <2>1, <3>2, <3>3 DEF Kinds
  <2>4. new \in Appearances /\ new.id = m.id /\ new.state = state
    BY <1>1, NewAppearanceType DEF Notices, LineCallStates, FirstStates
  <2> HIDE DEF new, state
  <2>5. /\ DOMAIN calls' = DOMAIN calls \cup {n} /\ calls'[n] = new
        /\ \A c \in DOMAIN calls : calls'[c] = calls[c]
    BY <2>2, <2>4, AppendType DEF Bound, TypeOK
  <2>6. \A c \in DOMAIN calls : ShowsNotice(c)
    BY <2>5 DEF ShowsNotice
  <2>. QED BY <1>3, <2>3, <2>4, <2>5, <2>6 DEF CallsFollow
<1>. QED BY <1>1, <1>4, <1>5, SameFollow

\* A call gets its id before it is shown, unless it was dialled again.
LEMMA SetCallIDFollows ==
  ASSUME Bound, DialOrder, NEW t \in Threads, SetCallID(t)
  PROVE  CallsFollow
<1> SUFFICES ASSUME NEW q, q = thread[t].request, NEW c, c = requests[q].call
             PROVE  CallsFollow
  OBVIOUS
<1>1. /\ thread[t].at = "setCallID" /\ q \in DOMAIN requests
      /\ c \in DOMAIN calls /\ DOMAIN calls' = DOMAIN calls
      /\ calls'[c].state = calls[c].state
      /\ \A b \in DOMAIN calls \ {c} : calls'[b] = calls[b]
  BY SetCallIDEffect
<1>2. Redialled(c) \/ Untouched(q)
  BY <1>1, SetCallIDUntouched
<1>3. ShowsNotice(c)
  <2>1. CASE Redialled(c)
    BY <1>1, <2>1 DEF ShowsNotice
  <2>2. CASE Untouched(q)
    BY <1>1, <2>2 DEF ShowsNotice, Untouched, Active
  <2>. QED BY <1>2, <2>1, <2>2
<1>4. \A b \in DOMAIN calls \ {c} : ShowsNotice(b)
  BY <1>1 DEF ShowsNotice
<1>. QED BY <1>1, <1>3, <1>4 DEF CallsFollow

\* The threads keep the order, and the calls move forward.
LEMMA ThreadStepOrder ==
  ASSUME Bound, Bound', Kept, DialOrder, Faithful, InOrder,
         NEW t \in Threads, ThreadStep(t)
  PROVE  InOrder' /\ MovesForward
<1>1. UNCHANGED notices /\ LessHeld
  BY ThreadStepHolds
<1>2. CallsFollow
  <2>1. CASE UNCHANGED calls
    BY <2>1, SameFollow
  <2>2. CASE SetCallID(t)
    BY <2>2, SetCallIDFollows
  <2>3. CASE SetMadeCallState(t)
    BY <2>3, SetMadeCallFollows
  <2>4. CASE UnsolicitedCallEvent(t)
    BY <2>4, UnsolicitedFollows
  <2>5. CASE ReplyToTapi(t)
    <3>1. ASSUME NEW c \in DOMAIN calls  PROVE ShowsNotice(c)
      <4>1. \/ calls'[c].state = "IDLE"
            \/ /\ calls'[c].id = calls[c].id /\ calls'[c].state = calls[c].state
               /\ calls'[c].listed = calls[c].listed
        BY <2>5, <3>1, ReplyToTapiCalls
      <4>. QED BY <4>1 DEF ShowsNotice, Active
    <3>. QED BY <2>5, <3>1, ReplyToTapiBound DEF CallsFollow
  <2>6. \/ UNCHANGED calls \/ SetCallID(t) \/ ReplyToTapi(t)
        \/ SetMadeCallState(t) \/ UnsolicitedCallEvent(t)
    <3>1. ASSUME NEW r \in DOMAIN requests, HandleRequest(t, r)
          PROVE  UNCHANGED calls
      BY <3>1 DEF HandleRequest, StartMakeCall, StartMakeCallFails, StartDropCall,
                  AnswerMakeCall, AnswerDropCall, RequestOverdue, NotForRequest
    <3>2. CASE AddDropRequest(t) \/ GetCurrentRequest(t) \/ BeginRequest(t)
      BY <3>2 DEF AddDropRequest, GetCurrentRequest, BeginRequest
    <3>3. CASE CompleteRequest(t)
      BY <3>3, CompleteRequestEffect
    <3>. QED BY <3>1, <3>2, <3>3 DEF ThreadStep
  <2>. QED BY <2>1, <2>2, <2>3, <2>4, <2>5, <2>6
<1>. QED BY <1>1, <1>2, InOrderStep, FollowsForward

\* So do the steps of TAPI, which show nothing.
LEMMA TapiStepOrder ==
  ASSUME Bound, Bound', Kept, InOrder, NEW t \in TapiThreads, TapiStep(t)
  PROVE  InOrder' /\ MovesForward
<1>1. t \in Threads
  BY DEF Threads
<1>2. ASSUME NEW dialable \in Dialable, MakeCall(t, dialable)
      PROVE  UNCHANGED notices /\ LessHeld /\ CallsFollow
  <2> SUFFICES ASSUME NEW r, r = Len(requests) + 1, NEW c, c = Len(calls) + 1
               PROVE  UNCHANGED notices /\ LessHeld /\ CallsFollow
    OBVIOUS
  <2>1. /\ UNCHANGED <<thread, notices>>
        /\ DOMAIN calls' = DOMAIN calls \cup {c}
        /\ calls'[c].state \in {"UNKNOWN", "IDLE"}
        /\ \A b \in DOMAIN calls : calls'[b] = calls[b]
    BY <1>1, <1>2, LineAssumption, MakeCallBound
  <2>2. LessHeld
    BY <2>1 DEF LessHeld
  <2>3. CallsFollow
    BY <2>1 DEF CallsFollow, ShowsNotice, Active
  <2>. QED BY <2>1, <2>2, <2>3
<1>3. ASSUME NEW c \in DOMAIN calls, DropCall(t, c)
      PROVE  UNCHANGED notices /\ LessHeld /\ CallsFollow
  <2>1. /\ DOMAIN calls' = DOMAIN calls
        /\ \A b \in DOMAIN calls : /\ calls'[b].id = calls[b].id
                                   /\ calls'[b].state = calls[b].state
                                   /\ calls'[b].listed = calls[b].listed
    BY <1>1, <1>3, DropCallEffect
  <2>2. CallsFollow
    BY <2>1 DEF CallsFollow, ShowsNotice, Active
  <2>3. LessHeld
    <3> DEFINE d == [Resting EXCEPT !.at = "insert", !.value = Started,
                                    !.request = Len(requests) + 1]
    <3>1. d.event = NoNotice /\ d.later = NoNotice
      BY DEF Resting
    <3>2. Does(t, d)
      BY <1>3 DEF DropCall
    <3> HIDE DEF d
    <3>. QED BY <1>1, <3>1, <3>2, DoesHold
  <2>. QED BY <1>3, <2>2, <2>3 DEF DropCall
<1>4. ASSUME NEW c \in DOMAIN calls, CloseCall(t, c)
      PROVE  UNCHANGED notices /\ LessHeld /\ CallsFollow
  <2>1. /\ DOMAIN calls' = DOMAIN calls /\ calls'[c] = CloseAfter(c)
        /\ \A b \in DOMAIN calls \ {c} : calls'[b] = calls[b]
    BY <1>1, <1>4, CloseCallBound
  <2>2. UNCHANGED <<thread, notices>> /\ calls[c] \in Appearances
    BY <1>4 DEF CloseCall, Bound, TypeOK
  <2>3. /\ calls'[c].state = calls[c].state
        /\ \/ calls'[c].state = "IDLE"
           \/ calls'[c].id = calls[c].id /\ calls'[c].listed = calls[c].listed
    BY <2>1, <2>2 DEF CloseAfter, RemoveCallAppearance, Appearances
  <2>4. ShowsNotice(c)
    BY <2>3 DEF ShowsNotice, Active
  <2>5. \A b \in DOMAIN calls \ {c} : ShowsNotice(b)
    BY <2>1 DEF ShowsNotice
  <2>6. CallsFollow
    BY <2>1, <2>4, <2>5 DEF CallsFollow
  <2>7. LessHeld
    BY <2>2 DEF LessHeld
  <2>. QED BY <2>2, <2>6, <2>7
<1>5. UNCHANGED notices /\ LessHeld /\ CallsFollow
  BY <1>2, <1>3, <1>4 DEF TapiStep
<1>. QED BY <1>5, InOrderStep, FollowsForward

\* The pool takes the first notice, when its thread has used up the last one.
LEMMA PoolTakesOrder ==
  ASSUME Bound, Bound', InOrder, PoolTakes
  PROVE  InOrder'
<1> SUFFICES ASSUME NEW first, first = Head(notices)  PROVE InOrder'
  OBVIOUS
<1>1. /\ Pool \in Threads /\ notices \in Seq(Notices) /\ notices # <<>>
      /\ requests \in Seq(Requests) /\ queue \in Seq(DOMAIN requests)
      /\ NoNotice \in Notices /\ TypeOK
  BY RestingType DEF Threads, PoolTakes, Bound, TypeOK
<1>2. /\ first \in Notices /\ 1 \in DOMAIN notices /\ first = notices[1]
      /\ \A i \in DOMAIN notices' :
            /\ i + 1 \in DOMAIN notices /\ i \in Nat /\ 1 < i + 1
            /\ notices'[i] = notices[i + 1]
  BY <1>1 DEF PoolTakes
<1>3. /\ UNCHANGED <<calls, requests, kind>>
      /\ thread'[Pool].event \in {first, NoNotice}
      /\ thread'[Pool].later \in {first, NoNotice}
      /\ \A u \in Threads \ {Pool} : thread'[u] = thread[u]
  <2> DEFINE d == Fetched(first, NoNotice)
  <2>1. d.event \in {first, NoNotice} /\ d.later \in {first, NoNotice}
    BY <1>1, <1>2, FetchedType
  <2>2. Does(Pool, d) /\ UNCHANGED <<calls, requests, kind>>
    BY DEF PoolTakes
  <2> HIDE DEF d
  <2>3. thread'[Pool] = d /\ \A u \in Threads \ {Pool} : thread'[u] = thread[u]
    BY <1>1, <2>2, DoesValue
  <2>. QED BY <2>1, <2>2, <2>3
<1>4. Held' \subseteq {first}
  BY <1>3 DEF Held
<1>5. Waiting' \subseteq Waiting
  <2>1. \A i \in DOMAIN notices' : notices'[i] \in Waiting
    BY <1>2 DEF Waiting
  <2>2. first \in Waiting
    BY <1>2 DEF Waiting
  <2>. QED BY <1>4, <2>1, <2>2 DEF Waiting
<1>6. (\A t \in Threads \ {Pool} :
          thread[t].event = NoNotice /\ thread[t].later = NoNotice)'
  BY <1>3 DEF InOrder
<1>7. (\A m, n \in Held : m = n)'
  BY <1>4
<1>8. (\A i, j \in DOMAIN notices : i < j => Before(notices[i], notices[j]))'
  <2> SUFFICES ASSUME NEW i \in DOMAIN notices', NEW j \in DOMAIN notices', i < j
               PROVE  Before(notices'[i], notices'[j])
    BY DEF Before
  <2>1. i + 1 \in DOMAIN notices /\ j + 1 \in DOMAIN notices /\ i + 1 < j + 1
    BY <1>2
  <2>. QED BY <1>2, <2>1 DEF InOrder
<1>9. (\A m \in Held : \A i \in DOMAIN notices : Before(m, notices[i]))'
  <2> SUFFICES ASSUME NEW i \in DOMAIN notices'  PROVE Before(first, notices'[i])
    BY <1>4 DEF Before
  <2>. QED BY <1>2 DEF InOrder
<1>10. (\A n \in Waiting : kind[n.id] = "PhysicalCall" => Rank(n.state) >= 3)'
  BY <1>3, <1>5 DEF InOrder
<1>11. (\A c \in DOMAIN calls : \A n \in Waiting :
          Active(calls[c]) /\ ~Redialled(c) => Before(calls[c], n))'
  BY <1>3, <1>5 DEF InOrder, Before, Redialled
<1>. QED BY <1>6, <1>7, <1>8, <1>9, <1>10, <1>11 DEF InOrder

\* The machine adds what is at least as far as all it has notified of a call.
LEMMA NoticesAdded ==
  ASSUME Bound, Bound', Kept, Faithful, InOrder, UNCHANGED <<calls, thread, requests>>,
         NEW new \in Notices,
         \A i \in DOMAIN notices' :
            \/ i \in DOMAIN notices /\ notices'[i] = notices[i]
            \/ i \notin DOMAIN notices /\ notices'[i] = new,
         new.id \in DOMAIN view => Rank(view[new.id].state) <= Rank(new.state),
         kind'[new.id] = "PhysicalCall" => Rank(new.state) >= 3
  PROVE  InOrder'
<1>1. /\ notices \in Seq(Notices) /\ notices' \in Seq(Notices) /\ Pool \in Threads
      /\ Held' = Held
  BY DEF Bound, TypeOK, Threads, Held
<1>2. ASSUME NEW n \in Waiting  PROVE Before(n, new)
  <2>1. /\ n.id \in DOMAIN view /\ Rank(n.state) \in Nat
        /\ Rank(n.state) <= Rank(view[n.id].state)
    BY WaitingTrue DEF NoticeTrue
  <2>2. Rank(new.state) \in Nat /\ Rank(view[n.id].state) \in Nat
    BY <2>1, RankType, ViewRanks DEF Notices, Bound
  <2>. QED BY <2>1, <2>2 DEF Before
<1>3. \A n \in Waiting' : n \in Waiting \/ n = new
  BY <1>1 DEF Waiting
<1>4. (\A t \in Threads \ {Pool} :
          thread[t].event = NoNotice /\ thread[t].later = NoNotice)'
  BY DEF InOrder
<1>5. (\A m, n \in Held : m = n)'
  BY <1>1 DEF InOrder
<1>6. (\A i, j \in DOMAIN notices : i < j => Before(notices[i], notices[j]))'
  <2> SUFFICES ASSUME NEW i \in DOMAIN notices', NEW j \in DOMAIN notices', i < j
               PROVE  Before(notices'[i], notices'[j])
    BY DEF Before
  <2>1. CASE j \in DOMAIN notices
    <3>1. i \in DOMAIN notices
      BY <1>1, <2>1
    <3>. QED BY <2>1, <3>1 DEF InOrder
  <2>2. CASE i \in DOMAIN notices /\ j \notin DOMAIN notices
    <3>1. notices'[i] \in Waiting /\ notices'[j] = new
      BY <2>2 DEF Waiting
    <3>. QED BY <1>2, <3>1
  <2>3. CASE i \notin DOMAIN notices /\ j \notin DOMAIN notices
    <3>1. notices'[i] = new /\ notices'[j] = new /\ Rank(new.state) \in Nat
      BY <2>3, RankType DEF Notices
    <3>. QED BY <3>1 DEF Before
  <2>. QED BY <2>1, <2>2, <2>3
<1>7. (\A m \in Held : \A i \in DOMAIN notices : Before(m, notices[i]))'
  <2> SUFFICES ASSUME NEW m \in Held, NEW i \in DOMAIN notices'
               PROVE  Before(m, notices'[i])
    BY <1>1 DEF Before
  <2>1. CASE i \in DOMAIN notices
    BY <2>1 DEF InOrder
  <2>2. CASE i \notin DOMAIN notices
    BY <1>2, <2>2 DEF Waiting
  <2>. QED BY <2>1, <2>2
<1>8. (\A n \in Waiting : kind[n.id] = "PhysicalCall" => Rank(n.state) >= 3)'
  <2> SUFFICES ASSUME NEW n \in Waiting', n \in Waiting, kind'[n.id] = "PhysicalCall"
               PROVE  Rank(n.state) >= 3
    BY <1>3
  <2>1. n.id \in DOMAIN kind
    BY WaitingTrue DEF NoticeTrue, Bound, MachineOK
  <2>2. kind[n.id] = "PhysicalCall"
    BY <2>1 DEF Kept, ViewKept
  <2>. QED BY <2>2 DEF InOrder
<1>9. (\A c \in DOMAIN calls : \A n \in Waiting :
          Active(calls[c]) /\ ~Redialled(c) => Before(calls[c], n))'
  <2> SUFFICES ASSUME NEW c \in DOMAIN calls, NEW n \in Waiting',
                      Active(calls[c]), ~Redialled(c)
               PROVE  Before(calls[c], n)
    BY DEF Before, Redialled
  <2>1. CASE n \in Waiting
    BY <2>1 DEF InOrder
  <2>2. CASE n = new
    <3>1. ShownTruly(c)
      BY DEF Faithful
    <3>2. /\ Rank(calls[c].state) \in Nat /\ Rank(new.state) \in Nat
          /\ Rank(view[calls[c].id].state) \in Nat
      BY <3>1, ActiveRank, RankType, ViewRanks DEF ShownTruly, Notices, Bound
    <3>. QED BY <2>2, <3>1, <3>2 DEF ShownTruly, Before
  <2>. QED BY <1>3, <2>1, <2>2
<1>. QED BY <1>4, <1>5, <1>6, <1>7, <1>8, <1>9 DEF InOrder

\* So each of its steps keeps the order.
LEMMA MachineStepOrder ==
  ASSUME Bound, Bound', Kept, Faithful, InOrder, MachineStep
  PROVE  InOrder'
<1>1. TypeOK /\ notices \in Seq(Notices)
  BY DEF Bound, TypeOK
<1>2. ASSUME NEW notice \in Notices, notices' = Append(notices, notice)
      PROVE  \A i \in DOMAIN notices' :
                \/ i \in DOMAIN notices /\ notices'[i] = notices[i]
                \/ i \notin DOMAIN notices /\ notices'[i] = notice
  BY <1>1, <1>2, AppendType
<1>3. ASSUME NEW k \in OutsideKinds, CallFromOutside(k)  PROVE InOrder'
  <2> DEFINE state == IF k = "IncomingCall" THEN "OFFERING" ELSE "PROCEEDING"
             notice == [id |-> NextId, state |-> state]
  <2>1. /\ kind' = Append(kind, k) /\ notices' = Append(notices, notice)
        /\ UNCHANGED <<calls, requests, thread>> /\ k \in Kinds
    BY <1>3, LineAssumption DEF CallFromOutside
  <2>2. /\ state \in LineCallStates
        /\ k = "PhysicalCall" => Rank(state) >= 3
    BY RankValues DEF LineCallStates, FirstStates
  <2> HIDE DEF state
  <2>3. /\ NextId \in Nat /\ NextId \notin DOMAIN kind /\ kind'[NextId] = k
    BY <1>1, <2>1, KindGrows
  <2>4. notice \in Notices /\ notice.id = NextId /\ notice.state = state
    BY <2>2, <2>3 DEF Notices
  <2> HIDE DEF notice
  <2>5. NextId \notin DOMAIN view
    BY <2>3 DEF Bound, MachineOK
  <2>. QED BY <1>2, <2>1, <2>2, <2>3, <2>4, <2>5, NoticesAdded
<1>4. ASSUME NEW id \in DOMAIN kind, NEW state \in States, Notify(id, state)
      PROVE  InOrder'
  <2> DEFINE notice == [id |-> id, state |-> state]
  <2>1. /\ notices' = Append(notices, notice)
        /\ UNCHANGED <<calls, requests, thread, kind>>
        /\ id \in DOMAIN view => Rank(state) > Rank(view[id].state)
        /\ view' = Shown(id, state)
    BY <1>4 DEF Notify
  <2>2. state \in LineCallStates /\ id \in Nat
    BY <1>1, LineAssumption DEF TypeOK
  <2>3. notice \in Notices /\ notice.id = id /\ notice.state = state
    BY <2>2 DEF Notices
  <2> HIDE DEF notice
  <2>4. id \in DOMAIN view => Rank(view[id].state) <= Rank(state)
    BY <1>1, <2>1, <2>2, RankType, ViewRanks
  <2>5. kind'[id] = "PhysicalCall" => Rank(state) >= 3
    <3>1. id \in DOMAIN view' /\ view'[id].state = state
      BY <2>1, <2>2, ShownType
    <3>. QED BY <3>1 DEF Bound, MachineOK
  <2>. QED BY <1>2, <2>1, <2>3, <2>4, <2>5, NoticesAdded
<1>5. ASSUME NEW id \in DOMAIN kind, NEW n \in EndNotices, EndOfCall(id, n)
      PROVE  InOrder'
  <2> DEFINE notice == [id |-> id, state |-> "IDLE"]
  <2>1. /\ notices' = notices \o [i \in 1 .. n |-> notice]
        /\ UNCHANGED <<calls, requests, thread>> /\ id \in DOMAIN view
    BY <1>5 DEF EndOfCall
  <2>2. n \in Nat /\ id \in Nat /\ "IDLE" \in LineCallStates
    BY <1>1, LineAssumption DEF TypeOK, LineCallStates
  <2>3. notice \in Notices /\ notice.id = id /\ notice.state = "IDLE"
    BY <2>2 DEF Notices
  <2> HIDE DEF notice
  <2>4. \A i \in DOMAIN notices' :
                \/ i \in DOMAIN notices /\ notices'[i] = notices[i]
                \/ i \notin DOMAIN notices /\ notices'[i] = notice
    BY <1>1, <2>1, <2>2, <2>3, NoticesRepeated
  <2>5. Rank(view[id].state) <= Rank("IDLE") /\ Rank("IDLE") >= 3
    BY <1>1, <2>1, ViewRanks, RankValues
  <2>. QED BY <2>1, <2>3, <2>4, <2>5, NoticesAdded
<1>. QED BY <1>3, <1>4, <1>5 DEF MachineStep

\* Nothing is on its way at first.
LEMMA InitInOrder == Init => InOrder
<1> SUFFICES ASSUME Init  PROVE InOrder
  OBVIOUS
<1>1. Resting.event = NoNotice /\ Resting.later = NoNotice /\ Pool \in Threads
  BY DEF Resting, Threads
<1>2. /\ \A t \in Threads : thread[t] = Resting
      /\ DOMAIN notices = {} /\ DOMAIN calls = {}
  BY DEF Init
<1>3. Held = {} /\ Waiting = {}
  BY <1>1, <1>2 DEF Held, Waiting
<1>. QED BY <1>1, <1>2, <1>3 DEF InOrder

\* Every step keeps the order, and no call that the line shows goes back.
LEMMA NextInOrder ==
  Bound /\ Bound' /\ DialOrder /\ Faithful /\ InOrder /\ [Next]_vars
      => InOrder' /\ MovesForward
<1> SUFFICES ASSUME Bound, Bound', DialOrder, Faithful, InOrder, [Next]_vars
             PROVE  InOrder' /\ MovesForward
  OBVIOUS
<1>1. Kept
  BY NextKept
<1>2. ASSUME UNCHANGED calls  PROVE MovesForward
  <2>1. CallsFollow
    BY <1>2, SameFollow
  <2>. QED BY <1>1, <2>1, FollowsForward
<1>3. CASE UNCHANGED <<calls, thread, notices>>
  <2>1. LessHeld
    BY <1>3 DEF LessHeld
  <2>2. CallsFollow
    BY <1>3, SameFollow
  <2>. QED BY <1>1, <1>3, <2>1, <2>2, InOrderStep, FollowsForward
<1>4. ASSUME NEW t \in TapiThreads, TapiStep(t)  PROVE InOrder' /\ MovesForward
  BY <1>1, <1>4, TapiStepOrder
<1>5. ASSUME NEW t \in Threads, ThreadStep(t)  PROVE InOrder' /\ MovesForward
  BY <1>1, <1>5, ThreadStepOrder
<1>6. CASE TimerFires
  <2>1. /\ Timer \in Threads /\ Does(Timer, Fetched(NoNotice, NoNotice))
        /\ UNCHANGED <<calls, notices>> /\ NoNotice \in Notices
    BY <1>6, RestingType DEF TimerFires, Threads
  <2>2. LessHeld
    BY <2>1, FinishHolds
  <2>3. CallsFollow
    BY <2>1, SameFollow
  <2>. QED BY <1>1, <2>1, <2>2, <2>3, InOrderStep, FollowsForward
<1>7. CASE PoolTakes
  <2>1. UNCHANGED calls
    BY <1>7 DEF PoolTakes
  <2>. QED BY <1>2, <1>7, <2>1, PoolTakesOrder
<1>8. CASE MachineStep
  <2>1. UNCHANGED calls
    BY <1>8 DEF MachineStep, CallFromOutside, Notify, EndOfCall
  <2>. QED BY <1>1, <1>2, <1>8, <2>1, MachineStepOrder
<1>9. UNCHANGED vars => UNCHANGED <<calls, thread, notices>>
  BY DEF vars
<1>10. (\E r \in DOMAIN requests : TimePasses(r)) => UNCHANGED <<calls, thread, notices>>
  BY DEF TimePasses
<1>. QED BY <1>3, <1>4, <1>5, <1>6, <1>7, <1>8, <1>9, <1>10 DEF Next

(* No step takes a call that the line shows back to an earlier state, and   *)
(* none takes it out of IDLE, although OnMakeCall sets a state of its own   *)
(* after the answer, and UnsolicitedEvent makes calls appear in states that *)
(* no notice had: states are set by one thread alone, by the notice it took *)
(* last, and every notice that waits is of a state at least as far.  Calls  *)
(* dialled twice may go back; they show two calls of the machine in turn.   *)
THEOREM LineMovesForward == Spec => [][MovesForward]_vars
<1>1. Bound /\ Bound' /\ DialOrder /\ Faithful /\ InOrder /\ [Next]_vars => InOrder'
  BY NextInOrder
<1>2. Bound /\ Bound' /\ DialOrder /\ Faithful /\ InOrder /\ [Next]_vars
          => [MovesForward]_vars
  BY NextInOrder
<1>3. Bound /\ DialOrder /\ [Next]_vars => DialOrder'
  BY NextDialOrder
<1>. QED BY <1>1, <1>2, <1>3, InitInOrder, InitDialOrder, LineIsFaithful, Consistent,
            PTL DEF Spec

-----------------------------------------------------------------------------
(* The machine behind the line keeps the promise of the call state machine. *)

\* What a notification does to the call that it is about is what it may do.
LEMMA ShownIsPromised ==
  ASSUME Bound, Bound', NEW id, NEW state \in LineCallStates, view' = Shown(id, state),
         id \in DOMAIN view =>
            /\ ~view[id].removed
            /\ state = view[id].state \/ Rank(state) > Rank(view[id].state),
         id \notin DOMAIN view => state \in FirstStates
  PROVE  ViewNext
<1>1. /\ view' \in [DOMAIN view' -> Calls] /\ DOMAIN view' = DOMAIN view \cup {id}
      /\ view'[id].state = state /\ (view'[id].removed <=> state = "IDLE")
      /\ \A i \in DOMAIN view \ {id} : view'[i] = view[i]
  BY ShownType
<1>2. DOMAIN view' \subseteq Nat \ {0}
  <2>1. kind' \in Seq(Kinds) /\ DOMAIN view' \subseteq DOMAIN kind'
    BY DEF Bound, TypeOK, MachineOK
  <2>. QED BY <2>1
<1>3. \A c \in DOMAIN view : Advances(view[c], view'[c])
  BY <1>1 DEF Advances
<1>4. \A c \in DOMAIN view' \ DOMAIN view : Appears(view'[c])
  <2>1. state \in FirstStates => state # "IDLE"
    BY DEF FirstStates
  <2>. QED BY <1>1, <2>1 DEF Appears
<1>. QED BY <1>1, <1>2, <1>3, <1>4 DEF ViewNext

\* Each of its steps does.
LEMMA MachineStepPromised ==
  ASSUME Bound, Bound', MachineStep
  PROVE  ViewNext
<1>1. TypeOK
  BY DEF Bound
<1>2. ASSUME NEW k \in OutsideKinds, CallFromOutside(k)  PROVE ViewNext
  <2> DEFINE state == IF k = "IncomingCall" THEN "OFFERING" ELSE "PROCEEDING"
  <2>1. view' = Shown(NextId, state) /\ kind' = Append(kind, k) /\ k \in Kinds
    BY <1>2, LineAssumption DEF CallFromOutside
  <2>2. state \in FirstStates /\ state \in LineCallStates
    BY DEF FirstStates, LineCallStates
  <2> HIDE DEF state
  <2>3. NextId \notin DOMAIN view
    BY <1>1, <2>1, KindGrows DEF Bound, MachineOK
  <2>. QED BY <2>1, <2>2, <2>3, ShownIsPromised
<1>3. ASSUME NEW id \in DOMAIN kind, NEW state \in States, Notify(id, state)
      PROVE  ViewNext
  <2>1. state \in LineCallStates
    BY LineAssumption
  <2>2. /\ view' = Shown(id, state)
        /\ id \in DOMAIN view => /\ ~view[id].removed
                                 /\ Rank(state) > Rank(view[id].state)
        /\ id \notin DOMAIN view => state \in FirstStates
    BY <1>3 DEF Notify, FirstStates
  <2>. QED BY <2>1, <2>2, ShownIsPromised
<1>4. ASSUME NEW id \in DOMAIN kind, NEW n \in EndNotices, EndOfCall(id, n)
      PROVE  ViewNext
  <2>1. id \in DOMAIN view /\ ~view[id].removed /\ view' = Shown(id, "IDLE")
    BY <1>4 DEF EndOfCall
  <2>2. view[id].state # "IDLE"
    BY <2>1 DEF Bound, MachineOK
  <2>3. Rank("IDLE") > Rank(view[id].state) /\ "IDLE" \in LineCallStates
    <3>1. Rank(view[id].state) \in 1 .. 5 /\ Rank(view[id].state) # 5
      BY <1>1, <2>1, <2>2, ViewRanks, RankType
    <3>. QED BY <3>1, RankValues DEF LineCallStates
  <2>. QED BY <2>1, <2>3, ShownIsPromised
<1>. QED BY <1>2, <1>3, <1>4 DEF MachineStep

(* What the line is told of calls keeps the promise of TapiCallView, which  *)
(* CallStateMachine keeps too (its theorem Implementation): the abstract    *)
(* specification is what the two components meet in, and the theorems about *)
(* the line do not come from a machine that does what it may not do.        *)
THEOREM MachineAsPromised == Spec => ViewSpec
<1>1. Init => ViewInit
  BY DEF Init
<1>2. Bound /\ Bound' /\ [Next]_vars => [ViewNext]_view
  <2> SUFFICES ASSUME Bound, Bound', [Next]_vars  PROVE ViewNext \/ UNCHANGED view
    OBVIOUS
  <2>1. CASE MachineStep
    BY <2>1, MachineStepPromised
  <2>2. ASSUME NEW t \in TapiThreads, TapiStep(t)  PROVE UNCHANGED view
    BY <2>2 DEF TapiStep, MakeCall, DropCall, CloseCall
  <2>3. ASSUME NEW t \in Threads, ThreadStep(t)  PROVE UNCHANGED view
    <3>1. ASSUME NEW r \in DOMAIN requests, HandleRequest(t, r)
          PROVE  UNCHANGED view
      BY <3>1 DEF HandleRequest, StartMakeCall, StartMakeCallFails, StartDropCall,
                  AnswerMakeCall, AnswerDropCall, RequestOverdue, NotForRequest
    <3>2. CASE AddDropRequest(t) \/ GetCurrentRequest(t) \/ BeginRequest(t)
      BY <3>2 DEF AddDropRequest, GetCurrentRequest, BeginRequest
    <3>3. CASE SetCallID(t) \/ SetMadeCallState(t) \/ UnsolicitedCallEvent(t)
      BY <3>3 DEF SetCallID, SetMadeCallState, UnsolicitedCallEvent
    <3>4. CASE CompleteRequest(t)
      BY <3>4, CompleteRequestEffect
    <3>5. CASE ReplyToTapi(t)
      BY <3>5 DEF ReplyToTapi
    <3>. QED BY <2>3, <3>1, <3>2, <3>3, <3>4, <3>5 DEF ThreadStep
  <2>4. CASE TimerFires \/ PoolTakes \/ \E r \in DOMAIN requests : TimePasses(r)
    BY <2>4 DEF TimerFires, PoolTakes, TimePasses
  <2>5. CASE UNCHANGED vars
    BY <2>5 DEF vars
  <2>. QED BY <2>1, <2>2, <2>3, <2>4, <2>5 DEF Next
<1>. QED BY <1>1, <1>2, Consistent, PTL DEF Spec, ViewSpec

=============================================================================
