----------------------------- MODULE KeyedQueue -----------------------------
(***************************************************************************)
(* What the pool of TSP++ promises to the connections: events with one key *)
(* are handled one after the other, in the order in which they were added; *)
(* events with different keys may be handled at the same time.  When the   *)
(* provider stops, what still waits is thrown away.                        *)
(***************************************************************************)
EXTENDS Naturals, Sequences

CONSTANTS
    Keys,       \* the keys (the permanent ids of lines)
    Numbers     \* tells the events with one key apart

\* An event has a key; each is added once.
Events == Keys \X Numbers
Key(e) == e[1]

VARIABLES
    waiting,    \* the events that wait, in the order in which they came
    current,    \* the events that are being handled
    over        \* the events that were handled or thrown away

queueVars == <<waiting, current, over>>

QueueInit == waiting = <<>> /\ current = {} /\ over = {}

Arrive ==
    /\ \E e \in Events \ (current \cup over) :
          /\ \A i \in DOMAIN waiting : waiting[i] # e
          /\ waiting' = Append(waiting, e)
    /\ UNCHANGED <<current, over>>

\* The first event of its key, while none with that key is handled.
Take ==
    \E i \in DOMAIN waiting :
        /\ \A j \in 1 .. i - 1 : Key(waiting[j]) # Key(waiting[i])
        /\ \A e \in current : Key(e) # Key(waiting[i])
        /\ waiting' = SubSeq(waiting, 1, i - 1)
                      \o SubSeq(waiting, i + 1, Len(waiting))
        /\ current' = current \cup {waiting[i]}
        /\ UNCHANGED over

Complete ==
    /\ \E e \in current : current' = current \ {e} /\ over' = over \cup {e}
    /\ UNCHANGED waiting

ThrowAway ==
    /\ current = {} /\ waiting' = <<>>
    /\ over' = over \cup {waiting[i] : i \in DOMAIN waiting}
    /\ UNCHANGED current

QueueNext == Arrive \/ Take \/ Complete \/ ThrowAway

QueueSpec == QueueInit /\ [][QueueNext]_queueVars
=============================================================================
