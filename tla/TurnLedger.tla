------------------------------ MODULE TurnLedger ------------------------------
(***************************************************************************)
(* What the queue promises its producers, with no supervisor, worker or    *)
(* socket in sight: a row handed in waits, is worked on once, and ends in  *)
(* one outcome that stands for ever.                                       *)
(*                                                                         *)
(* Abstract from db/queue.py and the lifecycle in the Journal docstring of *)
(* db/models.py ("'processing' -> 'completed'/'failed'/'stopped'").        *)
(***************************************************************************)
CONSTANTS Id,       \* the inbox rows that can ever exist
          Outcome   \* the terminal states of a journal row

VARIABLES waiting,  \* the rows in the inbox
          working,  \* the rows a journal entry is 'processing'
          ended     \* outcome -> the rows that ended so

vars == <<waiting, working, ended>>

Unseen == Id \ (waiting \cup working \cup UNION {ended[o] : o \in Outcome})

Init ==
    /\ waiting = {}
    /\ working = {}
    /\ ended = [o \in Outcome |-> {}]

Arrive(i) ==
    /\ i \in Unseen
    /\ waiting' = waiting \cup {i}
    /\ UNCHANGED <<working, ended>>

Begin(i) ==
    /\ i \in waiting
    /\ waiting' = waiting \ {i}
    /\ working' = working \cup {i}
    /\ UNCHANGED ended

End(i, o) ==
    /\ i \in working
    /\ working' = working \ {i}
    /\ ended' = [ended EXCEPT ![o] = @ \cup {i}]
    /\ UNCHANGED waiting

Next == \E i \in Id : Arrive(i) \/ Begin(i) \/ \E o \in Outcome : End(i, o)

Spec == Init /\ [][Next]_vars
=============================================================================
