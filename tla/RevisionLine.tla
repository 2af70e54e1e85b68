---------------------------- MODULE RevisionLine ----------------------------
(* What revision promises: the versions of a line form one sequence.  A line *)
(* starts when some version is first revised; from then on only its head is  *)
(* revised, by a version that never was in the line.                         *)
EXTENDS Naturals

CONSTANTS Lines, Versions, None

VARIABLES head,  \* the current version of a line, None before the first revision
          past   \* its superseded versions

vars == <<head, past>>

Init ==
    /\ head = [l \in Lines |-> None]
    /\ past = [l \in Lines |-> {}]

Move(l, old, new) ==
    /\ new \notin past[l] \cup {head[l], old}
    /\ head' = [head EXCEPT ![l] = new]
    /\ past' = [past EXCEPT ![l] = @ \cup {old}]

Start(l, old, new) == head[l] = None /\ past[l] = {} /\ Move(l, old, new)

Advance(l, new) == head[l] # None /\ Move(l, head[l], new)

Next ==
    \E l \in Lines, new \in Versions :
        Advance(l, new) \/ \E old \in Versions : Start(l, old, new)

Spec == Init /\ [][Next]_vars
=============================================================================
