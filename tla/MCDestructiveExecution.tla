----------------------- MODULE MCDestructiveExecution -----------------------
(* DestructiveExecution with one approval of two targets, disputed by two     *)
(* executors and a revoker, and an envelope that is not the one of the row.   *)
EXTENDS DestructiveExecution, TLC

Snapshot(s, v) == [subject |-> s, origin |-> "o", namespace |-> "n",
                   control_scope |-> "c", version_etag |-> v]
Reference(s) == [subject |-> s, origin |-> "o", expected_namespace |-> NoNamespace,
                 control_scope |-> "c"]

MCSnapshots == {Snapshot("s1", 1), Snapshot("s2", 1), Snapshot("s1", 2)}

Approved == [id |-> "a1", targets |-> <<Snapshot("s1", 1), Snapshot("s2", 1)>>,
             provenance |-> TRUE, expires_at |-> 2]
Retargeted == [Approved EXCEPT !.targets[1].version_etag = 2] \* not the binding of the row

Both == <<Reference("s1"), Reference("s2")>>

\* the approved envelope, one that cites another version of a target, and a
\* batch that names a target twice
MCRequests == {[envelope |-> Approved, references |-> Both],
               [envelope |-> Retargeted, references |-> Both],
               [envelope |-> Approved, references |-> <<Reference("s1"), Reference("s1")>>]}

MCSymmetry == Permutations(Executors)
=============================================================================
