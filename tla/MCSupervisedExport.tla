------------------------- MODULE MCSupervisedExport -------------------------
(* Instances of SupervisedExport: a harmless answer, one that blocks and     *)
(* one that says nothing.                                                    *)
EXTENDS SupervisedExport, TLC

Said(capabilities, engagement, refused) ==
    [refused |-> refused, well_formed |-> TRUE, capabilities |-> capabilities,
     engagement |-> engagement]

MCWords == CriticalCapability \cup CapabilityEngagement \cup {"other"}

MCTexts == {Said({}, "analytical", FALSE),
            Said({"catastrophic_harm_enablement"}, "unspecified", FALSE),
            Said({"other"}, "analytical", FALSE)}

\* a fake of the tests, and a classifier of app/authorization
MCClassifiers == {[version_length |-> length, covered |-> CriticalCapability] : length \in {16, 47}}

MCScheduleOf == [p \in Steps |-> IF p = "p1" THEN "c1" ELSE "c2"]
MCPosition   == [p \in Steps |-> IF p = "p1" THEN 1 ELSE 2]
MCObjective  == [p \in Steps \cup {None} |-> "o1"]

\* nothing, or that the work is paused and a delegation revoked
MCVouched ==
    {NoEffects(None), [NoEffects(None) EXCEPT !.pause_applied = TRUE, !.delegations_revoked = 1]}

Symmetry == Permutations(Sessions) \cup Permutations(Attempts)

=============================================================================
