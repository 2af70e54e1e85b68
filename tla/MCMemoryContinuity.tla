------------------------- MODULE MCMemoryContinuity -------------------------
(* A small instance of MemoryContinuity. *)
EXTENDS MemoryContinuity

MCSymmetry == Permutations(Sessions)

\* two objects of one lineage and one of none
MCSources ==
    {[coid |-> 1, clid |-> 1, deleted |-> FALSE], [coid |-> 2, clid |-> 1, deleted |-> TRUE],
     [coid |-> 3, clid |-> Null, deleted |-> FALSE]}

Asked(sources, predecessors, losses) ==
    [source_coids |-> sources, predecessors |-> predecessors, declares_losses |-> losses]

\* a root, one that follows an event, one of a merged object, one without losses
MCConsolidationRequests ==
    {Asked(<<2, 1>>, <<>>, TRUE), Asked(<<1, 3>>, <<<<1, 1>>>>, TRUE),
     Asked(<<4, 3>>, <<>>, TRUE), Asked(<<1, 2>>, <<>>, FALSE)}

Cited(kind, ref) == [kind |-> kind, ref |-> ref]

\* two pieces of evidence in their order
Base ==
    [experience_id |-> 1,
     subject_ref |-> [kind |-> "cognitive_object", ref |-> 1],
     outcome_observed |-> [outcome_token |-> "held", observed_at |-> 1,
                           primary_evidence_ref |-> Cited("cognitive_object", 1)],
     validated_by |-> [validator_kind |-> "human", validator_ref |-> "held"],
     criterion_ref |-> [criterion_key |-> "held", criterion_version |-> 1,
                        criterion_origin |-> "declared"],
     evidence_refs |-> <<Cited("causal_event", 2), Cited("cognitive_object", 1)>>,
     validated_at |-> 1, origin_ref |-> 1]

\* the same from another origin, with a version beyond its column, or malformed in one respect
MCEntries ==
    {Base, [Base EXCEPT !.origin_ref = 2],
     [Base EXCEPT !.criterion_ref.criterion_version = 2]}
    \cup {[Base EXCEPT !.evidence_refs = Append(@, Cited("cognitive_object", 1))],
          [Base EXCEPT !.evidence_refs = <<@[2], @[1]>>],
          [Base EXCEPT !.evidence_refs = <<@[1]>>],
          [Base EXCEPT !.outcome_observed.observed_at = 2],
          [Base EXCEPT !.criterion_ref.criterion_version = 0],
          [Base EXCEPT !.validated_by.validator_ref = ""]}
=============================================================================
