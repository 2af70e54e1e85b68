--------------------------- MODULE PublicEvaluation -------------------------
(***************************************************************************)
(* The public evaluation (POST /predictive-evaluations): claims arrive as  *)
(* bytes of the PIAP envelope beside a context and governed inputs.  What  *)
(* is refused, what is answered, and what escapes as an exception.         *)
(*                                                                         *)
(* A payload is its size, how it is written, and the envelope that its     *)
(* fields describe.  Nothing here reads or writes the log.                 *)
(***************************************************************************)
EXTENDS PredictiveRouting

CONSTANTS MAX_PIAP_INPUT_BYTES, MAX_PAYLOAD_REFERENCES,
          MAX_CLAIMS_PER_EVALUATION, MAX_TOTAL_REFERENCES_PER_EVALUATION

ASSUME LimitsAssumption ==
    {MAX_PIAP_INPUT_BYTES, MAX_PAYLOAD_REFERENCES,
     MAX_CLAIMS_PER_EVALUATION, MAX_TOTAL_REFERENCES_PER_EVALUATION} \subseteq Nat \ {0}

PiapContractVersion == {"1.0"}

\* how bytes are written: only the first form is accepted
Writing == {"canonical", "another_spelling", "duplicate_key", "foreign_key", "malformed"}

(* References in the order of their keys, none twice; nothing it speaks of   *)
(* is later than its seal.                                                   *)
PiapEnvelope(e) ==
    /\ e.contract_version \in PiapContractVersion
    /\ e.authority \in AuthorityContext
    /\ e.delta > 0
    /\ Len(e.payload_refs) <= MAX_PAYLOAD_REFERENCES
    /\ \A i, j \in DOMAIN e.payload_refs : i < j => e.payload_refs[i] < e.payload_refs[j]
    /\ e.reference_time <= e.sealed_at
    /\ e.recorded_at <= e.sealed_at

\* bytes that say the same in another way are refused, not rewritten
deserialize_piap_envelope(payload) ==
    /\ payload.bytes <= MAX_PIAP_INPUT_BYTES
    /\ payload.writing = "canonical"
    /\ PiapEnvelope(payload.envelope)

\* the item that is evaluated takes its authority from the envelope
to_ready_item(m) == [m.item EXCEPT !.authority = m.transport.envelope.authority]

PredictiveEvaluationContext(m) == m.training >= 3 /\ m.blind >= 1

PredictiveGovernedQualityInput(m) ==
    /\ m.item.governed.required_identifiers # {} => m.item.governed.inventory
    /\ \A a \in m.item.governed.alternatives : PredictiveAlternative(a)

(* What is validated before anything is evaluated: each document and its     *)
(* parts, then the limits of the batch.                                      *)
to_internal_request(models) ==
    LET ready == {i \in DOMAIN models : models[i].item.ready}
        references[n \in 0 .. Len(models)] ==
            IF n = 0 THEN 0
            ELSE references[n - 1] + IF n \in ready
                                     THEN Len(models[n].transport.envelope.payload_refs) ELSE 0
    IN  /\ \A i \in ready : /\ deserialize_piap_envelope(models[i].transport)
                            /\ PredictiveEvaluationContext(models[i])
                            /\ PredictiveGovernedQualityInput(models[i])
        /\ Len(models) \in 1 .. MAX_CLAIMS_PER_EVALUATION
        /\ references[Len(models)] <= MAX_TOTAL_REFERENCES_PER_EVALUATION

\* one instant for the whole batch
shared_instant(models) ==
    \A i, j \in DOMAIN models :
        models[i].item.ready /\ models[j].item.ready => models[i].item.at = models[j].item.at

(* What the estimators cannot measure: another library, fewer than two blind *)
(* pairs, pairs without variation.                                           *)
predictive_power_outcome_for(m) == m.mvp_library /\ m.blind >= 2 /\ m.varied

(* What is validated only while it is evaluated and routed, outside the      *)
(* handler that answers contract errors.                                     *)
evaluates(m) ==
    LET item == to_ready_item(m)
    IN  m.item.ready /\ predictive_availability(item) =>
            predictive_power_outcome_for(m) /\ validates(item) /\ routable(item.governed)

(* The answer: refused (422), an exception nobody expected (500), or routes. *)
evaluate_and_route(models) ==
    IF ~ to_internal_request(models) \/ ~ shared_instant(models) THEN "refused"
    ELSE IF \E i \in DOMAIN models : ~ evaluates(models[i]) THEN "raised"
    ELSE "evaluated"
=============================================================================
