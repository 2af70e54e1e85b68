------------------------- MODULE DestructiveApproval -------------------------
(***************************************************************************)
(* What the destructive pipeline of app/memory writes down and hands over: *)
(* approvals as rows, their single transition, and the values execute      *)
(* builds on the way to the receipts - refusals, the evidence of the       *)
(* consumption, the requests to the effect port, outcomes and report.      *)
(*                                                                         *)
(* A call that wins its UPDATE is one step, over which time may pass; one  *)
(* that loses it reads why in later statements, between which others       *)
(* commit.  DestructiveExecution has the statements of the winner, locks,  *)
(* crashes and failing commits, and takes an envelope for what it is       *)
(* worth.  A failure code is its length.                                   *)
(***************************************************************************)
EXTENDS Approval

CONSTANTS Candidates,     \* what callers try to make an envelope of
          References,     \* batches of ErasureTargetReference callers may present
          Resolutions,    \* what the resolver may answer
          Attempts,       \* what the effect port may answer about the target it is given
          MaxInteger,     \* the greatest INTEGER of the database
          MaxReceipts,    \* bound of the receipts
          MaxDefeated,    \* bound of the calls that have not read yet why they lost
          MaxTime         \* bound of the clock

MAX_FAILURE_CODE_LENGTH == 64
MAX_OPAQUE_LENGTH == 512   \* of a code the port may answer

ErasureOutcome == {"succeeded", "failed", "partial"}
MaterialAttemptRefusalReason ==
    {"adapter_unavailable", "operation_not_supported", "capability_refused_before_attempt",
     "provider_precondition_refused"}

AdapterContractViolation == {"APPROVAL_MISMATCH", "SUBJECT_MISMATCH", "TARGET_CLASS_MISMATCH"}

(* What the port says happened, MaterialAttemptNotStarted when it gives a    *)
(* reason and ObservedAttemptResult otherwise; and whom it is not about.     *)
Attempt ==
    {a \in [reason : MaterialAttemptRefusalReason \cup {None},
            outcome : ErasureOutcome \cup {None}, failure_code : 1 .. MAX_OPAQUE_LENGTH \cup {None},
            violation : AdapterContractViolation \cup {None}] :
        /\ a.reason # None <=> a.outcome = None
        /\ a.outcome \in {"succeeded", None} <=> a.failure_code = None}

(* What callers confirm, and the records it becomes.                         *)
Envelopes == Candidates \cap DestructiveApprovalEnvelope
Approvals == {e.approval_id : e \in Envelopes}
StoredApproval ==
    [rows : {Rows(e) : e \in Envelopes}, state : ApprovalLifecycleState,
     consumed_at : Instants \cup {None}, revoked_at : Instants \cup {None}]

(* What stops the call before the consumption, and what a failing position   *)
(* raises after it.                                                          *)
RAZOES_DE_LOTE == {"BATCH_CARDINALITY_MISMATCH", "GOVERNANCE_PROVENANCE_INCOMPLETE"}
PreConsumptionRefusalReason ==
    RAZOES_DE_LOTE \cup
    {"REFERENCE_DOES_NOT_MATCH_APPROVED_TARGET", "DUPLICATE_SUBJECT_IN_BATCH",
     "TARGET_RESOLUTION_REFUSED", "FRESH_SNAPSHOT_DIVERGED"}
CAMPOS_DO_BINDING ==
    {"target_class", "subject", "scope", "custody", "origin", "protection", "version_etag"}

PreConsumptionRefusal ==
    {r \in [reason : PreConsumptionRefusalReason, position : Nat \cup {None},
            diverged_fields : SUBSET CAMPOS_DO_BINDING,
            resolution_refusal : TargetResolutionRefusalReason \cup {None}] :
        /\ r.reason = "FRESH_SNAPSHOT_DIVERGED" <=> r.diverged_fields # {}
        /\ r.reason = "TARGET_RESOLUTION_REFUSED" <=> r.resolution_refusal # None
        /\ r.reason \in RAZOES_DE_LOTE <=> r.position = None}

DestructiveExecutionError ==
    {"DestructiveExecutionUnknownMaterialStateError",
     "DestructiveExecutionAdapterContractViolationError", "ValueError"}

ASSUME DestructiveApprovalAssumption ==
    /\ \A r \in References : r \in Seq(ErasureTargetReference) /\ r # <<>>
    /\ Resolutions \subseteq ErasureTargetDescriptor \cup TargetResolutionRefusal
    /\ Attempts \subseteq Attempt
    /\ {MaxInteger, MaxReceipts, MaxDefeated, MaxTime} \subseteq Nat
    \* None is no value of a column, of an answer or of an error
    /\ None \notin Envelopes /\ None \notin StoredApproval /\ None \notin PreConsumptionRefusal
    /\ None \notin TargetResolutionRefusalReason \cup AdapterContractViolation
                   \cup DestructiveExecutionError

VARIABLES clock,
          approvals, \* committed approvals by identifier: rows, state and instants
          approved,  \* the envelope a person confirmed, by identifier
          erasures,  \* erasure_records
          defeated,  \* calls whose UPDATE found no row, before they know why
          answer     \* what a call has just returned or raised

vars == <<clock, approvals, approved, erasures, defeated, answer>>

NoAnswer == [kind |-> "none"]

Init ==
    /\ clock = 0
    /\ approvals = [a \in Approvals |-> None]
    /\ approved = [a \in Approvals |-> None]
    /\ erasures = {}
    /\ defeated = {}
    /\ answer = NoAnswer

Tick ==
    /\ clock < MaxTime
    /\ clock' = clock + 1
    /\ answer' = NoAnswer
    /\ UNCHANGED <<approvals, approved, erasures, defeated>>

-----------------------------------------------------------------------------
(* The rows. *)

(* The checks of the table and the width of its integers. *)
RowAccepted(rows) ==
    LET h == rows.header
    IN  /\ h.nonce # h.id
        /\ h.impact_item_count <= MaxInteger
        /\ h.impact_bytes_total # None => h.impact_bytes_total <= MaxInteger
        /\ h.governance_safety_boundary_version <= MaxInteger
        /\ h.governance_policy_version <= MaxInteger
        /\ h.impact_volume_kind = "known" <=> h.impact_bytes_total # None
        /\ h.materialized_at <= h.authenticated_at /\ h.authenticated_at <= h.confirmed_at
        /\ h.materialized_at <= h.issued_at /\ h.issued_at <= h.confirmed_at
        /\ h.confirmed_at < h.expires_at

TargetsAccepted(rows) ==
    \A x, y \in rows.targets :
        x.position = y.position \/ x.value.subject = y.value.subject => x = y

ItemsAccepted(rows) ==
    \A x, y \in rows.items : x.kind = y.kind /\ x.position = y.position => x = y

\* a state and the instant of its transition
StateCoherent(a) ==
    /\ a.state = "CONSUMED" <=> a.consumed_at # None
    /\ a.state = "REVOKED" <=> a.revoked_at # None

\* the trigger: the binding never changes, and only an active record does
TriggerAccepts(old, new) ==
    /\ new.rows = old.rows
    /\ old.state = "ACTIVE"
    /\ new.state \in {"CONSUMED", "REVOKED"}
    /\ StateCoherent(new)

Used(nonce) == \E a \in Approvals : approvals[a] # None /\ approvals[a].rows.header.nonce = nonce

(* An envelope is stored once, and only if the database takes its rows. *)
append_approved(e) ==
    /\ approvals[e.approval_id] = None /\ ~ Used(e.nonce)
    /\ RowAccepted(Rows(e)) /\ TargetsAccepted(Rows(e)) /\ ItemsAccepted(Rows(e))
    /\ approvals' = [approvals EXCEPT ![e.approval_id] =
                        [rows |-> Rows(e), state |-> "ACTIVE", consumed_at |-> None,
                         revoked_at |-> None]]
    /\ approved' = [approved EXCEPT ![e.approval_id] = e]
    /\ answer' = NoAnswer
    /\ UNCHANGED <<clock, erasures, defeated>>

get_materialized(id) == IF approvals[id] = None THEN None ELSE reconstruir(approvals[id].rows)

\* the whole WHERE of the transition
Condicoes(expected, unexpired) ==
    LET a == approvals[expected.approval_id]
    IN  /\ a # None /\ a.state = "ACTIVE"
        /\ Bound(a.rows, expected)
        /\ unexpired => a.rows.header.expires_at > clock

\* what the UPDATE writes, with an instant no earlier than the one its WHERE compared
Consumed(a, at) == [a EXCEPT !.state = "CONSUMED", !.consumed_at = at]
Revoked(a, at) == [a EXCEPT !.state = "REVOKED", !.revoked_at = at]

\* the UPDATE finds no row: its call has still to read why
Loses(e, unexpired) ==
    /\ ~ Condicoes(e, unexpired)
    /\ Cardinality(defeated) < MaxDefeated
    /\ defeated' = defeated \cup
           {[expected |-> e, unexpired |-> unexpired,
             absent |-> approvals[e.approval_id] = None, active |-> FALSE]}
    /\ answer' = NoAnswer
    /\ UNCHANGED <<clock, approvals, approved, erasures>>

revoke_once(e) ==
    \/ /\ Condicoes(e, FALSE)
       /\ clock' \in clock .. MaxTime
       /\ approvals' = [approvals EXCEPT ![e.approval_id] = Revoked(@, clock')]
       /\ answer' = [kind |-> "revoked", expected |-> e]
       /\ UNCHANGED <<approved, erasures, defeated>>
    \/ Loses(e, FALSE)

Told(d, reason) ==
    /\ defeated' = defeated \ {d}
    /\ answer' = [kind |-> "unusable", expected |-> d.expected, absent |-> d.absent,
                  reason |-> reason]

(* The first read of a call that lost: the state its record has by now.      *)
diagnosticar(d) ==
    LET a == approvals[d.expected.approval_id]
    IN  /\ ~ d.active
        /\ \/ a = None /\ Told(d, "NOT_FOUND")
           \/ a # None /\ a.state = "CONSUMED" /\ Told(d, "ALREADY_CONSUMED")
           \/ a # None /\ a.state = "REVOKED" /\ Told(d, "REVOKED")
           \/ /\ a # None /\ a.state = "ACTIVE"
              /\ defeated' = (defeated \ {d}) \cup {[d EXCEPT !.active = TRUE]}
              /\ answer' = NoAnswer
        /\ UNCHANGED <<clock, approvals, approved, erasures>>

(* The second: whether it has expired.  What else there is, is a mismatch.   *)
consultar_vencida(d) ==
    LET expired == approvals[d.expected.approval_id].rows.header.expires_at <= clock
    IN  /\ d.active
        /\ Told(d, IF d.unexpired /\ expired THEN "EXPIRED" ELSE "BINDING_MISMATCH")
        /\ UNCHANGED <<clock, approvals, approved, erasures>>

-----------------------------------------------------------------------------
(* The values execute builds. *)

Refusal(reason, position, fields, refused) ==
    [reason |-> reason, position |-> position, diverged_fields |-> fields,
     resolution_refusal |-> refused]

ReferenciaCorresponde(reference, target) ==
    /\ reference.subject = target.subject
    /\ reference.origin = target.origin
    /\ reference.scope = target.scope
    /\ reference.expected_namespace \in {None, target.custody}

Duplicated(refs, i) == \E j \in 1 .. (i - 1) : refs[j].subject = refs[i].subject

Least(positions) == CHOOSE i \in positions : \A j \in positions : i <= j

\* the policy, its version and the rule, None when any is missing
proveniencia(resolution) ==
    IF resolution.policy = None \/ resolution.matched_rule_id = None THEN None
    ELSE [policy |-> resolution.policy, rule |-> resolution.matched_rule_id]

validar_lote(e, refs) ==
    LET targets == e.proposal.targets
        offending == {i \in DOMAIN refs : Duplicated(refs, i)
                          \/ ~ ReferenciaCorresponde(refs[i], targets[i])}
    IN  IF Len(refs) # Len(targets)
        THEN Refusal("BATCH_CARDINALITY_MISMATCH", None, {}, None)
        ELSE IF offending # {}
        THEN Refusal(IF Duplicated(refs, Least(offending)) THEN "DUPLICATE_SUBJECT_IN_BATCH"
                     ELSE "REFERENCE_DOES_NOT_MATCH_APPROVED_TARGET",
                     Least(offending), {}, None)
        ELSE IF proveniencia(e.proposal.governance_resolution) = None
        THEN Refusal("GOVERNANCE_PROVENANCE_INCOMPLETE", None, {}, None)
        ELSE None

\* the fields that diverge; the code names the first
comparar(fresh, target) == {f \in CAMPOS_DO_BINDING : fresh[f] # target[f]}

\* the first answer of the resolver that ends the call, None when none does
resolver_alvos(e, resolved) ==
    LET Refuses(i) == resolved[i] \in TargetResolutionRefusal
        Diverging(i) == comparar(from_descriptor(resolved[i]), e.proposal.targets[i])
        ending == {i \in DOMAIN resolved : Refuses(i) \/ Diverging(i) # {}}
    IN  IF ending = {} THEN None
        ELSE LET i == Least(ending)
             IN  IF Refuses(i)
                 THEN Refusal("TARGET_RESOLUTION_REFUSED", i, {}, resolved[i].reason)
                 ELSE Refusal("FRESH_SNAPSHOT_DIVERGED", i, Diverging(i), None)

ConsumedApprovalEvidence(e, at) ==
    [approval_id |-> e.approval_id, operation |-> e.proposal.operation,
     tenant |-> e.proposal.context.tenant, workspace |-> e.proposal.context.workspace,
     principal |-> e.identity.principal, consumed_at |-> at]

\* what the constructor of a request to the effect port accepts
ErasureEffectRequest(q) ==
    LET scope == q.descriptor.snapshot.scope
    IN  /\ q.descriptor \in ErasureTargetDescriptor
        /\ scope.tenant = q.authorization.tenant
        /\ scope.workspace = q.authorization.workspace
        /\ scope.principal = q.authorization.principal

(* Mutant: any answer is taken to be about the target. *)
SemCorrespondencia(attempt) == TRUE

\* the answer is about this approval, this subject and its class
verificar_correspondencia(attempt) == attempt.violation = None

\* what the answer says it is about
About(e, i, attempt) ==
    LET target == e.proposal.targets[i]
        Said(violation, value) == IF attempt.violation = violation THEN None ELSE value
    IN  [approval_id  |-> Said("APPROVAL_MISMATCH", e.approval_id),
         subject      |-> Said("SUBJECT_MISMATCH", target.subject),
         target_class |-> Said("TARGET_CLASS_MISMATCH", target.target_class)]

(* An answer of the port: None when it raises. *)
PortAnswers == Attempts \cup {None}

Observed(attempt) == attempt.reason = None

ErasureRecordAppend(r) ==
    /\ r.outcome \in ErasureOutcome
    /\ r.outcome = "succeeded" <=> r.failure_code = None
    /\ r.failure_code # None => r.failure_code <= MAX_FAILURE_CODE_LENGTH
    /\ r.governance_policy.version >= 1
    /\ r.attempted_at <= r.completed_at

\* the checks of erasure_records
ErasureRecord(r) ==
    /\ r.target_class \in ErasureTargetClass /\ r.scope_token \in DestructiveOperation
    /\ r.outcome \in ErasureOutcome
    /\ r.outcome = "succeeded" <=> r.failure_code = None
    /\ r.failure_code # None => 0 < r.failure_code /\ r.failure_code <= MAX_FAILURE_CODE_LENGTH
    /\ r.governance_policy.version >= 1
    /\ r.attempted_at <= r.completed_at

\* the receipt of an observed attempt
Recibo(e, i, attempt, at) ==
    LET p     == proveniencia(e.proposal.governance_resolution)
        about == About(e, i, attempt)
    IN  [subject |-> about.subject, target_class |-> about.target_class,
         scope_token |-> e.proposal.operation, outcome |-> attempt.outcome,
         governance_policy |-> p.policy, governance_rule |-> p.rule,
         approval_ref |-> about.approval_id, attempted_at |-> at, completed_at |-> at,
         failure_code |-> attempt.failure_code]

\* the positions at which the effects may not go on
Ends(e, answers, at) ==
    {i \in DOMAIN answers :
        \/ answers[i] = None
        \/ ~ verificar_correspondencia(answers[i])
        \/ Observed(answers[i]) /\ ~ ErasureRecordAppend(Recibo(e, i, answers[i], at))}

TargetExecutionOutcome(e, i, answered, receipt) ==
    [position |-> i, subject |-> About(e, i, answered).subject, receipt |-> receipt]

\* what the constructor of a report accepts
DestructiveExecutionReport(targets) ==
    /\ targets # <<>>
    /\ \A i \in DOMAIN targets : targets[i].position = i
    /\ \A i, j \in DOMAIN targets :
           \/ targets[i].subject = targets[j].subject
           \/ targets[i].receipt # None /\ targets[i].receipt = targets[j].receipt
           => i = j

PartialExecutionEvidence(failed, outcomes) ==
    LET observed == {i \in DOMAIN outcomes : outcomes[i].receipt # None}
    IN  [failed_position |-> failed, attempts_observed |-> Cardinality(observed),
         receipts_persisted |-> Cardinality(observed),
         targets_not_attempted |-> Len(outcomes) - Cardinality(observed)]

-----------------------------------------------------------------------------
(* DestructiveExecutionService.execute. *)

Refuses(e, refs, refusal) ==
    /\ refusal # None
    /\ answer' = [kind |-> "refused", refusal |-> refusal]
    /\ UNCHANGED <<clock, approvals, approved, erasures, defeated>>

\* the batch, or one of its targets as it is now, is not what was approved
execute_refused(e, refs) ==
    \/ Refuses(e, refs, validar_lote(e, refs))
    \/ /\ validar_lote(e, refs) = None
       /\ \E resolved \in [DOMAIN refs -> Resolutions] :
              Refuses(e, refs, resolver_alvos(e, resolved))

\* the resolver describes the targets as they were approved
Resolved(e, refs) ==
    {r \in [DOMAIN refs -> Resolutions] : resolver_alvos(e, r) = None}

execute_unusable(e, refs) ==
    /\ validar_lote(e, refs) = None /\ Resolved(e, refs) # {}
    /\ Loses(e, TRUE)

\* the error the failing position raises
Raised(answered) ==
    IF answered = None THEN "DestructiveExecutionUnknownMaterialStateError"
    ELSE IF answered.violation # None THEN "DestructiveExecutionAdapterContractViolationError"
    ELSE "ValueError"

execute(e, refs) ==
    /\ validar_lote(e, refs) = None
    /\ Condicoes(e, TRUE)
    /\ \E frescos \in Resolved(e, refs), answers \in [DOMAIN refs -> PortAnswers],
          at \in clock .. MaxTime :
        LET ends  == Ends(e, answers, at)
            upto  == IF ends = {} THEN Len(refs) ELSE Least(ends) - 1
            Recorded(i) == IF Observed(answers[i]) THEN Recibo(e, i, answers[i], at) ELSE None
            outcomes == [i \in 1 .. upto |-> TargetExecutionOutcome(e, i, answers[i], Recorded(i))]
            \* a request is built before the answer that ends the call
            asked == {[descriptor    |-> frescos[i],
                       authorization |-> ConsumedApprovalEvidence(e, at)] :
                          i \in 1 .. (IF ends = {} THEN upto ELSE upto + 1)}
        IN  /\ Cardinality(erasures) + upto <= MaxReceipts
            /\ clock' = at
            /\ approvals' = [approvals EXCEPT ![e.approval_id] = Consumed(@, at)]
            /\ erasures' = erasures \cup ({Recorded(i) : i \in 1 .. upto} \ {None})
            /\ answer' = [kind |-> "executed", expected |-> e, requests |-> asked,
                          error |-> IF ends = {} THEN None ELSE Raised(answers[Least(ends)]),
                          outcomes |-> outcomes,
                          evidence |-> IF ends = {} THEN None
                                       ELSE PartialExecutionEvidence(Least(ends), outcomes)]
            /\ UNCHANGED <<approved, defeated>>

(* The caller has the answer. *)
Answered ==
    /\ answer # NoAnswer
    /\ answer' = NoAnswer
    /\ UNCHANGED <<clock, approvals, approved, erasures, defeated>>

Proceeds ==
    \/ Tick
    \/ \E e \in Envelopes : append_approved(e) \/ revoke_once(e)
    \/ \E e \in Envelopes, refs \in References :
           execute_refused(e, refs) \/ execute_unusable(e, refs) \/ execute(e, refs)
    \/ \E d \in defeated : diagnosticar(d) \/ consultar_vencida(d)

(* An answer is looked at before anything else happens. *)
Next == Answered \/ (answer = NoAnswer /\ Proceeds)

Spec == Init /\ [][Next]_vars

-----------------------------------------------------------------------------
(* Properties. *)

(* Every approval has rows the tables accept, in a state that agrees with    *)
(* its instants (append_approved, _transicionar, the checks).                *)
TypeOK ==
    \A id \in Approvals :
        /\ approvals[id] = None <=> approved[id] = None
        /\ approvals[id] # None =>
               /\ RowAccepted(approvals[id].rows)
               /\ approvals[id].state \in ApprovalLifecycleState
               /\ StateCoherent(approvals[id])

(* What is read back is what was confirmed: no field of the envelope is lost *)
(* or moved on the way to the rows and back (append_approved, _reconstruir). *)
RoundTrip == \A id \in Approvals : get_materialized(id) = approved[id]

(* A record changes once, for a caller who holds the very envelope that was  *)
(* confirmed, in a way the trigger lets pass, and is consumed only if at the *)
(* instant its WHERE compared it had not expired.  A caller who holds it and *)
(* loses is never told that there is none or that it holds another, whatever *)
(* happens between its UPDATE and the two reads, unless its UPDATE came      *)
(* before the record was committed (_transicionar, _diagnosticar).           *)
TransitionBound ==
    /\ \A id \in Approvals :
           approvals[id] # None /\ approvals'[id] # approvals[id] =>
               /\ answer'.expected = approved[id]
               /\ TriggerAccepts(approvals[id], approvals'[id])
               /\ approvals'[id].state = "CONSUMED" => clock < approved[id].expires_at
    /\ answer'.kind = "unusable" /\ answer'.reason \in {"NOT_FOUND", "BINDING_MISMATCH"} =>
           answer'.absent \/ approved[answer'.expected.approval_id] # answer'.expected

TransitionsBound == [][TransitionBound]_vars

(* Once the approval is spent nothing execute builds is refused by its own   *)
(* constructor: the requests to the port are within the authority that was   *)
(* consumed, and the report and the refusals are well formed (execute).      *)
ValuesForm ==
    /\ answer.kind = "refused" => answer.refusal \in PreConsumptionRefusal
    /\ answer.kind = "executed" =>
           /\ \A q \in answer.requests : ErasureEffectRequest(q)
           /\ answer.error = None => DestructiveExecutionReport(answer.outcomes)

(* A receipt is of one target of a consumed approval, once, and cites the    *)
(* operation and the policy that person was shown (_registrar_recibo).       *)
ReceiptsCiteTheApproval ==
    /\ \A r \in erasures :
           LET e == approved[r.approval_ref]
           IN  /\ r.approval_ref \in Approvals
               /\ approvals[r.approval_ref].state = "CONSUMED"
               /\ \E i \in DOMAIN e.proposal.targets :
                      /\ e.proposal.targets[i].subject = r.subject
                      /\ e.proposal.targets[i].target_class = r.target_class
               /\ r.scope_token = e.proposal.operation
               /\ r.governance_policy = e.proposal.governance_resolution.policy
               /\ r.governance_rule = e.proposal.governance_resolution.matched_rule_id
               /\ ErasureRecord(r)
    /\ \A r, q \in erasures :
           r.approval_ref = q.approval_ref /\ r.subject = q.subject => r = q

(* Rows, envelopes and receipts say the same: the rows are ones the tables   *)
(* accept, they read back as what was confirmed, what execute builds after   *)
(* the consumption can be built, and its receipts cite what was approved.    *)
ApprovalsStand == TypeOK /\ RoundTrip /\ ValuesForm /\ ReceiptsCiteTheApproval
=============================================================================
