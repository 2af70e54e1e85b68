------------------------------ MODULE Approval ------------------------------
(***************************************************************************)
(* What a human approves when something is to be destroyed (app/memory):   *)
(* the targets as they were presented, the proposal about them, the        *)
(* envelope of its confirmation, the three tables the envelope becomes and *)
(* the conditions that recognise it there.                                 *)
(*                                                                         *)
(* A value object is a record and its constructor the set it belongs to.   *)
(* Opaque texts are what the constants hold; their syntax is left out.     *)
(***************************************************************************)
EXTENDS Governance, Sequences

CONSTANTS Subjects,             \* cognitive objects
          Workspaces, Tenants,  \* what scopes a control
          Custodies,            \* provider and namespace that keep a target
          Etags,                \* versions of a target where it is kept
          Texts,                \* declared texts of a resolution
          Identifiers           \* of approvals and of policies, and nonces

Instants == Nat

ASSUME ApprovalAssumption ==
    None \notin Subjects \cup Custodies \cup Etags \cup Texts \cup Identifiers

DestructiveOperation == {"move_to_trash", "permanent_erasure"}
AssuranceLevel == {"unauthenticated", "authenticated", "step_up_verified"}
InputChannel == {"text", "voice"}
VoiceReviewState ==
    {"not_applicable", "not_reviewed", "low_confidence", "ambiguous", "reviewed_and_confirmed"}
ApprovalBlockerKind ==
    {"legal_hold", "retention_policy_conflict", "causal_history_dependency",
     "external_provider_unavailable", "capability_not_verified", "control_scope_conflict"}
ImpactVolumeKind == {"known", "unknown"}
ApprovalLifecycleState == {"ACTIVE", "CONSUMED", "REVOKED"}
LegacyProtectionState == {"protected", "not_protected"}
ErasureTargetClass ==
    {"pia_managed_artifact", "authorized_connector_referent", "cognitive_metadata_record",
     "unresolved_opaque_reference"}
CLASSES_DE_CONTEUDO == {"pia_managed_artifact", "authorized_connector_referent"}
ReferenceOrigin == {"payload_ref", "source_ref", "evidence_refs", "input_refs", "output_refs"}
ORIGENS_PLURAIS == {"evidence_refs", "input_refs", "output_refs"}

\* kinds of the texts a resolution declares
Textuais == {"admissible_alternative", "constraint", "declared_preservation", "declared_loss"}
GovernanceItemKind == Textuais \cup {"domain_id", "blocked_capability"}

\* the operation of governance that answers for a destructive one
OPERACAO_DE_GOVERNANCA(operation) ==
    IF operation = "move_to_trash" THEN "retention_disposition" ELSE "legal_erasure"

satisfies(level, operation) ==
    IF operation = "permanent_erasure" THEN level = "step_up_verified"
    ELSE level # "unauthenticated"

permite_proposta(review, channel) ==
    review = IF channel = "text" THEN "not_applicable" ELSE "reviewed_and_confirmed"

-----------------------------------------------------------------------------
(* Targets. *)

ControlScope == [workspace : Workspaces, tenant : Tenants, principal : Actors]

\* a position only in a field that is a list
ReferenceProvenance ==
    {o \in [origin : ReferenceOrigin, position : Nat \cup {None}] :
        o.position # None => o.origin \in ORIGENS_PLURAIS}

SafeTargetSnapshot ==
    [target_class : CLASSES_DE_CONTEUDO, subject : Subjects, scope : ControlScope,
     custody : Custodies, origin : ReferenceProvenance,
     protection : LegacyProtectionState, version_etag : Etags \cup {None}]

ErasureTargetReference ==
    [subject : Subjects, origin : ReferenceProvenance, scope : ControlScope,
     expected_namespace : Custodies \cup {None}]

\* of its deletion capability only that it was verified
ErasureTargetDescriptor ==
    [snapshot : SafeTargetSnapshot, verified : {TRUE}, resolved_at : Instants]

from_descriptor(descriptor) == descriptor.snapshot

TargetResolutionRefusalReason ==
    {"unresolved_opaque_reference", "cognitive_metadata_is_not_content",
     "control_scope_mismatch", "deletion_capability_not_verified",
     "provider_namespace_out_of_scope", "legacy_protection_state_unresolved",
     "stale_resolution"}

TargetResolutionRefusal ==
    [reason : TargetResolutionRefusalReason, subject : Subjects, origin : ReferenceProvenance]

-----------------------------------------------------------------------------
(* Proposal and envelope. *)

\* a volume is a number exactly when it is known
PresentedImpact ==
    {m \in [item_count : Nat, volume_kind : ImpactVolumeKind, bytes_total : Nat \cup {None}] :
        m.volume_kind = "known" <=> m.bytes_total # None}

IdentityEvidence ==
    [principal : Actors, assurance_level : AssuranceLevel, authenticated_at : Instants]

ApprovalContext ==
    [tenant : Tenants, workspace : Workspaces, domain : Domains, purpose : Purposes]

SafeVoiceProvenance ==
    {v \in [channel : InputChannel, voice_review : VoiceReviewState] :
        v.channel = "text" <=> v.voice_review = "not_applicable"}

\* what a resolution says beside its outcome: the boundary it was taken under,
\* the row of its policy, and the reasons of both
Grounds ==
    [safety_boundary_version : Nat \ {0}, safety_rationale : Texts,
     preserved_intent : Texts \cup {None}, policy_id : Identifiers \cup {None},
     policy_rationale : Texts]

\* a resolution of governance with its grounds and the texts it declares; of a
\* policy it has the key, the version and the row, or none of them
DeclaredResolution ==
    {r \in [outcome : GovernanceOutcome, operation : CognitiveOperation,
            context : MemoryContext,
            policy : [key : PolicyKeys, version : Versions] \cup {None},
            matched_rule_id : Nat \cup {None},
            blocked_capabilities : SUBSET CriticalCapability,
            grounds : Grounds, declared : [Textuais -> Seq(Texts)]] :
        /\ Coherent(r)
        /\ r.policy = None <=> r.grounds.policy_id = None}

\* a batch names each subject once, and the impact counts it
BatchRules(p) ==
    /\ p.targets # <<>>
    /\ \A i, j \in DOMAIN p.targets : p.targets[i].subject = p.targets[j].subject => i = j
    /\ p.impact.item_count = Len(p.targets)

\* governance answered this very question, and concedes
GovernanceRules(p) ==
    LET r == p.governance_resolution
    IN  /\ execution_authorized(r)
        /\ r.operation = OPERACAO_DE_GOVERNANCA(p.operation)
        /\ r.context.domain_ids = {p.context.domain}
        /\ r.context.purpose = p.context.purpose

ScopeRules(p) ==
    \A i \in DOMAIN p.targets :
        /\ p.targets[i].scope.workspace = p.context.workspace
        /\ p.targets[i].scope.tenant = p.context.tenant

DestructiveApprovalProposal ==
    {p \in [operation : DestructiveOperation, targets : Seq(SafeTargetSnapshot),
            impact : PresentedImpact, governance_resolution : DeclaredResolution,
            context : ApprovalContext, provenance : SafeVoiceProvenance,
            blockers : SUBSET ApprovalBlockerKind, materialized_at : Instants] :
        /\ BatchRules(p)
        /\ permite_proposta(p.provenance.voice_review, p.provenance.channel)
        /\ GovernanceRules(p)
        /\ ScopeRules(p)}

is_approvable(proposal) == proposal.blockers = {}

\* the principal who confirms is the one governance was asked about, and
\* controls every target
PrincipalRules(e) ==
    /\ e.proposal.governance_resolution.context.actor_ref = e.identity.principal
    /\ \A i \in DOMAIN e.proposal.targets :
           e.proposal.targets[i].scope.principal = e.identity.principal

TemporalRules(e) ==
    /\ e.proposal.materialized_at <= e.identity.authenticated_at
    /\ e.identity.authenticated_at <= e.confirmed_at
    /\ e.proposal.materialized_at <= e.issued_at
    /\ e.issued_at <= e.confirmed_at
    /\ e.confirmed_at < e.expires_at

\* its context and provenance repeat the proposal's: they are not kept twice
DestructiveApprovalEnvelope ==
    {e \in [proposal : DestructiveApprovalProposal, approval_id : Identifiers,
            nonce : Identifiers, identity : IdentityEvidence, issued_at : Instants,
            confirmed_at : Instants, expires_at : Instants] :
        /\ e.approval_id # e.nonce
        /\ is_approvable(e.proposal)
        /\ satisfies(e.identity.assurance_level, e.proposal.operation)
        /\ PrincipalRules(e)
        /\ TemporalRules(e)}

is_temporally_coherent_at(e, moment) == e.confirmed_at <= moment /\ moment < e.expires_at

-----------------------------------------------------------------------------
(* The rows of an envelope: approval_records, approval_record_targets and    *)
(* approval_record_governance_items.  What governance conceded has a policy. *)

ApprovalRecord(e) ==
    LET p == e.proposal
        r == p.governance_resolution
    IN  [id |-> e.approval_id, nonce |-> e.nonce, operation |-> p.operation,
         principal_ref |-> e.identity.principal,
         assurance_level |-> e.identity.assurance_level,
         authenticated_at |-> e.identity.authenticated_at,
         tenant_id |-> p.context.tenant, workspace_id |-> p.context.workspace,
         domain_id |-> p.context.domain, purpose_ref |-> p.context.purpose,
         channel |-> p.provenance.channel, voice_review |-> p.provenance.voice_review,
         impact_item_count |-> p.impact.item_count,
         impact_volume_kind |-> p.impact.volume_kind,
         impact_bytes_total |-> p.impact.bytes_total,
         governance_outcome |-> r.outcome, governance_operation |-> r.operation,
         governance_actor_ref |-> r.context.actor_ref,
         governance_purpose |-> r.context.purpose,
         governance_safety_boundary_version |-> r.grounds.safety_boundary_version,
         governance_safety_rationale |-> r.grounds.safety_rationale,
         governance_preserved_intent |-> r.grounds.preserved_intent,
         governance_policy_key |-> r.policy.key,
         governance_policy_version |-> r.policy.version,
         governance_policy_id |-> r.grounds.policy_id,
         governance_matched_rule_id |-> r.matched_rule_id,
         governance_policy_rationale |-> r.grounds.policy_rationale,
         materialized_at |-> p.materialized_at, issued_at |-> e.issued_at,
         confirmed_at |-> e.confirmed_at, expires_at |-> e.expires_at]

ApprovalRecordTarget(e) ==
    {[position |-> i, value |-> e.proposal.targets[i]] : i \in DOMAIN e.proposal.targets}

Item(kind, position, value) == [kind |-> kind, position |-> position, value |-> value]

\* the single domain, no blocked capability, the declared texts in order
itens_de_governanca(e) ==
    LET r == e.proposal.governance_resolution
    IN  {Item("domain_id", 1, d) : d \in r.context.domain_ids}
        \cup UNION {{Item(k, i, r.declared[k][i]) : i \in DOMAIN r.declared[k]} : k \in Textuais}

Rows(e) ==
    [header |-> ApprovalRecord(e), targets |-> ApprovalRecordTarget(e),
     items |-> itens_de_governanca(e)]

OfKind(items, kind) == {i \in items : i.kind = kind}

\* the WHERE on the columns of the record
condicoes_de_binding(rows, expected) == rows.header = ApprovalRecord(expected)

(* Mutant: the children of the record are not compared. *)
SemFilhas(rows, expected) == TRUE

\* the WHERE on its children: each that is expected is there, and none more
condicoes_das_filhas(rows, expected) ==
    LET declared == expected.proposal.governance_resolution.declared
    IN  /\ ApprovalRecordTarget(expected) \subseteq rows.targets
        /\ Cardinality(rows.targets) = Len(expected.proposal.targets)
        /\ itens_de_governanca(expected) \subseteq rows.items
        /\ \A k \in Textuais : Cardinality(OfKind(rows.items, k)) = Len(declared[k])
        /\ Cardinality(OfKind(rows.items, "domain_id"))
               = Cardinality(expected.proposal.governance_resolution.context.domain_ids)
        /\ OfKind(rows.items, "blocked_capability") = {}

Bound(rows, expected) ==
    condicoes_de_binding(rows, expected) /\ condicoes_das_filhas(rows, expected)

\* the row at a position, and rows as a sequence, by position
RowAt(rows, i) == CHOOSE x \in rows : x.position = i
InOrder(rows) == [i \in 1 .. Cardinality(rows) |-> RowAt(rows, i).value]

reconstruir_governanca(rows) ==
    LET h == rows.header
    IN  [outcome |-> h.governance_outcome, operation |-> h.governance_operation,
         context |-> [domain_ids |-> {x.value : x \in OfKind(rows.items, "domain_id")},
                      actor_ref |-> h.governance_actor_ref, purpose |-> h.governance_purpose],
         policy |-> [key |-> h.governance_policy_key, version |-> h.governance_policy_version],
         matched_rule_id |-> h.governance_matched_rule_id,
         blocked_capabilities |-> {x.value : x \in OfKind(rows.items, "blocked_capability")},
         grounds |-> [safety_boundary_version |-> h.governance_safety_boundary_version,
                      safety_rationale |-> h.governance_safety_rationale,
                      preserved_intent |-> h.governance_preserved_intent,
                      policy_id |-> h.governance_policy_id,
                      policy_rationale |-> h.governance_policy_rationale],
         declared |-> [k \in Textuais |-> InOrder(OfKind(rows.items, k))]]

reconstruir(rows) ==
    LET h == rows.header
    IN  [proposal |->
            [operation |-> h.operation, targets |-> InOrder(rows.targets),
             impact |-> [item_count |-> h.impact_item_count,
                         volume_kind |-> h.impact_volume_kind,
                         bytes_total |-> h.impact_bytes_total],
             governance_resolution |-> reconstruir_governanca(rows),
             context |-> [tenant |-> h.tenant_id, workspace |-> h.workspace_id,
                          domain |-> h.domain_id, purpose |-> h.purpose_ref],
             provenance |-> [channel |-> h.channel, voice_review |-> h.voice_review],
             blockers |-> {}, materialized_at |-> h.materialized_at],
         approval_id |-> h.id, nonce |-> h.nonce,
         identity |-> [principal |-> h.principal_ref, assurance_level |-> h.assurance_level,
                       authenticated_at |-> h.authenticated_at],
         issued_at |-> h.issued_at, confirmed_at |-> h.confirmed_at, expires_at |-> h.expires_at]

=============================================================================
