------------------------ MODULE ValidatedExperience ------------------------
(***************************************************************************)
(* A validated experience (app/memory): what somebody observed of an       *)
(* object or an event, on which evidence, by which criterion.  The entry   *)
(* is checked by its constructors, again by the model of its row, and      *)
(* again by the table, which is append-only.                               *)
(***************************************************************************)
EXTENDS Integers, FiniteSets, Sequences

CONSTANTS ExperienceIds, \* identities an entry may come with
          Refs,          \* references to objects, events and records: numbers, in their order
          Texts,         \* short texts without control characters
          Tokens,        \* those of the closed grammar of outcomes
          BlankTexts,    \* those that are empty or only spaces
          MaxInteger,    \* the greatest INTEGER of the database
          MaxInstant     \* bound of the instants

Instants == 0 .. MaxInstant

ASSUME ValidatedExperienceAssumption ==
    /\ {MaxInteger, MaxInstant} \subseteq Nat
    /\ Refs \subseteq Nat
    /\ Tokens \subseteq Texts \ BlankTexts

ExperienceSubjectKind == {"cognitive_object", "causal_event"}
ValidatorKind         == {"human", "agent", "system"}
CriterionOriginKind   == {"published", "declared"}

\* the kinds of evidence, in the order of their texts
EvidenceKindOrder ==
    <<"causal_event", "cognitive_object", "provenance_record", "transformation_record">>
EvidenceKind == {EvidenceKindOrder[k] : k \in DOMAIN EvidenceKindOrder}

(* The value objects an entry is made of. *)
ExperienceSubjectRef == [kind : ExperienceSubjectKind, ref : Refs]
EvidenceReference    == [kind : EvidenceKind, ref : Refs]
ObservedOutcome      == [outcome_token : Tokens, observed_at : Instants,
                         primary_evidence_ref : EvidenceReference]
AttributedValidator  == [validator_kind : ValidatorKind, validator_ref : Texts \ BlankTexts]
CriterionReference   == [criterion_key : Texts \ BlankTexts, criterion_version : Nat \ {0},
                         criterion_origin : CriterionOriginKind]

Rank(kind) == CHOOSE k \in DOMAIN EvidenceKindOrder : EvidenceKindOrder[k] = kind

Precedes(e, f) ==
    \/ Rank(e.kind) < Rank(f.kind)
    \/ e.kind = f.kind /\ e.ref < f.ref

(* No evidence is repeated and the keys are sorted. *)
canonizar(refs) ==
    /\ refs # <<>>
    /\ \A k \in DOMAIN refs : refs[k] \in EvidenceReference
    /\ Cardinality({refs[k] : k \in DOMAIN refs}) = Len(refs)
    /\ \A j, k \in DOMAIN refs : j < k => ~Precedes(refs[k], refs[j])

ListsEvidence(refs, e) == \E k \in DOMAIN refs : refs[k] = e

(* The constructor of an entry. *)
ValidatedExperienceAppend(e) ==
    /\ e.experience_id \in ExperienceIds
    /\ e.subject_ref \in ExperienceSubjectRef
    /\ e.outcome_observed \in ObservedOutcome
    /\ e.validated_by \in AttributedValidator
    /\ e.criterion_ref \in CriterionReference
    /\ e.origin_ref \in Refs
    /\ canonizar(e.evidence_refs)
    /\ e.outcome_observed.observed_at <= e.validated_at
    /\ ListsEvidence(e.evidence_refs, e.outcome_observed.primary_evidence_ref)

(* The row of an entry (_materializar). *)
Materializar(e) ==
    [id |-> e.experience_id,
     subject_kind |-> e.subject_ref.kind, subject_ref |-> e.subject_ref.ref,
     outcome_token |-> e.outcome_observed.outcome_token,
     observed_at |-> e.outcome_observed.observed_at,
     primary_evidence_kind |-> e.outcome_observed.primary_evidence_ref.kind,
     primary_evidence_ref |-> e.outcome_observed.primary_evidence_ref.ref,
     validator_kind |-> e.validated_by.validator_kind,
     validator_ref |-> e.validated_by.validator_ref,
     criterion_key |-> e.criterion_ref.criterion_key,
     criterion_version |-> e.criterion_ref.criterion_version,
     criterion_origin |-> e.criterion_ref.criterion_origin,
     evidence_refs |-> e.evidence_refs, validated_at |-> e.validated_at,
     origin_ref |-> e.origin_ref]

(* Mutant: who reported it is not compared. *)
CamposSemOrigem ==
    {"subject_kind", "subject_ref", "outcome_token", "observed_at", "primary_evidence_kind",
     "primary_evidence_ref", "validator_kind", "validator_ref", "criterion_key",
     "criterion_version", "criterion_origin", "evidence_refs", "validated_at"}

CAMPOS_CANONICOS ==
    {"subject_kind", "subject_ref", "outcome_token", "observed_at", "primary_evidence_kind",
     "primary_evidence_ref", "validator_kind", "validator_ref", "criterion_key",
     "criterion_version", "criterion_origin", "evidence_refs", "validated_at", "origin_ref"}

(* The fields in which a row on record differs from what is appended. *)
Divergentes(row, e) ==
    {campo \in CAMPOS_CANONICOS : row[campo] # Materializar(e)[campo]}

(* The check of the table walks the array once: each element strictly after  *)
(* the one before it, and the primary one among them.                        *)
evidence_is_canonical(refs, primary) ==
    /\ refs # <<>>
    /\ \A k \in DOMAIN refs : refs[k] \in EvidenceReference
    /\ \A k \in 2 .. Len(refs) : Precedes(refs[k - 1], refs[k])
    /\ ListsEvidence(refs, primary)

(* A version is any positive number to its constructor; its column is an    *)
(* INTEGER, and a statement with a greater one fails.                       *)
FitsColumn(row) == row.criterion_version <= MaxInteger

(* The table: its enumerations, its columns, its checks and its primary key. *)
ExperienceTableAccepts(rows) ==
    /\ \A r, q \in rows : r.id = q.id => r = q
    /\ \A r \in rows :
           /\ r.subject_kind \in ExperienceSubjectKind
           /\ r.primary_evidence_kind \in EvidenceKind
           /\ r.validator_kind \in ValidatorKind
           /\ r.criterion_origin \in CriterionOriginKind
           /\ {r.validator_ref, r.criterion_key, r.outcome_token} \cap BlankTexts = {}
           /\ r.criterion_version \in 1 .. MaxInteger
           /\ r.observed_at <= r.validated_at
           /\ evidence_is_canonical(r.evidence_refs,
                                    [kind |-> r.primary_evidence_kind,
                                     ref |-> r.primary_evidence_ref])
=============================================================================
