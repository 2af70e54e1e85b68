--------------------------- MODULE HumanProtection --------------------------
(***************************************************************************)
(* The bridge between orchestration and governance (app/authorization,     *)
(* app/orchestration/protection and the composition of both): what a       *)
(* classifier said of an objective becomes a descriptor with a validity,   *)
(* the safety boundary resolves it, and what was done about the answer is  *)
(* one immutable event per decision, gate and binding.                     *)
(*                                                                         *)
(* A digest is injective, so it is the value it digests.                   *)
(***************************************************************************)
EXTENDS Governance

CONSTANTS Principals,       \* control principals
          Schedules, Steps, Attempts, \* what a gate is asked about
          Objectives,       \* the objectives of the work, by content
          Words,            \* what a model may write where a token is due
          Classifiers,      \* the classifiers that may be configured
          TTL,              \* how long a descriptor is valid
          BOUNDARY_VERSION, \* the version of the safety boundary
          MaxRevoked,       \* bound of the delegations one block revokes
          MaxTime           \* bound of the clock

Times == 0 .. MaxTime + TTL

MAX_CLASSIFIER_VERSION_LENGTH == 16

(* A classifier as its port shows it. *)
Classifier == [version_length : Nat, covered : SUBSET CriticalCapability]

ASSUME HumanProtectionAssumption ==
    /\ Classifiers \subseteq Classifier
    /\ TTL \in Nat \ {0} /\ MaxTime \in Nat /\ MaxRevoked \in Nat
    /\ BOUNDARY_VERSION \in Nat \ {0}
    /\ None \notin Schedules \cup Steps \cup Attempts \cup Objectives
    /\ CriticalCapability \cup CapabilityEngagement \subseteq Words

BoundaryOperation ==
    {"read", "reference", "derive", "transform", "expose", "synchronize", "consolidate",
     "accessibility_transition", "retention_assessment", "retention_disposition",
     "legal_erasure"}

BoundaryCapability ==
    {"child_sexual_exploitation", "minor_targeting_for_exploitation",
     "weapon_of_mass_destruction_enablement", "catastrophic_harm_enablement"}

BoundaryEngagement == {"operational_enablement", "analytical", "preventive", "unspecified"}

ACCEPTED_BOUNDARY_OUTCOMES == {"prohibited", "not_applicable"}

GatePosition == {"g1", "g2", "g3", "g4"}
ProtectionOutcome == {"allowed", "blocked", "review_required"}

-----------------------------------------------------------------------------
(* What a classifier says. *)

(* The text of an answer, where it is JSON of the closed schema.             *)
ClassifierText ==
    [refused : BOOLEAN, well_formed : BOOLEAN, capabilities : SUBSET Words, engagement : Words]

SemanticClassification ==
    [capabilities : SUBSET CriticalCapability, engagement : CapabilityEngagement]

\* one word outside the vocabulary and nothing is known
interpret_classification_text(text) ==
    IF \/ ~ text.well_formed
       \/ ~ text.capabilities \subseteq CriticalCapability
       \/ text.engagement \notin CapabilityEngagement
    THEN None
    ELSE [capabilities |-> text.capabilities, engagement |-> text.engagement]

\* a refusal of the provider is not the absence of a capability
classify(text) == IF text.refused THEN None ELSE interpret_classification_text(text)

AuthorizedCapabilityDescriptor ==
    {d \in [operation : CognitiveOperation, capabilities : SUBSET CriticalCapability,
            engagement : CapabilityEngagement, objective : Objectives,
            classifier : Classifiers, evaluated_at : Times, valid_until : Times] :
        d.evaluated_at < d.valid_until}

is_valid_at(d, moment) == d.evaluated_at <= moment /\ moment < d.valid_until

(* None is every way of being unavailable.  The instant is taken after the   *)
(* classifier answered.                                                      *)
authorize(classifier, text, objective, operation, moment) ==
    LET said == classify(text)
    IN  IF ~ CriticalCapability \subseteq classifier.covered \/ said = None THEN None
        ELSE [operation |-> operation, capabilities |-> said.capabilities,
              engagement |-> said.engagement, objective |-> objective,
              classifier |-> classifier, evaluated_at |-> moment,
              valid_until |-> moment + TTL]

-----------------------------------------------------------------------------
(* The question and the answer. *)

PositionRules(b) ==
    /\ b.gate_position = "g1" <=> b.schedule = None
    /\ b.gate_position = "g1" <=> b.step = None
    /\ b.gate_position = "g3" <=> b.attempt # None

GovernanceBinding ==
    {b \in [operation : BoundaryOperation, principal : Principals,
            schedule : Schedules \cup {None}, step : Steps \cup {None},
            attempt : Attempts \cup {None}, objective : Objectives,
            gate_position : GatePosition, boundary_version : {BOUNDARY_VERSION},
            classifier : Classifiers, valid_until : Times] :
        /\ b.classifier.version_length <= MAX_CLASSIFIER_VERSION_LENGTH
        /\ PositionRules(b)}

\* what the gate was asked about
Subject(principal, gate, schedule, step, attempt) ==
    [principal |-> principal, gate_position |-> gate, schedule |-> schedule, step |-> step,
     attempt |-> attempt]

Binding(d, subject) ==
    [operation |-> d.operation, principal |-> subject.principal,
     schedule |-> subject.schedule, step |-> subject.step, attempt |-> subject.attempt,
     objective |-> d.objective, gate_position |-> subject.gate_position,
     boundary_version |-> BOUNDARY_VERSION, classifier |-> d.classifier,
     valid_until |-> d.valid_until]

NoContext == [domain_ids |-> {}, actor_ref |-> None, purpose |-> None]

(* The adapter asks governance for the boundary alone: no policy is named,   *)
(* so every answer but two would be incoherent.                              *)
resolver(d) ==
    resolve({}, [operation |-> d.operation, capabilities |-> d.capabilities,
                 engagement |-> d.engagement], NoContext, None, d.evaluated_at)

\* the fields of the resolution and the classifier that fed it
calcular_fingerprint(resolution, classifier) ==
    [resolution |-> resolution, classifier |-> classifier]

GovernanceResolutionView(d, binding, at) ==
    LET resolution == resolver(d)
    IN  [outcome |-> resolution.outcome, blocked |-> resolution.blocked_capabilities,
         engagement |-> d.engagement, boundary_version |-> BOUNDARY_VERSION,
         classifier |-> binding.classifier,
         fingerprint |-> calcular_fingerprint(resolution, binding.classifier),
         binding |-> binding, evaluated_at |-> at, valid_until |-> binding.valid_until]

exigir_vinculo(view, binding) ==
    /\ view.binding = binding
    /\ view.boundary_version = binding.boundary_version
    /\ view.classifier = binding.classifier
    /\ view.valid_until = binding.valid_until

exigir_validade(view, moment) == view.evaluated_at <= moment /\ moment < view.valid_until

(* From the objective to the answer, None when the gate is unavailable: no   *)
(* descriptor, a binding that cannot be written, an answer out of its window.*)
avaliar(classifier, text, objective, operation, subject, moment) ==
    LET d == authorize(classifier, text, objective, operation, moment)
    IN  IF d = None THEN None
        ELSE LET binding == Binding(d, subject)
                 view    == GovernanceResolutionView(d, binding, moment)
             IN  IF /\ binding.classifier.version_length <= MAX_CLASSIFIER_VERSION_LENGTH
                    /\ PositionRules(binding)
                    /\ view.outcome \in ACCEPTED_BOUNDARY_OUTCOMES
                    /\ exigir_validade(view, moment)
                 THEN view ELSE None

desfecho(view) == IF view.outcome = "prohibited" THEN "blocked" ELSE "allowed"

-----------------------------------------------------------------------------
(* What was done about the answer. *)

ProtectionEffects ==
    [pause_applied : BOOLEAN, delegations_revoked : Nat, attempt : Attempts \cup {None}]

montar_aplicacao(view, effects) ==
    LET b       == view.binding
        blocked == desfecho(view) = "blocked"
    IN  [principal |-> b.principal, schedule |-> b.schedule, step |-> b.step,
         attempt |-> effects.attempt, binding_attempt |-> b.attempt,
         objective |-> b.objective, fingerprint |-> view.fingerprint, binding |-> b,
         outcome |-> desfecho(view), engagement |-> IF blocked THEN view.engagement ELSE None,
         boundary_version |-> b.boundary_version, classifier |-> b.classifier,
         operation |-> b.operation, gate_position |-> b.gate_position,
         pause_applied |-> effects.pause_applied,
         delegations_revoked |-> effects.delegations_revoked,
         blocked_capabilities |-> IF blocked THEN view.blocked ELSE {}]

\* the vocabulary of an application and of the row that keeps it
ApplicationFields(a) ==
    /\ a.principal \in Principals /\ a.objective \in Objectives
    /\ a.schedule \in Schedules \cup {None} /\ a.step \in Steps \cup {None}
    /\ a.attempt \in Attempts \cup {None} /\ a.binding_attempt \in Attempts \cup {None}
    /\ a.outcome \in ProtectionOutcome /\ a.gate_position \in GatePosition
    /\ a.engagement \in BoundaryEngagement \cup {None}
    /\ a.boundary_version \in Nat \ {0} /\ a.operation \in BoundaryOperation
    /\ a.pause_applied \in BOOLEAN /\ a.delegations_revoked \in Nat
    /\ a.blocked_capabilities \subseteq BoundaryCapability

validar_posicao(a) ==
    /\ a.gate_position = "g1" <=> a.schedule = None
    /\ a.gate_position = "g1" <=> a.step = None
    /\ a.gate_position = "g1" => ~ a.pause_applied
    /\ a.gate_position = "g3" <=> a.binding_attempt # None

validar_desfecho(a) ==
    /\ a.attempt # None <=> a.gate_position = "g3" /\ a.outcome = "allowed"
    /\ a.attempt # None => a.attempt = a.binding_attempt
    /\ a.outcome = "allowed" =>
           ~ a.pause_applied /\ a.delegations_revoked = 0 /\ a.engagement = None
    /\ a.outcome = "blocked" =>
           /\ a.engagement \in {"operational_enablement", "unspecified"}
           /\ a.gate_position # "g1" => a.pause_applied
    /\ a.outcome # "review_required"

\* what the constructor of an application accepts
HumanProtectionApplication(a) ==
    ApplicationFields(a) /\ validar_posicao(a) /\ validar_desfecho(a)

(* The checks of the table. *)
CHECKS_DO_EVENTO(a) ==
    /\ a.operation = "expose"
    /\ a.outcome = "blocked" => a.engagement \in ENGAGEMENTS_THAT_PROHIBIT
    /\ a.outcome = "allowed" =>
           a.engagement = None /\ ~ a.pause_applied /\ a.delegations_revoked = 0
    /\ a.outcome = "blocked" => a.gate_position = "g1" \/ a.pause_applied
    /\ a.outcome = "review_required" =>
           (a.gate_position = "g1" \/ a.pause_applied) /\ a.delegations_revoked = 0
    /\ a.gate_position = "g1" <=> a.schedule = None
    /\ a.gate_position = "g1" <=> a.step = None
    /\ a.gate_position = "g1" => ~ a.pause_applied
    /\ a.attempt # None <=> a.gate_position = "g3" /\ a.outcome = "allowed"
    /\ a.gate_position = "g3" <=> a.binding_attempt # None
    /\ a.attempt # None => a.attempt = a.binding_attempt

(* The trigger at the commit: a block names what it blocked, nothing else    *)
(* does.                                                                     *)
hp_event_coherence(a) == a.outcome = "blocked" <=> a.blocked_capabilities # {}

Key(a) == <<a.fingerprint, a.gate_position, a.binding>>

\* the row of a key, at most one by uq_hpe_decision_gate_binding
ler_aplicacao(events, key) == {e \in events : Key(e) = key}

\* the row that won describes this same application
confirmar_vencedor(events, a) == ler_aplicacao(events, Key(a)) = {a}

=============================================================================
