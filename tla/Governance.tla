----------------------------- MODULE Governance -----------------------------
(***************************************************************************)
(* Admissibility of cognitive operations (app/memory): the safety boundary *)
(* of the platform, versioned policies of rules, and the resolution that   *)
(* composes them.  Evaluation only reads; what is evaluated is a value.    *)
(***************************************************************************)
EXTENDS Integers, FiniteSets

CONSTANTS Domains,     \* memory domains
          Actors,      \* actor references a context may declare
          Purposes,    \* purposes a context may declare
          PolicyKeys,  \* names under which governance policies are versioned
          MaxVersion,  \* bound of the versions of a policy
          None         \* an absent value

CognitiveOperation ==
    {"read", "reference", "derive", "transform", "expose", "synchronize",
     "consolidate", "accessibility_transition", "retention_assessment",
     "retention_disposition", "legal_erasure"}

\* what a rule without operations covers: the operations of its time
EMPTY_OPERATIONS_SCOPE_V1 ==
    {"read", "reference", "derive", "transform", "expose", "synchronize", "consolidate"}

GovernanceEffect  == {"admit", "deny"}
GovernanceOutcome == {"admissible", "inadmissible", "not_applicable", "prohibited"}

CriticalCapability ==
    {"child_sexual_exploitation", "minor_targeting_for_exploitation",
     "weapon_of_mass_destruction_enablement", "catastrophic_harm_enablement"}

CapabilityEngagement ==
    {"operational_enablement", "analytical", "preventive", "unspecified"}

Versions == 1 .. MaxVersion

ASSUME GovernanceAssumption ==
    /\ MaxVersion \in Nat
    /\ None \notin Actors \cup Purposes \cup Nat
    /\ None \notin [key : PolicyKeys, version : Versions]

ACCESSIBILITY_STATE_TOKENS == {"active", "latent", "inaccessible", "causally_extinct"}
CAUSALLY_EXTINCT_TOKEN == "causally_extinct"

MemoryContext ==
    [domain_ids : SUBSET Domains, actor_ref : Actors \cup {None}, purpose : Purposes \cup {None}]

CapabilityDescriptor ==
    [operation    : CognitiveOperation,
     capabilities : SUBSET CriticalCapability,
     engagement   : CapabilityEngagement]

(* An empty set restricts nothing, but for operations. *)
GovernanceRule ==
    [rule_id    : Nat,
     effect     : GovernanceEffect,
     operations : SUBSET CognitiveOperation,
     domain_ids : SUBSET Domains,
     actor_refs : SUBSET Actors,
     purposes   : SUBSET Purposes]

(* A rule describes one edge, never a loop. *)
AccessibilityRule ==
    {r \in [rule_id : Nat, effect : GovernanceEffect,
            source_state : ACCESSIBILITY_STATE_TOKENS,
            target_state : ACCESSIBILITY_STATE_TOKENS] : r.source_state # r.target_state}

(* A version in force from effective_from, None for always, and before       *)
(* effective_until, None for ever.                                           *)
GovernancePolicy ==
    [key             : PolicyKeys,
     version         : Versions,
     rules           : SUBSET GovernanceRule,
     effective_from  : Nat \cup {None},
     effective_until : Nat \cup {None}]

-----------------------------------------------------------------------------
(* A domain of the context is enough, an undeclared actor or purpose is not. *)
matches(rule, operation, context) ==
    /\ operation \in IF rule.operations = {} THEN EMPTY_OPERATIONS_SCOPE_V1
                                             ELSE rule.operations
    /\ rule.domain_ids = {} \/ rule.domain_ids \cap context.domain_ids # {}
    /\ rule.actor_refs = {} \/ context.actor_ref \in rule.actor_refs
    /\ rule.purposes = {} \/ context.purpose \in rule.purposes

RuleMatches(rule, source, target) == rule.source_state = source /\ rule.target_state = target

ENGAGEMENTS_THAT_PROHIBIT == {"operational_enablement", "unspecified"}

\* the capabilities the platform refuses to enable, whatever a policy says
assess_capability(descriptor) ==
    IF descriptor.engagement \in ENGAGEMENTS_THAT_PROHIBIT THEN descriptor.capabilities ELSE {}

InForce(policy, moment) ==
    /\ policy.effective_from # None => policy.effective_from <= moment
    /\ policy.effective_until # None => policy.effective_until > moment

effective_versions(policies, key, moment) ==
    {p \in policies : p.key = key /\ InForce(p, moment)}

\* the greatest version in force, None without one
effective_version_at(policies, key, moment) ==
    LET candidates == effective_versions(policies, key, moment)
    IN  IF candidates = {} THEN None
        ELSE CHOOSE p \in candidates : \A q \in candidates : q.version <= p.version

Applicable(policy, operation, context) ==
    {r \in policy.rules : matches(r, operation, context)}

\* the first in the order of sort_key among rules of one effect
Cited(rules) == CHOOSE r \in rules : \A q \in rules : r.rule_id <= q.rule_id

Denials(rules) == {r \in rules : r.effect = "deny"}

\* one denial refuses, no rule concedes nothing
evaluate(rules) ==
    IF rules = {} THEN "not_applicable"
    ELSE IF Denials(rules) # {} THEN "inadmissible" ELSE "admissible"

Identity(policy) == [key |-> policy.key, version |-> policy.version]

Resolution(outcome, operation, context, policy, rule, blocked) ==
    [outcome |-> outcome, operation |-> operation, context |-> context,
     policy |-> policy, matched_rule_id |-> rule, blocked_capabilities |-> blocked]

resolve(policies, descriptor, context, key, moment) ==
    LET operation == descriptor.operation
        blocked   == assess_capability(descriptor)
        policy    == effective_version_at(policies, key, moment)
        rules     == Applicable(policy, operation, context)
        deciding  == IF Denials(rules) = {} THEN rules ELSE Denials(rules)
    IN  IF blocked # {}
        THEN Resolution("prohibited", operation, context, None, None, blocked)
        ELSE IF policy = None
        THEN Resolution("not_applicable", operation, context, None, None, {})
        ELSE Resolution(evaluate(rules), operation, context, Identity(policy),
                        IF rules = {} THEN None ELSE Cited(deciding).rule_id, {})

(* What a set of rules that apply has to be for its operation to proceed.    *)
Admits(rules) == Denials(rules) = {} /\ rules # {}

execution_authorized(resolution) == resolution.outcome = "admissible"

(* What the constructor of a resolution refuses: provenance in part, a       *)
(* decision without a rule, a refusal that does not say what it blocked.     *)
Coherent(resolution) ==
    /\ resolution.matched_rule_id # None => resolution.policy # None
    /\ resolution.outcome = "prohibited" <=> resolution.blocked_capabilities # {}
    /\ resolution.outcome = "prohibited" => resolution.policy = None
    /\ resolution.outcome \in {"admissible", "inadmissible"}
           <=> resolution.matched_rule_id # None

=============================================================================
