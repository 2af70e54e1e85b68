----------------------------- MODULE Retention ------------------------------
(***************************************************************************)
(* Retention of local patrimony (app/memory): versioned policies of rules  *)
(* that say after what age an object is to be assessed, and the pure       *)
(* evaluation of one candidate.  Nothing here deletes: the strongest       *)
(* decision informs.                                                       *)
(***************************************************************************)
EXTENDS Governance

CONSTANTS RetentionKeys,  \* names under which retention policies are versioned
          MaxInstant      \* the last day a datetime can hold

ASSUME RetentionAssumption ==
    /\ MaxInstant \in Nat
    /\ None \notin RetentionKeys

Instants == 0 .. MaxInstant

RetentionScopeKind == {"all_local_patrimony", "memory_domain_set"}
LegacyProtectionState == {"protected", "not_protected"}

RetentionAssessmentDecision ==
    {"policy_not_effective", "out_of_scope", "preserve_legacy_protected", "not_yet_due",
     "assess_and_inform"}

(* The empty set of domains is not a wildcard: the whole patrimony has a     *)
(* scope of its own.  The age is counted in days and has no upper bound.     *)
RetentionRule ==
    {r \in [rule_id : Nat, scope_kind : RetentionScopeKind, domain_ids : SUBSET Domains,
            minimum_age_days : Nat \ {0}] :
        r.scope_kind = "all_local_patrimony" <=> r.domain_ids = {}}

(* validar_regras_retencao: at least one rule, and no identifier twice. *)
ValidRetentionRules(rules) ==
    /\ rules # {}
    /\ \A r, q \in rules : r.rule_id = q.rule_id => r = q

(* A version of a policy, under the authority of a governance policy. *)
RetentionPolicy ==
    {p \in [key : RetentionKeys, version : Versions, governance_policy_key : PolicyKeys,
            rules : SUBSET RetentionRule,
            effective_from : Instants \cup {None}, effective_until : Instants \cup {None}] :
        /\ ValidRetentionRules(p.rules)
        /\ p.effective_from # None /\ p.effective_until # None
               => p.effective_until > p.effective_from}

RetentionCandidate ==
    [domain_id : Domains, created_at : Instants, legacy_protection_state : LegacyProtectionState]

-----------------------------------------------------------------------------
(* The version in force at a moment, by the half-open window of each. *)
effective_retention_at(policies, key, moment) == effective_version_at(policies, key, moment)

alcanca(candidate, rule) ==
    rule.scope_kind = "all_local_patrimony" \/ candidate.domain_id \in rule.domain_ids

due_at(candidate, rule) == candidate.created_at + rule.minimum_age_days

Reaching(candidate, rules) == {r \in rules : alcanca(candidate, r)}

Ids(rules) == {r.rule_id : r \in rules}

\* the last of the due dates: every rule that applies has been satisfied by then
effective_due_at(candidate, rules) ==
    LET dues == {due_at(candidate, r) : r \in rules}
    IN  CHOOSE d \in dues : \A e \in dues : e <= d

Assessment(decision, applicable, due, effective, next) ==
    [decision |-> decision, applicable_rule_ids |-> Ids(applicable),
     due_rule_ids |-> Ids(due), effective_due_at |-> effective, next_due_at |-> next]

\* stands for the exceptions
Raised == Assessment("raised", {}, {}, None, None)

\* datetime + timedelta raises where the sum is not a date any more
Overflows(candidate, rules) == \E r \in rules : due_at(candidate, r) > MaxInstant

(* The window first, then the scope, then every due date, then protection,   *)
(* which no due date overrides.                                              *)
avaliar_retencao(candidate, rules, from, until, at) ==
    LET applicable == Reaching(candidate, rules)
        effective  == effective_due_at(candidate, applicable)
        due        == {r \in applicable : at >= due_at(candidate, r)}
    IN  IF candidate.created_at > at THEN Raised
        ELSE IF at < from \/ (until # None /\ at >= until)
        THEN Assessment("policy_not_effective", {}, {}, None, None)
        ELSE IF applicable = {}
        THEN Assessment("out_of_scope", {}, {}, None, None)
        ELSE IF Overflows(candidate, applicable) THEN Raised
        ELSE IF candidate.legacy_protection_state = "protected"
        THEN Assessment("preserve_legacy_protected", applicable, due, effective, None)
        ELSE IF at < effective
        THEN Assessment("not_yet_due", applicable, due, effective, effective)
        ELSE Assessment("assess_and_inform", applicable, due, effective, None)

(* The matrix the constructor of an assessment enforces. *)
MatrizDaDecisao(a, at) ==
    /\ a.due_rule_ids \subseteq a.applicable_rule_ids
    /\ IF a.decision \in {"policy_not_effective", "out_of_scope"}
       THEN a.applicable_rule_ids = {} /\ a.effective_due_at = None /\ a.next_due_at = None
       ELSE /\ a.applicable_rule_ids # {}
            /\ a.effective_due_at # None
            /\ a.decision = "not_yet_due" => /\ a.next_due_at = a.effective_due_at
                                             /\ a.effective_due_at > at
            /\ a.decision # "not_yet_due" => a.next_due_at = None
            /\ a.decision = "assess_and_inform" => /\ a.effective_due_at <= at
                                                   /\ a.due_rule_ids = a.applicable_rule_ids

=============================================================================
