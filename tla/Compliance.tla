----------------------------- MODULE Compliance -----------------------------
(***************************************************************************)
(* Compliance review (app/memory): what an auditor may say of a subject    *)
(* under one version of a policy, from what somebody observed.  Nothing    *)
(* observed is not the same as observed to be absent, and a review decides *)
(* only what it could not take back when the rest is observed.             *)
(*                                                                         *)
(* Reviews are made one after the other while retention policies are       *)
(* published and days pass.                                                *)
(***************************************************************************)
EXTENDS Retention

CONSTANTS RetentionPublications,  \* retention versions that may be published
          Policies,               \* governance and accessibility versions reviewed
          GovernanceObservations, \* what may be said of an operation
          Candidates              \* objects reviewed for retention, by domain

PolicyKind == {"governance", "accessibility", "retention"}

ComplianceOutcome ==
    {"compliant", "policy_not_applicable", "insufficient_information", "violation_confirmed"}

ObservedOperationState == {"executed", "not_executed", "not_observed"}
CausalEvidencePresence == {"present", "absent", "not_observed"}
AssessmentInformationState == {"present", "absent", "not_observed"}

MissingObservation ==
    {"anchor_timestamp", "declared_source_state", "observed_operation_state",
     "causal_evidence", "assessment_information"}

CODIGOS_POR_POLITICA ==
    [governance    |-> {"GOV-001", "GOV-002"},
     accessibility |-> {"ACC-001", "ACC-002", "ACC-003"},
     retention     |-> {"RET-001"}]

(* The policy as it is evaluated: the start of the window is known. *)
EvaluatedPolicy ==
    {p \in [kind : PolicyKind, version : Versions,
            rules : (SUBSET GovernanceRule) \cup (SUBSET AccessibilityRule)
                        \cup (SUBSET RetentionRule),
            effective_from : Instants, effective_until : Instants \cup {None}] :
        /\ p.kind = "governance" => p.rules \subseteq GovernanceRule
        /\ p.kind = "accessibility" => p.rules \subseteq AccessibilityRule
        /\ p.kind = "retention" => p.rules \subseteq RetentionRule
        /\ \A r, q \in p.rules : r.rule_id = q.rule_id => r = q
        /\ p.effective_until # None => p.effective_until > p.effective_from}

GovernedOperationObservation ==
    [operation : CognitiveOperation, context : MemoryContext,
     observed_state : ObservedOperationState]

AccessibilityStateObservation ==
    [current_state : ACCESSIBILITY_STATE_TOKENS,
     declared_source : ACCESSIBILITY_STATE_TOKENS \cup {None},
     causal_evidence : CausalEvidencePresence]

RetentionAgeObservation ==
    [anchor_at : Instants \cup {None}, legacy_protection_state : LegacyProtectionState,
     assessment_information : AssessmentInformationState]

Observations ==
    GovernedOperationObservation \cup AccessibilityStateObservation \cup RetentionAgeObservation

Question ==
    [policy : EvaluatedPolicy, domain : Domains \cup {None}, observation : Observations, at : Instants]

Report ==
    [outcome : ComplianceOutcome \cup {"raised"},
     window : {"before_window", "effective", "after_window"},
     rules : SUBSET Nat, missing : SUBSET MissingObservation,
     findings : SUBSET [code : UNION {CODIGOS_POR_POLITICA[k] : k \in PolicyKind},
                        severity : {"warning", "error", "critical"}, rules : SUBSET Nat]]

ASSUME ComplianceAssumption ==
    /\ RetentionPublications \subseteq RetentionPolicy
    /\ Policies \subseteq EvaluatedPolicy
    /\ GovernanceObservations \subseteq GovernedOperationObservation
    /\ Candidates \subseteq Domains
    /\ None \notin Question /\ None \notin Report /\ None \notin ACCESSIBILITY_STATE_TOKENS

VARIABLES retention,  \* the published retention policies
          now,        \* the day
          question,   \* the last review asked for
          report      \* and what it answered

complianceVars == <<retention, now, question, report>>

ComplianceInit ==
    /\ retention = {}
    /\ now = 0
    /\ question = None
    /\ report = None

-----------------------------------------------------------------------------
(* The reports of one policy. *)

window_at(policy, at) ==
    IF at < policy.effective_from THEN "before_window"
    ELSE IF policy.effective_until # None /\ at >= policy.effective_until
    THEN "after_window" ELSE "effective"

relatorio(outcome, window, rules, missing) ==
    [outcome |-> outcome, window |-> window, rules |-> Ids(rules), missing |-> missing,
     findings |-> {}]

com_violacao(code, severity, rules) ==
    [outcome |-> "violation_confirmed", window |-> "effective", rules |-> Ids(rules),
     missing |-> {}, findings |-> {[code |-> code, severity |-> severity, rules |-> Ids(rules)]}]

Insufficient(missing) == relatorio("insufficient_information", "effective", {}, missing)
Compliant(rules) == relatorio("compliant", "effective", rules, {})
NotApplicable(window) == relatorio("policy_not_applicable", window, {}, {})

(* Mutant: no denial is enough, as if a rule had been there. *)
NothingDenies(applicable) == Denials(applicable) = {}

\* what complies whether or not it was carried out
CompliesAnyway(applicable) == applicable # {} /\ Denials(applicable) = {}

(* Whether the operation was carried out only matters where a rule denies it *)
(* or where none covers it.                                                  *)
avaliar_governanca(policy, o) ==
    LET applicable == Applicable(policy, o.operation, o.context)
        executed   == o.observed_state = "executed"
    IN  IF o.observed_state = "not_observed"
        THEN IF CompliesAnyway(applicable) THEN Compliant(applicable)
                                   ELSE Insufficient({"observed_operation_state"})
        ELSE IF applicable = {}
        THEN IF executed THEN com_violacao("GOV-002", "warning", {})
                         ELSE NotApplicable("effective")
        ELSE IF Denials(applicable) # {} /\ executed
        THEN com_violacao("GOV-001", "error", Denials(applicable))
        ELSE Compliant(applicable)

Extinct(o) == o.current_state = CAUSALLY_EXTINCT_TOKEN

(* Mutant: evidence nobody looked for is taken to be there. *)
NothingUnseen(o) == {}

Unseen(o) == IF Extinct(o) /\ o.causal_evidence = "not_observed" THEN {"causal_evidence"} ELSE {}

avaliar_acessibilidade(policy, o) ==
    LET applicable == {r \in policy.rules : RuleMatches(r, o.declared_source, o.current_state)}
    IN  IF o.declared_source = None
        THEN Insufficient({"declared_source_state"} \cup Unseen(o))
        ELSE IF Unseen(o) # {} THEN Insufficient(Unseen(o))
        ELSE IF Extinct(o) /\ o.causal_evidence = "absent"
        THEN com_violacao("ACC-002", "critical", {})
        ELSE IF applicable = {} THEN com_violacao("ACC-003", "warning", {})
        ELSE IF Denials(applicable) # {}
        THEN com_violacao("ACC-001", "error", Denials(applicable))
        ELSE Compliant(applicable)

(* Eligibility is asked of avaliar_retencao, never computed again. *)
avaliar_conformidade_retencao(policy, domain, o, at) ==
    LET candidate  == [domain_id |-> domain, created_at |-> o.anchor_at,
                       legacy_protection_state |-> o.legacy_protection_state]
        assessment == avaliar_retencao(candidate, policy.rules, policy.effective_from,
                                       policy.effective_until, at)
        Cites(ids) == {r \in policy.rules : r.rule_id \in ids}
        applicable == Cites(assessment.applicable_rule_ids)
    IN  IF o.anchor_at = None THEN Insufficient({"anchor_timestamp"})
        ELSE IF assessment.decision = "raised" THEN relatorio("raised", "effective", {}, {})
        ELSE IF assessment.decision \in {"policy_not_effective", "out_of_scope"}
        THEN NotApplicable("effective")
        ELSE IF assessment.decision \in {"preserve_legacy_protected", "not_yet_due"}
        THEN Compliant(applicable)
        ELSE IF o.assessment_information = "not_observed"
        THEN Insufficient({"assessment_information"})
        ELSE IF o.assessment_information = "absent"
        THEN com_violacao("RET-001", "warning", Cites(assessment.due_rule_ids))
        ELSE Compliant(applicable)

avaliar_conformidade(q) ==
    LET window == window_at(q.policy, q.at)
    IN  IF window # "effective" THEN NotApplicable(window)
        ELSE CASE q.policy.kind = "governance"    -> avaliar_governanca(q.policy, q.observation)
               [] q.policy.kind = "accessibility" -> avaliar_acessibilidade(q.policy, q.observation)
               [] q.policy.kind = "retention"     ->
                      avaliar_conformidade_retencao(q.policy, q.domain, q.observation, q.at)

(* What the constructor of a report accepts. *)
CoerenciaDoDesfecho(kind, r) ==
    /\ r.findings # {} <=> r.outcome = "violation_confirmed"
    /\ \A f \in r.findings : f.code \in CODIGOS_POR_POLITICA[kind]
    /\ r.missing # {} => r.outcome \in {"insufficient_information", "violation_confirmed"}
    /\ r.outcome = "insufficient_information" => r.missing # {}
    /\ r.outcome = "policy_not_applicable" => r.rules = {}
    /\ r.outcome = "compliant" => r.rules # {}

-----------------------------------------------------------------------------
(* What happens while reviews are made. *)

Tick ==
    /\ now < MaxInstant
    /\ now' = now + 1
    /\ UNCHANGED <<retention, question, report>>

(* add_policy: a version is published once, and never changed or removed. *)
add_policy(p) ==
    /\ \A q \in retention : q.key = p.key => q.version # p.version
    /\ retention' = retention \cup {p}
    /\ UNCHANGED <<now, question, report>>

review(policy, domain, observation) ==
    /\ question' = [policy |-> policy, domain |-> domain, observation |-> observation, at |-> now]
    /\ report' = avaliar_conformidade(question')
    /\ UNCHANGED <<retention, now>>

review_operation ==
    \E p \in Policies, o \in GovernanceObservations :
        /\ p.kind = "governance"
        /\ review(p, None, o)

review_transition ==
    \E p \in Policies, o \in AccessibilityStateObservation :
        /\ p.kind = "accessibility"
        /\ review(p, None, o)

(* A retention row without a start of its window cannot be evaluated: the    *)
(* evaluated policy requires one.                                            *)
review_retention ==
    \E key \in RetentionKeys, domain \in Candidates, o \in RetentionAgeObservation :
        LET row == effective_retention_at(retention, key, now)
        IN  /\ row # None
            /\ row.effective_from # None
            /\ review([kind |-> "retention", version |-> row.version, rules |-> row.rules,
                       effective_from |-> row.effective_from,
                       effective_until |-> row.effective_until], domain, o)

ComplianceNext ==
    \/ Tick
    \/ \E p \in RetentionPublications : add_policy(p)
    \/ review_operation
    \/ review_transition
    \/ review_retention

ComplianceSpec == ComplianceInit /\ [][ComplianceNext]_complianceVars

-----------------------------------------------------------------------------
Answered == report # None /\ report.outcome # "raised"

(* The versions have their types and one content each, the report is one     *)
(* its constructor accepts, and so is the assessment behind it.              *)
ComplianceTypeOK ==
    /\ retention \subseteq RetentionPolicy
    /\ \A p, q \in retention : p.key = q.key /\ p.version = q.version => p = q
    /\ now \in Instants
    /\ question = None <=> report = None
    /\ Answered =>
           /\ report.outcome \in ComplianceOutcome
           /\ report.missing \subseteq MissingObservation
           /\ CoerenciaDoDesfecho(question.policy.kind, report)

(* What an observation may turn out to be once what it leaves open is        *)
(* observed too.  Nothing that was observed changes.                         *)
Filled(value, open, all) == IF value = open THEN all ELSE {value}

Refinements(kind, o) ==
    CASE kind = "governance" ->
             {[o EXCEPT !.observed_state = s] :
                 s \in Filled(o.observed_state, "not_observed", ObservedOperationState)}
      [] kind = "accessibility" ->
             {[o EXCEPT !.declared_source = d, !.causal_evidence = c] :
                 d \in Filled(o.declared_source, None, ACCESSIBILITY_STATE_TOKENS \cup {None}),
                 c \in Filled(o.causal_evidence, "not_observed", CausalEvidencePresence)}
      [] kind = "retention" ->
             {[o EXCEPT !.anchor_at = a, !.assessment_information = i] :
                 a \in Filled(o.anchor_at, None, Instants \cup {None}),
                 i \in Filled(o.assessment_information, "not_observed",
                              AssessmentInformationState)}

(* A review that decides, decides for good: whatever the auditor did not     *)
(* observe, observing it leaves the outcome, the rules and the findings as   *)
(* they are.  And what it says is missing really is open: some way to        *)
(* observe it decides, unless the calendar is too short for the age of a     *)
(* rule.  (_avaliar_governanca answers COMPLIANT without knowing whether the *)
(* operation ran; _avaliar_acessibilidade and _avaliar_retencao stop at the  *)
(* first thing they need.)                                                   *)
DecidedForGood ==
    Answered =>
        LET Finer == Refinements(question.policy.kind, question.observation)
            Answer(o) == avaliar_conformidade([question EXCEPT !.observation = o])
        IN  IF report.outcome # "insufficient_information"
            THEN \A o \in Finer : Answer(o) = report
            ELSE \E o \in Finer :
                     /\ Answer(o).outcome # "insufficient_information"
                     /\ Answer(o).outcome = "raised" =>
                            \E r \in question.policy.rules : r.minimum_age_days > MaxInstant

(* Days and rules only work in one direction: an object to be assessed stays *)
(* so until its policy ends, and a rule more never makes it due sooner.      *)
(* (avaliar_retencao takes the greatest of the due dates; only the window    *)
(* and the overflow of a date take a decision back.)                         *)
DueDatesStand ==
    question # None /\ question.policy.kind = "retention" /\ question.observation.anchor_at # None =>
        LET o == question.observation
            A(rules, at) == avaliar_retencao([domain_id |-> question.domain,
                                              created_at |-> o.anchor_at,
                                              legacy_protection_state |-> o.legacy_protection_state],
                                             rules, question.policy.effective_from,
                                             question.policy.effective_until, at)
            rules == question.policy.rules
            Assess(fewer, at) == A(fewer, at).decision = "assess_and_inform"
        IN  /\ A(rules, question.at).decision # "raised" => MatrizDaDecisao(A(rules, question.at), question.at)
            /\ Assess(rules, question.at) =>
                   /\ \A at \in question.at .. MaxInstant :
                          \/ Assess(rules, at)
                          \/ A(rules, at).decision = "policy_not_effective"
                   /\ \A fewer \in SUBSET rules :
                          \/ Assess(fewer, question.at)
                          \/ A(fewer, question.at).decision = "out_of_scope"

(* No answer of a review has to be taken back: not when more is observed, by *)
(* more rules, or on a later day of the same policy.                         *)
ReviewsStand == DecidedForGood /\ DueDatesStand
=============================================================================
