-------------------------- MODULE PredictiveRouting -------------------------
(***************************************************************************)
(* Predictive accessibility (app/predictive_accessibility): from what was  *)
(* measured about a claim to what may be recommended.  A claim is          *)
(* evaluated; claims of one batch are compared; protective branches,       *)
(* guidance and burdens are judged; one route comes out, or none.          *)
(*                                                                         *)
(* Pure.  Statistics enter as their results; every instant is given by the *)
(* caller.                                                                 *)
(***************************************************************************)
EXTENDS Integers, FiniteSets, Sequences

CONSTANTS Subjects,     \* subject keys of claims
          References,   \* approvals, candidates, identifiers of branches
          Scopes,       \* what an approval may cover
          Places,       \* jurisdictions
          ComparabilityKeys, \* which claims can be compared
          Conclusions,  \* signatures of conclusions
          MAX_APPROVAL_SCOPE_ITEMS, MAX_PIAP_VERSION_NUMBER,
          None          \* an absent value

ASSUME RoutingAssumption ==
    /\ {MAX_APPROVAL_SCOPE_ITEMS, MAX_PIAP_VERSION_NUMBER} \subseteq Nat \ {0}
    /\ None \notin Subjects \cup References \cup Scopes \cup Places \cup ComparabilityKeys
               \cup Conclusions \cup Int \cup {"predict", "reconfigure", "investigate", "robust"}

AuthorityStatus == {"asserted_authorized", "asserted_not_authorized", "unknown"}
BoundObjectKind == {"proposed_bound", "promotion_candidate"}

ApprovalValidationOutcome ==
    {"valid", "missing", "not_authorized", "expired", "version_mismatch", "out_of_scope",
     "jurisdiction_mismatch", "binding_mismatch"}

PredictiveEpistemicState == {"predictable", "unresolved", "predictively_inaccessible"}

PredictiveRoute == {"predict", "reconfigure", "investigate", "robust"}

PredictiveAlternativeKind == {"a0_inaction", "a1_reversible_escalation", "a2_full_action"}

PredictiveBurdenDimensionKind ==
    {"financial_resources", "social_human", "critical_service_continuity",
     "distribution_equity", "opportunity_delay", "irreversibility_recovery"}

\* versions fit the columns that may keep them
validar_inteiro_positivo(version) == version \in 1 .. MAX_PIAP_VERSION_NUMBER

validar_escopo(items) == items # {} /\ Cardinality(items) <= MAX_APPROVAL_SCOPE_ITEMS

ApprovalBinding ==
    [reference : References, version : 1 .. MAX_PIAP_VERSION_NUMBER,
     scope : {items \in SUBSET Scopes : validar_escopo(items)},
     expiry : Nat \cup {None}, jurisdiction : Places \cup {None},
     bound_to : [kind : BoundObjectKind, ref : References]]

(* Authority that is asserted carries what it rests on, an unknown one does  *)
(* not.                                                                      *)
AuthorityContext ==
    {c \in [status : AuthorityStatus, approval : ApprovalBinding \cup {None}] :
        /\ c.status = "asserted_authorized" => c.approval # None
        /\ c.status = "unknown" => c.approval = None}

PredictiveMaterialityAuthority ==
    [reference : References, version : Int, jurisdiction : Places, scope : SUBSET Scopes,
     valid_from : Nat \cup {None}, valid_until : Nat \cup {None}]

\* a protective branch; nothing excludes itself
PredictiveProtectionCandidateInput ==
    {c \in [identifier : References, material_effect_claimed : BOOLEAN, complete : BOOLEAN,
            incompatible_with : SUBSET References,
            authority : PredictiveMaterialityAuthority \cup {None}] :
        c.identifier \notin c.incompatible_with}

PredictiveGuidanceReference ==
    [jurisdiction : Places, version : Int, valid_from : Nat \cup {None},
     valid_until : Nat \cup {None}]

\* an alternative as it is sent, and what its constructor accepts
Alternatives ==
    [kind : PredictiveAlternativeKind, key : ComparabilityKeys, known : BOOLEAN,
     cost : Int \cup {None}, reversible : BOOLEAN]

PredictiveAlternative(a) ==
    /\ a.cost # None => a.known
    /\ a.kind = "a1_reversible_escalation" => a.reversible

PredictiveTotalBurdenVector ==
    [source : References, magnitude : [PredictiveBurdenDimensionKind -> Int]]

\* what is governed about a claim, by reference
GovernedInputs ==
    [key : ComparabilityKeys, conclusion : Conclusions,
     candidates : SUBSET PredictiveProtectionCandidateInput,
     required_identifiers : SUBSET References, inventory : BOOLEAN,
     materiality_required_scope : SUBSET Scopes,
     guidance : PredictiveGuidanceReference \cup {None},
     expected_jurisdiction : Places, expected_version : Int,
     alternatives : SUBSET Alternatives, asymmetry_justification : BOOLEAN,
     burden : [PredictiveAlternativeKind -> PredictiveTotalBurdenVector \cup {None}]]

PredictivePowerOutcome ==
    [a_minus : Int, a_star_worst : Int, a_rel : Int, confirmatory_pass : BOOLEAN]

(* A claim, what was measured of it and what is governed about it; one that  *)
(* is not ready has nothing that counts but its place in the batch.          *)
PredictiveEvaluationItem ==
    [ready : BOOLEAN, subject : Subjects, lags : SUBSET Nat, observed_at_offset : Int,
     d_regime : Int, theta : Int, beats_fluctuation : BOOLEAN,
     evidence : PredictivePowerOutcome, authority : AuthorityContext, at : Nat,
     expected_version : Int, required_scope : SUBSET Scopes,
     expected_jurisdiction : Places \cup {None}, expected_binding_kind : BoundObjectKind,
     governed : GovernedInputs]

-----------------------------------------------------------------------------
(* One claim. *)

validate_approval(context, at, version, scope, jurisdiction, binding) ==
    LET approval == context.approval
    IN  IF approval = None THEN "missing"
        ELSE IF context.status # "asserted_authorized" THEN "not_authorized"
        ELSE IF approval.bound_to # binding THEN "binding_mismatch"
        ELSE IF approval.version # version THEN "version_mismatch"
        ELSE IF jurisdiction # None /\ approval.jurisdiction # jurisdiction
        THEN "jurisdiction_mismatch"
        ELSE IF ~ scope \subseteq approval.scope THEN "out_of_scope"
        ELSE IF approval.expiry # None /\ approval.expiry <= at THEN "expired"
        ELSE "valid"

(* The binding that is expected is the one the envelope brings, only of the  *)
(* right kind: which candidate it names is compared later.                   *)
predictive_approval_validation(item) ==
    LET approval == item.authority.approval
    IN  IF approval = None THEN "missing"
        ELSE IF approval.bound_to.kind # item.expected_binding_kind THEN "binding_mismatch"
        ELSE validate_approval(item.authority, item.at, item.expected_version,
                               item.required_scope, item.expected_jurisdiction,
                               approval.bound_to)

\* validating raises when what is expected cannot be, and an approval is there
validates(item) ==
    LET approval == item.authority.approval
    IN  \/ approval = None
        \/ approval.bound_to.kind # item.expected_binding_kind
        \/ validar_inteiro_positivo(item.expected_version) /\ validar_escopo(item.required_scope)

\* a channel counts when it was observed with at least its lag
predictive_availability(item) == \A lag \in item.lags : item.observed_at_offset >= lag

regime_shift_candidate(item) == item.d_regime > item.theta /\ item.beats_fluctuation

(* A gain that is not confirmed is not predictable; no gain is inaccessible  *)
(* only where even the most the estimators could gain is below a_rel.        *)
predictive_classify_epistemic_state(evidence) ==
    IF evidence.a_minus > 0
    THEN IF evidence.confirmatory_pass THEN "predictable" ELSE "unresolved"
    ELSE IF evidence.a_star_worst >= evidence.a_rel THEN "unresolved"
    ELSE "predictively_inaccessible"

(* An item is unavailable upstream, rejected for causality, or evaluated. *)
predictive_evaluate_item(item) ==
    IF ~ item.ready THEN [kind |-> "upstream_unavailable"]
    ELSE IF ~ predictive_availability(item) THEN [kind |-> "causal_rejection"]
    ELSE [kind     |-> "evaluated",
          subject  |-> item.subject,
          regime   |-> regime_shift_candidate(item),
          a_minus  |-> item.evidence.a_minus,
          state    |-> predictive_classify_epistemic_state(item.evidence),
          approval |-> predictive_approval_validation(item)]

Evaluated(outcome) == outcome.kind = "evaluated"
Approved(outcome) == outcome.approval = "valid"

-----------------------------------------------------------------------------
(* The claims of a batch. *)

(* Claims with one key and different conclusions contradict each other;      *)
(* other keys are not comparable, and items not evaluated do not count.      *)
real_conflict(batch, outcomes, i) ==
    \E j \in DOMAIN batch :
        /\ Evaluated(outcomes[i]) /\ Evaluated(outcomes[j])
        /\ batch[i].governed.key = batch[j].governed.key
        /\ batch[i].governed.conclusion # batch[j].governed.conclusion

-----------------------------------------------------------------------------
(* Protection and guidance. *)

Within(at, from, until) == from <= at /\ at < until

(* What materiality rests on: an authority that restates the approval, no    *)
(* wider and no longer than it.                                              *)
MaterialityAuthority(authority, outcome, approval, at, scope) ==
    /\ Approved(outcome)
    /\ authority # None /\ approval # None
    /\ authority.reference = approval.reference
    /\ authority.version = approval.version
    /\ authority.jurisdiction = approval.jurisdiction
    /\ authority.scope \subseteq approval.scope
    /\ scope \subseteq authority.scope
    /\ authority.valid_from # None /\ authority.valid_until # None
    /\ Within(at, authority.valid_from, authority.valid_until)
    /\ approval.expiry # None => authority.valid_until <= approval.expiry

classificar(candidate, governed, outcome, approval, conflict, at) ==
    IF ~ candidate.material_effect_claimed THEN "not_supported"
    ELSE IF /\ MaterialityAuthority(candidate.authority, outcome, approval, at,
                                    governed.materiality_required_scope)
            /\ ~ conflict
            /\ candidate.complete
    THEN "supported" ELSE "unresolved"

\* branches that would be accepted but for one another
Incompatible(accepted) ==
    {c \in accepted : \E d \in accepted : d.identifier \in c.incompatible_with
                                          \/ c.identifier \in d.incompatible_with}

Coverage(governed) ==
    LET given == {c.identifier : c \in governed.candidates}
    IN  /\ given # {} \/ governed.required_identifiers # {}
        /\ governed.required_identifiers # {} => governed.inventory
        /\ governed.required_identifiers \subseteq given

(* Accepted, and unresolved among them those that exclude each other. *)
predictive_protection_set(governed, outcome, approval, conflict, at) ==
    LET Of(status) == {c \in governed.candidates :
                          classificar(c, governed, outcome, approval, conflict, at) = status}
        clash == Incompatible(Of("supported"))
    IN  [accepted   |-> Of("supported") \ clash,
         unresolved |-> Of("unresolved") \cup clash,
         complete   |-> Of("unresolved") \cup clash = {} /\ Coverage(governed)]

predictive_validate_guidance(governed, at) ==
    LET g == governed.guidance
    IN  IF g = None THEN "missing"
        ELSE IF g.version < 1 \/ g.valid_from = None \/ g.valid_until = None THEN "invalid"
        ELSE IF g.valid_until <= g.valid_from THEN "invalid"
        ELSE IF g.jurisdiction # governed.expected_jurisdiction THEN "jurisdiction_mismatch"
        ELSE IF g.version # governed.expected_version THEN "version_mismatch"
        ELSE IF ~ Within(at, g.valid_from, g.valid_until) THEN "stale"
        ELSE "valid"

-----------------------------------------------------------------------------
(* What is compared: one alternative of each kind at least, measured alike   *)
(* or with a reason not to.  The constructor raises for anything else.       *)
PredictiveCounterfactualSet(governed) ==
    /\ {a.kind : a \in governed.alternatives} = PredictiveAlternativeKind
    /\ \/ governed.asymmetry_justification
       \/ \A a, b \in governed.alternatives : a.key = b.key

(* Routing raises where a burden is missing too. *)
routable(governed) ==
    /\ PredictiveCounterfactualSet(governed)
    /\ \A a \in PredictiveAlternativeKind : governed.burden[a] # None

(* Burdens: a vector of magnitudes per alternative, comparable when they     *)
(* were measured alike.                                                      *)

comparable(v, w) == v.source = w.source

\* a burden at least as heavy in everything and heavier in something
dominates(v, w) ==
    /\ \A d \in PredictiveBurdenDimensionKind : v.magnitude[d] >= w.magnitude[d]
    /\ \E d \in PredictiveBurdenDimensionKind : v.magnitude[d] > w.magnitude[d]

dominated(burden) ==
    {a \in PredictiveAlternativeKind :
        \E b \in PredictiveAlternativeKind \ {a} :
            comparable(burden[a], burden[b]) /\ dominates(burden[a], burden[b])}

incomparable(burden) ==
    \E a, b \in PredictiveAlternativeKind : ~ comparable(burden[a], burden[b])

\* the only alternative that no other beats, None without a single one
escolher_alternativa(governed, protection, guidance) ==
    LET candidates == PredictiveAlternativeKind \ dominated(governed.burden)
    IN  IF ~ protection.complete \/ guidance # "valid" \/ incomparable(governed.burden)
           \/ Cardinality(candidates) # 1
        THEN None ELSE CHOOSE a \in candidates : TRUE

-----------------------------------------------------------------------------
(* The route. *)

_CONSERVADORISMO == [predict |-> 0, reconfigure |-> 1, robust |-> 2, investigate |-> 3]

rotas == [predictable |-> "predict", unresolved |-> "investigate",
          predictively_inaccessible |-> "robust"]

next_governed_route(outcome, conflict) ==
    IF conflict THEN "investigate" ELSE rotas[outcome.state]

(* Mutant: a promotion is followed whether or not its protection holds. *)
FollowsAnyPromotion(promoted, protection, outcome) == promoted

\* a promotion is only followed where it is supported
FollowsPromotion(promoted, protection, outcome) ==
    promoted /\ protection.complete /\ Approved(outcome)

(* A conflict leaves no safe route; then a promotion that is supported, then *)
(* what the state allows.                                                    *)
Route(outcome, conflict, promoted, protection) ==
    IF conflict THEN None
    ELSE IF FollowsPromotion(promoted, protection, outcome) THEN "reconfigure"
    ELSE IF outcome.state = "predictable" THEN "predict"
    ELSE IF outcome.state = "unresolved" THEN "investigate"
    ELSE IF Approved(outcome) /\ protection.complete THEN "robust"
    ELSE None

\* the more conservative of the route and of the one asserted before
Revalidated(route, next) ==
    IF route # None /\ _CONSERVADORISMO[route] > _CONSERVADORISMO[next] THEN route ELSE next

NoRoute == [route |-> None, alternative |-> None, accepted |-> {}, revalidated |-> None]

predictive_route_item(batch, outcomes, i, promoted, at) ==
    IF ~ Evaluated(outcomes[i]) THEN NoRoute
    ELSE LET outcome    == outcomes[i]
             governed   == batch[i].governed
             conflict   == real_conflict(batch, outcomes, i)
             protection == predictive_protection_set(governed, outcome,
                               batch[i].authority.approval, conflict, at)
             guidance   == predictive_validate_guidance(governed, at)
             route      == Route(outcome, conflict, promoted, protection)
         IN  [route       |-> route,
              alternative |-> IF route = None THEN None
                              ELSE escolher_alternativa(governed, protection, guidance),
              accepted    |-> protection.accepted,
              revalidated |-> Revalidated(route, next_governed_route(outcome, conflict))]

(* Batches are routed item by item, and one item's route only depends on     *)
(* those it can be compared with.                                            *)
predictive_route_batch(batch, outcomes, promoted, at) ==
    [i \in DOMAIN batch |-> predictive_route_item(batch, outcomes, i, promoted[i], at)]

=============================================================================
