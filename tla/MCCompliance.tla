---------------------------- MODULE MCCompliance ----------------------------
(* A small instance of Compliance. *)
EXTENDS Compliance

R(id, domains, age) ==
    [rule_id |-> id, domain_ids |-> domains, minimum_age_days |-> age,
     scope_kind |-> IF domains = {} THEN "all_local_patrimony" ELSE "memory_domain_set"]

Row(n, rules, from, until) ==
    [key |-> "r", version |-> n, governance_policy_key |-> "g", rules |-> rules,
     effective_from |-> from, effective_until |-> until]

\* two rules of different ages, then one whose due dates may be no dates and one
\* whose due dates never are
MCRetentionPublications ==
    {Row(1, {R(1, {}, 1), R(2, {1}, 2)}, 0, 4), Row(2, {R(1, {1}, 3), R(2, {2}, 6)}, 3, None),
     Row(3, {R(1, {}, 1)}, None, 1)}

G(id, effect, domains) ==
    [rule_id |-> id, effect |-> effect, operations |-> {"read"},
     domain_ids |-> domains, actor_refs |-> {}, purposes |-> {}]

E(id, effect, source, target) ==
    [rule_id |-> id, effect |-> effect, source_state |-> source, target_state |-> target]

Evaluated(kind, rules, from, until) ==
    [kind |-> kind, version |-> 1, rules |-> rules, effective_from |-> from,
     effective_until |-> until]

MCPolicies ==
    {Evaluated("governance", {G(1, "admit", {}), G(2, "deny", {1})}, 1, None),
     Evaluated("accessibility", {E(1, "admit", "active", "latent"), E(2, "admit", "latent", "active"),
                                 E(3, "deny", "latent", "active"),
                                 E(4, "admit", "active", "causally_extinct")}, 0, 3)}

MCGovernanceObservations ==
    {[operation |-> op, observed_state |-> s,
      context |-> [domain_ids |-> {d}, actor_ref |-> None, purpose |-> None]] :
        op \in {"read", "derive"}, s \in ObservedOperationState, d \in Domains}
=============================================================================
