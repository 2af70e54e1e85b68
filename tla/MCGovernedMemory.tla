-------------------------- MODULE MCGovernedMemory --------------------------
(* Small instances of GovernedMemory. *)
EXTENDS GovernedMemory, TLC

G(id, effect, operations, domains) ==
    [rule_id |-> id, effect |-> effect, operations |-> operations,
     domain_ids |-> domains, actor_refs |-> {}, purposes |-> {}]

Version(key, n, rules, from) ==
    [key |-> key, version |-> n, rules |-> rules,
     effective_from |-> from, effective_until |-> None]

All == {"read", "accessibility_transition"}

\* "g" admits everything, then reading in the first domain only
MCPublications ==
    {Version("g", 1, {G(1, "admit", All, {})}, None),
     Version("g", 2, {G(1, "admit", {}, {1})}, 0)}

A(id, effect, source, target) ==
    [rule_id |-> id, effect |-> effect, source_state |-> source, target_state |-> target]

AVersion(n, under, rules) ==
    [key |-> "a", version |-> n, governance_policy_key |-> under, rules |-> rules,
     effective_from |-> None, effective_until |-> None]

\* the second version belongs to another authority
MCAccessibilityPublications ==
    {AVersion(1, "g", {A(1, "admit", "active", "inaccessible"),
                       A(2, "admit", "active", "causally_extinct"),
                       A(3, "admit", "inaccessible", "causally_extinct"),
                       A(4, "deny", "inaccessible", "causally_extinct")}),
     AVersion(2, "h", {A(1, "admit", "active", "inaccessible")})}

Context(domains) == [domain_ids |-> domains, actor_ref |-> None, purpose |-> None]

Descriptor(operation, capabilities) ==
    [operation |-> operation, capabilities |-> capabilities, engagement |-> "unspecified"]

Want(target, reason, event, key) ==
    [coid |-> 1, target |-> target, reason |-> reason, event |-> event,
     context |-> Context({1}), descriptor |-> Descriptor("accessibility_transition", {}),
     key |-> key, policy_key |-> "a", moment |-> 0]

MCTransitions ==
    {Want("inaccessible", FALSE, None, "g"), Want("causally_extinct", TRUE, 7, "g"),
     Want("causally_extinct", FALSE, None, "g")}

See(isolated, domains, capabilities, key) ==
    [isolated |-> isolated, context |-> Context(domains),
     descriptor |-> Descriptor("read", capabilities),
     key |-> key, moment |-> 0, limit |-> 1, offset |-> 0]

MCRetrievals ==
    {See(TRUE, {1, 2}, {}, "g"), See(FALSE, {}, {}, "g"),
     See(TRUE, {1, 2}, {"catastrophic_harm_enablement"}, "g")}

MCMemberships == {<<1, 1>>, <<2, 2>>}

MCSymmetry == Permutations(Sessions)
=============================================================================
