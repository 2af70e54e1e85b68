--------------------------- MODULE GovernedMemory ---------------------------
(***************************************************************************)
(* Governed memory (app/memory): transitions of accessibility under a      *)
(* governance policy and an accessibility policy, and views retrieved      *)
(* under a governance policy, isolated by domain or not, while policies    *)
(* are published and objects, memberships and causal events are committed. *)
(*                                                                         *)
(* A call reads policies, memberships and pages of objects with one        *)
(* statement each, at READ COMMITTED.  What it compares is what those      *)
(* statements saw; only the row of a transition's subject is locked.       *)
(***************************************************************************)
EXTENDS Governance

CONSTANTS Coids,             \* cognitive objects, in the order created_at, id
          Events,            \* causal events
          Sessions,          \* each makes one transition or retrieves one view
          AccessibilityKeys, \* names under which accessibility policies are versioned
          SEARCH_BATCH_SIZE, \* rows of a page of the search
          Publications,      \* what may be published, version 1 from the start
          AccessibilityPublications,
          Memberships,       \* pairs of a domain and an object that may be added
          Transitions,       \* what may be asked of transition
          Retrievals         \* what may be asked of retrieve_isolated and retrieve

RETRIEVABLE_ACCESSIBILITY_TOKENS == {"active", "latent"}

AccessibilityPolicy ==
    [key : AccessibilityKeys, version : Versions, governance_policy_key : PolicyKeys,
     rules : SUBSET AccessibilityRule,
     effective_from : Nat \cup {None}, effective_until : Nat \cup {None}]

\* what avaliar may decide, the identity of the policy and the rule included
AccessibilityDecision ==
    [outcome : GovernanceOutcome,
     source_state : ACCESSIBILITY_STATE_TOKENS, target_state : ACCESSIBILITY_STATE_TOKENS,
     policy : [key : AccessibilityKeys, version : Versions] \cup {None},
     matched_rule_id : Nat \cup {None}]

TransitionRequest ==
    [coid : Coids, target : ACCESSIBILITY_STATE_TOKENS, reason : BOOLEAN,
     event : Events \cup {None}, context : MemoryContext, descriptor : CapabilityDescriptor,
     key : PolicyKeys, policy_key : AccessibilityKeys, moment : Nat]

RetrievalRequest ==
    [isolated : BOOLEAN, context : MemoryContext, descriptor : CapabilityDescriptor,
     key : PolicyKeys \cup {None}, moment : Nat, limit : Nat \ {0}, offset : Nat]

CognitiveObject == [accessibility : ACCESSIBILITY_STATE_TOKENS, deleted : BOOLEAN]

ASSUME GovernedMemoryAssumption ==
    /\ Domains \subseteq Nat /\ Coids \subseteq Nat /\ IsFiniteSet(Coids)
    /\ None \notin Coids \cup Events \cup Sessions \cup AccessibilityDecision
    /\ SEARCH_BATCH_SIZE \in Nat \ {0}
    /\ Publications \subseteq GovernancePolicy
    /\ AccessibilityPublications \subseteq AccessibilityPolicy
    /\ \A p, q \in Publications : p.key = q.key /\ p.version = 1 /\ q.version = 1 => p = q
    /\ \A p, q \in AccessibilityPublications :
           p.key = q.key /\ p.version = 1 /\ q.version = 1 => p = q
    /\ Memberships \subseteq Domains \X Coids
    /\ Transitions \subseteq TransitionRequest
    /\ \A r \in Transitions : r.descriptor.operation = "accessibility_transition"
    /\ Retrievals \subseteq RetrievalRequest
    /\ \A r \in Retrievals : /\ r.descriptor.operation = "read"
                             /\ r.isolated => r.context.domain_ids # {}

VARIABLES
    governance,     \* the published governance policies
    accessibility,  \* the published accessibility policies
    object,         \* the rows of the objects, None before the insertion
    lock,           \* who holds the row of an object FOR UPDATE
    membership,     \* pairs of a domain and an object
    causal_events,  \* the subject of the history of each event
    pc,             \* what a session does next
    request,        \* what it was asked
    call,           \* what it has found so far
    result          \* what its call returned

tables == <<governance, accessibility, object, membership, causal_events>>
vars == <<tables, lock, pc, request, call, result>>

Init ==
    /\ governance = {p \in Publications : p.version = 1}
    /\ accessibility = {p \in AccessibilityPublications : p.version = 1}
    /\ object \in [Coids -> {None, [accessibility |-> "active", deleted |-> FALSE]}]
    /\ lock = [x \in Coids |-> None]
    /\ membership = {}
    /\ causal_events = [e \in Events |-> None]
    /\ pc = [s \in Sessions |-> "idle"]
    /\ request = [s \in Sessions |-> None]
    /\ call = [s \in Sessions |-> None]
    /\ result = [s \in Sessions |-> None]

-----------------------------------------------------------------------------
(* What others commit. *)

sessionVars == <<lock, pc, request, call, result>>

(* add_policy: a version is published once and never changed. *)
publish_version(p) ==
    /\ \A q \in governance : q.key = p.key => q.version # p.version
    /\ governance' = governance \cup {p}
    /\ UNCHANGED <<accessibility, object, membership, causal_events, sessionVars>>

publish_accessibility(p) ==
    /\ \A q \in accessibility : q.key = p.key => q.version # p.version
    /\ accessibility' = accessibility \cup {p}
    /\ UNCHANGED <<governance, object, membership, causal_events, sessionVars>>

(* created_at is the start of the transaction, or comes with an import: a    *)
(* new object may precede those that others have already seen.               *)
add(x) ==
    /\ object[x] = None
    /\ object' = [object EXCEPT ![x] = [accessibility |-> "active", deleted |-> FALSE]]
    /\ UNCHANGED <<governance, accessibility, membership, causal_events, sessionVars>>

soft_delete(x) ==
    /\ object[x] # None /\ lock[x] = None
    /\ object' = [object EXCEPT ![x].deleted = TRUE]
    /\ UNCHANGED <<governance, accessibility, membership, causal_events, sessionVars>>

add_membership(m) ==
    /\ object[m[2]] # None
    /\ membership' = membership \cup {m}
    /\ UNCHANGED <<governance, accessibility, object, causal_events, sessionVars>>

record(e, x) ==
    /\ object[x] # None /\ causal_events[e] = None
    /\ causal_events' = [causal_events EXCEPT ![e] = x]
    /\ UNCHANGED <<governance, accessibility, object, membership, sessionVars>>

Environment ==
    \/ \E p \in Publications : publish_version(p)
    \/ \E p \in AccessibilityPublications : publish_accessibility(p)
    \/ \E x \in Coids : add(x) \/ soft_delete(x)
    \/ \E m \in Memberships : add_membership(m)
    \/ \E e \in Events, x \in Coids : record(e, x)

-----------------------------------------------------------------------------
(* AccessibilityPolicyManager.transition, to the commit of its caller. *)

Goto(s, label) == pc' = [pc EXCEPT ![s] = label]
Return(s, outcome) == Goto(s, "done") /\ result' = [result EXCEPT ![s] = outcome]

TransitionResult(resolution, decision, observed, changed, no_change, event) ==
    [kind |-> "TRANSITION", resolution |-> resolution, decision |-> decision,
     observed_state |-> observed, state_changed |-> changed,
     no_change |-> no_change, causal_event_id |-> event]

Failure == [kind |-> "ERROR"]

transition(s) ==
    /\ pc[s] = "idle"
    /\ \E r \in Transitions : request' = [request EXCEPT ![s] = r]
    /\ call' = [call EXCEPT ![s] = [resolution |-> None, decision |-> None]]
    /\ Goto(s, "resolve")
    /\ UNCHANGED <<tables, lock, result>>

resolve_transition(s) ==
    LET r == request[s]
        resolution == resolve(governance, r.descriptor, r.context, r.key, r.moment)
    IN  /\ pc[s] = "resolve"
        /\ call' = [call EXCEPT ![s].resolution = resolution]
        /\ \/ /\ execution_authorized(resolution)
              /\ Goto(s, "lock")
              /\ UNCHANGED result
           \/ /\ ~execution_authorized(resolution)
              /\ Return(s, TransitionResult(resolution, None, None, FALSE, FALSE, None))
        /\ UNCHANGED <<tables, lock, request>>

(* Mutant: the row is read without FOR UPDATE. *)
RefreshUnlocked(s) ==
    LET r == request[s]
        source == object[r.coid].accessibility
    IN  /\ pc[s] = "lock" /\ object[r.coid] # None /\ source # r.target
        /\ Goto(s, "evaluate")
        /\ call' = [call EXCEPT ![s].decision = [source_state |-> source]]
        /\ UNCHANGED <<tables, lock, request, result>>

(* get_by_id, refresh_for_update and what the state under the lock decides.  *)
refresh_for_update(s) ==
    LET r == request[s]
        source == object[r.coid].accessibility
        unreasoned == r.target = CAUSALLY_EXTINCT_TOKEN /\ ~r.reason
    IN  /\ pc[s] = "lock"
        /\ \/ /\ object[r.coid] = None
              /\ Return(s, Failure)
              /\ UNCHANGED <<call, lock>>
           \/ /\ object[r.coid] # None /\ lock[r.coid] = None
              /\ source = r.target
              /\ Return(s, TransitionResult(call[s].resolution, None, source, FALSE, TRUE, None))
              /\ UNCHANGED <<call, lock>>
           \/ /\ object[r.coid] # None /\ lock[r.coid] = None
              /\ source # r.target /\ unreasoned
              /\ Return(s, Failure)
              /\ UNCHANGED <<call, lock>>
           \/ /\ object[r.coid] # None /\ lock[r.coid] = None
              /\ source # r.target /\ ~unreasoned
              /\ lock' = [lock EXCEPT ![r.coid] = s]
              /\ call' = [call EXCEPT ![s].decision = [source_state |-> source]]
              /\ Goto(s, "evaluate")
              /\ UNCHANGED result
        /\ UNCHANGED <<tables, request>>

Decision(outcome, source, target, policy, rule) ==
    [outcome |-> outcome, source_state |-> source, target_state |-> target,
     policy |-> policy, matched_rule_id |-> rule]

avaliar(source, target, policy) ==
    LET rules == {r \in policy.rules : RuleMatches(r, source, target)}
        deciding == IF Denials(rules) = {} THEN rules ELSE Denials(rules)
    IN  IF policy = None \/ rules = {}
        THEN Decision("not_applicable", source, target, None, None)
        ELSE Decision(evaluate(rules), source, target, Identity(policy), Cited(deciding).rule_id)

(* A policy of another governance policy is an error, not a refusal. *)
Subordinate(s, policy) ==
    policy # None => /\ policy.governance_policy_key = request[s].key
                     /\ policy.governance_policy_key = call[s].resolution.policy.key

Release(s) == lock' = [x \in Coids |-> IF lock[x] = s THEN None ELSE lock[x]]

evaluate_transition(s) ==
    LET r == request[s]
        policy == effective_version_at(accessibility, r.policy_key, r.moment)
        decision == avaliar(call[s].decision.source_state, r.target, policy)
    IN  /\ pc[s] = "evaluate"
        /\ \/ /\ ~Subordinate(s, policy)
              /\ Return(s, Failure)
              /\ Release(s)
              /\ UNCHANGED call
           \/ /\ Subordinate(s, policy) /\ decision.outcome # "admissible"
              /\ Return(s, TransitionResult(call[s].resolution, decision,
                                            decision.source_state, FALSE, FALSE, None))
              /\ Release(s)
              /\ UNCHANGED call
           \/ /\ Subordinate(s, policy) /\ decision.outcome = "admissible"
              /\ call' = [call EXCEPT ![s].decision = decision]
              /\ Goto(s, "write")
              /\ UNCHANGED <<lock, result>>
        /\ UNCHANGED <<tables, request>>

\* an event of the subject's own history
verificar_evidencia_causal(r) == r.event # None /\ causal_events[r.event] = r.coid

(* The write under the lock and the commit, or the error of the evidence. *)
transition_write(s) ==
    LET r == request[s]
        extinction == r.target = CAUSALLY_EXTINCT_TOKEN
    IN  /\ pc[s] = "write"
        /\ \/ /\ extinction => verificar_evidencia_causal(r)
              /\ object' = [object EXCEPT ![r.coid].accessibility = r.target]
              /\ Return(s, TransitionResult(call[s].resolution, call[s].decision, r.target,
                                            TRUE, FALSE, IF extinction THEN r.event ELSE None))
           \/ /\ extinction /\ ~verificar_evidencia_causal(r)
              /\ Return(s, Failure)
              /\ UNCHANGED object
        /\ Release(s)
        /\ UNCHANGED <<governance, accessibility, membership, causal_events, request, call>>

(* The transaction of the caller fails. *)
Rollback(s) ==
    /\ pc[s] \in {"evaluate", "write"}
    /\ Return(s, Failure)
    /\ Release(s)
    /\ UNCHANGED <<tables, request, call>>

Writer(s) ==
    \/ transition(s) \/ resolve_transition(s) \/ refresh_for_update(s)
    \/ evaluate_transition(s) \/ transition_write(s) \/ Rollback(s)

-----------------------------------------------------------------------------
(* MemoryIsolationManager.retrieve_isolated and MemoryRetrievalManager       *)
(* .retrieve, which it calls.                                                *)

View(outcome, items, has_more) ==
    [kind |-> "VIEW", outcome |-> outcome, items |-> items, has_more |-> has_more]

Ask(s, isolated) ==
    /\ pc[s] = "idle"
    /\ \E r \in Retrievals : r.isolated = isolated /\ request' = [request EXCEPT ![s] = r]
    /\ call' = [call EXCEPT ![s] =
           [decisions |-> {}, snapshot |-> {}, resolution |-> None, scope |-> {},
            position |-> 0, seen |-> {}]]
    /\ UNCHANGED <<tables, lock, result>>

retrieve_isolated(s) == Ask(s, TRUE) /\ Goto(s, "decide")
retrieve(s) == Ask(s, FALSE) /\ Goto(s, "read")

Singleton(context, d) == [context EXCEPT !.domain_ids = {d}]

Decided(s) == {decision.domain_id : decision \in call[s].decisions}

\* the next domain in the canonical order, resolved alone
decidir_dominio(s) ==
    LET r == request[s]
        remaining == r.context.domain_ids \ Decided(s)
    IN  /\ pc[s] = "decide"
        /\ \E d \in remaining :
            /\ \A e \in remaining : d <= e
            /\ call' = [call EXCEPT ![s].decisions = @ \cup
                   {[domain_id |-> d,
                     resolution |-> resolve(governance, r.descriptor, Singleton(r.context, d),
                                            r.key, r.moment)]}]
        /\ UNCHANGED <<tables, lock, pc, request, result>>

Identities(decisions) == {d.resolution.policy : d \in decisions} \ {None}

(* Mutant: the versions that decided need not agree. *)
AnyIdentity(decisions, resolution) == TRUE

\* verificar_coerencia_resultado_isolado: one version decided everything
SameIdentity(decisions, resolution) ==
    \A p \in Identities(decisions) : p = resolution.policy

Members(domains) == {x \in Coids : \E d \in domains : <<d, x>> \in membership}

(* All domains decided: an error if versions differ, a refusal if one is not *)
(* authorized, otherwise the union of their memberships is read.             *)
snapshot_autorizado(s) ==
    LET decisions == call[s].decisions
        agreed == \A p, q \in Identities(decisions) : p = q
        authorized == \A d \in decisions : execution_authorized(d.resolution)
    IN  /\ pc[s] = "decide" /\ Decided(s) = request[s].context.domain_ids
        /\ \/ /\ ~agreed
              /\ Return(s, Failure)
              /\ UNCHANGED call
           \/ /\ agreed /\ ~authorized
              /\ Return(s, View("DENIED", {}, None))
              /\ UNCHANGED call
           \/ /\ agreed /\ authorized
              /\ call' = [call EXCEPT ![s].snapshot = Members(request[s].context.domain_ids)]
              /\ Goto(s, "read")
              /\ UNCHANGED result
        /\ UNCHANGED <<tables, lock, request>>

(* The retrieval resolves the whole context for itself. *)
resolve_read(s) ==
    LET r == request[s]
        resolution == resolve(governance, r.descriptor, r.context, r.key, r.moment)
    IN  /\ pc[s] = "read"
        /\ call' = [call EXCEPT ![s].resolution = resolution]
        /\ \/ /\ execution_authorized(resolution)
              /\ Goto(s, "scope")
              /\ UNCHANGED result
           \/ /\ ~execution_authorized(resolution)
              /\ Return(s, IF r.isolated THEN Failure ELSE View("DENIED", {}, None))
        /\ UNCHANGED <<tables, lock, request>>

\* a context without domains is not restricted
resolver_escopo(s) ==
    LET domains == request[s].context.domain_ids IN
    /\ pc[s] = "scope"
    /\ call' = [call EXCEPT ![s].scope = IF domains = {} THEN Coids ELSE Members(domains)]
    /\ Goto(s, "collect")
    /\ UNCHANGED <<tables, lock, request, result>>

Rank(x, rows) == Cardinality({y \in rows : y <= x})
First(n, rows) == {x \in rows : Rank(x, rows) <= n}

\* SearchRepository.search: a page of what is not deleted, by offset
search(position) ==
    LET rows == {x \in Coids : object[x] # None /\ ~object[x].deleted}
    IN  First(SEARCH_BATCH_SIZE, rows \ First(position, rows))

admissivel(x, scope) ==
    object[x].accessibility \in RETRIEVABLE_ACCESSIBILITY_TOKENS /\ x \in scope

\* what was seen, each with its place among the admissible
Seen(s) == {p[1] : p \in call[s].seen}
(* Mutant: the one collected to know whether there is more is returned.      *)
PageWithProbe(s) == {p[1] : p \in {p \in call[s].seen : p[2] > request[s].offset}}

Page(s) ==
    {p[1] : p \in {p \in call[s].seen : /\ p[2] > request[s].offset
                                       /\ p[2] <= request[s].offset + request[s].limit}}

(* One page of the search: its admissible objects up to one more than the    *)
(* limit; one of them seen before is an error.                               *)
coletar(s) ==
    LET r == request[s]
        c == call[s]
        lote == search(c.position)
        wanted == r.offset + r.limit + 1 - Cardinality(c.seen)
        taken == First(wanted, {x \in lote : admissivel(x, c.scope)})
        more == Cardinality(lote) = SEARCH_BATCH_SIZE /\ Cardinality(taken) < wanted
    IN  /\ pc[s] = "collect"
        /\ \/ /\ taken \cap Seen(s) # {}
              /\ Return(s, Failure)
              /\ UNCHANGED call
           \/ /\ taken \cap Seen(s) = {}
              /\ call' = [call EXCEPT
                     ![s].position = @ + Cardinality(lote),
                     ![s].seen = @ \cup {<<x, Cardinality(@) + Rank(x, taken)>> : x \in taken}]
              /\ Goto(s, IF more THEN "collect" ELSE "verify")
              /\ UNCHANGED result
        /\ UNCHANGED <<tables, lock, request>>

(* The postconditions of an isolated view. *)
verificar_resultado(s) ==
    LET r == request[s]
        c == call[s]
        verified == r.isolated => /\ Page(s) \subseteq c.snapshot
                                  /\ SameIdentity(c.decisions, c.resolution)
    IN  /\ pc[s] = "verify"
        /\ Return(s, IF verified
                     THEN View("ADMISSIBLE", Page(s), Cardinality(c.seen) > r.offset + r.limit)
                     ELSE Failure)
        /\ UNCHANGED <<tables, lock, request, call>>

Reader(s) ==
    \/ retrieve_isolated(s) \/ retrieve(s) \/ decidir_dominio(s) \/ snapshot_autorizado(s)
    \/ resolve_read(s) \/ resolver_escopo(s) \/ coletar(s) \/ verificar_resultado(s)

Next ==
    \/ Environment
    \/ \E s \in Sessions : Writer(s) \/ Reader(s)

Spec == Init /\ [][Next]_vars

-----------------------------------------------------------------------------
(* What the constructor of a transition's result refuses.                    *)
validar_desfecho(r, target) ==
    LET authorized == execution_authorized(r.resolution)
        d == r.decision
    IN  /\ d # None =>
              /\ d.target_state = target /\ d.source_state # target
              /\ d.outcome = "not_applicable" <=> d.matched_rule_id = None
        /\ r.causal_event_id # None <=> r.state_changed /\ target = CAUSALLY_EXTINCT_TOKEN
        /\ \/ /\ ~authorized /\ d = None /\ r.observed_state = None
              /\ ~r.state_changed /\ ~r.no_change
           \/ /\ authorized /\ d = None /\ r.observed_state = target
              /\ ~r.state_changed /\ r.no_change
           \/ /\ authorized /\ d # None /\ ~r.no_change
              /\ r.state_changed <=> d.outcome = "admissible"
              /\ r.observed_state = IF r.state_changed THEN target ELSE d.source_state

(* What the constructors of resolutions and of a view refuse.                *)
ValidView(s, v) ==
    /\ call[s].resolution # None => Coherent(call[s].resolution)
    /\ \A d \in call[s].decisions : Coherent(d.resolution)
    /\ v.outcome = "ADMISSIBLE" =>
           /\ execution_authorized(call[s].resolution)
           /\ Cardinality(v.items) <= request[s].limit
           /\ v.has_more => Cardinality(v.items) = request[s].limit

(* The tables keep their types, versions and row locks, and whatever a call  *)
(* returns is something the constructor of its result accepts.               *)
TypeOK ==
    /\ governance \subseteq GovernancePolicy
    /\ accessibility \subseteq AccessibilityPolicy
    /\ \A p, q \in governance : p.key = q.key /\ p.version = q.version => p = q
    /\ \A p, q \in accessibility : p.key = q.key /\ p.version = q.version => p = q
    /\ object \in [Coids -> CognitiveObject \cup {None}]
    /\ membership \subseteq Memberships
    /\ causal_events \in [Events -> Coids \cup {None}]
    /\ \A x \in Coids : lock[x] # None =>
           pc[lock[x]] \in {"evaluate", "write"} /\ request[lock[x]].coid = x
    /\ \A s \in Sessions : result[s] # None /\ result[s].kind = "TRANSITION" =>
           validar_desfecho(result[s], request[s].target)
    /\ \A s \in Sessions : result[s] # None /\ result[s].kind = "VIEW" =>
           ValidView(s, result[s])

(* A state is only changed as both authorities have it: a published version  *)
(* of the governance policy admits the transition in the caller's context, a *)
(* published version of an accessibility policy under it admits the edge     *)
(* from the state that really was there, and an extinction has an event in   *)
(* the history of its subject.                                               *)
KeepsAccessibility ==
    \A x \in Coids :
        object[x] # None /\ object'[x].accessibility # object[x].accessibility =>
            \E s \in Sessions :
                /\ pc[s] = "write" /\ request[s].coid = x
                /\ \E p \in governance :
                       /\ Identity(p) = call[s].resolution.policy
                       /\ Admits(Applicable(p, "accessibility_transition", request[s].context))
                       /\ \E q \in accessibility :
                              /\ Identity(q) = call[s].decision.policy
                              /\ q.governance_policy_key = p.key
                              /\ Admits({r \in q.rules :
                                     RuleMatches(r, object[x].accessibility,
                                                 object'[x].accessibility)})
                /\ object'[x].accessibility = CAUSALLY_EXTINCT_TOKEN =>
                       \E e \in Events : causal_events[e] = x

TransitionAdmitted == [][KeepsAccessibility]_vars

(* Isolation: an isolated view was authorized by one published version for   *)
(* every declared domain alone, not for their union only, and holds members  *)
(* of these domains only.                                                    *)
IsolationHolds ==
    \A s \in Sessions :
        result[s] # None /\ result[s].kind = "VIEW" /\ request[s].isolated
        /\ result[s].outcome = "ADMISSIBLE" =>
            /\ result[s].items \subseteq Members(request[s].context.domain_ids)
            /\ \E p \in governance :
                   /\ Identity(p) = call[s].resolution.policy
                   /\ \A d \in request[s].context.domain_ids :
                          Admits(Applicable(p, "read", Singleton(request[s].context, d)))

=============================================================================
