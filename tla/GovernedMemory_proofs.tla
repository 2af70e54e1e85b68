------------------------ MODULE GovernedMemory_proofs ------------------------
(* Proofs about Governance, GovernedMemory and Compliance for any number of   *)
(* sessions, any policies, rules and contexts that may be published, and any  *)
(* requests and observations.                                                 *)
EXTENDS GovernedMemory, Compliance, WellFoundedInduction, FiniteSetTheorems, TLAPS

(* What a resolution guarantees. *)

Below == OpToRel(<, Nat)

(* A set of naturals has a least element: some rule is the first. *)
LEMMA LeastNumber ==
    ASSUME NEW S \in SUBSET Nat, S # {}
    PROVE  \E m \in S : \A n \in S : m <= n
<1>1. IsWellFoundedOn(Below, Nat)
    BY NatLessThanWellFounded DEF Below
<1>2. PICK m \in S : \A n \in S : <<n, m>> \notin Below
    BY <1>1, WFMin
<1>3. ASSUME NEW n \in S PROVE m <= n
  <2>1. n \in Nat /\ m \in Nat
    OBVIOUS
  <2>2. n < m => <<n, m>> \in Below
    BY <2>1 DEF Below, OpToRel
  <2>. QED BY <2>1, <2>2, <1>2
<1>. QED BY <1>3

(* A bounded one has a greatest: some version is the last. *)
LEMMA GreatestVersion ==
    ASSUME NEW S \in SUBSET Versions, S # {}
    PROVE  \E m \in S : \A n \in S : n <= m
<1> DEFINE T == {MaxVersion - n : n \in S}
<1>1. MaxVersion \in Nat
    BY GovernanceAssumption
<1>2. T \in SUBSET Nat /\ T # {}
  <2>1. ASSUME NEW n \in S PROVE MaxVersion - n \in Nat
    BY <1>1 DEF Versions
  <2>. QED BY <2>1
<1>3. PICK t \in T : \A u \in T : t <= u
  <2> HIDE DEF T
  <2>. QED BY <1>2, LeastNumber
<1>4. PICK m \in S : t = MaxVersion - m
    OBVIOUS
<1>5. ASSUME NEW n \in S PROVE n <= m
  <2>1. MaxVersion - m <= MaxVersion - n
    BY <1>3, <1>4
  <2>2. n \in Int /\ m \in Int
    BY DEF Versions
  <2>. QED BY <2>1, <2>2, <1>1
<1>. QED BY <1>5

(* The rule cited for a decision is one of those that decide. *)
LEMMA CitedRule ==
    ASSUME NEW rules, rules # {}, \A r \in rules : r.rule_id \in Nat
    PROVE  Cited(rules) \in rules
<1> DEFINE ids == {r.rule_id : r \in rules}
<1>1. PICK m \in ids : \A n \in ids : m <= n
  <2>1. ids \in SUBSET Nat /\ ids # {}
    OBVIOUS
  <2>. HIDE DEF ids
  <2>. QED BY <2>1, LeastNumber
<1>2. PICK r \in rules : r.rule_id = m
    OBVIOUS
<1>3. \A q \in rules : r.rule_id <= q.rule_id
    BY <1>1, <1>2
<1>. QED BY <1>3 DEF Cited

(* The version found is one of those in force; none is later. *)
LEMMA EffectiveVersion ==
    ASSUME NEW policies, \A p \in policies : p.version \in Versions,
           NEW key, NEW moment, effective_versions(policies, key, moment) # {}
    PROVE  /\ effective_version_at(policies, key, moment)
                  \in effective_versions(policies, key, moment)
           /\ \A q \in effective_versions(policies, key, moment) :
                  q.version <= effective_version_at(policies, key, moment).version
<1> DEFINE candidates == effective_versions(policies, key, moment)
           versions == {p.version : p \in candidates}
<1>1. candidates \subseteq policies
    BY DEF effective_versions
<1>2. PICK m \in versions : \A n \in versions : n <= m
  <2>1. versions \in SUBSET Versions /\ versions # {}
    BY <1>1
  <2>. HIDE DEF versions
  <2>. QED BY <2>1, GreatestVersion
<1>3. PICK p \in candidates : p.version = m
    OBVIOUS
<1>4. \A q \in candidates : q.version <= p.version
    BY <1>2, <1>3
<1>. QED BY <1>4 DEF effective_version_at

(* The decision of rules: admissible without a denial among some, whoever is *)
(* first; a rule is cited exactly when some apply.                           *)
LEMMA Evaluated ==
    ASSUME NEW rules
    PROVE  /\ evaluate(rules) = "admissible" <=> Admits(rules)
           /\ evaluate(rules) \in {"admissible", "inadmissible"} <=> rules # {}
           /\ evaluate(rules) # "prohibited"
BY DEF evaluate, Admits, Denials

(* Provenance: whatever is authorized was admitted by a published version in *)
(* force, whose rules that apply deny nothing, and engages no capability     *)
(* the platform prohibits (DENY_OVERRIDES, POLICY ABSENCE != ADMISSION).     *)
THEOREM AuthorizedByVersion ==
    ASSUME NEW policies \in SUBSET GovernancePolicy, NEW descriptor, NEW context,
           NEW key, NEW moment,
           execution_authorized(resolve(policies, descriptor, context, key, moment))
    PROVE  /\ assess_capability(descriptor) = {}
           /\ \E p \in policies :
                  /\ p.key = key /\ InForce(p, moment)
                  /\ Identity(p) = resolve(policies, descriptor, context, key, moment).policy
                  /\ Admits(Applicable(p, descriptor.operation, context))
<1> DEFINE p == effective_version_at(policies, key, moment)
           rules == Applicable(p, descriptor.operation, context)
           r == resolve(policies, descriptor, context, key, moment)
<1>1. r.outcome = "admissible"
    BY DEF execution_authorized
<1>2. assess_capability(descriptor) = {} /\ p # None
    BY <1>1 DEF resolve, Resolution
<1>3. r.policy = Identity(p) /\ evaluate(rules) = "admissible"
    BY <1>1, <1>2 DEF resolve, Resolution
<1>4. p \in effective_versions(policies, key, moment)
  <2>1. effective_versions(policies, key, moment) # {}
    BY <1>2 DEF effective_version_at
  <2>. QED BY <2>1, EffectiveVersion DEF GovernancePolicy
<1>5. p \in policies /\ p.key = key /\ InForce(p, moment)
    BY <1>4 DEF effective_versions
<1>. QED BY <1>2, <1>3, <1>5, Evaluated

(* The constructor of a resolution never refuses what resolve gives it.      *)
THEOREM ResolutionsCoherent ==
    ASSUME NEW policies \in SUBSET GovernancePolicy, NEW descriptor, NEW context,
           NEW key, NEW moment
    PROVE  Coherent(resolve(policies, descriptor, context, key, moment))
<1> DEFINE p == effective_version_at(policies, key, moment)
           rules == Applicable(p, descriptor.operation, context)
           deciding == IF Denials(rules) = {} THEN rules ELSE Denials(rules)
           blocked == assess_capability(descriptor)
           r == resolve(policies, descriptor, context, key, moment)
<1>1. CASE blocked # {}
    BY <1>1 DEF resolve, Resolution, Coherent
<1>2. CASE blocked = {} /\ p = None
    BY <1>2 DEF resolve, Resolution, Coherent
<1>3. CASE blocked = {} /\ p # None
  <2>1. /\ r.outcome = evaluate(rules) /\ r.policy = Identity(p)
        /\ r.matched_rule_id = IF rules = {} THEN None ELSE Cited(deciding).rule_id
        /\ r.blocked_capabilities = {}
    BY <1>3 DEF resolve, Resolution
  <2>2. p \in effective_versions(policies, key, moment)
    <3>1. effective_versions(policies, key, moment) # {}
      BY <1>3 DEF effective_version_at
    <3>. QED BY <3>1, EffectiveVersion DEF GovernancePolicy
  <2>3. p \in GovernancePolicy
    BY <2>2 DEF effective_versions
  <2>4. Identity(p) # None
    BY <2>3, GovernanceAssumption DEF Identity, GovernancePolicy
  <2>5. rules # {} => Cited(deciding).rule_id # None
    <3>1. ASSUME rules # {} PROVE deciding # {} /\ \A q \in deciding : q.rule_id \in Nat
      BY <3>1, <2>3 DEF Denials, Applicable, GovernancePolicy, GovernanceRule
    <3>2. ASSUME rules # {} PROVE Cited(deciding).rule_id \in Nat
      <4>. HIDE DEF deciding
      <4>. QED BY <3>1, <3>2, CitedRule
    <3>. QED BY <3>2, GovernanceAssumption
  <2>. HIDE DEF r, rules, deciding, p
  <2>6. Coherent(r)
    BY <2>1, <2>4, <2>5, Evaluated DEF Coherent
  <2>. QED BY <2>6 DEF r
<1>. QED BY <1>1, <1>2, <1>3

-----------------------------------------------------------------------------
(* The sessions and the tables. *)

WriterLabels == {"resolve", "lock", "evaluate", "write"}
ReaderLabels == {"decide", "read", "scope", "collect", "verify"}

(* The tables, the locks and the program counters are what they should be. *)
Tables ==
    /\ governance \in SUBSET Publications
    /\ accessibility \in SUBSET AccessibilityPublications
    /\ \A p, q \in governance : p.key = q.key /\ p.version = q.version => p = q
    /\ object \in [Coids -> CognitiveObject \cup {None}]
    /\ causal_events \in [Events -> Coids \cup {None}]
    /\ lock \in [Coids -> Sessions \cup {None}]
    /\ pc \in [Sessions -> {"idle", "done"} \cup WriterLabels \cup ReaderLabels]
    /\ request \in [Sessions -> Transitions \cup Retrievals \cup {None}]
    /\ call = [s \in Sessions |-> call[s]]
    /\ result = [s \in Sessions |-> result[s]]

(* A published version, identified as decided, admits the operation. *)
Authority(policies, identity, key, operation, context) ==
    \E p \in policies : /\ p.key = key /\ Identity(p) = identity
                        /\ Admits(Applicable(p, operation, context))

Asked(s) ==
    /\ pc[s] \in WriterLabels =>
           /\ request[s] \in Transitions
           /\ call[s] = [resolution |-> call[s].resolution, decision |-> call[s].decision]
    /\ pc[s] \in ReaderLabels =>
           /\ request[s] \in Retrievals
           /\ call[s] = [decisions |-> call[s].decisions, snapshot |-> call[s].snapshot,
                         resolution |-> call[s].resolution, scope |-> call[s].scope,
                         position |-> call[s].position, seen |-> call[s].seen]

(* Past its resolution, a transition has the authority of a governance       *)
(* policy; past the lock, what it saw is still there; before it writes, an   *)
(* accessibility policy admits the edge.                                     *)
Governed(s) ==
    pc[s] \in {"lock", "evaluate", "write"} =>
        Authority(governance, call[s].resolution.policy, request[s].key,
                  "accessibility_transition", request[s].context)

Held(s) ==
    pc[s] \in {"evaluate", "write"} =>
        /\ lock[request[s].coid] = s
        /\ object[request[s].coid] # None
        /\ call[s].decision.source_state = object[request[s].coid].accessibility

EdgeAdmitted(s) ==
    pc[s] = "write" =>
        \E q \in accessibility :
            /\ Identity(q) = call[s].decision.policy
            /\ q.governance_policy_key = request[s].key
            /\ Admits({r \in q.rules :
                   RuleMatches(r, object[request[s].coid].accessibility, request[s].target)})

(* Every decided domain that is authorized has an authority of its own; past *)
(* the decisions of an isolated call all domains are, and the snapshot holds *)
(* their members.                                                            *)
Decides(s) ==
    pc[s] \in ReaderLabels =>
        \A d \in call[s].decisions :
            execution_authorized(d.resolution) =>
                Authority(governance, d.resolution.policy, request[s].key, "read",
                          Singleton(request[s].context, d.domain_id))

Cleared(s) ==
    pc[s] \in ReaderLabels \ {"decide"} /\ request[s].isolated =>
        /\ Decided(s) = request[s].context.domain_ids
        /\ \A d \in call[s].decisions : execution_authorized(d.resolution)
        /\ call[s].snapshot \subseteq Members(request[s].context.domain_ids)

Isolated(s) ==
    result[s] # None /\ result[s].kind = "VIEW" /\ request[s].isolated
    /\ result[s].outcome = "ADMISSIBLE" =>
        /\ result[s].items \subseteq Members(request[s].context.domain_ids)
        /\ \E p \in governance :
               /\ Identity(p) = call[s].resolution.policy
               /\ \A d \in request[s].context.domain_ids :
                      Admits(Applicable(p, "read", Singleton(request[s].context, d)))

(* Isolated(s) only speaks of a call that ended. *)
Ended(s) == result[s] # None => pc[s] = "done"

SessionInv(s) ==
    /\ Asked(s) /\ Governed(s) /\ Held(s) /\ EdgeAdmitted(s)
    /\ Decides(s) /\ Cleared(s) /\ Isolated(s) /\ Ended(s)

IInv == Tables /\ \A s \in Sessions : SessionInv(s)

(* The set of identities agrees with the only one resolved. *)
LEMMA SameVersion ==
    ASSUME NEW p \in GovernancePolicy, NEW q \in GovernancePolicy, Identity(p) = Identity(q)
    PROVE  p.key = q.key /\ p.version = q.version
BY DEF Identity, GovernancePolicy

LEMMA Published ==
    ASSUME Tables
    PROVE  governance \in SUBSET GovernancePolicy /\ accessibility \in SUBSET AccessibilityPolicy
BY GovernedMemoryAssumption DEF Tables

(* What is published and joined stays. *)
Growth ==
    /\ governance \subseteq governance'
    /\ accessibility \subseteq accessibility'
    /\ membership \subseteq membership'

(* A step that is not of session u changes nothing u relies on. *)
Unaffected(u) ==
    /\ pc'[u] = pc[u] /\ request'[u] = request[u]
    /\ call'[u] = call[u] /\ result'[u] = result[u]
    /\ \A x \in Coids : lock[x] = u =>
           /\ lock'[x] = u
           /\ object[x] # None =>
                  object'[x] # None /\ object'[x].accessibility = object[x].accessibility

LEMMA AuthorityGrows ==
    ASSUME NEW policies, NEW more, policies \subseteq more,
           NEW identity, NEW key, NEW operation, NEW context,
           Authority(policies, identity, key, operation, context)
    PROVE  Authority(more, identity, key, operation, context)
BY DEF Authority

LEMMA OthersKept ==
    ASSUME IInv, NEW u \in Sessions, Growth, Unaffected(u)
    PROVE  SessionInv(u)'
<1>. USE DEF Growth, Unaffected
<1>1. SessionInv(u)
    BY DEF IInv
<1>2. Asked(u)' /\ Ended(u)'
    BY <1>1 DEF SessionInv, Asked, Ended
<1>3. Governed(u)'
  <2>1. CASE pc[u] \in {"lock", "evaluate", "write"}
    <3>1. Authority(governance, call[u].resolution.policy, request[u].key,
                    "accessibility_transition", request[u].context)
      BY <2>1, <1>1 DEF SessionInv, Governed
    <3>. QED BY <3>1, AuthorityGrows DEF Governed
  <2>. QED BY <2>1 DEF Governed
<1>4. pc[u] \in {"evaluate", "write"} =>
          /\ lock'[request[u].coid] = u /\ object'[request[u].coid] # None
          /\ object'[request[u].coid].accessibility = object[request[u].coid].accessibility
  <2>1. pc[u] \in {"evaluate", "write"} => request[u].coid \in Coids
    BY <1>1, GovernedMemoryAssumption
       DEF SessionInv, Asked, WriterLabels, TransitionRequest
  <2>. QED BY <2>1, <1>1 DEF SessionInv, Held
<1>5. Held(u)'
    BY <1>1, <1>4 DEF SessionInv, Held
<1>6. EdgeAdmitted(u)'
    BY <1>1, <1>4 DEF SessionInv, EdgeAdmitted
<1>7. Decides(u)'
  <2>1. CASE pc[u] \in ReaderLabels
    <3>1. ASSUME NEW d \in call[u].decisions, execution_authorized(d.resolution)
          PROVE  Authority(governance', d.resolution.policy, request[u].key, "read",
                           Singleton(request[u].context, d.domain_id))
      <4>1. Authority(governance, d.resolution.policy, request[u].key, "read",
                      Singleton(request[u].context, d.domain_id))
        BY <2>1, <3>1, <1>1 DEF SessionInv, Decides
      <4>. QED BY <4>1, AuthorityGrows
    <3>. QED BY <3>1 DEF Decides
  <2>. QED BY <2>1 DEF Decides
<1>8. Cleared(u)'
    BY <1>1 DEF SessionInv, Cleared, Decided, Members
<1>9. Isolated(u)'
    BY <1>1 DEF SessionInv, Isolated, Members
<1>. QED BY <1>2, <1>3, <1>5, <1>6, <1>7, <1>8, <1>9 DEF SessionInv

(* Nothing is asked at first. *)
LEMMA InitIInv == Init => IInv
<1> SUFFICES ASSUME Init PROVE IInv
    OBVIOUS
<1>1. \A p, q \in governance : p.key = q.key /\ p.version = q.version => p = q
    BY GovernedMemoryAssumption DEF Init
<1>2. [accessibility |-> "active", deleted |-> FALSE] \in CognitiveObject
    BY DEF CognitiveObject, ACCESSIBILITY_STATE_TOKENS
<1>3. Tables
    BY <1>1, <1>2 DEF Init, Tables
<1>4. ASSUME NEW s \in Sessions PROVE SessionInv(s)
  <2>1. pc[s] = "idle" /\ result[s] = None
    BY DEF Init
  <2>. QED BY <2>1 DEF SessionInv, Asked, Governed, Held, EdgeAdmitted, Decides, Cleared,
                       Isolated, Ended, WriterLabels, ReaderLabels
<1>. QED BY <1>3, <1>4 DEF IInv

(* What others commit: policies, objects, memberships and events. *)
LEMMA EnvironmentKeeps ==
    ASSUME IInv, Environment
    PROVE  IInv'
<1>1. Tables /\ \A s \in Sessions : SessionInv(s)
    BY DEF IInv
<1>. USE DEF sessionVars
<1>2. ASSUME NEW p \in Publications, publish_version(p) PROVE IInv'
  <2>1. Tables'
    BY <1>1, <1>2 DEF Tables, publish_version
  <2>2. ASSUME NEW u \in Sessions PROVE Growth /\ Unaffected(u)
    BY <1>2 DEF publish_version, Growth, Unaffected
  <2>. QED BY <2>1, <2>2, OthersKept DEF IInv
<1>3. ASSUME NEW p \in AccessibilityPublications, publish_accessibility(p) PROVE IInv'
  <2>1. Tables'
    BY <1>1, <1>3 DEF Tables, publish_accessibility
  <2>2. ASSUME NEW u \in Sessions PROVE Growth /\ Unaffected(u)
    BY <1>3 DEF publish_accessibility, Growth, Unaffected
  <2>. QED BY <2>1, <2>2, OthersKept DEF IInv
<1>4. ASSUME NEW x \in Coids, add(x) PROVE IInv'
  <2>1. [accessibility |-> "active", deleted |-> FALSE] \in CognitiveObject
    BY DEF CognitiveObject, ACCESSIBILITY_STATE_TOKENS
  <2>2. Tables'
    BY <1>1, <1>4, <2>1 DEF Tables, add
  <2>3. ASSUME NEW u \in Sessions PROVE Growth /\ Unaffected(u)
    BY <1>1, <1>4 DEF add, Growth, Unaffected, Tables
  <2>. QED BY <2>2, <2>3, OthersKept DEF IInv
<1>5. ASSUME NEW x \in Coids, soft_delete(x) PROVE IInv'
  <2>1. object[x] \in CognitiveObject
    BY <1>1, <1>5 DEF Tables, soft_delete
  <2>2. [object[x] EXCEPT !.deleted = TRUE] \in CognitiveObject
    BY <2>1 DEF CognitiveObject
  <2>3. Tables'
    BY <1>1, <1>5, <2>2 DEF Tables, soft_delete
  <2>4. ASSUME NEW u \in Sessions PROVE Growth /\ Unaffected(u)
    BY <1>1, <1>5, GovernedMemoryAssumption DEF soft_delete, Growth, Unaffected, Tables
  <2>. QED BY <2>3, <2>4, OthersKept DEF IInv
<1>6. ASSUME NEW m \in Memberships, add_membership(m) PROVE IInv'
  <2>1. Tables'
    BY <1>1, <1>6 DEF Tables, add_membership
  <2>2. ASSUME NEW u \in Sessions PROVE Growth /\ Unaffected(u)
    BY <1>6 DEF add_membership, Growth, Unaffected
  <2>. QED BY <2>1, <2>2, OthersKept DEF IInv
<1>7. ASSUME NEW e \in Events, NEW x \in Coids, record(e, x) PROVE IInv'
  <2>1. Tables'
    BY <1>1, <1>7 DEF Tables, record
  <2>2. ASSUME NEW u \in Sessions PROVE Growth /\ Unaffected(u)
    BY <1>7 DEF record, Growth, Unaffected
  <2>. QED BY <2>1, <2>2, OthersKept DEF IInv
<1>. QED BY <1>2, <1>3, <1>4, <1>5, <1>6, <1>7 DEF Environment

(* A step of one session: the tables and that session are what is left to    *)
(* prove.                                                                    *)
LEMMA StepKeeps ==
    ASSUME IInv, NEW s \in Sessions, Tables', SessionInv(s)', Growth,
           \A u \in Sessions \ {s} : Unaffected(u)
    PROVE  IInv'
<1>1. ASSUME NEW u \in Sessions \ {s} PROVE SessionInv(u)'
    BY OthersKept
<1>. QED BY <1>1 DEF IInv

LEMMA TransitionKeeps ==
    ASSUME IInv, NEW s \in Sessions, transition(s)
    PROVE  IInv'
<1>. USE DEF transition, Goto, tables
<1>1. Tables /\ SessionInv(s)
    BY DEF IInv
<1>2. Tables'
    BY <1>1 DEF Tables, WriterLabels
<1>3. /\ pc'[s] = "resolve" /\ request'[s] \in Transitions
      /\ call'[s] = [resolution |-> None, decision |-> None]
      /\ result'[s] = result[s] /\ pc[s] = "idle"
    BY <1>1 DEF Tables
<1>4. SessionInv(s)'
    BY <1>1, <1>3 DEF SessionInv, Asked, Governed, Held, EdgeAdmitted, Decides, Cleared,
                      Isolated, Ended, WriterLabels, ReaderLabels
<1>5. Growth /\ \A u \in Sessions \ {s} : Unaffected(u)
    BY <1>1 DEF Growth, Unaffected, Tables
<1>. QED BY <1>2, <1>4, <1>5, StepKeeps

(* What a resolution that authorizes a request of a session relies on. *)
LEMMA ResolvedAuthority ==
    ASSUME Tables, NEW descriptor, NEW context, NEW key, NEW moment,
           execution_authorized(resolve(governance, descriptor, context, key, moment))
    PROVE  Authority(governance, resolve(governance, descriptor, context, key, moment).policy,
                     key, descriptor.operation, context)
BY Published, AuthorizedByVersion DEF Authority

LEMMA ResolveTransitionKeeps ==
    ASSUME IInv, NEW s \in Sessions, resolve_transition(s)
    PROVE  IInv'
<1> DEFINE r == request[s]
           resolution == resolve(governance, r.descriptor, r.context, r.key, r.moment)
<1>. USE DEF Goto, Return, tables
<1>1. Tables /\ SessionInv(s)
    BY DEF IInv
<1>2. r \in Transitions /\ pc[s] = "resolve"
      /\ call[s] = [resolution |-> call[s].resolution, decision |-> call[s].decision]
    BY <1>1 DEF resolve_transition, SessionInv, Asked, WriterLabels
<1>3. r.descriptor.operation = "accessibility_transition"
    BY <1>2, GovernedMemoryAssumption
<1>4. /\ call' = [call EXCEPT ![s].resolution = resolution]
      /\ pc'[s] \in {"lock", "done"}
      /\ pc'[s] = "lock" => execution_authorized(resolution) /\ result' = result
      /\ pc'[s] = "done" => result'[s].kind = "TRANSITION"
      /\ pc' = [pc EXCEPT ![s] = pc'[s]] /\ result' = [result EXCEPT ![s] = result'[s]]
      /\ UNCHANGED <<tables, lock, request>>
    BY <1>1, <1>2 DEF resolve_transition, Tables, TransitionResult
<1>5. /\ call'[s].resolution = resolution
      /\ call'[s] = [resolution |-> call'[s].resolution, decision |-> call'[s].decision]
    BY <1>1, <1>2, <1>4 DEF Tables
<1>. HIDE DEF resolution
<1>6. Tables'
    BY <1>1, <1>4 DEF Tables, WriterLabels
<1>7. Governed(s)'
  <2>1. CASE pc'[s] = "lock"
    <3>1. Authority(governance, resolution.policy, r.key, r.descriptor.operation, r.context)
      BY <1>1, <1>4, <2>1, ResolvedAuthority DEF resolution
    <3>. QED BY <3>1, <1>3, <1>4, <1>5 DEF Governed
  <2>. QED BY <2>1, <1>4 DEF Governed
<1>8. (Asked(s) /\ Held(s) /\ EdgeAdmitted(s) /\ Decides(s) /\ Cleared(s))'
    BY <1>2, <1>4, <1>5 DEF Asked, Held, EdgeAdmitted, Decides, Cleared, WriterLabels,
                            ReaderLabels
<1>9. Ended(s)' /\ Isolated(s)'
    BY <1>1, <1>2, <1>4 DEF SessionInv, Ended, Isolated
<1>10. Growth /\ \A u \in Sessions \ {s} : Unaffected(u)
    BY <1>1, <1>4 DEF Growth, Unaffected, Tables
<1>. QED BY <1>6, <1>7, <1>8, <1>9, <1>10, StepKeeps DEF SessionInv

(* A writer that ends leaves nothing to rely on; what it held is free. *)
LEMMA WriterEnds ==
    ASSUME IInv, NEW s \in Sessions, pc[s] \in WriterLabels,
           pc' = [pc EXCEPT ![s] = "done"], NEW outcome, outcome.kind # "VIEW",
           result' = [result EXCEPT ![s] = outcome], request' = request,
           call' = [call EXCEPT ![s] = call'[s]],
           UNCHANGED <<governance, accessibility, membership, causal_events>>,
           object' \in [Coids -> CognitiveObject \cup {None}],
           lock' \in [Coids -> Sessions \cup {None}],
           \A u \in Sessions \ {s} : \A x \in Coids :
               lock[x] = u => lock'[x] = u /\ object'[x] = object[x]
    PROVE  IInv'
<1>1. Tables /\ SessionInv(s)
    BY DEF IInv
<1>2. Tables'
    BY <1>1 DEF Tables
<1>3. pc'[s] = "done" /\ result'[s].kind # "VIEW"
    BY <1>1 DEF Tables
<1>4. SessionInv(s)'
    BY <1>3 DEF SessionInv, Asked, Governed, Held, EdgeAdmitted, Decides, Cleared, Isolated,
                Ended, WriterLabels, ReaderLabels
<1>5. Growth
    BY DEF Growth
<1>6. ASSUME NEW u \in Sessions \ {s} PROVE Unaffected(u)
    BY <1>1 DEF Unaffected, Tables
<1>. QED BY <1>2, <1>4, <1>5, <1>6, StepKeeps

LEMMA RefreshKeeps ==
    ASSUME IInv, NEW s \in Sessions, refresh_for_update(s)
    PROVE  IInv'
<1> DEFINE r == request[s]
           source == object[r.coid].accessibility
<1>. USE DEF Goto, Return, tables
<1>1. Tables /\ SessionInv(s)
    BY DEF IInv
<1>2. r \in Transitions /\ pc[s] = "lock" /\ r.coid \in Coids
      /\ call[s] = [resolution |-> call[s].resolution, decision |-> call[s].decision]
    BY <1>1, GovernedMemoryAssumption
       DEF refresh_for_update, SessionInv, Asked, WriterLabels, TransitionRequest
<1>3. CASE pc' = [pc EXCEPT ![s] = "done"] /\ UNCHANGED <<call, lock>>
  <2>1. PICK outcome : outcome.kind # "VIEW" /\ result' = [result EXCEPT ![s] = outcome]
    BY <1>1, <1>2, <1>3 DEF refresh_for_update, Failure, TransitionResult, Tables
  <2>2. UNCHANGED <<tables, request>> /\ call' = [call EXCEPT ![s] = call'[s]]
    BY <1>1, <1>3 DEF refresh_for_update, Tables
  <2>. QED BY <1>1, <1>2, <1>3, <2>1, <2>2, WriterEnds DEF Tables, WriterLabels
<1>4. CASE /\ object[r.coid] # None /\ lock[r.coid] = None
           /\ lock' = [lock EXCEPT ![r.coid] = s]
           /\ call' = [call EXCEPT ![s].decision = [source_state |-> source]]
           /\ pc' = [pc EXCEPT ![s] = "evaluate"] /\ result' = result
           /\ UNCHANGED <<tables, request>>
  <2>1. Tables'
    BY <1>1, <1>2, <1>4 DEF Tables, WriterLabels
  <2>2. /\ pc'[s] = "evaluate" /\ lock'[r.coid] = s
        /\ call'[s].decision.source_state = source
        /\ call'[s].resolution = call[s].resolution
        /\ call'[s] = [resolution |-> call'[s].resolution, decision |-> call'[s].decision]
    BY <1>1, <1>2, <1>4 DEF Tables
  <2>3. Governed(s)'
    BY <1>1, <1>2, <1>4, <2>2 DEF SessionInv, Governed
  <2>4. (Asked(s) /\ Held(s) /\ EdgeAdmitted(s) /\ Decides(s) /\ Cleared(s))'
    BY <1>2, <1>4, <2>2 DEF Asked, Held, EdgeAdmitted, Decides, Cleared, WriterLabels,
                            ReaderLabels
  <2>5. Ended(s)' /\ Isolated(s)'
    BY <1>1, <1>2, <1>4 DEF SessionInv, Ended, Isolated
  <2>6. Growth /\ \A u \in Sessions \ {s} : Unaffected(u)
    <3>1. None \notin Sessions
      BY GovernedMemoryAssumption
    <3>. QED BY <1>1, <1>2, <1>4, <3>1 DEF Growth, Unaffected, Tables
  <2>. QED BY <2>1, <2>3, <2>4, <2>5, <2>6, StepKeeps DEF SessionInv
<1>. QED BY <1>2, <1>3, <1>4 DEF refresh_for_update

(* Who ends frees what it held and nothing else. *)
LEMMA ReleaseKeeps ==
    ASSUME Tables, NEW s \in Sessions, Release(s)
    PROVE  /\ lock' \in [Coids -> Sessions \cup {None}]
           /\ \A u \in Sessions \ {s}, x \in Coids : lock[x] = u => lock'[x] = u
BY DEF Release, Tables

LEMMA EvaluateKeeps ==
    ASSUME IInv, NEW s \in Sessions, evaluate_transition(s)
    PROVE  IInv'
<1> DEFINE r == request[s]
           policy == effective_version_at(accessibility, r.policy_key, r.moment)
           source == call[s].decision.source_state
           decision == avaliar(source, r.target, policy)
<1>. USE DEF Goto, Return, tables
<1>1. Tables /\ SessionInv(s)
    BY DEF IInv
<1>2. r \in Transitions /\ pc[s] = "evaluate" /\ r.coid \in Coids
      /\ call[s] = [resolution |-> call[s].resolution, decision |-> call[s].decision]
    BY <1>1, GovernedMemoryAssumption
       DEF evaluate_transition, SessionInv, Asked, WriterLabels, TransitionRequest
<1>3. CASE pc' = [pc EXCEPT ![s] = "done"] /\ Release(s)
  <2>1. PICK outcome : outcome.kind # "VIEW" /\ result' = [result EXCEPT ![s] = outcome]
    BY <1>1, <1>2, <1>3 DEF evaluate_transition, Failure, TransitionResult, Tables
  <2>2. UNCHANGED <<tables, request>> /\ call' = [call EXCEPT ![s] = call'[s]]
    BY <1>1, <1>2, <1>3 DEF evaluate_transition, Tables
  <2>3. /\ lock' \in [Coids -> Sessions \cup {None}]
        /\ object' \in [Coids -> CognitiveObject \cup {None}]
        /\ \A u \in Sessions \ {s} : \A x \in Coids :
               lock[x] = u => lock'[x] = u /\ object'[x] = object[x]
    BY <1>1, <1>3, <2>2, ReleaseKeeps DEF Tables
  <2>4. pc[s] \in WriterLabels
    BY <1>2 DEF WriterLabels
  <2>. QED BY <1>3, <2>1, <2>2, <2>3, <2>4, WriterEnds
<1>4. CASE /\ Subordinate(s, policy) /\ decision.outcome = "admissible"
           /\ call' = [call EXCEPT ![s].decision = decision]
           /\ pc' = [pc EXCEPT ![s] = "write"]
           /\ UNCHANGED <<tables, request, lock, result>>
  <2>1. Tables'
    BY <1>1, <1>2, <1>4 DEF Tables, WriterLabels
  <2>2. /\ pc'[s] = "write"
        /\ call'[s].decision = decision
        /\ call'[s].resolution = call[s].resolution
        /\ call'[s] = [resolution |-> call'[s].resolution, decision |-> call'[s].decision]
    BY <1>1, <1>2, <1>4 DEF Tables
  <2>3. Governed(s)'
    BY <1>1, <1>2, <1>4, <2>2 DEF SessionInv, Governed
  <2>4. policy # None /\ decision.policy = Identity(policy) /\ decision.source_state = source
        /\ Admits({q \in policy.rules : RuleMatches(q, source, r.target)})
    BY <1>4, Evaluated DEF avaliar, Decision
  <2>5. policy \in accessibility
    <3>1. effective_versions(accessibility, r.policy_key, r.moment) # {}
      BY <2>4 DEF effective_version_at
    <3>2. \A q \in accessibility : q.version \in Versions
      BY <1>1, Published DEF AccessibilityPolicy
    <3>. QED BY <3>1, <3>2, EffectiveVersion DEF effective_versions
  <2>6. policy.governance_policy_key = r.key
    BY <1>4, <2>4 DEF Subordinate
  <2>7. Held(s)'
    BY <1>1, <1>2, <1>4, <2>2, <2>4 DEF SessionInv, Held
  <2>. HIDE DEF decision, policy
  <2>8. EdgeAdmitted(s)'
    BY <1>1, <1>2, <1>4, <2>2, <2>4, <2>5, <2>6 DEF SessionInv, Held, EdgeAdmitted
  <2>9. (Asked(s) /\ Decides(s) /\ Cleared(s))'
    BY <1>2, <1>4, <2>2 DEF Asked, Decides, Cleared, WriterLabels, ReaderLabels
  <2>10. Ended(s)' /\ Isolated(s)'
    BY <1>1, <1>2, <1>4 DEF SessionInv, Ended, Isolated
  <2>11. Growth /\ \A u \in Sessions \ {s} : Unaffected(u)
    BY <1>1, <1>4 DEF Growth, Unaffected, Tables
  <2>. QED BY <2>1, <2>3, <2>7, <2>8, <2>9, <2>10, <2>11, StepKeeps DEF SessionInv
<1>. QED BY <1>2, <1>3, <1>4 DEF evaluate_transition

LEMMA WriteKeeps ==
    ASSUME IInv, NEW s \in Sessions, transition_write(s)
    PROVE  IInv'
<1> DEFINE r == request[s]
<1>. USE DEF Goto, Return, tables
<1>1. Tables /\ SessionInv(s)
    BY DEF IInv
<1>2. r \in Transitions /\ pc[s] = "write" /\ r.coid \in Coids
      /\ r.target \in ACCESSIBILITY_STATE_TOKENS
    BY <1>1, GovernedMemoryAssumption
       DEF transition_write, SessionInv, Asked, WriterLabels, TransitionRequest
<1>3. lock[r.coid] = s /\ object[r.coid] \in CognitiveObject
    BY <1>1, <1>2 DEF SessionInv, Held, Tables
<1>4. [object[r.coid] EXCEPT !.accessibility = r.target] \in CognitiveObject
    BY <1>2, <1>3 DEF CognitiveObject
<1>5. \/ object' = object
      \/ object' = [object EXCEPT ![r.coid].accessibility = r.target]
    BY <1>2 DEF transition_write
<1>6. object' \in [Coids -> CognitiveObject \cup {None}]
    BY <1>1, <1>2, <1>4, <1>5 DEF Tables
<1>7. \A u \in Sessions \ {s}, x \in Coids : lock[x] = u => object'[x] = object[x]
    BY <1>1, <1>3, <1>5 DEF Tables
<1>8. PICK outcome : outcome.kind # "VIEW" /\ result' = [result EXCEPT ![s] = outcome]
    BY <1>2 DEF transition_write, Failure, TransitionResult
<1>9. /\ pc' = [pc EXCEPT ![s] = "done"] /\ Release(s)
      /\ UNCHANGED <<governance, accessibility, membership, causal_events, request>>
      /\ call' = [call EXCEPT ![s] = call'[s]]
    BY <1>1, <1>2 DEF transition_write, Tables
<1>10. /\ lock' \in [Coids -> Sessions \cup {None}]
       /\ \A u \in Sessions \ {s} : \A x \in Coids :
              lock[x] = u => lock'[x] = u /\ object'[x] = object[x]
    BY <1>1, <1>7, <1>9, ReleaseKeeps
<1>11. pc[s] \in WriterLabels
    BY <1>2 DEF WriterLabels
<1>. QED BY <1>6, <1>8, <1>9, <1>10, <1>11, WriterEnds

LEMMA RollbackKeeps ==
    ASSUME IInv, NEW s \in Sessions, Rollback(s)
    PROVE  IInv'
<1>. USE DEF Goto, Return, tables
<1>1. Tables
    BY DEF IInv
<1>2. /\ pc[s] \in WriterLabels /\ pc' = [pc EXCEPT ![s] = "done"] /\ Release(s)
      /\ result' = [result EXCEPT ![s] = Failure] /\ Failure.kind # "VIEW"
      /\ UNCHANGED <<governance, accessibility, membership, causal_events, object, request>>
      /\ call' = [call EXCEPT ![s] = call'[s]]
    BY <1>1 DEF Rollback, Tables, WriterLabels, Failure
<1>3. /\ lock' \in [Coids -> Sessions \cup {None}]
      /\ object' \in [Coids -> CognitiveObject \cup {None}]
      /\ \A u \in Sessions \ {s} : \A x \in Coids :
             lock[x] = u => lock'[x] = u /\ object'[x] = object[x]
    BY <1>1, <1>2, ReleaseKeeps DEF Tables
<1>. QED BY <1>2, <1>3, WriterEnds

(* A step of a reader only changes what it knows and says. *)
LEMMA ReaderSteps ==
    ASSUME IInv, NEW s \in Sessions, UNCHANGED <<tables, lock>>,
           request' = [request EXCEPT ![s] = request'[s]],
           request'[s] \in Transitions \cup Retrievals \cup {None},
           pc' = [pc EXCEPT ![s] = pc'[s]], pc'[s] \in ReaderLabels \cup {"done"},
           call' = [call EXCEPT ![s] = call'[s]],
           result' = [result EXCEPT ![s] = result'[s]],
           Asked(s)', Decides(s)', Cleared(s)', Isolated(s)', Ended(s)'
    PROVE  IInv'
<1>. USE DEF tables
<1>1. Tables
    BY DEF IInv
<1>2. Tables'
    BY <1>1 DEF Tables
<1>3. Growth /\ \A u \in Sessions \ {s} : Unaffected(u)
    BY <1>1 DEF Growth, Unaffected, Tables
<1>4. (Governed(s) /\ Held(s) /\ EdgeAdmitted(s))'
    BY DEF Governed, Held, EdgeAdmitted, ReaderLabels
<1>. QED BY <1>2, <1>3, <1>4, StepKeeps DEF SessionInv

(* A reader that goes on has not said anything yet. *)
LEMMA ReaderGoesOn ==
    ASSUME IInv, NEW s \in Sessions, pc[s] # "done", result' = result
    PROVE  Isolated(s)' /\ Ended(s)'
BY DEF IInv, SessionInv, Isolated, Ended

(* Nor does one that says something else than an isolated view. *)
LEMMA ReaderRefused ==
    ASSUME IInv, NEW s \in Sessions, pc' = [pc EXCEPT ![s] = "done"],
           NEW outcome, outcome.kind = "VIEW" => outcome.outcome # "ADMISSIBLE",
           result' = [result EXCEPT ![s] = outcome]
    PROVE  Asked(s)' /\ Decides(s)' /\ Cleared(s)' /\ Isolated(s)' /\ Ended(s)'
<1>1. pc'[s] = "done" /\ result'[s] = outcome
    BY DEF IInv, Tables
<1>. QED BY <1>1 DEF Asked, Decides, Cleared, Isolated, Ended, WriterLabels, ReaderLabels

LEMMA AskKeeps ==
    ASSUME IInv, NEW s \in Sessions, retrieve_isolated(s) \/ retrieve(s)
    PROVE  IInv'
<1>. USE DEF retrieve_isolated, retrieve, Ask, Goto, tables
<1>1. Tables /\ pc[s] = "idle"
    BY DEF IInv
<1>2. PICK r \in Retrievals :
          /\ request' = [request EXCEPT ![s] = r]
          /\ \/ r.isolated /\ pc' = [pc EXCEPT ![s] = "decide"]
             \/ ~r.isolated /\ pc' = [pc EXCEPT ![s] = "read"]
  <2>1. CASE retrieve_isolated(s)
    BY <2>1
  <2>2. CASE retrieve(s)
    BY <2>2
  <2>. QED BY <2>1, <2>2
<1>3. /\ request'[s] = r /\ pc'[s] \in ReaderLabels
      /\ pc'[s] # "decide" => ~r.isolated
      /\ call'[s] = [decisions |-> {}, snapshot |-> {}, resolution |-> None,
                     scope |-> {}, position |-> 0, seen |-> {}]
      /\ call' = [call EXCEPT ![s] = call'[s]] /\ pc' = [pc EXCEPT ![s] = pc'[s]]
    BY <1>1, <1>2 DEF Tables, ReaderLabels
<1>4. (Asked(s) /\ Decides(s) /\ Cleared(s))'
    BY <1>3 DEF Asked, Decides, Cleared, WriterLabels, ReaderLabels
<1>5. /\ UNCHANGED <<tables, lock>> /\ result' = result
      /\ result' = [result EXCEPT ![s] = result'[s]]
    BY <1>1 DEF Tables
<1>6. Isolated(s)' /\ Ended(s)'
    BY <1>1, <1>5, ReaderGoesOn
<1>. QED BY <1>2, <1>3, <1>4, <1>5, <1>6, ReaderSteps

(* What a reader in the middle of its call knows. *)
LEMMA Reading ==
    ASSUME IInv, NEW s \in Sessions, pc[s] \in ReaderLabels
    PROVE  /\ Tables /\ SessionInv(s)
           /\ request[s] \in Retrievals /\ request[s].descriptor.operation = "read"
           /\ request[s].isolated => request[s].context.domain_ids # {}
           /\ call[s] = [decisions |-> call[s].decisions, snapshot |-> call[s].snapshot,
                         resolution |-> call[s].resolution, scope |-> call[s].scope,
                         position |-> call[s].position, seen |-> call[s].seen]
           /\ \A d \in call[s].decisions : execution_authorized(d.resolution) =>
                  Authority(governance, d.resolution.policy, request[s].key, "read",
                            Singleton(request[s].context, d.domain_id))
BY GovernedMemoryAssumption DEF IInv, SessionInv, Asked, Decides

LEMMA DecideKeeps ==
    ASSUME IInv, NEW s \in Sessions, decidir_dominio(s)
    PROVE  IInv'
<1> DEFINE r == request[s]
           resolution(d) == resolve(governance, r.descriptor, Singleton(r.context, d), r.key,
                                    r.moment)
<1>. USE DEF tables
<1>1. pc[s] = "decide" /\ pc[s] \in ReaderLabels
    BY DEF decidir_dominio, ReaderLabels
<1>2. /\ Tables /\ r \in Retrievals /\ r.descriptor.operation = "read"
      /\ call[s] = [decisions |-> call[s].decisions, snapshot |-> call[s].snapshot,
                    resolution |-> call[s].resolution, scope |-> call[s].scope,
                    position |-> call[s].position, seen |-> call[s].seen]
      /\ \A d \in call[s].decisions : execution_authorized(d.resolution) =>
             Authority(governance, d.resolution.policy, r.key, "read",
                       Singleton(r.context, d.domain_id))
    BY <1>1, Reading
<1>3. PICK d : call' = [call EXCEPT ![s].decisions = @ \cup
                   {[domain_id |-> d, resolution |-> resolution(d)]}]
    BY DEF decidir_dominio
<1>4. UNCHANGED <<tables, lock, pc, request, result>>
    BY DEF decidir_dominio
<1>5. execution_authorized(resolution(d)) =>
          Authority(governance, resolution(d).policy, r.key, "read", Singleton(r.context, d))
    BY <1>2, ResolvedAuthority
<1>. HIDE DEF resolution
<1>6. /\ call'[s].decisions = call[s].decisions \cup
             {[domain_id |-> d, resolution |-> resolution(d)]}
      /\ call'[s] = [decisions |-> call'[s].decisions, snapshot |-> call'[s].snapshot,
                     resolution |-> call'[s].resolution, scope |-> call'[s].scope,
                     position |-> call'[s].position, seen |-> call'[s].seen]
    BY <1>2, <1>3 DEF Tables
<1>7. Asked(s)' /\ Cleared(s)'
    BY <1>1, <1>2, <1>4, <1>6 DEF Asked, Cleared, WriterLabels, ReaderLabels
<1>8. Decides(s)'
  <2>1. ASSUME NEW e \in call'[s].decisions, execution_authorized(e.resolution)
        PROVE  Authority(governance, e.resolution.policy, r.key, "read",
                         Singleton(r.context, e.domain_id))
    BY <1>2, <1>5, <1>6, <2>1
  <2>. QED BY <2>1, <1>4 DEF Decides
<1>9. Isolated(s)' /\ Ended(s)'
    BY <1>1, <1>4, ReaderGoesOn
<1>10. /\ request' = [request EXCEPT ![s] = request'[s]]
       /\ request'[s] \in Transitions \cup Retrievals \cup {None}
       /\ pc' = [pc EXCEPT ![s] = pc'[s]] /\ pc'[s] \in ReaderLabels \cup {"done"}
       /\ call' = [call EXCEPT ![s] = call'[s]]
       /\ result' = [result EXCEPT ![s] = result'[s]]
    BY <1>1, <1>2, <1>3, <1>4 DEF Tables
<1>. QED BY <1>4, <1>7, <1>8, <1>9, <1>10, ReaderSteps

(* Whatever else a reader learns after the decisions, these stay. *)
LEMMA LearningKeeps ==
    ASSUME IInv, NEW s \in Sessions, pc[s] \in ReaderLabels \ {"decide"},
           UNCHANGED <<tables, lock, request, result>>,
           pc' = [pc EXCEPT ![s] = pc'[s]], pc'[s] \in ReaderLabels,
           call' = [call EXCEPT ![s] = call'[s]],
           call'[s].decisions = call[s].decisions, call'[s].snapshot = call[s].snapshot,
           call'[s] = [decisions |-> call'[s].decisions, snapshot |-> call'[s].snapshot,
                       resolution |-> call'[s].resolution, scope |-> call'[s].scope,
                       position |-> call'[s].position, seen |-> call'[s].seen]
    PROVE  IInv'
<1>. USE DEF tables
<1>1. Tables /\ SessionInv(s) /\ request[s] \in Retrievals
    BY Reading
<1>2. Asked(s)'
    BY <1>1 DEF Asked, WriterLabels, ReaderLabels
<1>3. Decides(s)'
    BY <1>1 DEF SessionInv, Decides
<1>4. Cleared(s)'
    BY <1>1 DEF SessionInv, Cleared, Decided, Members
<1>5. Isolated(s)' /\ Ended(s)'
    BY ReaderGoesOn DEF ReaderLabels
<1>6. /\ request' = [request EXCEPT ![s] = request'[s]]
      /\ request'[s] \in Transitions \cup Retrievals \cup {None}
      /\ result' = [result EXCEPT ![s] = result'[s]]
    BY <1>1 DEF Tables
<1>. QED BY <1>2, <1>3, <1>4, <1>5, <1>6, ReaderSteps

(* An error or a refusal relies on nothing. *)
LEMMA RefusingKeeps ==
    ASSUME IInv, NEW s \in Sessions, pc[s] \in ReaderLabels,
           UNCHANGED <<tables, lock, request>>,
           pc' = [pc EXCEPT ![s] = "done"], call' = [call EXCEPT ![s] = call'[s]],
           NEW outcome, outcome.kind = "VIEW" => outcome.outcome # "ADMISSIBLE",
           result' = [result EXCEPT ![s] = outcome]
    PROVE  IInv'
<1>. USE DEF tables
<1>1. Tables /\ request[s] \in Retrievals
    BY Reading
<1>2. Asked(s)' /\ Decides(s)' /\ Cleared(s)' /\ Isolated(s)' /\ Ended(s)'
    BY ReaderRefused
<1>3. /\ request' = [request EXCEPT ![s] = request'[s]]
      /\ request'[s] \in Transitions \cup Retrievals \cup {None}
      /\ pc' = [pc EXCEPT ![s] = pc'[s]] /\ pc'[s] \in ReaderLabels \cup {"done"}
      /\ result' = [result EXCEPT ![s] = result'[s]]
    BY <1>1 DEF Tables
<1>. QED BY <1>2, <1>3, ReaderSteps

LEMMA SnapshotKeeps ==
    ASSUME IInv, NEW s \in Sessions, snapshot_autorizado(s)
    PROVE  IInv'
<1> DEFINE c == call[s]
           domains == request[s].context.domain_ids
<1>. USE DEF tables, Goto, Return
<1>1. /\ pc[s] = "decide" /\ pc[s] \in ReaderLabels
      /\ Decided(s) = domains /\ UNCHANGED <<tables, lock, request>>
    BY DEF snapshot_autorizado, ReaderLabels
<1>2. Tables /\ SessionInv(s) /\ request[s] \in Retrievals
      /\ c = [decisions |-> c.decisions, snapshot |-> c.snapshot,
              resolution |-> c.resolution, scope |-> c.scope,
              position |-> c.position, seen |-> c.seen]
    BY <1>1, Reading
<1>3. /\ request' = [request EXCEPT ![s] = request'[s]]
      /\ request'[s] \in Transitions \cup Retrievals \cup {None}
    BY <1>1, <1>2 DEF Tables
<1>4. CASE pc' = [pc EXCEPT ![s] = "done"] /\ call' = call
  <2>1. PICK outcome : /\ outcome.kind = "VIEW" => outcome.outcome # "ADMISSIBLE"
                       /\ result' = [result EXCEPT ![s] = outcome]
    BY <1>2, <1>4 DEF snapshot_autorizado, Failure, View, Tables
  <2>2. call' = [call EXCEPT ![s] = call'[s]]
    BY <1>2, <1>4 DEF Tables
  <2>. QED BY <1>1, <1>4, <2>1, <2>2, RefusingKeeps
<1>5. CASE /\ \A d \in c.decisions : execution_authorized(d.resolution)
           /\ call' = [call EXCEPT ![s].snapshot = Members(domains)]
           /\ pc' = [pc EXCEPT ![s] = "read"] /\ result' = result
  <2>1. /\ pc'[s] = "read" /\ call'[s].snapshot = Members(domains)
        /\ call'[s].decisions = c.decisions
        /\ call'[s] = [decisions |-> call'[s].decisions, snapshot |-> call'[s].snapshot,
                       resolution |-> call'[s].resolution, scope |-> call'[s].scope,
                       position |-> call'[s].position, seen |-> call'[s].seen]
    BY <1>2, <1>5 DEF Tables
  <2>2. Asked(s)'
    BY <1>1, <1>2, <2>1 DEF Asked, WriterLabels
  <2>3. Decides(s)'
    BY <1>1, <1>2, <2>1 DEF SessionInv, Decides
  <2>4. Decided(s)' = domains /\ Members(domains)' = Members(domains)
    BY <1>1, <2>1 DEF Decided, Members
  <2>5. Cleared(s)'
    BY <1>1, <1>5, <2>1, <2>4 DEF Cleared, Members
  <2>6. Isolated(s)' /\ Ended(s)'
    BY <1>1, <1>5, ReaderGoesOn
  <2>7. /\ pc' = [pc EXCEPT ![s] = pc'[s]] /\ pc'[s] \in ReaderLabels \cup {"done"}
        /\ call' = [call EXCEPT ![s] = call'[s]]
        /\ result' = [result EXCEPT ![s] = result'[s]]
    BY <1>2, <1>5 DEF Tables, ReaderLabels
  <2>. QED BY <1>1, <1>3, <2>2, <2>3, <2>5, <2>6, <2>7, ReaderSteps
<1>. QED BY <1>4, <1>5 DEF snapshot_autorizado

LEMMA ResolveReadKeeps ==
    ASSUME IInv, NEW s \in Sessions, resolve_read(s)
    PROVE  IInv'
<1> DEFINE r == request[s]
           resolution == resolve(governance, r.descriptor, r.context, r.key, r.moment)
<1>. USE DEF tables, Goto, Return
<1>1. /\ pc[s] = "read" /\ pc[s] \in ReaderLabels \ {"decide"}
      /\ UNCHANGED <<tables, lock, request>>
      /\ call' = [call EXCEPT ![s].resolution = resolution]
    BY DEF resolve_read, ReaderLabels
<1>. HIDE DEF resolution
<1>2. Tables /\ call[s] = [decisions |-> call[s].decisions, snapshot |-> call[s].snapshot,
                          resolution |-> call[s].resolution, scope |-> call[s].scope,
                          position |-> call[s].position, seen |-> call[s].seen]
    BY <1>1, Reading
<1>3. /\ call'[s].decisions = call[s].decisions /\ call'[s].snapshot = call[s].snapshot
      /\ call'[s] = [decisions |-> call'[s].decisions, snapshot |-> call'[s].snapshot,
                     resolution |-> call'[s].resolution, scope |-> call'[s].scope,
                     position |-> call'[s].position, seen |-> call'[s].seen]
      /\ call' = [call EXCEPT ![s] = call'[s]]
    BY <1>1, <1>2 DEF Tables
<1>4. CASE pc' = [pc EXCEPT ![s] = "scope"] /\ result' = result
  <2>1. pc' = [pc EXCEPT ![s] = pc'[s]] /\ pc'[s] \in ReaderLabels
    BY <1>2, <1>4 DEF Tables, ReaderLabels
  <2>. QED BY <1>1, <1>3, <1>4, <2>1, LearningKeeps
<1>5. CASE /\ pc' = [pc EXCEPT ![s] = "done"]
           /\ result' = [result EXCEPT ![s] = IF r.isolated THEN Failure
                                              ELSE View("DENIED", {}, None)]
  <2> DEFINE outcome == IF r.isolated THEN Failure ELSE View("DENIED", {}, None)
  <2>1. outcome.kind = "VIEW" => outcome.outcome # "ADMISSIBLE"
    BY DEF Failure, View
  <2>2. result' = [result EXCEPT ![s] = outcome]
    BY <1>5
  <2>. HIDE DEF outcome
  <2>. QED BY <1>1, <1>3, <1>5, <2>1, <2>2, RefusingKeeps
<1>. QED BY <1>4, <1>5 DEF resolve_read

LEMMA ScopeKeeps ==
    ASSUME IInv, NEW s \in Sessions, resolver_escopo(s)
    PROVE  IInv'
<1>. USE DEF tables, Goto
<1>1. /\ pc[s] = "scope" /\ pc[s] \in ReaderLabels \ {"decide"}
      /\ UNCHANGED <<tables, lock, request, result>>
      /\ pc' = [pc EXCEPT ![s] = "collect"]
    BY DEF resolver_escopo, ReaderLabels
<1>2. PICK scope : call' = [call EXCEPT ![s].scope = scope]
    BY DEF resolver_escopo
<1>3. Tables /\ call[s] = [decisions |-> call[s].decisions, snapshot |-> call[s].snapshot,
                          resolution |-> call[s].resolution, scope |-> call[s].scope,
                          position |-> call[s].position, seen |-> call[s].seen]
    BY <1>1, Reading
<1>4. /\ call'[s].decisions = call[s].decisions /\ call'[s].snapshot = call[s].snapshot
      /\ call'[s] = [decisions |-> call'[s].decisions, snapshot |-> call'[s].snapshot,
                     resolution |-> call'[s].resolution, scope |-> call'[s].scope,
                     position |-> call'[s].position, seen |-> call'[s].seen]
      /\ call' = [call EXCEPT ![s] = call'[s]]
      /\ pc' = [pc EXCEPT ![s] = pc'[s]] /\ pc'[s] \in ReaderLabels
    BY <1>1, <1>2, <1>3 DEF Tables, ReaderLabels
<1>. QED BY <1>1, <1>4, LearningKeeps

LEMMA CollectKeeps ==
    ASSUME IInv, NEW s \in Sessions, coletar(s)
    PROVE  IInv'
<1>. USE DEF tables, Goto, Return
<1>1. /\ pc[s] = "collect" /\ pc[s] \in ReaderLabels \ {"decide"}
      /\ UNCHANGED <<tables, lock, request>>
    BY DEF coletar, ReaderLabels
<1>2. Tables /\ call[s] = [decisions |-> call[s].decisions, snapshot |-> call[s].snapshot,
                          resolution |-> call[s].resolution, scope |-> call[s].scope,
                          position |-> call[s].position, seen |-> call[s].seen]
    BY <1>1, Reading
<1>3. CASE /\ pc' = [pc EXCEPT ![s] = "done"] /\ call' = call
           /\ result' = [result EXCEPT ![s] = Failure]
  <2>1. call' = [call EXCEPT ![s] = call'[s]] /\ Failure.kind # "VIEW"
    BY <1>2, <1>3 DEF Tables, Failure
  <2>. QED BY <1>1, <1>3, <2>1, RefusingKeeps
<1>4. CASE /\ pc'[s] \in {"collect", "verify"} /\ pc' = [pc EXCEPT ![s] = pc'[s]]
           /\ \E position, seen :
                  call' = [call EXCEPT ![s].position = position, ![s].seen = seen]
           /\ result' = result
  <2>1. PICK position, seen :
            call' = [call EXCEPT ![s].position = position, ![s].seen = seen]
    BY <1>4
  <2>2. /\ call'[s].decisions = call[s].decisions /\ call'[s].snapshot = call[s].snapshot
        /\ call'[s] = [decisions |-> call'[s].decisions, snapshot |-> call'[s].snapshot,
                       resolution |-> call'[s].resolution, scope |-> call'[s].scope,
                       position |-> call'[s].position, seen |-> call'[s].seen]
        /\ call' = [call EXCEPT ![s] = call'[s]]
    BY <1>2, <2>1 DEF Tables
  <2>3. pc'[s] \in ReaderLabels
    BY <1>4 DEF ReaderLabels
  <2>. QED BY <1>1, <1>4, <2>2, <2>3, LearningKeeps
<1>. QED BY <1>2, <1>3, <1>4 DEF coletar, Tables

(* The view of an isolated call: what it returns was in the snapshot, and    *)
(* the one version that resolved the whole also decided every domain.        *)
LEMMA VerifyKeeps ==
    ASSUME IInv, NEW s \in Sessions, verificar_resultado(s)
    PROVE  IInv'
<1> DEFINE r == request[s]
           c == call[s]
           verified == r.isolated => /\ Page(s) \subseteq c.snapshot
                                     /\ SameIdentity(c.decisions, c.resolution)
           more == Cardinality(c.seen) > r.offset + r.limit
           view == View("ADMISSIBLE", Page(s), more)
<1>. USE DEF tables, Goto, Return
<1>1. /\ pc[s] = "verify" /\ pc[s] \in ReaderLabels \ {"decide"}
      /\ UNCHANGED <<tables, lock, request, call>>
      /\ pc' = [pc EXCEPT ![s] = "done"]
      /\ result' = [result EXCEPT ![s] = IF verified THEN view ELSE Failure]
    BY DEF verificar_resultado, ReaderLabels
<1>2. /\ Tables /\ SessionInv(s) /\ r \in Retrievals
      /\ r.isolated => r.context.domain_ids # {}
      /\ \A d \in c.decisions : execution_authorized(d.resolution) =>
             Authority(governance, d.resolution.policy, r.key, "read",
                       Singleton(r.context, d.domain_id))
    BY <1>1, Reading
<1>3. call' = [call EXCEPT ![s] = call'[s]]
    BY <1>1, <1>2 DEF Tables
<1>4. CASE ~verified
  <2>1. Failure.kind # "VIEW" /\ result' = [result EXCEPT ![s] = Failure]
    BY <1>1, <1>4 DEF Failure
  <2>. QED BY <1>1, <1>3, <2>1, RefusingKeeps
<1>5. CASE verified
  <2>1. result'[s] = view /\ view.items = Page(s) /\ pc'[s] = "done"
        /\ result' = [result EXCEPT ![s] = result'[s]]
    BY <1>1, <1>2, <1>5 DEF Tables, View
  <2>2. Asked(s)' /\ Decides(s)' /\ Cleared(s)' /\ Ended(s)'
    BY <2>1 DEF Asked, Decides, Cleared, Ended, WriterLabels, ReaderLabels
  <2>3. ASSUME r.isolated
        PROVE  /\ Page(s) \subseteq Members(r.context.domain_ids)
               /\ \E p \in governance :
                      /\ Identity(p) = c.resolution.policy
                      /\ \A d \in r.context.domain_ids :
                             Admits(Applicable(p, "read", Singleton(r.context, d)))
    <3>1. /\ Decided(s) = r.context.domain_ids
          /\ \A d \in c.decisions : execution_authorized(d.resolution)
          /\ c.snapshot \subseteq Members(r.context.domain_ids)
      BY <1>1, <1>2, <2>3 DEF SessionInv, Cleared
    <3>2. ASSUME NEW d \in r.context.domain_ids
          PROVE  \E p \in governance :
                     /\ Identity(p) = c.resolution.policy
                     /\ Admits(Applicable(p, "read", Singleton(r.context, d)))
      <4>1. PICK e \in c.decisions : e.domain_id = d
        BY <3>1 DEF Decided
      <4>2. PICK p \in governance :
                /\ Identity(p) = e.resolution.policy
                /\ Admits(Applicable(p, "read", Singleton(r.context, d)))
        BY <1>2, <3>1, <4>1 DEF Authority
      <4>3. Identity(p) # None
        BY <1>2, Published, GovernanceAssumption DEF Identity, GovernancePolicy
      <4>4. e.resolution.policy = c.resolution.policy
        BY <1>5, <2>3, <4>1, <4>2, <4>3 DEF SameIdentity, Identities
      <4>. QED BY <4>2, <4>4
    <3>3. PICK first \in r.context.domain_ids : TRUE
      BY <1>2, <2>3
    <3>4. PICK p \in governance : Identity(p) = c.resolution.policy
      BY <3>2, <3>3
    <3>5. ASSUME NEW d \in r.context.domain_ids
          PROVE  Admits(Applicable(p, "read", Singleton(r.context, d)))
      <4>1. PICK q \in governance :
                /\ Identity(q) = c.resolution.policy
                /\ Admits(Applicable(q, "read", Singleton(r.context, d)))
        BY <3>2
      <4>2. p = q
        BY <1>2, <3>4, <4>1, Published, SameVersion DEF Tables
      <4>. QED BY <4>1, <4>2
    <3>. QED BY <1>5, <2>3, <3>1, <3>4, <3>5
  <2>. HIDE DEF view, verified, more
  <2>4. Isolated(s)'
    <3>1. ASSUME r.isolated
          PROVE  /\ Page(s) \subseteq Members(r.context.domain_ids)'
                 /\ governance' = governance
      BY <1>1, <2>3, <3>1 DEF Members
    <3>. QED BY <1>1, <2>1, <2>3, <3>1 DEF Isolated
  <2>5. /\ request' = [request EXCEPT ![s] = request'[s]]
        /\ request'[s] \in Transitions \cup Retrievals \cup {None}
        /\ pc' = [pc EXCEPT ![s] = pc'[s]] /\ pc'[s] \in ReaderLabels \cup {"done"}
    BY <1>1, <1>2, <2>1 DEF Tables
  <2>. QED BY <1>1, <1>3, <2>1, <2>2, <2>4, <2>5, ReaderSteps
<1>. QED BY <1>4, <1>5

LEMMA NextIInv == IInv /\ [Next]_vars => IInv'
<1> SUFFICES ASSUME IInv, [Next]_vars PROVE IInv'
    OBVIOUS
<1>1. CASE UNCHANGED vars
  <2>1. Tables' /\ Growth
    BY <1>1 DEF IInv, Tables, Growth, vars, tables
  <2>2. ASSUME NEW u \in Sessions PROVE Unaffected(u)
    BY <1>1 DEF Unaffected, vars, tables
  <2>. QED BY <2>1, <2>2, OthersKept DEF IInv
<1>2. CASE Environment
    BY <1>2, EnvironmentKeeps
<1>3. ASSUME NEW s \in Sessions, Writer(s) PROVE IInv'
    BY <1>3, TransitionKeeps, ResolveTransitionKeeps, RefreshKeeps, EvaluateKeeps, WriteKeeps,
       RollbackKeeps DEF Writer
<1>4. ASSUME NEW s \in Sessions, Reader(s) PROVE IInv'
    BY <1>4, AskKeeps, DecideKeeps, SnapshotKeeps, ResolveReadKeeps, ScopeKeeps, CollectKeeps,
       VerifyKeeps DEF Reader
<1>. QED BY <1>1, <1>2, <1>3, <1>4 DEF Next

(* What an isolated view returns was admitted, domain by domain, by the one  *)
(* published version that resolved it, whatever is published, joined,        *)
(* inserted or deleted while it is read.                                     *)
THEOREM ViewsIsolated == Spec => []IsolationHolds
<1>1. IInv => IsolationHolds
    BY DEF IInv, SessionInv, Isolated, IsolationHolds
<1>. QED BY <1>1, InitIInv, NextIInv, PTL DEF Spec

(* A write has all it needs: its invariants are its two authorities. *)
LEMMA WriteAdmitted ==
    ASSUME IInv, NEW s \in Sessions, transition_write(s)
    PROVE  KeepsAccessibility
<1> DEFINE r == request[s]
<1>1. Tables /\ SessionInv(s) /\ pc[s] = "write"
    BY DEF IInv, transition_write
<1>2. r \in Transitions /\ r.coid \in Coids /\ r.event \in Events \cup {None}
    BY <1>1, GovernedMemoryAssumption DEF SessionInv, Asked, WriterLabels, TransitionRequest
<1>3. CASE object' = object
    BY <1>3 DEF KeepsAccessibility
<1>4. CASE /\ object' = [object EXCEPT ![r.coid].accessibility = r.target]
           /\ r.target = CAUSALLY_EXTINCT_TOKEN => verificar_evidencia_causal(r)
  <2>1. SUFFICES ASSUME NEW x \in Coids, object[x] # None,
                        object'[x].accessibility # object[x].accessibility
                 PROVE  /\ r.coid = x
                        /\ \E p \in governance :
                               /\ Identity(p) = call[s].resolution.policy
                               /\ Admits(Applicable(p, "accessibility_transition", r.context))
                               /\ \E q \in accessibility :
                                      /\ Identity(q) = call[s].decision.policy
                                      /\ q.governance_policy_key = p.key
                                      /\ Admits({e \in q.rules :
                                             RuleMatches(e, object[x].accessibility,
                                                         object'[x].accessibility)})
                        /\ object'[x].accessibility = CAUSALLY_EXTINCT_TOKEN =>
                               \E e \in Events : causal_events[e] = x
    BY <1>1 DEF KeepsAccessibility
  <2>2. x = r.coid
    BY <1>1, <1>4, <2>1 DEF Tables
  <2>3. object[x] \in CognitiveObject
    BY <1>1, <2>1 DEF Tables
  <2>4. object'[x].accessibility = r.target
    BY <1>1, <1>4, <2>2, <2>3 DEF Tables, CognitiveObject
  <2>5. PICK p \in governance : /\ p.key = r.key /\ Identity(p) = call[s].resolution.policy
                                /\ Admits(Applicable(p, "accessibility_transition", r.context))
    BY <1>1 DEF SessionInv, Governed, Authority
  <2>6. PICK q \in accessibility :
            /\ Identity(q) = call[s].decision.policy /\ q.governance_policy_key = r.key
            /\ Admits({e \in q.rules : RuleMatches(e, object[x].accessibility, r.target)})
    BY <1>1, <2>2 DEF SessionInv, EdgeAdmitted
  <2>7. r.target = CAUSALLY_EXTINCT_TOKEN => r.event \in Events /\ causal_events[r.event] = x
    BY <1>2, <1>4, <2>2 DEF verificar_evidencia_causal
  <2>. QED BY <2>2, <2>4, <2>5, <2>6, <2>7
<1>. QED BY <1>3, <1>4 DEF transition_write

(* Nothing else changes the accessibility of an object that exists. *)
LEMMA OthersKeepAccessibility ==
    ASSUME IInv, [Next]_vars, \A s \in Sessions : ~transition_write(s)
    PROVE  KeepsAccessibility
<1>. USE DEF tables
<1>1. Tables
    BY DEF IInv
<1>2. CASE object' = object
    BY <1>2 DEF KeepsAccessibility
<1>3. ASSUME NEW x \in Coids, add(x) PROVE KeepsAccessibility
    BY <1>1, <1>3 DEF add, KeepsAccessibility, Tables
<1>4. ASSUME NEW x \in Coids, soft_delete(x) PROVE KeepsAccessibility
  <2>1. object[x] \in CognitiveObject
    BY <1>1, <1>4 DEF soft_delete, Tables
  <2>. QED BY <1>1, <1>4, <2>1 DEF soft_delete, KeepsAccessibility, Tables, CognitiveObject
<1>5. CASE Environment
  <2>1. ASSUME NEW p \in Publications, publish_version(p) PROVE object' = object
    BY <2>1 DEF publish_version
  <2>2. ASSUME NEW p \in AccessibilityPublications, publish_accessibility(p)
        PROVE  object' = object
    BY <2>2 DEF publish_accessibility
  <2>3. ASSUME NEW m \in Memberships, add_membership(m) PROVE object' = object
    BY <2>3 DEF add_membership
  <2>4. ASSUME NEW e \in Events, NEW x \in Coids, record(e, x) PROVE object' = object
    BY <2>4 DEF record
  <2>. QED BY <1>2, <1>3, <1>4, <1>5, <2>1, <2>2, <2>3, <2>4 DEF Environment
<1>6. ASSUME NEW s \in Sessions, Writer(s) PROVE object' = object
    BY <1>6 DEF Writer, transition, resolve_transition, refresh_for_update,
                evaluate_transition, Rollback
<1>7. ASSUME NEW s \in Sessions, Reader(s) PROVE object' = object
    BY <1>7 DEF Reader, retrieve_isolated, retrieve, Ask, decidir_dominio,
                snapshot_autorizado, resolve_read, resolver_escopo, coletar,
                verificar_resultado
<1>8. CASE UNCHANGED vars
    BY <1>2, <1>8 DEF vars
<1>. QED BY <1>2, <1>5, <1>6, <1>7, <1>8 DEF Next

(* Every change of accessibility has the authority of a published governance *)
(* policy, the edge of an accessibility policy under it from the state that  *)
(* really was there, and the evidence an extinction needs.                   *)
THEOREM TransitionsAdmitted == Spec => TransitionAdmitted
<1>1. IInv /\ [Next]_vars => KeepsAccessibility
    BY WriteAdmitted, OthersKeepAccessibility
<1>. QED BY <1>1, InitIInv, NextIInv, PTL DEF Spec, TransitionAdmitted

-----------------------------------------------------------------------------
(* Pages. *)

(* The places of the members of a finite set of numbers are 1, 2, 3 ...      *)
LEMMA Ranks ==
    ASSUME NEW T \in SUBSET Nat, IsFiniteSet(T)
    PROVE  /\ \A x \in T : Rank(x, T) \in 1 .. Cardinality(T)
           /\ \A x, y \in T : Rank(x, T) = Rank(y, T) => x = y
           /\ \A n \in 1 .. Cardinality(T) : \E x \in T : Rank(x, T) = n
<1>. DEFINE upto(x) == {y \in T : y <= x}
<1>1. ASSUME NEW x \in T
      PROVE  /\ IsFiniteSet(upto(x)) /\ Rank(x, T) = Cardinality(upto(x))
             /\ Rank(x, T) \in 1 .. Cardinality(T)
  <2>1. x \in Nat
      OBVIOUS
  <2>2. upto(x) \in SUBSET T /\ x \in upto(x)
      BY <2>1
  <2>3. Rank(x, T) = Cardinality(upto(x))
      BY Zenon DEF Rank
  <2>. HIDE DEF upto
  <2>4. IsFiniteSet(upto(x)) /\ Cardinality(upto(x)) <= Cardinality(T)
      BY <2>2, FS_Subset
  <2>5. Cardinality(upto(x)) \in Nat /\ Cardinality(T) \in Nat
      BY <2>4, FS_CardinalityType
  <2>6. Cardinality(upto(x)) # 0
      BY <2>2, <2>4, FS_EmptySet
  <2>. QED BY <2>3, <2>4, <2>5, <2>6
<1>2. ASSUME NEW x \in T, NEW y \in T, x < y PROVE Rank(x, T) # Rank(y, T)
  <2>1. x \in Nat /\ y \in Nat
      OBVIOUS
  <2>2. ASSUME NEW z \in T, z <= x PROVE z <= y
    <3>1. z \in Nat
        OBVIOUS
    <3>. QED BY <1>2, <2>1, <2>2, <3>1
  <2>3. upto(x) \in SUBSET upto(y)
      BY <2>2
  <2>4. y <= y /\ ~ (y <= x)
      BY <1>2, <2>1
  <2>5. y \in upto(y) /\ y \notin upto(x)
      BY <2>4
  <2>6. IsFiniteSet(upto(y))
      BY <1>1
  <2>. HIDE DEF upto
  <2>7. Cardinality(upto(y)) # Cardinality(upto(x))
      BY <2>3, <2>5, <2>6, FS_Subset
  <2>. QED BY <1>1, <2>7
<1>3. \A x, y \in T : Rank(x, T) = Rank(y, T) => x = y
    BY <1>2
<1>4. ASSUME NEW n \in 1 .. Cardinality(T) PROVE \E x \in T : Rank(x, T) = n
  <2>. DEFINE f == [x \in T |-> Rank(x, T)]
  <2>1. Cardinality(T) \in Nat
      BY FS_CardinalityType
  <2>2. f \in Injection(T, 1 .. Cardinality(T))
      BY <1>1, <1>3 DEF Injection, IsInjective
  <2>3. IsFiniteSet(1 .. Cardinality(T)) /\ Cardinality(1 .. Cardinality(T)) = Cardinality(T)
      BY <2>1, FS_Interval
  <2>. HIDE DEF f
  <2>4. f \in Surjection(T, 1 .. Cardinality(T))
      BY <2>2, <2>3, FS_Injection
  <2>5. \E x \in T : f[x] = n
      BY <2>4 DEF Surjection
  <2>. QED BY <2>5 DEF f
<1>. QED BY <1>1, <1>3, <1>4

(* What was collected has the places 1, 2, 3 ..., each once, and nothing was *)
(* collected twice.                                                          *)
Places(seen) ==
    /\ IsFiniteSet(seen)
    /\ \A p \in seen : p = <<p[1], p[2]>> /\ p[2] \in 1 .. Cardinality(seen)
    /\ \A n \in 1 .. Cardinality(seen) : \E p \in seen : p[2] = n
    /\ \A p, q \in seen : p[1] = q[1] \/ p[2] = q[2] => p = q

LEMMA NoPlaces == Places({})
<1>1. IsFiniteSet({}) /\ Cardinality({}) = 0
    BY FS_EmptySet
<1>. QED BY <1>1 DEF Places

LEMMA PlacesGrow ==
    ASSUME NEW seen, Places(seen), NEW T \in SUBSET Nat, IsFiniteSet(T),
           T \cap {p[1] : p \in seen} = {}
    PROVE  Places(seen \cup {<<x, Cardinality(seen) + Rank(x, T)>> : x \in T})
<1>. DEFINE n == Cardinality(seen)
            k == Cardinality(T)
            f == [x \in T |-> <<x, n + Rank(x, T)>>]
            new == {<<x, n + Rank(x, T)>> : x \in T}
<1>1. n \in Nat /\ k \in Nat /\ IsFiniteSet(seen)
    BY FS_CardinalityType DEF Places
<1>2. /\ \A x \in T : Rank(x, T) \in 1 .. k
      /\ \A x, y \in T : Rank(x, T) = Rank(y, T) => x = y
      /\ \A m \in 1 .. k : \E x \in T : Rank(x, T) = m
    BY Ranks
<1>3. f \in Bijection(T, new)
    BY DEF Bijection, Injection, IsInjective, Surjection
<1>4. IsFiniteSet(new) /\ Cardinality(new) = k
  <2>1. ExistsBijection(T, new)
      BY <1>3 DEF ExistsBijection
  <2>. HIDE DEF new
  <2>. QED BY <2>1, FS_Bijection
<1>5. \A p \in new : /\ p = <<p[1], p[2]>> /\ p[1] \in T /\ p[2] = n + Rank(p[1], T)
                     /\ p[2] \in n + 1 .. n + k
  <2>1. ASSUME NEW x \in T PROVE n + Rank(x, T) \in n + 1 .. n + k
      BY <1>1, <1>2
  <2>. QED BY <2>1
<1>6. \A m \in n + 1 .. n + k : \E p \in new : p[2] = m
  <2>. SUFFICES ASSUME NEW m \in n + 1 .. n + k PROVE \E p \in new : p[2] = m
      OBVIOUS
  <2>1. m - n \in 1 .. k
      BY <1>1
  <2>2. PICK x \in T : Rank(x, T) = m - n
      BY <1>2, <2>1
  <2>. DEFINE p == <<x, n + Rank(x, T)>>
  <2>3. p \in new /\ p[2] = m
      BY <1>1, <2>2
  <2>. QED BY <2>3
<1>7. \A p, q \in new : p[1] = q[1] \/ p[2] = q[2] => p = q
  <2>. SUFFICES ASSUME NEW p \in new, NEW q \in new, p[1] = q[1] \/ p[2] = q[2]
                PROVE  p = q
      OBVIOUS
  <2>1. PICK x \in T : p = <<x, n + Rank(x, T)>>
      OBVIOUS
  <2>2. PICK y \in T : q = <<y, n + Rank(y, T)>>
      OBVIOUS
  <2>3. Rank(x, T) \in Int /\ Rank(y, T) \in Int
      BY <1>2
  <2>4. x = y
      BY <1>1, <1>2, <2>1, <2>2, <2>3
  <2>. QED BY <2>1, <2>2, <2>4
<1>. HIDE DEF new
<1>8. \A p \in seen, q \in new : p[1] # q[1] /\ p[2] # q[2]
    BY <1>1, <1>5 DEF Places
<1>9. IsFiniteSet(seen \cup new) /\ Cardinality(seen \cup new) = n + k
  <2>1. seen \cap new = {}
      BY <1>8
  <2>2. Cardinality(seen \cap new) = 0
      BY <2>1, FS_EmptySet
  <2>3. /\ IsFiniteSet(seen \cup new)
        /\ Cardinality(seen \cup new) =
               Cardinality(seen) + Cardinality(new) - Cardinality(seen \cap new)
      BY <1>1, <1>4, FS_Union
  <2>. HIDE DEF k
  <2>. QED BY <1>1, <1>4, <2>2, <2>3
<1>. HIDE DEF k
<1>10. \A p \in seen \cup new : p = <<p[1], p[2]>> /\ p[2] \in 1 .. n + k
    BY <1>1, <1>5 DEF Places
<1>11. \A m \in 1 .. n + k : \E p \in seen \cup new : p[2] = m
  <2>. SUFFICES ASSUME NEW m \in 1 .. n + k PROVE \E p \in seen \cup new : p[2] = m
      OBVIOUS
  <2>1. CASE m <= n
    <3>1. m \in 1 .. n
        BY <1>1, <2>1
    <3>. QED BY <3>1 DEF Places
  <2>2. CASE ~ (m <= n)
    <3>1. m \in n + 1 .. n + k
        BY <1>1, <2>2
    <3>. QED BY <1>6, <3>1
  <2>. QED BY <2>1, <2>2
<1>12. \A p, q \in seen \cup new : p[1] = q[1] \/ p[2] = q[2] => p = q
  <2>1. \A p, q \in seen : p[1] = q[1] \/ p[2] = q[2] => p = q
      BY DEF Places
  <2>. QED BY <1>7, <1>8, <2>1
<1>13. Places(seen \cup new)
    BY <1>9, <1>10, <1>11, <1>12 DEF Places
<1>. QED BY <1>13 DEF new

(* A page holds one object for every place it spans that was filled.         *)
LEMMA PageSize ==
    ASSUME NEW seen, Places(seen), NEW offset \in Nat, NEW limit \in Nat,
           NEW page,
           page = {p[1] : p \in {p \in seen : p[2] > offset /\ p[2] <= offset + limit}}
    PROVE  /\ Cardinality(page) <= limit
           /\ Cardinality(seen) > offset + limit => Cardinality(page) = limit
<1>. DEFINE at(x) == CHOOSE p \in seen : p[1] = x
            f == [x \in page |-> at(x)[2] - offset]
<1>1. Cardinality(seen) \in Nat
    BY FS_CardinalityType DEF Places
<1>2. \A p \in seen : p[2] \in Int
    BY <1>1 DEF Places
<1>3. ASSUME NEW x \in page
      PROVE  /\ at(x) \in seen /\ at(x)[1] = x
             /\ at(x)[2] > offset /\ at(x)[2] <= offset + limit
  <2>1. PICK p \in seen : p[1] = x /\ p[2] > offset /\ p[2] <= offset + limit
      OBVIOUS
  <2>2. at(x) \in seen /\ at(x)[1] = x
      BY <2>1
  <2>3. at(x) = p
      BY <2>1, <2>2 DEF Places
  <2>. QED BY <2>1, <2>2, <2>3
<1>. HIDE DEF at
<1>4. f \in Injection(page, 1 .. limit)
  <2>1. ASSUME NEW x \in page PROVE at(x)[2] - offset \in 1 .. limit
      BY <1>2, <1>3
  <2>2. ASSUME NEW x \in page, NEW y \in page, at(x)[2] - offset = at(y)[2] - offset
        PROVE  x = y
    <3>1. at(x)[2] = at(y)[2]
        BY <1>2, <1>3, <2>2
    <3>. QED BY <1>3, <3>1 DEF Places
  <2>. QED BY <2>1, <2>2 DEF Injection, IsInjective
<1>5. IsFiniteSet(1 .. limit) /\ Cardinality(1 .. limit) = limit
    BY FS_Interval
<1>6. Cardinality(page) <= limit
    <2>. HIDE DEF f
    <2>. QED BY <1>4, <1>5, FS_Injection
<1>7. ASSUME Cardinality(seen) > offset + limit PROVE f \in Surjection(page, 1 .. limit)
  <2>1. ASSUME NEW m \in 1 .. limit PROVE \E x \in page : f[x] = m
    <3>1. offset + m \in 1 .. Cardinality(seen)
        BY <1>1, <1>7
    <3>2. PICK p \in seen : p[2] = offset + m
        BY <3>1 DEF Places
    <3>3. p[1] \in page
        BY <3>2
    <3>4. at(p[1]) = p
        BY <1>3, <3>3 DEF Places
    <3>5. f[p[1]] = m
        BY <3>2, <3>3, <3>4
    <3>. QED BY <3>3, <3>5
  <2>. QED BY <1>4, <2>1 DEF Injection, Surjection
<1>8. Cardinality(seen) > offset + limit => Cardinality(page) = limit
    <2>. HIDE DEF f
    <2>. QED BY <1>4, <1>5, <1>7, FS_Injection
<1>. QED BY <1>6, <1>8

-----------------------------------------------------------------------------
(* What is recorded and what a call may return. *)

(* Accessibility policies are published once too; a lock has its holder.     *)
Recorded ==
    /\ \A p, q \in accessibility : p.key = q.key /\ p.version = q.version => p = q
    /\ membership \subseteq Memberships

LocksHeld ==
    \A x \in Coids : lock[x] # None =>
        pc[lock[x]] \in {"evaluate", "write"} /\ request[lock[x]].coid = x

(* A decision the constructor of a transition's result accepts.              *)
Judges(decision, target) ==
    /\ decision \in AccessibilityDecision
    /\ decision.target_state = target /\ decision.source_state # target
    /\ decision.outcome = "not_applicable" <=> decision.matched_rule_id = None

(* Past its resolution a transition is authorized; the state under the lock  *)
(* is not the one asked for; what is written was decided.                    *)
Judged(s) ==
    /\ pc[s] \in {"lock", "evaluate", "write"} => execution_authorized(call[s].resolution)
    /\ pc[s] = "evaluate" =>
           call[s].decision.source_state \in ACCESSIBILITY_STATE_TOKENS \ {request[s].target}
    /\ pc[s] = "write" =>
           Judges(call[s].decision, request[s].target) /\ call[s].decision.outcome = "admissible"

(* What a view is made of: coherent resolutions, objects each in its place,  *)
(* and an authorization before any object is read.                           *)
Collects(s) ==
    pc[s] \in ReaderLabels =>
        /\ call[s].resolution # None => Coherent(call[s].resolution)
        /\ \A d \in call[s].decisions : Coherent(d.resolution)
        /\ Places(call[s].seen)
        /\ pc[s] \in {"scope", "collect", "verify"} => execution_authorized(call[s].resolution)

Returned(s) ==
    /\ result[s] # None /\ result[s].kind = "TRANSITION" =>
           validar_desfecho(result[s], request[s].target)
    /\ result[s] # None /\ result[s].kind = "VIEW" => ValidView(s, result[s])

CallInv(s) == Judged(s) /\ Collects(s) /\ Returned(s)

TypedInv == IInv /\ Recorded /\ LocksHeld /\ \A s \in Sessions : CallInv(s)

(* A step of one session is of that session alone.                           *)
LEMMA OwnStep ==
    ASSUME Tables, NEW s \in Sessions, Writer(s) \/ Reader(s)
    PROVE  /\ accessibility' = accessibility /\ membership' = membership
           /\ \A u \in Sessions \ {s} : /\ pc'[u] = pc[u] /\ request'[u] = request[u]
                                        /\ call'[u] = call[u] /\ result'[u] = result[u]
<1>. USE DEF tables, Goto, Return
<1>1. CASE transition(s)
    BY <1>1 DEF Tables, transition
<1>2. CASE resolve_transition(s)
    BY <1>2 DEF Tables, resolve_transition
<1>3. CASE refresh_for_update(s)
    BY <1>3 DEF Tables, refresh_for_update
<1>4. CASE evaluate_transition(s)
    BY <1>4 DEF Tables, evaluate_transition
<1>5. CASE transition_write(s)
    BY <1>5 DEF Tables, transition_write
<1>6. CASE Rollback(s)
    BY <1>6 DEF Tables, Rollback
<1>7. CASE retrieve_isolated(s) \/ retrieve(s)
    BY <1>7 DEF Tables, retrieve_isolated, retrieve, Ask
<1>8. CASE decidir_dominio(s)
    BY <1>8 DEF Tables, decidir_dominio
<1>9. CASE snapshot_autorizado(s)
    BY <1>9 DEF Tables, snapshot_autorizado
<1>10. CASE resolve_read(s)
    BY <1>10 DEF Tables, resolve_read
<1>11. CASE resolver_escopo(s)
    BY <1>11 DEF Tables, resolver_escopo
<1>12. CASE coletar(s)
    BY <1>12 DEF Tables, coletar
<1>13. CASE verificar_resultado(s)
    BY <1>13 DEF Tables, verificar_resultado
<1>. QED BY <1>1, <1>2, <1>3, <1>4, <1>5, <1>6, <1>7, <1>8, <1>9, <1>10, <1>11, <1>12, <1>13
         DEF Writer, Reader

(* What a session knows and returned is its own.                             *)
LEMMA OtherCalls ==
    ASSUME NEW u \in Sessions, CallInv(u), pc'[u] = pc[u], request'[u] = request[u],
           call'[u] = call[u], result'[u] = result[u]
    PROVE  CallInv(u)'
<1>1. Judged(u)'
    BY DEF CallInv, Judged, Judges, AccessibilityDecision
<1>2. Collects(u)'
    BY DEF CallInv, Collects, Coherent, Places, execution_authorized
<1>3. Returned(u)'
    BY DEF CallInv, Returned, validar_desfecho, ValidView, Coherent, execution_authorized
<1>. QED BY <1>1, <1>2, <1>3 DEF CallInv

(* A lock that is not of the session whose step it is stays with its holder. *)
LEMMA LocksStay ==
    ASSUME Tables, LocksHeld, NEW s \in Sessions,
           \A u \in Sessions \ {s} : pc'[u] = pc[u] /\ request'[u] = request[u],
           \A x \in Coids : lock'[x] # None =>
               \/ lock'[x] = lock[x] /\ lock[x] # s
               \/ lock'[x] = s /\ pc'[s] \in {"evaluate", "write"} /\ request'[s].coid = x
    PROVE  LocksHeld'
<1>1. ASSUME NEW x \in Coids, lock'[x] # None
      PROVE  pc'[lock'[x]] \in {"evaluate", "write"} /\ request'[lock'[x]].coid = x
  <2>1. CASE lock'[x] = lock[x] /\ lock[x] # s
    <3>1. lock[x] \in Sessions \ {s}
        BY <1>1, <2>1 DEF Tables
    <3>. QED BY <1>1, <2>1, <3>1 DEF LocksHeld
  <2>2. CASE lock'[x] = s /\ pc'[s] \in {"evaluate", "write"} /\ request'[s].coid = x
      BY <2>2
  <2>. QED BY <1>1, <2>1, <2>2
<1>. QED BY <1>1 DEF LocksHeld

(* Who has none takes none; who ends frees what it held.                     *)
LEMMA LocksUntouched ==
    ASSUME Tables, LocksHeld, NEW s \in Sessions, pc[s] \notin {"evaluate", "write"},
           lock' = lock,
           \A u \in Sessions \ {s} : pc'[u] = pc[u] /\ request'[u] = request[u]
    PROVE  LocksHeld'
<1>1. \A x \in Coids : lock[x] # None => lock[x] # s
    BY DEF LocksHeld
<1>. QED BY <1>1, LocksStay

LEMMA LocksFreed ==
    ASSUME Tables, LocksHeld, NEW s \in Sessions, Release(s),
           \A u \in Sessions \ {s} : pc'[u] = pc[u] /\ request'[u] = request[u]
    PROVE  LocksHeld'
<1>1. \A x \in Coids : lock'[x] # None => lock'[x] = lock[x] /\ lock[x] # s
    BY DEF Release
<1>. QED BY <1>1, LocksStay

(* What a policy decides of an edge is a decision about it, with a rule      *)
(* exactly when one applies.                                                 *)
LEMMA AvaliarJudges ==
    ASSUME NEW source \in ACCESSIBILITY_STATE_TOKENS, NEW target \in ACCESSIBILITY_STATE_TOKENS,
           source # target, NEW policy, policy = None \/ policy \in AccessibilityPolicy
    PROVE  /\ Judges(avaliar(source, target, policy), target)
           /\ avaliar(source, target, policy).source_state = source
<1> DEFINE rules == {r \in policy.rules : RuleMatches(r, source, target)}
           deciding == IF Denials(rules) = {} THEN rules ELSE Denials(rules)
           decision == avaliar(source, target, policy)
<1>1. CASE policy = None \/ rules = {}
  <2>1. decision = Decision("not_applicable", source, target, None, None)
      BY <1>1 DEF avaliar
  <2>2. decision \in AccessibilityDecision
      BY <2>1 DEF Decision, AccessibilityDecision, GovernanceOutcome
  <2>. HIDE DEF decision
  <2>. QED BY <2>1, <2>2 DEF Judges, Decision, decision
<1>2. CASE ~ (policy = None \/ rules = {})
  <2>1. decision = Decision(evaluate(rules), source, target, Identity(policy),
                            Cited(deciding).rule_id)
      BY <1>2 DEF avaliar
  <2>2. policy \in AccessibilityPolicy /\ rules # {}
      BY <1>2
  <2>3. deciding # {} /\ \A r \in deciding : r.rule_id \in Nat
      BY <2>2 DEF Denials, AccessibilityPolicy, AccessibilityRule
  <2>4. evaluate(rules) \in {"admissible", "inadmissible"}
      BY <2>2, Evaluated
  <2>5. Cited(deciding).rule_id \in Nat
    <3>. HIDE DEF deciding
    <3>. QED BY <2>3, CitedRule
  <2>6. Identity(policy) \in [key : AccessibilityKeys, version : Versions]
      BY <2>2 DEF Identity, AccessibilityPolicy
  <2>. HIDE DEF rules, deciding
  <2>7. decision \in AccessibilityDecision
      BY <2>1, <2>4, <2>5, <2>6 DEF Decision, AccessibilityDecision, GovernanceOutcome
  <2>8. Cited(deciding).rule_id # None
      BY <2>5, GovernanceAssumption
  <2>. HIDE DEF decision
  <2>9. Judges(decision, target) /\ decision.source_state = source
      BY <2>1, <2>4, <2>7, <2>8 DEF Judges, Decision
  <2>. QED BY <2>9 DEF decision
<1>. QED BY <1>1, <1>2

(* What a writer in the middle of its call has been asked.                   *)
LEMMA Writing ==
    ASSUME TypedInv, NEW s \in Sessions, pc[s] \in WriterLabels
    PROVE  /\ Tables /\ CallInv(s) /\ result[s] = None
           /\ request[s] \in Transitions /\ request[s].coid \in Coids
           /\ request[s].target \in ACCESSIBILITY_STATE_TOKENS
           /\ request[s].event \in Events \cup {None}
           /\ call[s] = [resolution |-> call[s].resolution, decision |-> call[s].decision]
<1>1. Tables /\ SessionInv(s) /\ CallInv(s)
    BY DEF TypedInv, IInv
<1>2. result[s] = None
    BY <1>1 DEF SessionInv, Ended, WriterLabels
<1>3. /\ request[s] \in Transitions
      /\ call[s] = [resolution |-> call[s].resolution, decision |-> call[s].decision]
    BY <1>1 DEF SessionInv, Asked
<1>4. request[s] \in TransitionRequest
    BY <1>3, GovernedMemoryAssumption
<1>. QED BY <1>1, <1>2, <1>3, <1>4 DEF TransitionRequest

(* A call that has not returned says nothing yet; one that did only has its  *)
(* result to answer for.                                                     *)
LEMMA NotReturned ==
    ASSUME NEW s \in Sessions, result'[s] = None
    PROVE  Returned(s)'
BY DEF Returned

LEMMA OnlyReturned ==
    ASSUME NEW s \in Sessions, pc'[s] = "done", Returned(s)'
    PROVE  CallInv(s)'
BY DEF CallInv, Judged, Collects, ReaderLabels

LEMMA FailureReturned ==
    ASSUME Tables, NEW s \in Sessions, Return(s, Failure)
    PROVE  CallInv(s)'
<1>1. pc'[s] = "done" /\ result'[s] = Failure
    BY DEF Tables, Return, Goto
<1>2. Returned(s)'
    BY <1>1 DEF Returned, Failure
<1>. QED BY <1>1, <1>2, OnlyReturned

(* What a transition returns when its result fits what was asked.            *)
LEMMA TransitionReturned ==
    ASSUME Tables, NEW s \in Sessions, NEW outcome, Return(s, outcome), request' = request,
           outcome.kind = "TRANSITION", validar_desfecho(outcome, request[s].target)
    PROVE  CallInv(s)'
<1>1. pc'[s] = "done" /\ result'[s] = outcome
    BY DEF Tables, Return, Goto
<1>2. Returned(s)'
    BY <1>1 DEF Returned, validar_desfecho, execution_authorized
<1>. QED BY <1>1, <1>2, OnlyReturned

LEMMA TransitionTyped ==
    ASSUME TypedInv, NEW s \in Sessions, transition(s)
    PROVE  LocksHeld' /\ CallInv(s)'
<1>1. Tables /\ SessionInv(s) /\ LocksHeld
    BY DEF TypedInv, IInv
<1>2. /\ pc[s] = "idle" /\ lock' = lock /\ result'[s] = result[s] /\ pc'[s] = "resolve"
      /\ \A u \in Sessions \ {s} : pc'[u] = pc[u] /\ request'[u] = request[u]
    BY <1>1, OwnStep DEF transition, Goto, Tables, Writer
<1>3. LocksHeld'
    BY <1>1, <1>2, LocksUntouched
<1>4. result'[s] = None
    BY <1>1, <1>2 DEF SessionInv, Ended
<1>5. CallInv(s)'
    BY <1>2, <1>4, NotReturned DEF CallInv, Judged, Collects, ReaderLabels
<1>. QED BY <1>3, <1>5

LEMMA ResolveTransitionTyped ==
    ASSUME TypedInv, NEW s \in Sessions, resolve_transition(s)
    PROVE  LocksHeld' /\ CallInv(s)'
<1> DEFINE r == request[s]
           resolution == resolve(governance, r.descriptor, r.context, r.key, r.moment)
<1>1. /\ Tables /\ LocksHeld /\ pc[s] = "resolve" /\ result[s] = None /\ r \in Transitions
      /\ call[s] = [resolution |-> call[s].resolution, decision |-> call[s].decision]
    BY Writing DEF TypedInv, resolve_transition, WriterLabels
<1>2. /\ lock' = lock /\ request' = request
      /\ call' = [call EXCEPT ![s].resolution = resolution]
      /\ \A u \in Sessions \ {s} : pc'[u] = pc[u] /\ request'[u] = request[u]
    BY <1>1, OwnStep DEF resolve_transition, Writer
<1>3. LocksHeld'
    BY <1>1, <1>2, LocksUntouched
<1>4. CASE execution_authorized(resolution) /\ Goto(s, "lock") /\ UNCHANGED result
  <2>. HIDE DEF resolution
  <2>1. call'[s].resolution = resolution /\ pc'[s] = "lock" /\ result'[s] = None
      BY <1>1, <1>2, <1>4 DEF Tables, Goto
  <2>2. CallInv(s)'
      BY <1>4, <2>1, NotReturned DEF CallInv, Judged, Collects, ReaderLabels, execution_authorized
  <2>. QED BY <1>3, <2>2
<1>5. CASE /\ ~execution_authorized(resolution)
           /\ Return(s, TransitionResult(resolution, None, None, FALSE, FALSE, None))
  <2>. HIDE DEF resolution
  <2>. DEFINE outcome == TransitionResult(resolution, None, None, FALSE, FALSE, None)
  <2>1. /\ outcome.kind = "TRANSITION" /\ outcome.resolution = resolution
        /\ outcome.decision = None /\ outcome.observed_state = None
        /\ outcome.state_changed = FALSE /\ outcome.no_change = FALSE
        /\ outcome.causal_event_id = None
      BY DEF TransitionResult
  <2>2. Return(s, outcome)
      BY <1>5
  <2>. HIDE DEF outcome
  <2>3. validar_desfecho(outcome, r.target)
      BY <1>5, <2>1 DEF validar_desfecho
  <2>4. CallInv(s)'
      BY <1>1, <1>2, <2>1, <2>2, <2>3, TransitionReturned
  <2>. QED BY <1>3, <2>4
<1>. QED BY <1>4, <1>5 DEF resolve_transition

LEMMA RefreshTyped ==
    ASSUME TypedInv, NEW s \in Sessions, refresh_for_update(s)
    PROVE  LocksHeld' /\ CallInv(s)'
<1> DEFINE r == request[s]
           source == object[r.coid].accessibility
<1>1. /\ Tables /\ LocksHeld /\ pc[s] = "lock" /\ result[s] = None /\ r.coid \in Coids
      /\ r.target \in ACCESSIBILITY_STATE_TOKENS /\ CallInv(s)
      /\ call[s] = [resolution |-> call[s].resolution, decision |-> call[s].decision]
    BY Writing DEF TypedInv, refresh_for_update, WriterLabels
<1>2. /\ request' = request /\ execution_authorized(call[s].resolution)
      /\ \A u \in Sessions \ {s} : pc'[u] = pc[u] /\ request'[u] = request[u]
    BY <1>1, OwnStep DEF refresh_for_update, Writer, CallInv, Judged
<1>3. object[r.coid] # None => source \in ACCESSIBILITY_STATE_TOKENS
    BY <1>1 DEF Tables, CognitiveObject
<1>4. ASSUME lock' = lock PROVE LocksHeld'
    BY <1>1, <1>2, <1>4, LocksUntouched
<1>5. CASE Return(s, Failure) /\ UNCHANGED <<call, lock>>
    BY <1>1, <1>4, <1>5, FailureReturned
<1>6. CASE /\ source = r.target /\ UNCHANGED <<call, lock>>
           /\ Return(s, TransitionResult(call[s].resolution, None, source, FALSE, TRUE, None))
  <2>. DEFINE outcome == TransitionResult(call[s].resolution, None, source, FALSE, TRUE, None)
  <2>1. /\ outcome.kind = "TRANSITION" /\ outcome.resolution = call[s].resolution
        /\ outcome.decision = None /\ outcome.observed_state = source
        /\ outcome.state_changed = FALSE /\ outcome.no_change = TRUE
        /\ outcome.causal_event_id = None
      BY DEF TransitionResult
  <2>2. Return(s, outcome)
      BY <1>6
  <2>. HIDE DEF outcome
  <2>3. validar_desfecho(outcome, r.target)
      BY <1>2, <1>6, <2>1 DEF validar_desfecho
  <2>4. CallInv(s)'
      BY <1>1, <1>2, <2>1, <2>2, <2>3, TransitionReturned
  <2>. QED BY <1>4, <1>6, <2>4
<1>7. CASE /\ object[r.coid] # None /\ lock[r.coid] = None /\ source # r.target
           /\ lock' = [lock EXCEPT ![r.coid] = s]
           /\ call' = [call EXCEPT ![s].decision = [source_state |-> source]]
           /\ Goto(s, "evaluate") /\ UNCHANGED result
  <2>1. pc'[s] = "evaluate" /\ result'[s] = None
      BY <1>1, <1>7 DEF Tables, Goto
  <2>2. /\ call'[s].resolution = call[s].resolution
        /\ call'[s].decision.source_state = source
      BY <1>1, <1>7 DEF Tables
  <2>3. CallInv(s)'
      BY <1>2, <1>3, <1>7, <2>1, <2>2, NotReturned
         DEF CallInv, Judged, Collects, ReaderLabels, execution_authorized
  <2>4. \A x \in Coids : lock[x] # None => lock[x] # s
      BY <1>1 DEF LocksHeld
  <2>5. LocksHeld'
      BY <1>1, <1>2, <1>7, <2>1, <2>4, LocksStay DEF Tables
  <2>. QED BY <2>3, <2>5
<1>. QED BY <1>5, <1>6, <1>7 DEF refresh_for_update

LEMMA EvaluateTyped ==
    ASSUME TypedInv, NEW s \in Sessions, evaluate_transition(s)
    PROVE  LocksHeld' /\ CallInv(s)'
<1> DEFINE r == request[s]
           policy == effective_version_at(accessibility, r.policy_key, r.moment)
           source == call[s].decision.source_state
           decision == avaliar(source, r.target, policy)
<1>1. /\ Tables /\ LocksHeld /\ pc[s] = "evaluate" /\ result[s] = None /\ r.coid \in Coids
      /\ r.target \in ACCESSIBILITY_STATE_TOKENS /\ CallInv(s)
      /\ call[s] = [resolution |-> call[s].resolution, decision |-> call[s].decision]
    BY Writing DEF TypedInv, evaluate_transition, WriterLabels
<1>2. /\ request' = request /\ execution_authorized(call[s].resolution)
      /\ source \in ACCESSIBILITY_STATE_TOKENS /\ source # r.target
      /\ \A u \in Sessions \ {s} : pc'[u] = pc[u] /\ request'[u] = request[u]
    BY <1>1, OwnStep DEF evaluate_transition, Writer, CallInv, Judged
<1>3. policy = None \/ policy \in AccessibilityPolicy
  <2>1. \A p \in accessibility : p \in AccessibilityPolicy /\ p.version \in Versions
      BY <1>1, Published DEF AccessibilityPolicy
  <2>2. CASE effective_versions(accessibility, r.policy_key, r.moment) # {}
    <3>1. policy \in effective_versions(accessibility, r.policy_key, r.moment)
        BY <2>1, <2>2, EffectiveVersion
    <3>. QED BY <2>1, <3>1 DEF effective_versions
  <2>. QED BY <2>2 DEF effective_version_at
<1>4. Judges(decision, r.target) /\ decision.source_state = source
  <2>. HIDE DEF policy
  <2>. QED BY <1>1, <1>2, <1>3, AvaliarJudges
<1>5. ASSUME Release(s) PROVE LocksHeld'
    BY <1>1, <1>2, <1>5, LocksFreed
<1>. HIDE DEF decision, policy
<1>6. CASE Return(s, Failure) /\ Release(s)
    BY <1>1, <1>5, <1>6, FailureReturned
<1>7. CASE /\ decision.outcome # "admissible" /\ Release(s)
           /\ Return(s, TransitionResult(call[s].resolution, decision, decision.source_state,
                                         FALSE, FALSE, None))
  <2>. DEFINE outcome == TransitionResult(call[s].resolution, decision, decision.source_state,
                                          FALSE, FALSE, None)
  <2>1. /\ outcome.kind = "TRANSITION" /\ outcome.resolution = call[s].resolution
        /\ outcome.decision = decision /\ outcome.observed_state = decision.source_state
        /\ outcome.state_changed = FALSE /\ outcome.no_change = FALSE
        /\ outcome.causal_event_id = None
      BY DEF TransitionResult
  <2>2. Return(s, outcome)
      BY <1>7
  <2>. HIDE DEF outcome
  <2>3. decision # None
      BY <1>4, GovernedMemoryAssumption DEF Judges
  <2>4. validar_desfecho(outcome, r.target)
      BY <1>2, <1>4, <1>7, <2>1, <2>3 DEF validar_desfecho, Judges
  <2>5. CallInv(s)'
      BY <1>1, <1>2, <2>1, <2>2, <2>4, TransitionReturned
  <2>. QED BY <1>5, <1>7, <2>5
<1>8. CASE /\ decision.outcome = "admissible"
           /\ call' = [call EXCEPT ![s].decision = decision]
           /\ Goto(s, "write") /\ UNCHANGED <<lock, result>>
  <2>1. /\ pc'[s] = "write" /\ result'[s] = None
        /\ call'[s].resolution = call[s].resolution /\ call'[s].decision = decision
      BY <1>1, <1>8 DEF Tables, Goto
  <2>2. Judged(s)'
      BY <1>2, <1>4, <1>8, <2>1 DEF Judged, Judges, AccessibilityDecision, execution_authorized
  <2>3. CallInv(s)'
      BY <2>1, <2>2, NotReturned DEF CallInv, Collects, ReaderLabels
  <2>4. LocksHeld'
      BY <1>1, <1>2, <1>8, <2>1, LocksStay DEF LocksHeld
  <2>. QED BY <2>3, <2>4
<1>. QED BY <1>6, <1>7, <1>8 DEF evaluate_transition, decision, policy

LEMMA WriteTyped ==
    ASSUME TypedInv, NEW s \in Sessions, transition_write(s)
    PROVE  LocksHeld' /\ CallInv(s)'
<1> DEFINE r == request[s]
           d == call[s].decision
           extinction == r.target = CAUSALLY_EXTINCT_TOKEN
           event == IF extinction THEN r.event ELSE None
<1>1. /\ Tables /\ LocksHeld /\ pc[s] = "write" /\ CallInv(s)
    BY Writing DEF TypedInv, transition_write, WriterLabels
<1>2. /\ request' = request /\ execution_authorized(call[s].resolution)
      /\ Judges(d, r.target) /\ d.outcome = "admissible"
      /\ \A u \in Sessions \ {s} : pc'[u] = pc[u] /\ request'[u] = request[u]
    BY <1>1, OwnStep DEF transition_write, Writer, CallInv, Judged
<1>3. LocksHeld'
    BY <1>1, <1>2, LocksFreed DEF transition_write
<1>4. CASE Return(s, Failure)
    BY <1>1, <1>3, <1>4, FailureReturned
<1>5. CASE /\ extinction => verificar_evidencia_causal(r)
           /\ Return(s, TransitionResult(call[s].resolution, d, r.target, TRUE, FALSE, event))
  <2>. DEFINE outcome == TransitionResult(call[s].resolution, d, r.target, TRUE, FALSE, event)
  <2>1. /\ outcome.kind = "TRANSITION" /\ outcome.resolution = call[s].resolution
        /\ outcome.decision = d /\ outcome.observed_state = r.target
        /\ outcome.state_changed = TRUE /\ outcome.no_change = FALSE
        /\ outcome.causal_event_id = event
      BY DEF TransitionResult
  <2>2. Return(s, outcome)
      BY <1>5
  <2>3. event # None <=> extinction
      BY <1>5 DEF verificar_evidencia_causal
  <2>. HIDE DEF outcome, event
  <2>4. d # None
      BY <1>2, GovernedMemoryAssumption DEF Judges
  <2>5. validar_desfecho(outcome, r.target)
      BY <1>2, <2>1, <2>3, <2>4 DEF validar_desfecho, Judges
  <2>6. CallInv(s)'
      BY <1>1, <1>2, <2>1, <2>2, <2>5, TransitionReturned
  <2>. QED BY <1>3, <2>6
<1>. QED BY <1>4, <1>5 DEF transition_write

LEMMA RollbackTyped ==
    ASSUME TypedInv, NEW s \in Sessions, Rollback(s)
    PROVE  LocksHeld' /\ CallInv(s)'
<1>1. Tables /\ LocksHeld
    BY DEF TypedInv, IInv
<1>2. \A u \in Sessions \ {s} : pc'[u] = pc[u] /\ request'[u] = request[u]
    BY <1>1, OwnStep DEF Writer
<1>3. LocksHeld'
    BY <1>1, <1>2, LocksFreed DEF Rollback
<1>4. CallInv(s)'
    BY <1>1, FailureReturned DEF Rollback
<1>. QED BY <1>3, <1>4

(* Readers lock nothing. *)
LEMMA ReaderLocks ==
    ASSUME TypedInv, NEW s \in Sessions, Reader(s)
    PROVE  LocksHeld'
<1>1. Tables /\ LocksHeld
    BY DEF TypedInv, IInv
<1>2. lock' = lock /\ pc[s] \notin {"evaluate", "write"}
    BY DEF Reader, retrieve_isolated, retrieve, Ask, decidir_dominio, snapshot_autorizado,
           resolve_read, resolver_escopo, coletar, verificar_resultado
<1>3. \A u \in Sessions \ {s} : pc'[u] = pc[u] /\ request'[u] = request[u]
    BY <1>1, OwnStep
<1>. QED BY <1>1, <1>2, <1>3, LocksUntouched

(* What a reader in the middle of its call has found. *)
LEMMA Finding ==
    ASSUME TypedInv, NEW s \in Sessions, pc[s] \in ReaderLabels
    PROVE  /\ Tables /\ governance \in SUBSET GovernancePolicy /\ result[s] = None
           /\ Collects(s)
           /\ request[s].limit \in Nat /\ request[s].offset \in Nat
           /\ call[s] = [decisions |-> call[s].decisions, snapshot |-> call[s].snapshot,
                         resolution |-> call[s].resolution, scope |-> call[s].scope,
                         position |-> call[s].position, seen |-> call[s].seen]
<1>1. /\ Tables /\ SessionInv(s) /\ Collects(s) /\ request[s] \in Retrievals
      /\ call[s] = [decisions |-> call[s].decisions, snapshot |-> call[s].snapshot,
                    resolution |-> call[s].resolution, scope |-> call[s].scope,
                    position |-> call[s].position, seen |-> call[s].seen]
    BY Reading DEF TypedInv, CallInv
<1>2. result[s] = None
    BY <1>1 DEF SessionInv, Ended, ReaderLabels
<1>3. request[s].limit \in Nat /\ request[s].offset \in Nat
    BY <1>1, GovernedMemoryAssumption DEF RetrievalRequest
<1>. QED BY <1>1, <1>2, <1>3, Published

(* A reader that goes on only has to keep what it found coherent.            *)
LEMMA GoesOnTyped ==
    ASSUME NEW s \in Sessions, result'[s] = None, pc'[s] \in ReaderLabels, Collects(s)'
    PROVE  CallInv(s)'
BY NotReturned DEF CallInv, Judged, ReaderLabels

(* A view that is refused needs nothing but coherent resolutions.            *)
LEMMA DeniedTyped ==
    ASSUME Tables, NEW s \in Sessions, Return(s, View("DENIED", {}, None)),
           call'[s].resolution # None => Coherent(call'[s].resolution),
           \A d \in call'[s].decisions : Coherent(d.resolution)
    PROVE  CallInv(s)'
<1>1. /\ pc'[s] = "done" /\ result'[s].kind = "VIEW"
      /\ result'[s].outcome = "DENIED"
    BY DEF Tables, Return, Goto, View
<1>2. Returned(s)'
    BY <1>1 DEF Returned, ValidView, Coherent
<1>. QED BY <1>1, <1>2, OnlyReturned

LEMMA AskTyped ==
    ASSUME TypedInv, NEW s \in Sessions, retrieve_isolated(s) \/ retrieve(s)
    PROVE  CallInv(s)'
<1>1. Tables /\ SessionInv(s) /\ pc[s] = "idle"
    BY DEF TypedInv, IInv, retrieve_isolated, retrieve, Ask
<1>2. result[s] = None
    BY <1>1 DEF SessionInv, Ended
<1>3. /\ pc'[s] \in {"decide", "read"} /\ result'[s] = None
      /\ call'[s] = [decisions |-> {}, snapshot |-> {}, resolution |-> None,
                     scope |-> {}, position |-> 0, seen |-> {}]
    BY <1>1, <1>2 DEF Tables, retrieve_isolated, retrieve, Ask, Goto
<1>4. /\ call'[s].decisions = {} /\ call'[s].resolution = None /\ call'[s].seen = {}
    BY <1>3
<1>5. Places(call'[s].seen)
    BY <1>4, NoPlaces
<1>6. Collects(s)'
    BY <1>3, <1>4, <1>5 DEF Collects, Places
<1>. QED BY <1>3, <1>6, GoesOnTyped DEF ReaderLabels

LEMMA DecideTyped ==
    ASSUME TypedInv, NEW s \in Sessions, decidir_dominio(s)
    PROVE  CallInv(s)'
<1> DEFINE r == request[s]
           resolution(d) == resolve(governance, r.descriptor, Singleton(r.context, d), r.key,
                                    r.moment)
<1>1. pc[s] = "decide" /\ pc[s] \in ReaderLabels /\ pc' = pc /\ result' = result
    BY DEF decidir_dominio, ReaderLabels
<1>2. /\ Tables /\ governance \in SUBSET GovernancePolicy /\ result[s] = None /\ Collects(s)
      /\ call[s] = [decisions |-> call[s].decisions, snapshot |-> call[s].snapshot,
                    resolution |-> call[s].resolution, scope |-> call[s].scope,
                    position |-> call[s].position, seen |-> call[s].seen]
    BY <1>1, Finding
<1>3. PICK d : call' = [call EXCEPT ![s].decisions = @ \cup
                   {[domain_id |-> d, resolution |-> resolution(d)]}]
    BY DEF decidir_dominio
<1>4. Coherent(resolution(d))
    BY <1>2, ResolutionsCoherent
<1>. HIDE DEF resolution
<1>5. /\ call'[s].decisions = call[s].decisions \cup
             {[domain_id |-> d, resolution |-> resolution(d)]}
      /\ call'[s].resolution = call[s].resolution /\ call'[s].seen = call[s].seen
    BY <1>2, <1>3 DEF Tables
<1>6. \A e \in call'[s].decisions : Coherent(e.resolution)
    BY <1>1, <1>2, <1>4, <1>5 DEF Collects
<1>7. Collects(s)'
    BY <1>1, <1>2, <1>5, <1>6 DEF Collects, Coherent, Places
<1>. QED BY <1>1, <1>2, <1>7, GoesOnTyped

LEMMA SnapshotTyped ==
    ASSUME TypedInv, NEW s \in Sessions, snapshot_autorizado(s)
    PROVE  CallInv(s)'
<1>1. pc[s] = "decide" /\ pc[s] \in ReaderLabels
    BY DEF snapshot_autorizado, ReaderLabels
<1>2. /\ Tables /\ result[s] = None /\ Collects(s)
      /\ call[s] = [decisions |-> call[s].decisions, snapshot |-> call[s].snapshot,
                    resolution |-> call[s].resolution, scope |-> call[s].scope,
                    position |-> call[s].position, seen |-> call[s].seen]
    BY <1>1, Finding
<1>3. CASE Return(s, Failure)
    BY <1>2, <1>3, FailureReturned
<1>4. CASE Return(s, View("DENIED", {}, None)) /\ UNCHANGED call
    BY <1>1, <1>2, <1>4, DeniedTyped DEF Collects
<1>5. CASE /\ call' = [call EXCEPT ![s].snapshot = Members(request[s].context.domain_ids)]
           /\ Goto(s, "read") /\ UNCHANGED result
  <2>1. /\ pc'[s] = "read" /\ result'[s] = None
        /\ call'[s].decisions = call[s].decisions
        /\ call'[s].resolution = call[s].resolution /\ call'[s].seen = call[s].seen
      BY <1>2, <1>5 DEF Tables, Goto
  <2>2. Collects(s)'
      BY <1>1, <1>2, <2>1 DEF Collects, Coherent, Places
  <2>. QED BY <2>1, <2>2, GoesOnTyped DEF ReaderLabels
<1>. QED BY <1>3, <1>4, <1>5 DEF snapshot_autorizado

LEMMA ResolveReadTyped ==
    ASSUME TypedInv, NEW s \in Sessions, resolve_read(s)
    PROVE  CallInv(s)'
<1> DEFINE r == request[s]
           resolution == resolve(governance, r.descriptor, r.context, r.key, r.moment)
<1>1. /\ pc[s] = "read" /\ pc[s] \in ReaderLabels
      /\ call' = [call EXCEPT ![s].resolution = resolution]
    BY DEF resolve_read, ReaderLabels
<1>2. /\ Tables /\ governance \in SUBSET GovernancePolicy /\ result[s] = None /\ Collects(s)
      /\ call[s] = [decisions |-> call[s].decisions, snapshot |-> call[s].snapshot,
                    resolution |-> call[s].resolution, scope |-> call[s].scope,
                    position |-> call[s].position, seen |-> call[s].seen]
    BY <1>1, Finding
<1>3. Coherent(resolution)
    BY <1>2, ResolutionsCoherent
<1>. HIDE DEF resolution
<1>4. /\ call'[s].decisions = call[s].decisions /\ call'[s].resolution = resolution
      /\ call'[s].seen = call[s].seen
    BY <1>1, <1>2 DEF Tables
<1>5. CASE execution_authorized(resolution) /\ Goto(s, "scope") /\ UNCHANGED result
  <2>1. pc'[s] = "scope" /\ result'[s] = None
      BY <1>2, <1>5 DEF Tables, Goto
  <2>2. Collects(s)'
      BY <1>1, <1>2, <1>3, <1>4, <1>5, <2>1 DEF Collects, Coherent, Places, execution_authorized
  <2>. QED BY <2>1, <2>2, GoesOnTyped DEF ReaderLabels
<1>6. CASE Return(s, Failure)
    BY <1>2, <1>6, FailureReturned
<1>7. CASE Return(s, View("DENIED", {}, None))
    BY <1>1, <1>2, <1>3, <1>4, <1>7, DeniedTyped DEF Collects
<1>. QED BY <1>5, <1>6, <1>7 DEF resolve_read, resolution

LEMMA ScopeTyped ==
    ASSUME TypedInv, NEW s \in Sessions, resolver_escopo(s)
    PROVE  CallInv(s)'
<1>1. /\ pc[s] = "scope" /\ pc[s] \in ReaderLabels /\ result' = result
      /\ pc' = [pc EXCEPT ![s] = "collect"]
    BY DEF resolver_escopo, ReaderLabels, Goto
<1>2. /\ Tables /\ result[s] = None /\ Collects(s)
      /\ call[s] = [decisions |-> call[s].decisions, snapshot |-> call[s].snapshot,
                    resolution |-> call[s].resolution, scope |-> call[s].scope,
                    position |-> call[s].position, seen |-> call[s].seen]
    BY <1>1, Finding
<1>3. PICK scope : call' = [call EXCEPT ![s].scope = scope]
    BY DEF resolver_escopo
<1>4. /\ pc'[s] = "collect" /\ result'[s] = None
      /\ call'[s].decisions = call[s].decisions
      /\ call'[s].resolution = call[s].resolution /\ call'[s].seen = call[s].seen
    BY <1>1, <1>2, <1>3 DEF Tables
<1>5. Collects(s)'
    BY <1>1, <1>2, <1>4 DEF Collects, Coherent, Places, execution_authorized
<1>. QED BY <1>4, <1>5, GoesOnTyped DEF ReaderLabels

(* A page of the search adds new objects at the next places.                 *)
LEMMA CollectTyped ==
    ASSUME TypedInv, NEW s \in Sessions, coletar(s)
    PROVE  CallInv(s)'
<1> DEFINE r == request[s]
           c == call[s]
           lote == search(c.position)
           wanted == r.offset + r.limit + 1 - Cardinality(c.seen)
           taken == First(wanted, {x \in lote : admissivel(x, c.scope)})
           more == Cardinality(lote) = SEARCH_BATCH_SIZE /\ Cardinality(taken) < wanted
           position == c.position + Cardinality(lote)
           seen == c.seen \cup {<<x, Cardinality(c.seen) + Rank(x, taken)>> : x \in taken}
<1>1. pc[s] = "collect" /\ pc[s] \in ReaderLabels
    BY DEF coletar, ReaderLabels
<1>2. /\ Tables /\ result[s] = None /\ Collects(s)
      /\ call[s] = [decisions |-> call[s].decisions, snapshot |-> call[s].snapshot,
                    resolution |-> call[s].resolution, scope |-> call[s].scope,
                    position |-> call[s].position, seen |-> call[s].seen]
    BY <1>1, Finding
<1>3. CASE Return(s, Failure)
    BY <1>2, <1>3, FailureReturned
<1>4. CASE /\ taken \cap Seen(s) = {} /\ Goto(s, IF more THEN "collect" ELSE "verify")
           /\ call' = [call EXCEPT ![s].position = position, ![s].seen = seen]
           /\ UNCHANGED result
  <2>1. taken \in SUBSET Coids
      BY DEF First, search
  <2>2. taken \in SUBSET Nat /\ IsFiniteSet(taken)
      BY <2>1, GovernedMemoryAssumption, FS_Subset
  <2>3. taken \cap {p[1] : p \in c.seen} = {}
      BY <1>4 DEF Seen
  <2>4. Places(c.seen)
      BY <1>1, <1>2 DEF Collects
  <2>. HIDE DEF taken, position, more
  <2>5. Places(seen)
      BY <2>2, <2>3, <2>4, PlacesGrow
  <2>. HIDE DEF seen
  <2>6. /\ pc'[s] \in {"collect", "verify"} /\ result'[s] = None
        /\ call'[s].decisions = call[s].decisions
        /\ call'[s].resolution = call[s].resolution /\ call'[s].seen = seen
      BY <1>2, <1>4 DEF Tables, Goto
  <2>7. Places(call'[s].seen)
      BY <2>5, <2>6
  <2>8. Collects(s)'
      BY <1>1, <1>2, <2>6, <2>7 DEF Collects, Coherent, Places, execution_authorized
  <2>. QED BY <2>6, <2>8, GoesOnTyped DEF ReaderLabels
<1>. QED BY <1>3, <1>4 DEF coletar

(* A view is no larger than asked, and full when there is more.              *)
LEMMA VerifyTyped ==
    ASSUME TypedInv, NEW s \in Sessions, verificar_resultado(s)
    PROVE  CallInv(s)'
<1> DEFINE r == request[s]
           c == call[s]
           more == Cardinality(c.seen) > r.offset + r.limit
           view == View("ADMISSIBLE", Page(s), more)
<1>1. pc[s] = "verify" /\ pc[s] \in ReaderLabels /\ UNCHANGED <<request, call>>
    BY DEF verificar_resultado, ReaderLabels
<1>2. Tables /\ Collects(s) /\ r.limit \in Nat /\ r.offset \in Nat
    BY <1>1, Finding
<1>3. CASE Return(s, Failure)
    BY <1>2, <1>3, FailureReturned
<1>4. CASE Return(s, view)
  <2>1. /\ Coherent(c.resolution) \/ c.resolution = None
        /\ \A d \in c.decisions : Coherent(d.resolution)
        /\ Places(c.seen) /\ execution_authorized(c.resolution)
      BY <1>1, <1>2 DEF Collects
  <2>2. /\ Cardinality(Page(s)) <= r.limit
        /\ more => Cardinality(Page(s)) = r.limit
    <3>1. Page(s) = {p[1] : p \in {p \in c.seen : /\ p[2] > r.offset
                                                 /\ p[2] <= r.offset + r.limit}}
        BY DEF Page
    <3>2. Places(c.seen) /\ r.limit \in Nat /\ r.offset \in Nat
        BY <1>2, <2>1
    <3>. HIDE DEF c, r
    <3>3. /\ Cardinality(Page(s)) <= r.limit
          /\ Cardinality(c.seen) > r.offset + r.limit => Cardinality(Page(s)) = r.limit
        BY <3>1, <3>2, PageSize
    <3>. QED BY <3>3
  <2>3. /\ view.kind = "VIEW" /\ view.outcome = "ADMISSIBLE" /\ view.items = Page(s)
        /\ view.has_more <=> more
      BY DEF View
  <2>4. pc'[s] = "done" /\ result'[s] = view
      BY <1>2, <1>4 DEF Tables, Return, Goto
  <2>. HIDE DEF view, more
  <2>5. ValidView(s, view)
      BY <2>1, <2>2, <2>3 DEF ValidView
  <2>6. Returned(s)'
      BY <1>1, <2>3, <2>4, <2>5
         DEF Returned, ValidView, Coherent, execution_authorized
  <2>. QED BY <2>4, <2>6, OnlyReturned
<1>. QED BY <1>3, <1>4 DEF verificar_resultado

LEMMA InitTyped == Init => TypedInv
<1> SUFFICES ASSUME Init PROVE TypedInv
    OBVIOUS
<1>1. IInv
    BY InitIInv
<1>2. Recorded
    BY GovernedMemoryAssumption DEF Init, Recorded
<1>3. LocksHeld
    BY DEF Init, LocksHeld
<1>4. ASSUME NEW s \in Sessions PROVE CallInv(s)
  <2>1. pc[s] = "idle" /\ result[s] = None
    BY DEF Init
  <2>. QED BY <2>1 DEF CallInv, Judged, Collects, Returned, ReaderLabels
<1>. QED BY <1>1, <1>2, <1>3, <1>4 DEF TypedInv

(* No version is published twice; others hold no locks and make no calls.    *)
LEMMA EnvironmentTyped ==
    ASSUME TypedInv, Environment
    PROVE  Recorded' /\ LocksHeld' /\ UNCHANGED <<pc, request, call, result>>
<1>1. Recorded /\ LocksHeld
    BY DEF TypedInv
<1>2. lock' = lock /\ UNCHANGED <<pc, request, call, result>>
    BY DEF Environment, publish_version, publish_accessibility, add, soft_delete,
           add_membership, record, sessionVars
<1>3. LocksHeld'
    BY <1>1, <1>2 DEF LocksHeld
<1>4. ASSUME accessibility' = accessibility, membership' = membership PROVE Recorded'
    BY <1>1, <1>4 DEF Recorded
<1>5. ASSUME NEW p \in AccessibilityPublications, publish_accessibility(p) PROVE Recorded'
    BY <1>1, <1>5 DEF publish_accessibility, Recorded
<1>6. ASSUME NEW m \in Memberships, add_membership(m) PROVE Recorded'
    BY <1>1, <1>6 DEF add_membership, Recorded
<1>7. Recorded'
    BY <1>4, <1>5, <1>6 DEF Environment, publish_version, add, soft_delete, record
<1>. QED BY <1>2, <1>3, <1>7

LEMMA NextTyped == TypedInv /\ [Next]_vars => TypedInv'
<1> SUFFICES ASSUME TypedInv, [Next]_vars PROVE TypedInv'
    OBVIOUS
<1>1. IInv'
    BY NextIInv DEF TypedInv
<1>2. Tables /\ Recorded /\ LocksHeld /\ \A u \in Sessions : CallInv(u)
    BY DEF TypedInv, IInv
<1>3. CASE UNCHANGED vars
  <2>1. Recorded' /\ LocksHeld'
    BY <1>2, <1>3 DEF vars, tables, Recorded, LocksHeld
  <2>2. ASSUME NEW u \in Sessions PROVE CallInv(u)'
    BY <1>2, <1>3, OtherCalls DEF vars
  <2>. QED BY <1>1, <2>1, <2>2 DEF TypedInv
<1>4. CASE Environment
  <2>1. Recorded' /\ LocksHeld' /\ UNCHANGED <<pc, request, call, result>>
    BY <1>4, EnvironmentTyped
  <2>2. ASSUME NEW u \in Sessions PROVE CallInv(u)'
    BY <1>2, <2>1, OtherCalls
  <2>. QED BY <1>1, <2>1, <2>2 DEF TypedInv
<1>5. ASSUME NEW s \in Sessions, Writer(s) \/ Reader(s) PROVE TypedInv'
  <2>1. /\ accessibility' = accessibility /\ membership' = membership
        /\ \A u \in Sessions \ {s} : /\ pc'[u] = pc[u] /\ request'[u] = request[u]
                                     /\ call'[u] = call[u] /\ result'[u] = result[u]
    BY <1>2, <1>5, OwnStep
  <2>2. Recorded'
    BY <1>2, <2>1 DEF Recorded
  <2>3. LocksHeld' /\ CallInv(s)'
    <3>1. CASE Writer(s)
      BY <3>1, TransitionTyped, ResolveTransitionTyped, RefreshTyped, EvaluateTyped, WriteTyped,
         RollbackTyped DEF Writer
    <3>2. CASE Reader(s)
      <4>1. CallInv(s)'
        BY <3>2, AskTyped, DecideTyped, SnapshotTyped, ResolveReadTyped, ScopeTyped,
           CollectTyped, VerifyTyped DEF Reader
      <4>. QED BY <3>2, <4>1, ReaderLocks
    <3>. QED BY <1>5, <3>1, <3>2
  <2>4. ASSUME NEW u \in Sessions \ {s} PROVE CallInv(u)'
    BY <1>2, <2>1, OtherCalls
  <2>. QED BY <1>1, <2>2, <2>3, <2>4 DEF TypedInv
<1>. QED BY <1>3, <1>4, <1>5 DEF Next

(* The tables keep their types, a version is published once, a row lock has  *)
(* a transition of that object behind it, and no call ever returns what the  *)
(* constructor of its result refuses: a transition says exactly what it      *)
(* changed and why, and a view is within the limit asked for, full when it   *)
(* says there is more, however the objects change between its pages.         *)
THEOREM GovernedTyped == Spec => []TypeOK
<1>1. ASSUME TypedInv PROVE TypeOK
  <2>1. Tables /\ Recorded /\ LocksHeld /\ \A s \in Sessions : Returned(s)
    BY <1>1 DEF TypedInv, IInv, CallInv
  <2>2. governance \subseteq GovernancePolicy /\ accessibility \subseteq AccessibilityPolicy
    BY <2>1, Published
  <2>. QED BY <2>1, <2>2 DEF TypeOK, Tables, Recorded, LocksHeld, Returned
<1>. QED BY <1>1, InitTyped, NextTyped, PTL DEF Spec


-----------------------------------------------------------------------------
(* Compliance: what a review answers, for any policies, observations and     *)
(* days.                                                                     *)

(* The rules of an evaluated policy are numbered, and none twice.            *)
LEMMA EvaluatedRules ==
    ASSUME NEW p \in EvaluatedPolicy
    PROVE  /\ p.kind \in PolicyKind /\ p.effective_from \in Instants
           /\ p.effective_until \in Instants \cup {None}
           /\ \A r \in p.rules : r.rule_id \in Nat
           /\ \A r, q \in p.rules : r.rule_id = q.rule_id => r = q
           /\ p.kind = "retention" => p.rules \subseteq RetentionRule
<1>1. /\ p.kind \in PolicyKind /\ p.effective_from \in Instants
      /\ p.effective_until \in Instants \cup {None}
      /\ \A r, q \in p.rules : r.rule_id = q.rule_id => r = q
      /\ p.kind = "governance" => p.rules \subseteq GovernanceRule
      /\ p.kind = "accessibility" => p.rules \subseteq AccessibilityRule
      /\ p.kind = "retention" => p.rules \subseteq RetentionRule
    BY DEF EvaluatedPolicy
<1>2. \A r \in GovernanceRule \cup AccessibilityRule \cup RetentionRule : r.rule_id \in Nat
    BY DEF GovernanceRule, AccessibilityRule, RetentionRule
<1>. QED BY <1>1, <1>2 DEF PolicyKind

LEMMA NumbersOfRules ==
    ASSUME NEW rules, \A r \in rules : r.rule_id \in Nat
    PROVE  /\ Ids(rules) \in SUBSET Nat
           /\ rules # {} => Ids(rules) # {}
           /\ Denials(rules) \subseteq rules
BY DEF Ids, Denials

Window == {"before_window", "effective", "after_window"}
Codes == UNION {CODIGOS_POR_POLITICA[k] : k \in PolicyKind}

(* What the four ways to write a report write.                               *)
LEMMA ReportForm ==
    ASSUME NEW outcome \in ComplianceOutcome \cup {"raised"}, NEW window \in Window,
           NEW rules, \A r \in rules : r.rule_id \in Nat, NEW missing \in SUBSET MissingObservation
    PROVE  /\ relatorio(outcome, window, rules, missing) \in Report
           /\ relatorio(outcome, window, rules, missing).outcome = outcome
           /\ relatorio(outcome, window, rules, missing).rules = Ids(rules)
           /\ relatorio(outcome, window, rules, missing).missing = missing
           /\ relatorio(outcome, window, rules, missing).findings = {}
<1>1. Ids(rules) \in SUBSET Nat
    BY NumbersOfRules
<1>. QED BY <1>1 DEF relatorio, Report, Window

LEMMA KnownCodes ==
    ASSUME NEW kind \in PolicyKind, NEW code \in CODIGOS_POR_POLITICA[kind]
    PROVE  code \in Codes
BY DEF Codes

LEMMA ViolationForm ==
    ASSUME NEW kind \in PolicyKind, NEW code \in CODIGOS_POR_POLITICA[kind],
           NEW severity \in {"warning", "error", "critical"},
           NEW rules, \A r \in rules : r.rule_id \in Nat
    PROVE  /\ com_violacao(code, severity, rules) \in Report
           /\ com_violacao(code, severity, rules).outcome = "violation_confirmed"
           /\ CoerenciaDoDesfecho(kind, com_violacao(code, severity, rules))
<1>. DEFINE finding == [code |-> code, severity |-> severity, rules |-> Ids(rules)]
            written == com_violacao(code, severity, rules)
<1>1. Ids(rules) \in SUBSET Nat /\ code \in Codes
    BY NumbersOfRules, KnownCodes
<1>2. finding \in [code : Codes, severity : {"warning", "error", "critical"}, rules : SUBSET Nat]
    BY <1>1
<1>3. /\ written.outcome = "violation_confirmed" /\ written.findings = {finding}
      /\ written.missing = {}
    BY DEF com_violacao
<1>4. written \in Report
    BY <1>1, <1>2 DEF com_violacao, Report, ComplianceOutcome, Codes
<1>5. CoerenciaDoDesfecho(kind, written)
    BY <1>3 DEF CoerenciaDoDesfecho
<1>. QED BY <1>3, <1>4, <1>5

LEMMA CompliantForm ==
    ASSUME NEW kind, NEW rules, rules # {}, \A r \in rules : r.rule_id \in Nat
    PROVE  /\ Compliant(rules) \in Report /\ Compliant(rules).outcome = "compliant"
           /\ CoerenciaDoDesfecho(kind, Compliant(rules))
<1>1. Ids(rules) # {}
    BY NumbersOfRules
<1>2. /\ Compliant(rules) \in Report /\ Compliant(rules).outcome = "compliant"
      /\ Compliant(rules).rules = Ids(rules) /\ Compliant(rules).missing = {}
      /\ Compliant(rules).findings = {}
  <2>. DEFINE written == relatorio("compliant", "effective", rules, {})
  <2>1. /\ "compliant" \in ComplianceOutcome \cup {"raised"} /\ "effective" \in Window
        /\ {} \in SUBSET MissingObservation
      BY DEF ComplianceOutcome, Window
  <2>2. /\ written \in Report /\ written.outcome = "compliant"
        /\ written.rules = Ids(rules) /\ written.missing = {} /\ written.findings = {}
      BY <2>1, ReportForm, SMTT(30)
  <2>3. Compliant(rules) = written
      BY DEF Compliant
  <2>. QED BY <2>2, <2>3
<1>. QED BY <1>1, <1>2 DEF CoerenciaDoDesfecho

LEMMA NotApplicableForm ==
    ASSUME NEW kind, NEW window \in Window
    PROVE  /\ NotApplicable(window) \in Report
           /\ NotApplicable(window).outcome = "policy_not_applicable"
           /\ CoerenciaDoDesfecho(kind, NotApplicable(window))
<1>1. /\ NotApplicable(window) \in Report /\ NotApplicable(window).rules = Ids({})
      /\ NotApplicable(window).outcome = "policy_not_applicable"
      /\ NotApplicable(window).missing = {} /\ NotApplicable(window).findings = {}
    BY ReportForm DEF NotApplicable, ComplianceOutcome
<1>2. Ids({}) = {}
    BY DEF Ids
<1>. QED BY <1>1, <1>2 DEF CoerenciaDoDesfecho

LEMMA InsufficientForm ==
    ASSUME NEW kind, NEW missing \in SUBSET MissingObservation, missing # {}
    PROVE  /\ Insufficient(missing) \in Report
           /\ Insufficient(missing).outcome = "insufficient_information"
           /\ CoerenciaDoDesfecho(kind, Insufficient(missing))
<1>1. /\ Insufficient(missing) \in Report
      /\ Insufficient(missing).outcome = "insufficient_information"
      /\ Insufficient(missing).missing = missing /\ Insufficient(missing).findings = {}
    BY ReportForm DEF Insufficient, ComplianceOutcome, Window
<1>. QED BY <1>1 DEF CoerenciaDoDesfecho

(* What is to be shown of one review: the report is one its constructor      *)
(* accepts, what decides decides for good, and what is missing is open.      *)
Sound(kind, r) == r \in Report /\ (r.outcome # "raised" => CoerenciaDoDesfecho(kind, r))

LEMMA GovernanceReview ==
    ASSUME NEW p \in EvaluatedPolicy, p.kind = "governance", NEW o \in GovernedOperationObservation
    PROVE  Sound("governance", avaliar_governanca(p, o)) /\ avaliar_governanca(p, o).outcome # "raised"
<1>. DEFINE rules == Applicable(p, o.operation, o.context)
            r == avaliar_governanca(p, o)
<1>. SUFFICES Sound("governance", r) /\ r.outcome # "raised"
    OBVIOUS
<1>1. \A q \in rules : q.rule_id \in Nat
    BY EvaluatedRules DEF Applicable
<1>2. \A q \in Denials(rules) : q.rule_id \in Nat
    BY <1>1 DEF Denials
<1>3. \/ rules # {} /\ r = Compliant(rules)
      \/ r = Insufficient({"observed_operation_state"})
      \/ r = com_violacao("GOV-002", "warning", {})
      \/ r = NotApplicable("effective")
      \/ r = com_violacao("GOV-001", "error", Denials(rules))
    BY DEF avaliar_governanca, CompliesAnyway
<1>. HIDE DEF r, rules
<1>4. ASSUME rules # {}, r = Compliant(rules)
      PROVE  Sound("governance", r) /\ r.outcome # "raised"
    BY <1>1, <1>4, CompliantForm DEF Sound
<1>5. ASSUME r = Insufficient({"observed_operation_state"})
      PROVE  Sound("governance", r) /\ r.outcome # "raised"
    BY <1>5, InsufficientForm DEF Sound, MissingObservation
<1>6. ASSUME r = NotApplicable("effective")
      PROVE  Sound("governance", r) /\ r.outcome # "raised"
    BY <1>6, NotApplicableForm DEF Sound, Window
<1>7. ASSUME NEW code \in CODIGOS_POR_POLITICA["governance"],
             NEW severity \in {"warning", "error", "critical"},
             NEW cited, \A q \in cited : q.rule_id \in Nat, r = com_violacao(code, severity, cited)
      PROVE  Sound("governance", r) /\ r.outcome # "raised"
    BY <1>7, ViolationForm DEF Sound, PolicyKind
<1>8. {"GOV-001", "GOV-002"} = CODIGOS_POR_POLITICA["governance"]
    BY DEF CODIGOS_POR_POLITICA
<1>9. CASE r = com_violacao("GOV-002", "warning", {})
    BY <1>7, <1>8, <1>9
<1>10. CASE r = com_violacao("GOV-001", "error", Denials(rules))
    BY <1>2, <1>7, <1>8, <1>10
<1>. QED BY <1>3, <1>4, <1>5, <1>6, <1>9, <1>10

LEMMA GovernanceDecides ==
    ASSUME NEW p, NEW o \in GovernedOperationObservation
    PROVE  /\ avaliar_governanca(p, o).outcome # "insufficient_information" =>
                  \A f \in Refinements("governance", o) :
                      avaliar_governanca(p, f) = avaliar_governanca(p, o)
           /\ \E f \in Refinements("governance", o) :
                  /\ f \in GovernedOperationObservation
                  /\ f.observed_state # "not_observed"
<1>. DEFINE seen(s) == [o EXCEPT !.observed_state = s]
<1>1. Refinements("governance", o) =
          {seen(s) : s \in Filled(o.observed_state, "not_observed", ObservedOperationState)}
    BY DEF Refinements
<1>2. \A s \in ObservedOperationState :
          /\ seen(s) \in GovernedOperationObservation
          /\ seen(s).observed_state = s /\ seen(s).operation = o.operation
          /\ seen(s).context = o.context
    BY DEF GovernedOperationObservation
<1>3. o = seen(o.observed_state)
    BY DEF GovernedOperationObservation
<1>4. o.observed_state \in ObservedOperationState /\ "executed" \in ObservedOperationState
    BY DEF GovernedOperationObservation, ObservedOperationState
<1>. HIDE DEF seen
<1>5. CASE o.observed_state # "not_observed"
  <2>1. Refinements("governance", o) = {o}
      BY <1>1, <1>3, <1>5 DEF Filled
  <2>. QED BY <1>5, <2>1
<1>6. CASE o.observed_state = "not_observed"
  <2>1. Refinements("governance", o) = {seen(s) : s \in ObservedOperationState}
      BY <1>1, <1>6 DEF Filled
  <2>2. seen("executed") \in Refinements("governance", o)
      BY <1>4, <2>1
  <2>3. ASSUME avaliar_governanca(p, o).outcome # "insufficient_information",
               NEW s \in ObservedOperationState
        PROVE  avaliar_governanca(p, seen(s)) = avaliar_governanca(p, o)
    <3>1. CompliesAnyway(Applicable(p, o.operation, o.context))
        BY <1>6, <2>3 DEF avaliar_governanca, Insufficient, relatorio
    <3>. QED BY <1>2, <1>6, <3>1 DEF avaliar_governanca, CompliesAnyway
  <2>. QED BY <1>2, <1>4, <2>1, <2>2, <2>3
<1>. QED BY <1>5, <1>6

(* Where it was observed whether the operation ran, the review decides.      *)
LEMMA GovernanceObserved ==
    ASSUME NEW p \in EvaluatedPolicy, p.kind = "governance",
           NEW o \in GovernedOperationObservation, o.observed_state # "not_observed"
    PROVE  avaliar_governanca(p, o).outcome # "insufficient_information"
<1>. DEFINE rules == Applicable(p, o.operation, o.context)
<1>1. \/ avaliar_governanca(p, o) = com_violacao("GOV-002", "warning", {})
      \/ avaliar_governanca(p, o) = NotApplicable("effective")
      \/ avaliar_governanca(p, o) = com_violacao("GOV-001", "error", Denials(rules))
      \/ avaliar_governanca(p, o) = Compliant(rules)
    BY DEF avaliar_governanca
<1>. QED BY <1>1 DEF com_violacao, NotApplicable, Compliant, relatorio

-----------------------------------------------------------------------------
LEMMA AccessibilityReview ==
    ASSUME NEW p \in EvaluatedPolicy, p.kind = "accessibility",
           NEW o \in AccessibilityStateObservation
    PROVE  /\ Sound("accessibility", avaliar_acessibilidade(p, o))
           /\ avaliar_acessibilidade(p, o).outcome # "raised"
<1>. DEFINE rules == {r \in p.rules : RuleMatches(r, o.declared_source, o.current_state)}
            r == avaliar_acessibilidade(p, o)
<1>. SUFFICES Sound("accessibility", r) /\ r.outcome # "raised"
    OBVIOUS
<1>1. \A q \in rules : q.rule_id \in Nat
    BY EvaluatedRules
<1>2. \A q \in Denials(rules) : q.rule_id \in Nat
    BY <1>1 DEF Denials
<1>3. Unseen(o) \in SUBSET MissingObservation
      /\ {"declared_source_state"} \cup Unseen(o) \in SUBSET MissingObservation
    BY DEF Unseen, MissingObservation
<1>4. \/ rules # {} /\ r = Compliant(rules)
      \/ r = Insufficient({"declared_source_state"} \cup Unseen(o))
      \/ Unseen(o) # {} /\ r = Insufficient(Unseen(o))
      \/ r = com_violacao("ACC-002", "critical", {})
      \/ r = com_violacao("ACC-003", "warning", {})
      \/ r = com_violacao("ACC-001", "error", Denials(rules))
    BY DEF avaliar_acessibilidade
<1>. HIDE DEF r, rules
<1>5. ASSUME rules # {}, r = Compliant(rules)
      PROVE  Sound("accessibility", r) /\ r.outcome # "raised"
    BY <1>1, <1>5, CompliantForm DEF Sound
<1>6. ASSUME NEW missing \in SUBSET MissingObservation, missing # {}, r = Insufficient(missing)
      PROVE  Sound("accessibility", r) /\ r.outcome # "raised"
    BY <1>6, InsufficientForm DEF Sound
<1>7. ASSUME NEW code \in CODIGOS_POR_POLITICA["accessibility"],
             NEW severity \in {"warning", "error", "critical"},
             NEW cited, \A q \in cited : q.rule_id \in Nat, r = com_violacao(code, severity, cited)
      PROVE  Sound("accessibility", r) /\ r.outcome # "raised"
    BY <1>7, ViolationForm DEF Sound, PolicyKind
<1>8. {"ACC-001", "ACC-002", "ACC-003"} = CODIGOS_POR_POLITICA["accessibility"]
    BY DEF CODIGOS_POR_POLITICA
<1>9. CASE \/ r = com_violacao("ACC-002", "critical", {})
           \/ r = com_violacao("ACC-003", "warning", {})
    BY <1>7, <1>8, <1>9
<1>10. CASE r = com_violacao("ACC-001", "error", Denials(rules))
    BY <1>2, <1>7, <1>8, <1>10
<1>11. CASE r = Insufficient({"declared_source_state"} \cup Unseen(o))
    BY <1>3, <1>6, <1>11
<1>12. CASE Unseen(o) # {} /\ r = Insufficient(Unseen(o))
    BY <1>3, <1>6, <1>12
<1>. QED BY <1>4, <1>5, <1>9, <1>10, <1>11, <1>12

LEMMA AccessibilityDecides ==
    ASSUME NEW p, NEW o \in AccessibilityStateObservation
    PROVE  /\ avaliar_acessibilidade(p, o).outcome # "insufficient_information" =>
                  \A f \in Refinements("accessibility", o) :
                      avaliar_acessibilidade(p, f) = avaliar_acessibilidade(p, o)
           /\ \E f \in Refinements("accessibility", o) :
                  /\ f \in AccessibilityStateObservation
                  /\ f.declared_source # None /\ f.causal_evidence # "not_observed"
<1>. DEFINE seen(d, c) == [o EXCEPT !.declared_source = d, !.causal_evidence = c]
            declared == Filled(o.declared_source, None, ACCESSIBILITY_STATE_TOKENS \cup {None})
            evidence == Filled(o.causal_evidence, "not_observed", CausalEvidencePresence)
<1>1. Refinements("accessibility", o) = {seen(d, c) : d \in declared, c \in evidence}
    BY DEF Refinements
<1>2. \A d \in ACCESSIBILITY_STATE_TOKENS \cup {None}, c \in CausalEvidencePresence :
          /\ seen(d, c) \in AccessibilityStateObservation
          /\ seen(d, c).declared_source = d /\ seen(d, c).causal_evidence = c
          /\ seen(d, c).current_state = o.current_state
    BY DEF AccessibilityStateObservation
<1>3. /\ o.declared_source \in ACCESSIBILITY_STATE_TOKENS \cup {None}
      /\ o.causal_evidence \in CausalEvidencePresence
    BY DEF AccessibilityStateObservation
<1>4. declared \subseteq ACCESSIBILITY_STATE_TOKENS \cup {None} /\ evidence \subseteq CausalEvidencePresence
    BY <1>3 DEF Filled
<1>5. \E d \in declared : d # None
    BY ComplianceAssumption DEF Filled, ACCESSIBILITY_STATE_TOKENS
<1>6. \E c \in evidence : c # "not_observed"
    BY DEF Filled, CausalEvidencePresence
<1>7. ASSUME avaliar_acessibilidade(p, o).outcome # "insufficient_information",
             NEW d \in declared, NEW c \in evidence
      PROVE  avaliar_acessibilidade(p, seen(d, c)) = avaliar_acessibilidade(p, o)
  <2>1. o.declared_source # None /\ Unseen(o) = {}
      BY <1>7 DEF avaliar_acessibilidade, Insufficient, relatorio
  <2>2. d = o.declared_source
      BY <2>1 DEF Filled
  <2>3. Extinct(o) => o.causal_evidence # "not_observed"
      BY <2>1 DEF Unseen
  <2>4. Extinct(o) => c = o.causal_evidence
      BY <2>3 DEF Filled
  <2>. DEFINE f == seen(d, c)
  <2>5. /\ f.declared_source = o.declared_source /\ f.current_state = o.current_state
        /\ f.causal_evidence = c
    <3>1. d \in ACCESSIBILITY_STATE_TOKENS \cup {None} /\ c \in CausalEvidencePresence
        BY <1>4
    <3>2. /\ f.declared_source = d /\ f.current_state = o.current_state
          /\ f.causal_evidence = c
        BY <1>2, <3>1
    <3>. HIDE DEF f
    <3>. QED BY <2>2, <3>2
  <2>. HIDE DEF f
  <2>6. Extinct(f) = Extinct(o)
      BY <2>5 DEF Extinct
  <2>7. Unseen(f) = {}
      BY <2>1, <2>3, <2>4, <2>5, <2>6 DEF Unseen
  <2>8. (Extinct(f) /\ f.causal_evidence = "absent") = (Extinct(o) /\ o.causal_evidence = "absent")
      BY <2>4, <2>5, <2>6
  <2>9. avaliar_acessibilidade(p, f) = avaliar_acessibilidade(p, o)
      BY <2>1, <2>5, <2>7, <2>8 DEF avaliar_acessibilidade
  <2>. QED BY <2>9 DEF f
<1>. HIDE DEF seen, declared, evidence
<1>8. \A f \in Refinements("accessibility", o) : \E d \in declared, c \in evidence : f = seen(d, c)
    BY <1>1
<1>9. PICK d \in declared, c \in evidence : d # None /\ c # "not_observed"
    BY <1>5, <1>6
<1>10. seen(d, c) \in Refinements("accessibility", o)
    BY <1>1
<1>. QED BY <1>2, <1>4, <1>7, <1>8, <1>9, <1>10

LEMMA AccessibilityObserved ==
    ASSUME NEW p, NEW o \in AccessibilityStateObservation,
           o.declared_source # None, o.causal_evidence # "not_observed"
    PROVE  avaliar_acessibilidade(p, o).outcome # "insufficient_information"
BY DEF avaliar_acessibilidade, Unseen, com_violacao, Compliant, relatorio

-----------------------------------------------------------------------------
(* Days a datetime can hold have a last among them.                          *)
LEMMA LastDay ==
    ASSUME NEW S \in SUBSET Instants, S # {}
    PROVE  \E m \in S : \A n \in S : n <= m
<1>. DEFINE T == {MaxInstant - n : n \in S}
<1>1. MaxInstant \in Nat
    BY RetentionAssumption
<1>2. T \in SUBSET Nat /\ T # {}
  <2>1. ASSUME NEW n \in S PROVE MaxInstant - n \in Nat
      BY <1>1 DEF Instants
  <2>. QED BY <2>1
<1>3. PICK t \in T : \A u \in T : t <= u
  <2>. HIDE DEF T
  <2>. QED BY <1>2, LeastNumber
<1>4. PICK m \in S : t = MaxInstant - m
    OBVIOUS
<1>5. ASSUME NEW n \in S PROVE n <= m
  <2>1. MaxInstant - m <= MaxInstant - n
      BY <1>3, <1>4
  <2>2. n \in Int /\ m \in Int
      BY DEF Instants
  <2>. QED BY <2>1, <2>2, <1>1
<1>. QED BY <1>5

(* Where every due date is a date, the last of them is one of them.          *)
LEMMA LatestDue ==
    ASSUME NEW c, c.created_at \in Instants, NEW rules \in SUBSET RetentionRule, rules # {},
           ~ Overflows(c, rules)
    PROVE  /\ effective_due_at(c, rules) \in Instants
           /\ \A r \in rules : due_at(c, r) <= effective_due_at(c, rules)
           /\ \E r \in rules : due_at(c, r) = effective_due_at(c, rules)
<1>. DEFINE dues == {due_at(c, r) : r \in rules}
<1>1. ASSUME NEW r \in rules PROVE due_at(c, r) \in Instants
  <2>1. r.minimum_age_days \in Nat /\ c.created_at \in Nat /\ MaxInstant \in Nat
      BY RetentionAssumption DEF RetentionRule, Instants
  <2>2. ~ (due_at(c, r) > MaxInstant)
      BY DEF Overflows
  <2>. QED BY <2>1, <2>2 DEF due_at, Instants
<1>2. dues \in SUBSET Instants /\ dues # {}
    BY <1>1
<1>3. effective_due_at(c, rules) = CHOOSE d \in dues : \A e \in dues : e <= d
    BY DEF effective_due_at
<1>4. effective_due_at(c, rules) \in dues /\ \A e \in dues : e <= effective_due_at(c, rules)
  <2>. HIDE DEF dues
  <2>. QED BY <1>2, <1>3, LastDay
<1>. QED BY <1>2, <1>4

(* The assessment of a candidate, by the order of the questions.             *)
Assessed(c, rules, at, a) ==
    LET applicable == Reaching(c, rules)
        effective  == effective_due_at(c, applicable)
        due        == {r \in applicable : at >= due_at(c, r)}
    IN  \/ /\ c.legacy_protection_state = "protected"
           /\ a = Assessment("preserve_legacy_protected", applicable, due, effective, None)
        \/ /\ c.legacy_protection_state # "protected" /\ at < effective
           /\ a = Assessment("not_yet_due", applicable, due, effective, effective)
        \/ /\ c.legacy_protection_state # "protected" /\ ~ (at < effective)
           /\ a = Assessment("assess_and_inform", applicable, due, effective, None)

Within(from, until, at) == ~ (at < from \/ (until # None /\ at >= until))

LEMMA AssessmentForm ==
    ASSUME NEW c, NEW rules, NEW from, NEW until, NEW at
    PROVE  LET a == avaliar_retencao(c, rules, from, until, at)
               applicable == Reaching(c, rules)
           IN  /\ c.created_at > at => a = Raised
               /\ ~ (c.created_at > at) /\ ~ Within(from, until, at) =>
                      a = Assessment("policy_not_effective", {}, {}, None, None)
               /\ ~ (c.created_at > at) /\ Within(from, until, at) /\ applicable = {} =>
                      a = Assessment("out_of_scope", {}, {}, None, None)
               /\ /\ ~ (c.created_at > at) /\ Within(from, until, at) /\ applicable # {}
                  /\ Overflows(c, applicable)
                  => a = Raised
               /\ /\ ~ (c.created_at > at) /\ Within(from, until, at) /\ applicable # {}
                  /\ ~ Overflows(c, applicable)
                  => Assessed(c, rules, at, a)
BY DEF avaliar_retencao, Within, Assessed

LEMMA AssessmentFields ==
    ASSUME NEW decision, NEW applicable, NEW due, NEW effective, NEW next
    PROVE  LET a == Assessment(decision, applicable, due, effective, next)
           IN  /\ a.decision = decision /\ a.applicable_rule_ids = Ids(applicable)
               /\ a.due_rule_ids = Ids(due) /\ a.effective_due_at = effective
               /\ a.next_due_at = next
BY DEF Assessment

LEMMA RaisedFields ==
    Raised.decision = "raised"
BY AssessmentFields DEF Raised

LEMMA IdsGrow ==
    ASSUME NEW some, NEW all, some \subseteq all
    PROVE  Ids(some) \subseteq Ids(all)
BY DEF Ids

(* An assessment that is not an exception is one its constructor accepts.    *)
LEMMA AssessmentSound ==
    ASSUME NEW c, c.created_at \in Instants, NEW rules \in SUBSET RetentionRule,
           NEW from \in Instants, NEW until \in Instants \cup {None}, NEW at \in Instants,
           avaliar_retencao(c, rules, from, until, at).decision # "raised"
    PROVE  MatrizDaDecisao(avaliar_retencao(c, rules, from, until, at), at)
<1>. DEFINE a == avaliar_retencao(c, rules, from, until, at)
            applicable == Reaching(c, rules)
            effective == effective_due_at(c, applicable)
            due == {r \in applicable : at >= due_at(c, r)}
<1>. SUFFICES MatrizDaDecisao(a, at)
    OBVIOUS
<1>1. ~ (c.created_at > at)
    BY AssessmentForm, RaisedFields
<1>2. applicable \in SUBSET RetentionRule /\ due \subseteq applicable
    BY DEF Reaching
<1>3. Ids({}) = {}
    BY DEF Ids
<1>4. CASE ~ Within(from, until, at) \/ applicable = {}
  <2>1. \/ a = Assessment("policy_not_effective", {}, {}, None, None)
        \/ a = Assessment("out_of_scope", {}, {}, None, None)
      BY <1>1, <1>4, AssessmentForm
  <2>. HIDE DEF a
  <2>2. /\ a.decision \in {"policy_not_effective", "out_of_scope"}
        /\ a.applicable_rule_ids = {} /\ a.due_rule_ids = {}
        /\ a.effective_due_at = None /\ a.next_due_at = None
      BY <1>3, <2>1, AssessmentFields
  <2>. QED BY <2>2 DEF MatrizDaDecisao
<1>5. CASE Within(from, until, at) /\ applicable # {}
  <2>1. ~ Overflows(c, applicable)
      BY <1>1, <1>5, AssessmentForm, RaisedFields
  <2>2. Assessed(c, rules, at, a)
      BY <1>1, <1>5, <2>1, AssessmentForm
  <2>3. /\ effective \in Instants /\ \A r \in applicable : due_at(c, r) <= effective
      BY <1>2, <1>5, <2>1, LatestDue
  <2>4. effective # None /\ effective \in Nat /\ at \in Nat
      BY <2>3, GovernanceAssumption DEF Instants
  <2>5. Ids(applicable) # {} /\ Ids(due) \subseteq Ids(applicable)
      BY <1>2, <1>5, IdsGrow DEF Ids
  <2>6. ~ (at < effective) => due = applicable
    <3>1. ASSUME NEW r \in applicable, ~ (at < effective) PROVE at >= due_at(c, r)
      <4>1. due_at(c, r) \in Int
        <5>1. r.minimum_age_days \in Nat /\ c.created_at \in Nat
            BY <1>2 DEF RetentionRule, Instants
        <5>. QED BY <5>1 DEF due_at
      <4>. HIDE DEF effective, applicable
      <4>. QED BY <2>3, <2>4, <3>1, <4>1
    <3>. QED BY <3>1
  <2>7. \/ a = Assessment("preserve_legacy_protected", applicable, due, effective, None)
        \/ at < effective /\ a = Assessment("not_yet_due", applicable, due, effective, effective)
        \/ ~ (at < effective) /\ a = Assessment("assess_and_inform", applicable, due, effective, None)
      BY <2>2 DEF Assessed
  <2>. HIDE DEF a, applicable, effective, due
  <2>8. /\ a.applicable_rule_ids = Ids(applicable) /\ a.due_rule_ids = Ids(due)
        /\ a.effective_due_at = effective
        /\ \/ a.decision = "preserve_legacy_protected" /\ a.next_due_at = None
           \/ a.decision = "not_yet_due" /\ a.next_due_at = effective /\ at < effective
           \/ a.decision = "assess_and_inform" /\ a.next_due_at = None /\ ~ (at < effective)
      BY <2>7, AssessmentFields
  <2>. QED BY <2>4, <2>5, <2>6, <2>8 DEF MatrizDaDecisao
<1>. QED BY <1>4, <1>5

(* What informs is an unprotected candidate, in the window, all of whose due *)
(* dates are dates that have come.                                           *)
Informs(c, rules, from, until, at) ==
    /\ ~ (c.created_at > at) /\ Within(from, until, at)
    /\ Reaching(c, rules) # {} /\ ~ Overflows(c, Reaching(c, rules))
    /\ c.legacy_protection_state # "protected"
    /\ \A r \in Reaching(c, rules) : due_at(c, r) <= at

LEMMA InformsExactly ==
    ASSUME NEW c, c.created_at \in Instants, NEW rules \in SUBSET RetentionRule,
           NEW from \in Instants, NEW until \in Instants \cup {None}, NEW at \in Instants
    PROVE  avaliar_retencao(c, rules, from, until, at).decision = "assess_and_inform"
               <=> Informs(c, rules, from, until, at)
<1>. DEFINE a == avaliar_retencao(c, rules, from, until, at)
            applicable == Reaching(c, rules)
            effective == effective_due_at(c, applicable)
<1>. SUFFICES a.decision = "assess_and_inform" <=> Informs(c, rules, from, until, at)
    OBVIOUS
<1>1. applicable \in SUBSET RetentionRule
    BY DEF Reaching
<1>2. \A r \in applicable : due_at(c, r) \in Int
  <2>1. ASSUME NEW r \in applicable PROVE r.minimum_age_days \in Nat /\ c.created_at \in Nat
      BY <1>1 DEF RetentionRule, Instants
  <2>. QED BY <2>1 DEF due_at
<1>3. CASE ~ /\ ~ (c.created_at > at) /\ Within(from, until, at)
             /\ applicable # {} /\ ~ Overflows(c, applicable)
  <2>1. \/ a = Raised
        \/ a = Assessment("policy_not_effective", {}, {}, None, None)
        \/ a = Assessment("out_of_scope", {}, {}, None, None)
      BY <1>3, AssessmentForm
  <2>2. a.decision # "assess_and_inform"
    <3>. HIDE DEF a
    <3>. QED BY <2>1, RaisedFields, AssessmentFields
  <2>. QED BY <1>3, <2>2 DEF Informs
<1>4. CASE /\ ~ (c.created_at > at) /\ Within(from, until, at)
           /\ applicable # {} /\ ~ Overflows(c, applicable)
  <2>1. Assessed(c, rules, at, a)
      BY <1>4, AssessmentForm
  <2>2. /\ effective \in Instants /\ \A r \in applicable : due_at(c, r) <= effective
        /\ \E r \in applicable : due_at(c, r) = effective
      BY <1>1, <1>4, LatestDue
  <2>3. effective \in Int /\ at \in Int
      BY <2>2 DEF Instants
  <2>4. ~ (at < effective) <=> \A r \in applicable : due_at(c, r) <= at
    <3>. HIDE DEF effective, applicable
    <3>. QED BY <1>2, <2>2, <2>3
  <2>5. a.decision = "assess_and_inform"
            <=> c.legacy_protection_state # "protected" /\ ~ (at < effective)
    <3>. DEFINE due == {r \in applicable : at >= due_at(c, r)}
    <3>1. \/ /\ c.legacy_protection_state = "protected"
             /\ a = Assessment("preserve_legacy_protected", applicable, due, effective, None)
          \/ /\ c.legacy_protection_state # "protected" /\ at < effective
             /\ a = Assessment("not_yet_due", applicable, due, effective, effective)
          \/ /\ c.legacy_protection_state # "protected" /\ ~ (at < effective)
             /\ a = Assessment("assess_and_inform", applicable, due, effective, None)
        BY <2>1 DEF Assessed
    <3>. HIDE DEF a, applicable, effective, due
    <3>. QED BY <3>1, AssessmentFields
  <2>. QED BY <1>4, <2>4, <2>5 DEF Informs
<1>. QED BY <1>3, <1>4

LEMMA AssessmentStands ==
    ASSUME NEW c, c.created_at \in Instants, NEW rules \in SUBSET RetentionRule,
           NEW from \in Instants, NEW until \in Instants \cup {None}, NEW at \in Instants,
           avaliar_retencao(c, rules, from, until, at).decision = "assess_and_inform"
    PROVE  /\ \A later \in at .. MaxInstant :
                  \/ avaliar_retencao(c, rules, from, until, later).decision = "assess_and_inform"
                  \/ avaliar_retencao(c, rules, from, until, later).decision = "policy_not_effective"
           /\ \A fewer \in SUBSET rules :
                  \/ avaliar_retencao(c, fewer, from, until, at).decision = "assess_and_inform"
                  \/ avaliar_retencao(c, fewer, from, until, at).decision = "out_of_scope"
<1>1. Informs(c, rules, from, until, at)
    BY InformsExactly
<1>2. \A r \in Reaching(c, rules) : due_at(c, r) \in Int
  <2>1. ASSUME NEW r \in Reaching(c, rules)
        PROVE  r.minimum_age_days \in Nat /\ c.created_at \in Nat
      BY DEF Reaching, RetentionRule, Instants
  <2>. QED BY <2>1 DEF due_at
<1>3. ASSUME NEW later \in at .. MaxInstant
      PROVE  \/ avaliar_retencao(c, rules, from, until, later).decision = "assess_and_inform"
             \/ avaliar_retencao(c, rules, from, until, later).decision = "policy_not_effective"
  <2>1. later \in Instants /\ later \in Int /\ at \in Int /\ later >= at /\ c.created_at \in Int
      BY RetentionAssumption DEF Instants
  <2>2. ~ (c.created_at > later)
      BY <1>1, <2>1 DEF Informs
  <2>3. CASE Within(from, until, later)
    <3>1. \A r \in Reaching(c, rules) : due_at(c, r) <= later
        BY <1>1, <1>2, <2>1 DEF Informs
    <3>2. Informs(c, rules, from, until, later)
        BY <1>1, <2>2, <2>3, <3>1 DEF Informs
    <3>. QED BY <2>1, <3>2, InformsExactly
  <2>4. CASE ~ Within(from, until, later)
    <3>1. avaliar_retencao(c, rules, from, until, later)
              = Assessment("policy_not_effective", {}, {}, None, None)
        BY <2>2, <2>4, AssessmentForm
    <3>. QED BY <3>1, AssessmentFields
  <2>. QED BY <2>3, <2>4
<1>4. ASSUME NEW fewer \in SUBSET rules
      PROVE  \/ avaliar_retencao(c, fewer, from, until, at).decision = "assess_and_inform"
             \/ avaliar_retencao(c, fewer, from, until, at).decision = "out_of_scope"
  <2>1. Reaching(c, fewer) \subseteq Reaching(c, rules)
      BY DEF Reaching
  <2>2. CASE Reaching(c, fewer) # {}
    <3>1. ~ Overflows(c, Reaching(c, fewer))
        BY <1>1, <2>1 DEF Informs, Overflows
    <3>2. Informs(c, fewer, from, until, at)
        BY <1>1, <2>1, <2>2, <3>1 DEF Informs
    <3>3. fewer \in SUBSET RetentionRule
        OBVIOUS
    <3>. QED BY <3>2, <3>3, InformsExactly
  <2>3. CASE Reaching(c, fewer) = {}
    <3>1. avaliar_retencao(c, fewer, from, until, at) = Assessment("out_of_scope", {}, {}, None, None)
        BY <1>1, <2>3, AssessmentForm DEF Informs
    <3>. QED BY <3>1, AssessmentFields
  <2>. QED BY <2>2, <2>3
<1>. QED BY <1>3, <1>4

-----------------------------------------------------------------------------
(* The candidate a review of retention asks about.                           *)
Candidate(domain, o) ==
    [domain_id |-> domain, created_at |-> o.anchor_at,
     legacy_protection_state |-> o.legacy_protection_state]

AssessmentOf(p, domain, o, at) ==
    avaliar_retencao(Candidate(domain, o), p.rules, p.effective_from, p.effective_until, at)

Citing(p, ids) == {r \in p.rules : r.rule_id \in ids}

(* The report by the decision of the evaluator. *)
LEMMA RetentionForm ==
    ASSUME NEW p, NEW domain, NEW o, NEW at
    PROVE  LET r == avaliar_conformidade_retencao(p, domain, o, at)
               a == AssessmentOf(p, domain, o, at)
           IN  /\ o.anchor_at = None => r = Insufficient({"anchor_timestamp"})
               /\ o.anchor_at # None =>
                  /\ a.decision = "raised" => r = relatorio("raised", "effective", {}, {})
                  /\ a.decision \in {"policy_not_effective", "out_of_scope"} =>
                         r = NotApplicable("effective")
                  /\ a.decision \in {"preserve_legacy_protected", "not_yet_due"} =>
                         r = Compliant(Citing(p, a.applicable_rule_ids))
                  /\ a.decision \notin {"raised", "policy_not_effective", "out_of_scope",
                                        "preserve_legacy_protected", "not_yet_due"} =>
                     /\ o.assessment_information = "not_observed" =>
                            r = Insufficient({"assessment_information"})
                     /\ o.assessment_information = "absent" =>
                            r = com_violacao("RET-001", "warning", Citing(p, a.due_rule_ids))
                     /\ o.assessment_information \notin {"not_observed", "absent"} =>
                            r = Compliant(Citing(p, a.applicable_rule_ids))
BY DEF avaliar_conformidade_retencao, AssessmentOf, Candidate, Citing

(* A decision that is about rules cites some. *)
LEMMA DecisionsCite ==
    ASSUME NEW p \in EvaluatedPolicy, p.kind = "retention", NEW domain, NEW o,
           o.anchor_at \in Instants, NEW at \in Instants,
           AssessmentOf(p, domain, o, at).decision
               \notin {"raised", "policy_not_effective", "out_of_scope"}
    PROVE  Citing(p, AssessmentOf(p, domain, o, at).applicable_rule_ids) # {}
<1>. DEFINE c == Candidate(domain, o)
            applicable == Reaching(c, p.rules)
            a == AssessmentOf(p, domain, o, at)
<1>. SUFFICES Citing(p, a.applicable_rule_ids) # {}
    OBVIOUS
<1>1. a = avaliar_retencao(c, p.rules, p.effective_from, p.effective_until, at)
    BY DEF AssessmentOf
<1>2. /\ ~ (c.created_at > at) /\ Within(p.effective_from, p.effective_until, at)
      /\ applicable # {} /\ ~ Overflows(c, applicable)
    BY <1>1, AssessmentForm, RaisedFields, AssessmentFields
<1>3. Assessed(c, p.rules, at, a)
    BY <1>1, <1>2, AssessmentForm
<1>4. a.applicable_rule_ids = Ids(applicable)
    BY <1>3, AssessmentFields DEF Assessed
<1>5. applicable \subseteq p.rules
    BY DEF Reaching
<1>. QED BY <1>2, <1>4, <1>5 DEF Citing, Ids

LEMMA RetentionReview ==
    ASSUME NEW p \in EvaluatedPolicy, p.kind = "retention", NEW domain,
           NEW o \in RetentionAgeObservation, NEW at \in Instants
    PROVE  Sound("retention", avaliar_conformidade_retencao(p, domain, o, at))
<1>. DEFINE r == avaliar_conformidade_retencao(p, domain, o, at)
            a == AssessmentOf(p, domain, o, at)
<1>. SUFFICES Sound("retention", r)
    OBVIOUS
<1>1. o.anchor_at \in Instants \cup {None}
      /\ o.assessment_information \in AssessmentInformationState
    BY DEF RetentionAgeObservation
<1>2. \A ids : \A q \in Citing(p, ids) : q.rule_id \in Nat
    BY EvaluatedRules DEF Citing
<1>3. ASSUME NEW missing \in SUBSET MissingObservation, missing # {}, r = Insufficient(missing)
      PROVE  Sound("retention", r)
    BY <1>3, InsufficientForm DEF Sound
<1>4. {"anchor_timestamp"} \in SUBSET MissingObservation
      /\ {"assessment_information"} \in SUBSET MissingObservation
    BY DEF MissingObservation
<1>5. CASE o.anchor_at = None
    BY <1>3, <1>4, <1>5, RetentionForm
<1>6. CASE o.anchor_at # None
  <2>1. o.anchor_at \in Instants
      BY <1>1, <1>6
  <2>2. CASE a.decision = "raised"
    <3>1. r = relatorio("raised", "effective", {}, {})
        BY <1>6, <2>2, RetentionForm
    <3>2. /\ "effective" \in Window /\ {} \in SUBSET MissingObservation
          /\ "raised" \in ComplianceOutcome \cup {"raised"} /\ \A q \in {} : q.rule_id \in Nat
        BY DEF Window
    <3>. HIDE DEF r
    <3>3. r \in Report /\ r.outcome = "raised"
        BY <3>1, <3>2, ReportForm
    <3>. QED BY <3>3 DEF Sound
  <2>3. CASE a.decision \in {"policy_not_effective", "out_of_scope"}
    <3>1. r = NotApplicable("effective")
        BY <1>6, <2>3, RetentionForm
    <3>. HIDE DEF r
    <3>. QED BY <3>1, NotApplicableForm DEF Sound, Window
  <2>4. CASE a.decision \notin {"raised", "policy_not_effective", "out_of_scope"}
    <3>1. Citing(p, a.applicable_rule_ids) # {}
        BY <2>1, <2>4, DecisionsCite
    <3>2. \/ r = Compliant(Citing(p, a.applicable_rule_ids))
          \/ r = Insufficient({"assessment_information"})
          \/ r = com_violacao("RET-001", "warning", Citing(p, a.due_rule_ids))
        BY <1>6, <2>4, RetentionForm
    <3>. HIDE DEF r, a
    <3>3. CASE r = Compliant(Citing(p, a.applicable_rule_ids))
        BY <1>2, <3>1, <3>3, CompliantForm DEF Sound
    <3>4. CASE r = Insufficient({"assessment_information"})
        BY <1>3, <1>4, <3>4
    <3>5. CASE r = com_violacao("RET-001", "warning", Citing(p, a.due_rule_ids))
      <4>1. "RET-001" \in CODIGOS_POR_POLITICA["retention"] /\ "retention" \in PolicyKind
          BY DEF CODIGOS_POR_POLITICA, PolicyKind
      <4>. QED BY <1>2, <3>5, <4>1, ViolationForm DEF Sound
    <3>. QED BY <3>2, <3>3, <3>4, <3>5
  <2>. QED BY <2>2, <2>3, <2>4
<1>. QED BY <1>5, <1>6

LEMMA Outcomes ==
    /\ \A missing : Insufficient(missing).outcome = "insufficient_information"
    /\ \A rules : Compliant(rules).outcome = "compliant"
    /\ \A window : NotApplicable(window).outcome = "policy_not_applicable"
    /\ \A code, severity, rules : com_violacao(code, severity, rules).outcome = "violation_confirmed"
    /\ \A window, rules, missing : relatorio("raised", window, rules, missing).outcome = "raised"
BY DEF Insufficient, Compliant, NotApplicable, com_violacao, relatorio

(* An observation with another anchor and another word on the information.   *)
Aged(o, a, i) == [o EXCEPT !.anchor_at = a, !.assessment_information = i]
Anchors(o) == Filled(o.anchor_at, None, Instants \cup {None})
Words(o) == Filled(o.assessment_information, "not_observed", AssessmentInformationState)

LEMMA RefinedAges ==
    ASSUME NEW o
    PROVE  Refinements("retention", o) = {Aged(o, a, i) : a \in Anchors(o), i \in Words(o)}
BY DEF Refinements, Aged, Anchors, Words

LEMMA AgedFields ==
    ASSUME NEW o \in RetentionAgeObservation, NEW a, NEW i
    PROVE  /\ Aged(o, a, i).anchor_at = a /\ Aged(o, a, i).assessment_information = i
           /\ Aged(o, a, i).legacy_protection_state = o.legacy_protection_state
BY DEF Aged, RetentionAgeObservation

(* What decides did not depend on what was not observed.                     *)
LEMMA RetentionDecides ==
    ASSUME NEW p, NEW domain, NEW o \in RetentionAgeObservation, NEW at,
           avaliar_conformidade_retencao(p, domain, o, at).outcome # "insufficient_information",
           NEW f \in Refinements("retention", o)
    PROVE  avaliar_conformidade_retencao(p, domain, f, at)
               = avaliar_conformidade_retencao(p, domain, o, at)
<1>1. o.anchor_at # None
    BY RetentionForm, Outcomes
<1>2. PICK a \in Anchors(o), i \in Words(o) : f = Aged(o, a, i)
    BY RefinedAges
<1>3. /\ f.anchor_at = o.anchor_at /\ f.assessment_information = i
      /\ f.legacy_protection_state = o.legacy_protection_state
  <2>1. a = o.anchor_at
      BY <1>1 DEF Anchors, Filled
  <2>. QED BY <1>2, <2>1, AgedFields
<1>4. Candidate(domain, f) = Candidate(domain, o)
    BY <1>3 DEF Candidate
<1>5. AssessmentOf(p, domain, f, at) = AssessmentOf(p, domain, o, at)
    BY <1>4 DEF AssessmentOf
<1>6. CASE o.assessment_information # "not_observed"
  <2>1. f.assessment_information = o.assessment_information
      BY <1>3, <1>6 DEF Words, Filled
  <2>. QED BY <1>3, <1>4, <2>1 DEF avaliar_conformidade_retencao, Candidate
<1>7. CASE o.assessment_information = "not_observed"
  <2>1. AssessmentOf(p, domain, o, at).decision
            \in {"raised", "policy_not_effective", "out_of_scope",
                 "preserve_legacy_protected", "not_yet_due"}
      BY <1>1, <1>7, RetentionForm, Outcomes
  <2>. QED BY <1>1, <1>3, <1>5, <2>1, RetentionForm
<1>. QED BY <1>6, <1>7

(* What is missing is open: the first of days, or a word on the information, *)
(* decides, unless the age of a rule is longer than the calendar.            *)
LEMMA RetentionOpen ==
    ASSUME NEW p \in EvaluatedPolicy, p.kind = "retention", NEW domain,
           NEW o \in RetentionAgeObservation, NEW at \in Instants,
           ~ (at < p.effective_from \/ (p.effective_until # None /\ at >= p.effective_until)),
           avaliar_conformidade_retencao(p, domain, o, at).outcome = "insufficient_information"
    PROVE  \E f \in Refinements("retention", o) :
               LET r == avaliar_conformidade_retencao(p, domain, f, at)
               IN  /\ r.outcome # "insufficient_information"
                   /\ r.outcome = "raised" =>
                          \E q \in p.rules : q.minimum_age_days > MaxInstant
<1>. DEFINE i == IF o.assessment_information = "not_observed" THEN "present"
                                                         ELSE o.assessment_information
            d == IF o.anchor_at = None THEN 0 ELSE o.anchor_at
            f == Aged(o, d, i)
            a == AssessmentOf(p, domain, f, at)
            r == avaliar_conformidade_retencao(p, domain, f, at)
<1>1. /\ o.anchor_at \in Instants \cup {None} /\ 0 \in Instants /\ None \notin Instants
      /\ o.assessment_information \in AssessmentInformationState
    BY RetentionAssumption, GovernanceAssumption DEF RetentionAgeObservation, Instants
<1>2. /\ d \in Anchors(o) /\ d \in Instants /\ d # None
      /\ i \in Words(o) /\ i # "not_observed"
    BY <1>1 DEF Anchors, Words, Filled, AssessmentInformationState
<1>3. f \in Refinements("retention", o)
  <2>. HIDE DEF d, i
  <2>. QED BY <1>2, RefinedAges
<1>4. /\ f.anchor_at = d /\ f.assessment_information = i
      /\ f.legacy_protection_state = o.legacy_protection_state
    BY AgedFields
<1>5. /\ r.outcome # "insufficient_information"
      /\ r.outcome = "raised" => a.decision = "raised"
  <2>. HIDE DEF d, i, f
  <2>. QED BY <1>2, <1>4, RetentionForm, Outcomes
<1>6. ASSUME a.decision = "raised" PROVE \E q \in p.rules : q.minimum_age_days > MaxInstant
  <2>1. o.anchor_at = None
    <3> SUFFICES ASSUME o.anchor_at # None PROVE FALSE
        OBVIOUS
    <3>1. Candidate(domain, f) = Candidate(domain, o)
        BY <1>4 DEF Candidate
    <3>2. AssessmentOf(p, domain, o, at).decision = "raised"
        BY <1>6, <3>1 DEF AssessmentOf
    <3>. QED BY <3>2, RetentionForm, Outcomes
  <2>2. Candidate(domain, f).created_at = 0
      BY <1>4, <2>1 DEF Candidate
  <2>. DEFINE c == Candidate(domain, f)
  <2>3. a = avaliar_retencao(c, p.rules, p.effective_from, p.effective_until, at)
      BY DEF AssessmentOf
  <2>4. Within(p.effective_from, p.effective_until, at) /\ ~ (c.created_at > at)
      BY <2>2 DEF Within, Instants
  <2>. HIDE DEF c, a
  <2>5. Overflows(c, Reaching(c, p.rules))
    <3>1. CASE Reaching(c, p.rules) = {}
      <4>1. a = Assessment("out_of_scope", {}, {}, None, None)
          BY <2>3, <2>4, <3>1, AssessmentForm
      <4>. QED BY <1>6, <4>1, AssessmentFields
    <3>2. CASE Reaching(c, p.rules) # {} /\ ~ Overflows(c, Reaching(c, p.rules))
      <4>1. Assessed(c, p.rules, at, a)
          BY <2>3, <2>4, <3>2, AssessmentForm
      <4>2. a.decision # "raised"
          BY <4>1, AssessmentFields DEF Assessed
      <4>. QED BY <1>6, <4>2
    <3>. QED BY <3>1, <3>2
  <2>6. PICK q \in Reaching(c, p.rules) : due_at(c, q) > MaxInstant
      BY <2>5 DEF Overflows
  <2>7. q \in p.rules /\ q \in RetentionRule
      BY EvaluatedRules DEF Reaching
  <2>8. q.minimum_age_days \in Nat /\ c.created_at = 0
      BY <2>2, <2>7 DEF RetentionRule, c
  <2>9. due_at(c, q) = q.minimum_age_days
      BY <2>8 DEF due_at
  <2>. QED BY <2>6, <2>7, <2>9
<1>. HIDE DEF f, a
<1>. QED BY <1>3, <1>5, <1>6

-----------------------------------------------------------------------------
(* A question as the auditor poses it: the observation is of what the policy *)
(* is about.                                                                 *)
Posed(q) ==
    /\ q \in Question
    /\ q.policy.kind = "governance" => q.observation \in GovernedOperationObservation
    /\ q.policy.kind = "accessibility" => q.observation \in AccessibilityStateObservation
    /\ q.policy.kind = "retention" => q.observation \in RetentionAgeObservation

(* The last report answers the last question. *)
ReviewInv == question # None => Posed(question) /\ report = avaliar_conformidade(question)

ComplianceIInv == ComplianceTypeOK /\ ReviewInv

LEMMA ByKind ==
    ASSUME NEW q
    PROVE  LET window == window_at(q.policy, q.at)
               r == avaliar_conformidade(q)
           IN  /\ window # "effective" => r = NotApplicable(window)
               /\ window = "effective" =>
                  /\ q.policy.kind = "governance" => r = avaliar_governanca(q.policy, q.observation)
                  /\ q.policy.kind = "accessibility" =>
                         r = avaliar_acessibilidade(q.policy, q.observation)
                  /\ q.policy.kind = "retention" =>
                         r = avaliar_conformidade_retencao(q.policy, q.domain, q.observation, q.at)
BY DEF avaliar_conformidade

LEMMA PosedParts ==
    ASSUME NEW q, Posed(q)
    PROVE  /\ q.policy \in EvaluatedPolicy /\ q.at \in Instants
           /\ q.policy.kind \in {"governance", "accessibility", "retention"}
           /\ window_at(q.policy, q.at) \in Window
<1>1. q.policy \in EvaluatedPolicy /\ q.at \in Instants
    BY DEF Posed, Question
<1>2. q.policy.kind \in {"governance", "accessibility", "retention"}
    BY <1>1, EvaluatedRules DEF PolicyKind
<1>3. window_at(q.policy, q.at) \in Window
    BY DEF window_at, Window
<1>. QED BY <1>1, <1>2, <1>3

LEMMA ReviewSound ==
    ASSUME NEW q, Posed(q)
    PROVE  Sound(q.policy.kind, avaliar_conformidade(q))
<1>1. CASE window_at(q.policy, q.at) # "effective"
    BY <1>1, ByKind, PosedParts, NotApplicableForm DEF Sound
<1>2. CASE window_at(q.policy, q.at) = "effective" /\ q.policy.kind = "governance"
    BY <1>2, ByKind, PosedParts, GovernanceReview DEF Posed
<1>3. CASE window_at(q.policy, q.at) = "effective" /\ q.policy.kind = "accessibility"
    BY <1>3, ByKind, PosedParts, AccessibilityReview DEF Posed
<1>4. CASE window_at(q.policy, q.at) = "effective" /\ q.policy.kind = "retention"
    BY <1>4, ByKind, PosedParts, RetentionReview DEF Posed
<1>. QED BY <1>1, <1>2, <1>3, <1>4, PosedParts

-----------------------------------------------------------------------------
LEMMA ReviewKeeps ==
    ASSUME ComplianceIInv, NEW q, Posed(q), question' = q,
           report' = avaliar_conformidade(question'), UNCHANGED <<retention, now>>
    PROVE  ComplianceIInv'
<1>1. Sound(q.policy.kind, report') /\ report' = avaliar_conformidade(q)
    BY ReviewSound
<1>2. question' # None /\ report' # None
    BY <1>1, ComplianceAssumption DEF Posed, Sound
<1>3. ReviewInv'
    BY <1>1 DEF ReviewInv
<1>4. Answered' => /\ report'.outcome \in ComplianceOutcome
                   /\ report'.missing \subseteq MissingObservation
                   /\ CoerenciaDoDesfecho(question'.policy.kind, report')
    BY <1>1 DEF Answered, Sound, Report
<1>. QED BY <1>2, <1>3, <1>4 DEF ComplianceIInv, ComplianceTypeOK

LEMMA TablesKeep ==
    ASSUME ComplianceIInv, UNCHANGED <<question, report>>, now' \in Instants,
           retention' \subseteq RetentionPolicy,
           \A p, q \in retention' : p.key = q.key /\ p.version = q.version => p = q
    PROVE  ComplianceIInv'
BY DEF ComplianceIInv, ComplianceTypeOK, ReviewInv, Answered

LEMMA InitCompliance == ComplianceInit => ComplianceIInv
BY RetentionAssumption
   DEF ComplianceInit, ComplianceIInv, ComplianceTypeOK, ReviewInv, Answered, Instants

LEMMA NextCompliance == ComplianceIInv /\ [ComplianceNext]_complianceVars => ComplianceIInv'
<1> SUFFICES ASSUME ComplianceIInv, [ComplianceNext]_complianceVars PROVE ComplianceIInv'
    OBVIOUS
<1>1. /\ retention \subseteq RetentionPolicy /\ now \in Instants
      /\ \A p, q \in retention : p.key = q.key /\ p.version = q.version => p = q
    BY DEF ComplianceIInv, ComplianceTypeOK
<1>2. CASE UNCHANGED complianceVars
    BY <1>1, <1>2, TablesKeep DEF complianceVars
<1>3. CASE Tick
  <2>1. now' \in Instants
      BY <1>1, <1>3, RetentionAssumption DEF Tick, Instants
  <2>. QED BY <1>1, <1>3, <2>1, TablesKeep DEF Tick
<1>4. ASSUME NEW p \in RetentionPublications, add_policy(p) PROVE ComplianceIInv'
    BY <1>1, <1>4, TablesKeep, ComplianceAssumption DEF add_policy
<1>5. CASE review_operation
  <2>1. PICK p \in Policies, o \in GovernanceObservations :
            p.kind = "governance" /\ review(p, None, o)
      BY <1>5 DEF review_operation
  <2>. DEFINE q == [policy |-> p, domain |-> None, observation |-> o, at |-> now]
  <2>2. o \in GovernedOperationObservation /\ p \in EvaluatedPolicy
      BY ComplianceAssumption
  <2>3. Posed(q)
      BY <1>1, <2>1, <2>2 DEF Posed, Question, Observations
  <2>. QED BY <2>1, <2>3, ReviewKeeps DEF review
<1>6. CASE review_transition
  <2>1. PICK p \in Policies, o \in AccessibilityStateObservation :
            p.kind = "accessibility" /\ review(p, None, o)
      BY <1>6 DEF review_transition
  <2>. DEFINE q == [policy |-> p, domain |-> None, observation |-> o, at |-> now]
  <2>2. p \in EvaluatedPolicy
      BY ComplianceAssumption
  <2>3. Posed(q)
      BY <1>1, <2>1, <2>2 DEF Posed, Question, Observations
  <2>. QED BY <2>1, <2>3, ReviewKeeps DEF review
<1>7. CASE review_retention
  <2>. DEFINE row(key) == effective_retention_at(retention, key, now)
              policy(w) == [kind |-> "retention", version |-> w.version, rules |-> w.rules,
                            effective_from |-> w.effective_from,
                            effective_until |-> w.effective_until]
  <2>1. PICK key \in RetentionKeys, domain \in Candidates, o \in RetentionAgeObservation :
            /\ row(key) # None /\ row(key).effective_from # None
            /\ review(policy(row(key)), domain, o)
      BY <1>7 DEF review_retention
  <2>2. row(key) \in retention
    <3>1. effective_versions(retention, key, now) # {}
        BY <2>1 DEF effective_retention_at, effective_version_at
    <3>2. \A p \in retention : p.version \in Versions
        BY <1>1 DEF RetentionPolicy
    <3>3. row(key) \in effective_versions(retention, key, now)
        BY <3>1, <3>2, EffectiveVersion DEF effective_retention_at
    <3>. QED BY <3>3 DEF effective_versions
  <2>. DEFINE p == policy(row(key))
              q == [policy |-> p, domain |-> domain, observation |-> o, at |-> now]
  <2>3. p \in EvaluatedPolicy /\ p.kind = "retention"
    <3>. PICK w \in RetentionPolicy : w = row(key)
        BY <1>1, <2>2
    <3>. HIDE DEF row
    <3>1. /\ w.version \in Versions /\ w.rules \in SUBSET RetentionRule
          /\ w.effective_from \in Instants /\ w.effective_until \in Instants \cup {None}
          /\ \A r, s \in w.rules : r.rule_id = s.rule_id => r = s
          /\ w.effective_until # None => w.effective_until > w.effective_from
        BY <2>1 DEF RetentionPolicy, ValidRetentionRules
    <3>. QED BY <3>1 DEF EvaluatedPolicy, PolicyKind
  <2>. HIDE DEF row, policy, p
  <2>4. Posed(q)
      BY <1>1, <2>3, ComplianceAssumption DEF Posed, Question, Observations
  <2>5. question' = q /\ report' = avaliar_conformidade(question') /\ UNCHANGED <<retention, now>>
      BY <2>1 DEF review, p
  <2>. QED BY <2>4, <2>5, ReviewKeeps
<1>. QED BY <1>2, <1>3, <1>4, <1>5, <1>6, <1>7 DEF ComplianceNext

(* Whatever is published, observed and asked, a report that is not an        *)
(* exception is one its constructor accepts, and versions stay as they were  *)
(* published.                                                                *)
THEOREM ReportsAccepted == ComplianceSpec => []ComplianceTypeOK
<1>1. ComplianceIInv => ComplianceTypeOK
    BY DEF ComplianceIInv
<1>. QED BY <1>1, InitCompliance, NextCompliance, PTL DEF ComplianceSpec

-----------------------------------------------------------------------------
(* The same question about another observation. *)
Reconsidered(q, o) == [q EXCEPT !.observation = o]

LEMMA ReconsideredFields ==
    ASSUME NEW q \in Question, NEW o
    PROVE  /\ Reconsidered(q, o).policy = q.policy /\ Reconsidered(q, o).at = q.at
           /\ Reconsidered(q, o).domain = q.domain /\ Reconsidered(q, o).observation = o
BY DEF Reconsidered, Question

(* A review that decides, decides for good; one that does not is open.       *)
DecidesFor(q) ==
    LET Finer == Refinements(q.policy.kind, q.observation)
        r == avaliar_conformidade(q)
    IN  IF r.outcome # "insufficient_information"
        THEN \A o \in Finer : avaliar_conformidade(Reconsidered(q, o)) = r
        ELSE \E o \in Finer :
                 /\ avaliar_conformidade(Reconsidered(q, o)).outcome # "insufficient_information"
                 /\ avaliar_conformidade(Reconsidered(q, o)).outcome = "raised" =>
                        \E rule \in q.policy.rules : rule.minimum_age_days > MaxInstant

LEMMA ReviewDecides ==
    ASSUME NEW q, Posed(q)
    PROVE  DecidesFor(q)
<1>. DEFINE r == avaliar_conformidade(q)
            again(o) == avaliar_conformidade(Reconsidered(q, o))
            window == window_at(q.policy, q.at)
<1>1. \A o : /\ Reconsidered(q, o).policy = q.policy /\ Reconsidered(q, o).at = q.at
             /\ Reconsidered(q, o).domain = q.domain /\ Reconsidered(q, o).observation = o
    BY ReconsideredFields DEF Posed
<1>2. CASE window # "effective"
  <2>1. r = NotApplicable(window) /\ \A o : again(o) = NotApplicable(window)
      BY <1>1, <1>2, ByKind
  <2>2. r.outcome # "insufficient_information"
      BY <2>1, Outcomes
  <2>. QED BY <2>1, <2>2 DEF DecidesFor
<1>3. CASE window = "effective" /\ q.policy.kind = "governance"
  <2>. DEFINE answer(o) == avaliar_governanca(q.policy, o)
  <2>1. r = answer(q.observation) /\ \A o : again(o) = answer(o)
      BY <1>1, <1>3, ByKind
  <2>2. q.policy \in EvaluatedPolicy /\ q.observation \in GovernedOperationObservation
      BY <1>3, PosedParts DEF Posed
  <2>3. \A o \in GovernedOperationObservation :
            /\ answer(o).outcome # "raised"
            /\ o.observed_state # "not_observed" => answer(o).outcome # "insufficient_information"
      BY <1>3, <2>2, GovernanceReview, GovernanceObserved
  <2>4. PICK f \in Refinements("governance", q.observation) :
            f \in GovernedOperationObservation /\ f.observed_state # "not_observed"
      BY <2>2, GovernanceDecides
  <2>5. answer(q.observation).outcome # "insufficient_information" =>
            \A f1 \in Refinements("governance", q.observation) : answer(f1) = answer(q.observation)
      BY <2>2, GovernanceDecides
  <2>. HIDE DEF r, again, answer
  <2>6. again(f).outcome # "raised" /\ again(f).outcome # "insufficient_information"
      BY <2>1, <2>3, <2>4
  <2>. QED BY <1>3, <2>1, <2>4, <2>5, <2>6 DEF DecidesFor, r, again
<1>4. CASE window = "effective" /\ q.policy.kind = "accessibility"
  <2>. DEFINE answer(o) == avaliar_acessibilidade(q.policy, o)
  <2>1. r = answer(q.observation) /\ \A o : again(o) = answer(o)
      BY <1>1, <1>4, ByKind
  <2>2. q.policy \in EvaluatedPolicy /\ q.observation \in AccessibilityStateObservation
      BY <1>4, PosedParts DEF Posed
  <2>3. \A o \in AccessibilityStateObservation :
            /\ answer(o).outcome # "raised"
            /\ o.declared_source # None /\ o.causal_evidence # "not_observed" =>
                   answer(o).outcome # "insufficient_information"
      BY <1>4, <2>2, AccessibilityReview, AccessibilityObserved
  <2>4. PICK f \in Refinements("accessibility", q.observation) :
            /\ f \in AccessibilityStateObservation
            /\ f.declared_source # None /\ f.causal_evidence # "not_observed"
      BY <2>2, AccessibilityDecides
  <2>5. answer(q.observation).outcome # "insufficient_information" =>
            \A f1 \in Refinements("accessibility", q.observation) : answer(f1) = answer(q.observation)
      BY <2>2, AccessibilityDecides
  <2>. HIDE DEF r, again, answer
  <2>6. again(f).outcome # "raised" /\ again(f).outcome # "insufficient_information"
      BY <2>1, <2>3, <2>4
  <2>. QED BY <1>4, <2>1, <2>4, <2>5, <2>6 DEF DecidesFor, r, again
<1>5. CASE window = "effective" /\ q.policy.kind = "retention"
  <2>. DEFINE answer(o) == avaliar_conformidade_retencao(q.policy, q.domain, o, q.at)
  <2>1. r = answer(q.observation) /\ \A o : again(o) = answer(o)
      BY <1>1, <1>5, ByKind
  <2>2. /\ q.policy \in EvaluatedPolicy /\ q.observation \in RetentionAgeObservation
        /\ q.at \in Instants
      BY <1>5, PosedParts DEF Posed
  <2>3. ~ \/ q.at < q.policy.effective_from
          \/ q.policy.effective_until # None /\ q.at >= q.policy.effective_until
      BY <1>5 DEF window_at
  <2>4. answer(q.observation).outcome # "insufficient_information" =>
            \A f \in Refinements("retention", q.observation) : answer(f) = answer(q.observation)
      BY <2>2, RetentionDecides
  <2>5. answer(q.observation).outcome = "insufficient_information" =>
            \E f \in Refinements("retention", q.observation) :
                /\ answer(f).outcome # "insufficient_information"
                /\ answer(f).outcome = "raised" =>
                       \E rule \in q.policy.rules : rule.minimum_age_days > MaxInstant
      BY <1>5, <2>2, <2>3, RetentionOpen
  <2>. HIDE DEF r, again, answer
  <2>. QED BY <1>5, <2>1, <2>4, <2>5 DEF DecidesFor, r, again
<1>. QED BY <1>2, <1>3, <1>4, <1>5, PosedParts

LEMMA DueStand == ReviewInv => DueDatesStand
<1> SUFFICES ASSUME ReviewInv, question # None, question.policy.kind = "retention",
                    question.observation.anchor_at # None
             PROVE  DueDatesStand
    BY DEF DueDatesStand
<1>. DEFINE p == question.policy
            o == question.observation
            c == [domain_id |-> question.domain, created_at |-> o.anchor_at,
                  legacy_protection_state |-> o.legacy_protection_state]
            A(rules, at) == avaliar_retencao(c, rules, p.effective_from, p.effective_until, at)
<1>1. Posed(question)
    BY DEF ReviewInv
<1>2. /\ p.rules \in SUBSET RetentionRule /\ p.effective_from \in Instants
      /\ p.effective_until \in Instants \cup {None} /\ question.at \in Instants
    BY <1>1, PosedParts, EvaluatedRules
<1>3. c.created_at \in Instants
    BY <1>1 DEF Posed, RetentionAgeObservation
<1>. HIDE DEF c
<1>4. A(p.rules, question.at).decision # "raised" =>
          MatrizDaDecisao(A(p.rules, question.at), question.at)
    BY <1>2, <1>3, AssessmentSound
<1>5. A(p.rules, question.at).decision = "assess_and_inform" =>
          /\ \A at \in question.at .. MaxInstant :
                 \/ A(p.rules, at).decision = "assess_and_inform"
                 \/ A(p.rules, at).decision = "policy_not_effective"
          /\ \A fewer \in SUBSET p.rules :
                 \/ A(fewer, question.at).decision = "assess_and_inform"
                 \/ A(fewer, question.at).decision = "out_of_scope"
    BY <1>2, <1>3, AssessmentStands
<1>. QED BY <1>4, <1>5 DEF DueDatesStand, c

(* No answer of a review is taken back: what it decides does not depend on   *)
(* what was not observed, what it finds missing is open, and neither days    *)
(* nor the omission of rules make less due what was due.                     *)
THEOREM ReviewsHold == ComplianceSpec => []ReviewsStand
<1>1. ComplianceIInv => ReviewsStand
  <2> SUFFICES ASSUME ComplianceIInv PROVE DecidedForGood /\ DueDatesStand
      BY DEF ReviewsStand
  <2>1. ReviewInv /\ (question = None <=> report = None)
      BY DEF ComplianceIInv, ComplianceTypeOK
  <2>2. ASSUME Answered PROVE DecidesFor(question) /\ report = avaliar_conformidade(question)
      BY <2>1, <2>2, ReviewDecides DEF Answered, ReviewInv
  <2>3. DecidedForGood
      BY <2>2 DEF DecidedForGood, DecidesFor, Reconsidered
  <2>. QED BY <2>1, <2>3, DueStand
<1>. QED BY <1>1, InitCompliance, NextCompliance, PTL DEF ComplianceSpec
=============================================================================
