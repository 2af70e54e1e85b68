--------------------------- MODULE Approval_proofs ---------------------------
(***************************************************************************)
(* The WHERE that recognises an approval is the whole of it: among         *)
(* envelopes, only the very one that was stored satisfies it.  It is what  *)
(* lets DestructiveExecution compare envelopes instead of columns.         *)
(* Then the invariant of DestructiveApproval: what is stored, proposed,    *)
(* refused and receipted speaks of one envelope, a record moves once, and  *)
(* a call that lost its UPDATE carries the reason it will be given.        *)
(***************************************************************************)
EXTENDS DestructiveApproval, WellFoundedInduction, FiniteSetTheorems, TLAPS

\* the values of a sequence with their positions
Numbered(s) == {[position |-> i, value |-> s[i]] : i \in DOMAIN s}

(* There are as many numbered values as the sequence is long.                *)
LEMMA NumberedCardinality ==
    ASSUME NEW T, NEW s \in Seq(T)
    PROVE  IsFiniteSet(Numbered(s)) /\ Cardinality(Numbered(s)) = Len(s)
<1> DEFINE f == [i \in 1 .. Len(s) |-> [position |-> i, value |-> s[i]]]
<1>1. Len(s) \in Nat /\ DOMAIN s = 1 .. Len(s)
  OBVIOUS
<1>2. f \in Bijection(1 .. Len(s), Numbered(s))
  <2>1. f \in [1 .. Len(s) -> Numbered(s)]
    BY <1>1 DEF Numbered
  <2>2. \A i, j \in 1 .. Len(s) : f[i] = f[j] => i = j
    OBVIOUS
  <2>3. \A x \in Numbered(s) : \E i \in 1 .. Len(s) : f[i] = x
    BY <1>1 DEF Numbered
  <2> QED BY <2>1, <2>2, <2>3 DEF Bijection, Injection, Surjection, IsInjective
<1>3. ExistsBijection(1 .. Len(s), Numbered(s))
  BY <1>2 DEF ExistsBijection
<1>4. IsFiniteSet(1 .. Len(s)) /\ Cardinality(1 .. Len(s)) = Len(s)
  BY <1>1, FS_Interval
<1> QED BY <1>3, <1>4, FS_Bijection

(* The texts of one kind are as many as the resolution declares, and say     *)
(* them in their order.                                                      *)
LEMMA TextsOfKind ==
    ASSUME NEW e, NEW k \in Textuais, NEW T,
           e.proposal.governance_resolution.declared[k] \in Seq(T)
    PROVE  LET s == e.proposal.governance_resolution.declared[k]
               items == OfKind(itens_de_governanca(e), k)
           IN  /\ Cardinality(items) = Len(s)
               /\ items = {Item(k, i, s[i]) : i \in 1 .. Len(s)}
<1> DEFINE s == e.proposal.governance_resolution.declared[k]
           items == OfKind(itens_de_governanca(e), k)
           f == [i \in 1 .. Len(s) |-> Item(k, i, s[i])]
<1>1. Len(s) \in Nat /\ DOMAIN s = 1 .. Len(s)
  OBVIOUS
<1>2. k # "domain_id"
  BY DEF Textuais
<1>3. items = {Item(k, i, s[i]) : i \in 1 .. Len(s)}
  BY <1>1, <1>2 DEF itens_de_governanca, OfKind, Item
<1>4. f \in Bijection(1 .. Len(s), items)
  <2>1. f \in [1 .. Len(s) -> items]
    BY <1>3
  <2>2. \A i, j \in 1 .. Len(s) : f[i] = f[j] => i = j
    BY DEF Item
  <2>3. \A x \in items : \E i \in 1 .. Len(s) : f[i] = x
    BY <1>3
  <2> QED BY <2>1, <2>2, <2>3 DEF Bijection, Injection, Surjection, IsInjective
<1>5. ExistsBijection(1 .. Len(s), items)
  BY <1>4 DEF ExistsBijection
<1>6. IsFiniteSet(1 .. Len(s)) /\ Cardinality(1 .. Len(s)) = Len(s)
  BY <1>1, FS_Interval
<1>7. Cardinality(items) = Len(s)
  BY <1>5, <1>6, FS_Bijection
<1> QED BY <1>3, <1>7

(* What an envelope is made of, as its constructors leave it.                *)
LEMMA EnvelopeParts ==
    ASSUME NEW e \in DestructiveApprovalEnvelope
    PROVE  /\ e.proposal.targets \in Seq(SafeTargetSnapshot)
           /\ e.proposal.impact.item_count = Len(e.proposal.targets)
           /\ e.proposal.blockers = {}
           /\ \A k \in Textuais :
                  e.proposal.governance_resolution.declared[k] \in Seq(Texts)
           /\ e.proposal.governance_resolution.context.domain_ids = {e.proposal.context.domain}
           /\ e.proposal.governance_resolution.blocked_capabilities = {}
           /\ e.proposal.governance_resolution.policy
                  \in [key : PolicyKeys, version : Versions]
<1>1. e.proposal \in DestructiveApprovalProposal /\ e.proposal.blockers = {}
  BY DEF DestructiveApprovalEnvelope, is_approvable
<1>2. /\ e.proposal.targets \in Seq(SafeTargetSnapshot)
      /\ e.proposal.governance_resolution \in DeclaredResolution
      /\ BatchRules(e.proposal) /\ GovernanceRules(e.proposal)
  BY <1>1 DEF DestructiveApprovalProposal
<1>3. e.proposal.governance_resolution.declared \in [Textuais -> Seq(Texts)]
  BY <1>2 DEF DeclaredResolution
<1>4. Coherent(e.proposal.governance_resolution)
  BY <1>2 DEF DeclaredResolution
<1>5. e.proposal.governance_resolution.blocked_capabilities = {}
  BY <1>2, <1>4 DEF Coherent, GovernanceRules, execution_authorized
<1>6. e.proposal.governance_resolution.context.domain_ids = {e.proposal.context.domain}
  BY <1>2 DEF GovernanceRules
<1>7. e.proposal.impact.item_count = Len(e.proposal.targets)
  BY <1>2 DEF BatchRules
<1>8. e.proposal.governance_resolution.policy \in [key : PolicyKeys, version : Versions]
  <2>1. e.proposal.governance_resolution.policy # None
    BY <1>2, <1>4 DEF Coherent, GovernanceRules, execution_authorized
  <2>2. e.proposal.governance_resolution.policy
            \in [key : PolicyKeys, version : Versions] \cup {None}
    BY <1>2 DEF DeclaredResolution
  <2> QED BY <2>1, <2>2
<1> QED BY <1>1, <1>2, <1>3, <1>5, <1>6, <1>7, <1>8

(* The conditions are satisfied by the rows of the envelope itself.          *)
LEMMA OwnRows ==
    ASSUME NEW e \in DestructiveApprovalEnvelope
    PROVE  Bound(Rows(e), e)
<1> DEFINE targets == e.proposal.targets
           r == e.proposal.governance_resolution
           items == itens_de_governanca(e)
<1>1. condicoes_de_binding(Rows(e), e)
  BY DEF condicoes_de_binding, Rows
<1>2. Cardinality(ApprovalRecordTarget(e)) = Len(targets)
  BY EnvelopeParts, NumberedCardinality DEF ApprovalRecordTarget, Numbered
<1>3. \A k \in Textuais : Cardinality(OfKind(items, k)) = Len(r.declared[k])
  BY EnvelopeParts, TextsOfKind
<1>4. OfKind(items, "domain_id") = {Item("domain_id", 1, d) : d \in r.context.domain_ids}
  BY DEF OfKind, itens_de_governanca, Item, Textuais
<1>5. r.context.domain_ids = {e.proposal.context.domain}
  BY EnvelopeParts
<1>6. OfKind(items, "domain_id") = {Item("domain_id", 1, e.proposal.context.domain)}
  BY <1>4, <1>5
<1>7. Cardinality(OfKind(items, "domain_id")) = Cardinality(r.context.domain_ids)
  BY <1>5, <1>6, FS_Singleton
<1>8. OfKind(items, "blocked_capability") = {}
  BY DEF OfKind, itens_de_governanca, Item, Textuais
<1>9. condicoes_das_filhas(Rows(e), e)
  BY <1>2, <1>3, <1>7, <1>8 DEF condicoes_das_filhas, Rows
<1> QED BY <1>1, <1>9 DEF Bound

(* Two sequences of the same length that agree at every position are one.    *)
LEMMA SameSequence ==
    ASSUME NEW T, NEW s \in Seq(T), NEW t \in Seq(T), Len(s) = Len(t),
           \A i \in 1 .. Len(s) : s[i] = t[i]
    PROVE  s = t
OBVIOUS

(* And so are two functions on the same domain, two contexts and two         *)
(* resolutions whose fields are equal.                                       *)
LEMMA SameFunction ==
    ASSUME NEW S, NEW T, NEW g \in [S -> T], NEW h \in [S -> T],
           \A k \in S : g[k] = h[k]
    PROVE  g = h
OBVIOUS

LEMMA SameContext ==
    ASSUME NEW c \in MemoryContext, NEW d \in MemoryContext,
           c.domain_ids = d.domain_ids, c.actor_ref = d.actor_ref, c.purpose = d.purpose
    PROVE  c = d
BY DEF MemoryContext

LEMMA SameResolution ==
    ASSUME NEW r \in DeclaredResolution, NEW s \in DeclaredResolution,
           r.outcome = s.outcome, r.operation = s.operation, r.context = s.context,
           r.policy = s.policy, r.matched_rule_id = s.matched_rule_id,
           r.blocked_capabilities = s.blocked_capabilities, r.grounds = s.grounds,
           r.declared = s.declared
    PROVE  r = s
BY DEF DeclaredResolution

LEMMA SameGrounds ==
    ASSUME NEW g \in Grounds, NEW h \in Grounds,
           g.safety_boundary_version = h.safety_boundary_version,
           g.safety_rationale = h.safety_rationale,
           g.preserved_intent = h.preserved_intent, g.policy_id = h.policy_id,
           g.policy_rationale = h.policy_rationale
    PROVE  g = h
BY DEF Grounds

LEMMA SamePolicy ==
    ASSUME NEW g \in [key : PolicyKeys, version : Versions],
           NEW h \in [key : PolicyKeys, version : Versions],
           g.key = h.key, g.version = h.version
    PROVE  g = h
OBVIOUS

(* The targets of an expected envelope that is bound are those of the row.   *)
LEMMA TargetsBound ==
    ASSUME NEW e \in DestructiveApprovalEnvelope, NEW f \in DestructiveApprovalEnvelope,
           Bound(Rows(e), f)
    PROVE  f.proposal.targets = e.proposal.targets
<1>1. /\ e.proposal.targets \in Seq(SafeTargetSnapshot)
      /\ f.proposal.targets \in Seq(SafeTargetSnapshot)
  BY EnvelopeParts
<1>2. Cardinality(ApprovalRecordTarget(e)) = Len(e.proposal.targets)
  BY <1>1, NumberedCardinality DEF ApprovalRecordTarget, Numbered
<1>3. /\ ApprovalRecordTarget(f) \subseteq ApprovalRecordTarget(e)
      /\ Cardinality(ApprovalRecordTarget(e)) = Len(f.proposal.targets)
  BY DEF Bound, condicoes_das_filhas, Rows
<1>4. Len(f.proposal.targets) = Len(e.proposal.targets)
  BY <1>2, <1>3
<1>5. \A i \in 1 .. Len(f.proposal.targets) : f.proposal.targets[i] = e.proposal.targets[i]
  <2> SUFFICES ASSUME NEW i \in 1 .. Len(f.proposal.targets)
               PROVE  f.proposal.targets[i] = e.proposal.targets[i]
    OBVIOUS
  <2>1. [position |-> i, value |-> f.proposal.targets[i]] \in ApprovalRecordTarget(f)
    BY <1>1 DEF ApprovalRecordTarget
  <2>2. [position |-> i, value |-> f.proposal.targets[i]] \in ApprovalRecordTarget(e)
    BY <2>1, <1>3
  <2> QED BY <2>2 DEF ApprovalRecordTarget
<1> QED BY <1>1, <1>4, <1>5, SameSequence

(* And so are the texts of every kind.                                       *)
LEMMA TextsBound ==
    ASSUME NEW e \in DestructiveApprovalEnvelope, NEW f \in DestructiveApprovalEnvelope,
           Bound(Rows(e), f)
    PROVE  f.proposal.governance_resolution.declared = e.proposal.governance_resolution.declared
<1> DEFINE de == e.proposal.governance_resolution.declared
           df == f.proposal.governance_resolution.declared
<1>1. de \in [Textuais -> Seq(Texts)] /\ df \in [Textuais -> Seq(Texts)]
  BY DEF DestructiveApprovalEnvelope, DestructiveApprovalProposal, DeclaredResolution
<1>2. \A k \in Textuais : df[k] = de[k]
  <2> SUFFICES ASSUME NEW k \in Textuais PROVE df[k] = de[k]
    OBVIOUS
  <2>1. de[k] \in Seq(Texts) /\ df[k] \in Seq(Texts)
    BY <1>1
  <2>2. /\ Cardinality(OfKind(itens_de_governanca(e), k)) = Len(de[k])
        /\ OfKind(itens_de_governanca(e), k) = {Item(k, i, de[k][i]) : i \in 1 .. Len(de[k])}
    BY <2>1, TextsOfKind
  <2>3. OfKind(itens_de_governanca(f), k) = {Item(k, i, df[k][i]) : i \in 1 .. Len(df[k])}
    BY <2>1, TextsOfKind
  <2>4. /\ itens_de_governanca(f) \subseteq itens_de_governanca(e)
        /\ Cardinality(OfKind(itens_de_governanca(e), k)) = Len(df[k])
    BY DEF Bound, condicoes_das_filhas, Rows
  <2>5. Len(df[k]) = Len(de[k])
    BY <2>2, <2>4
  <2>6. \A i \in 1 .. Len(df[k]) : df[k][i] = de[k][i]
    <3> SUFFICES ASSUME NEW i \in 1 .. Len(df[k]) PROVE df[k][i] = de[k][i]
      OBVIOUS
    <3>1. Item(k, i, df[k][i]) \in OfKind(itens_de_governanca(f), k)
      BY <2>3
    <3>2. Item(k, i, df[k][i]) \in OfKind(itens_de_governanca(e), k)
      BY <3>1, <2>4 DEF OfKind
    <3>3. PICK j \in 1 .. Len(de[k]) : Item(k, i, df[k][i]) = Item(k, j, de[k][j])
      BY <3>2, <2>2
    <3> QED BY <3>3 DEF Item
  <2> QED BY <2>1, <2>5, <2>6, SameSequence
<1> HIDE DEF de, df
<1>3. df = de
  BY <1>1, <1>2, SameFunction
<1> QED BY <1>3 DEF de, df

(* Two envelopes with one header, one batch and one set of declared texts    *)
(* are the same: the header has every other field of an envelope.            *)
LEMMA HeaderDetermines ==
    ASSUME NEW e \in DestructiveApprovalEnvelope, NEW f \in DestructiveApprovalEnvelope,
           ApprovalRecord(e) = ApprovalRecord(f),
           e.proposal.targets = f.proposal.targets,
           e.proposal.governance_resolution.declared
               = f.proposal.governance_resolution.declared
    PROVE  e = f
<1>1. /\ e.proposal.governance_resolution.context.domain_ids = {e.proposal.context.domain}
      /\ f.proposal.governance_resolution.context.domain_ids = {f.proposal.context.domain}
      /\ e.proposal.governance_resolution.blocked_capabilities = {}
      /\ f.proposal.governance_resolution.blocked_capabilities = {}
      /\ e.proposal.blockers = {} /\ f.proposal.blockers = {}
  BY EnvelopeParts
<1>2. /\ e.approval_id = f.approval_id /\ e.nonce = f.nonce
      /\ e.issued_at = f.issued_at /\ e.confirmed_at = f.confirmed_at
      /\ e.expires_at = f.expires_at
      /\ e.proposal.operation = f.proposal.operation
      /\ e.proposal.materialized_at = f.proposal.materialized_at
  BY DEF ApprovalRecord
<1>3. e.identity = f.identity
  <2>1. e.identity \in IdentityEvidence /\ f.identity \in IdentityEvidence
    BY DEF DestructiveApprovalEnvelope
  <2>2. /\ e.identity.principal = f.identity.principal
        /\ e.identity.assurance_level = f.identity.assurance_level
        /\ e.identity.authenticated_at = f.identity.authenticated_at
    BY DEF ApprovalRecord
  <2> QED BY <2>1, <2>2 DEF IdentityEvidence
<1>4. e.proposal \in DestructiveApprovalProposal /\ f.proposal \in DestructiveApprovalProposal
  BY DEF DestructiveApprovalEnvelope
<1>5. e.proposal.impact = f.proposal.impact
  <2>1. e.proposal.impact \in PresentedImpact /\ f.proposal.impact \in PresentedImpact
    BY <1>4 DEF DestructiveApprovalProposal
  <2>2. /\ e.proposal.impact.item_count = f.proposal.impact.item_count
        /\ e.proposal.impact.volume_kind = f.proposal.impact.volume_kind
        /\ e.proposal.impact.bytes_total = f.proposal.impact.bytes_total
    BY DEF ApprovalRecord
  <2> QED BY <2>1, <2>2 DEF PresentedImpact
<1>6. e.proposal.context = f.proposal.context
  <2>1. e.proposal.context \in ApprovalContext /\ f.proposal.context \in ApprovalContext
    BY <1>4 DEF DestructiveApprovalProposal
  <2>2. /\ e.proposal.context.tenant = f.proposal.context.tenant
        /\ e.proposal.context.workspace = f.proposal.context.workspace
        /\ e.proposal.context.domain = f.proposal.context.domain
        /\ e.proposal.context.purpose = f.proposal.context.purpose
    BY DEF ApprovalRecord
  <2> QED BY <2>1, <2>2 DEF ApprovalContext
<1>7. e.proposal.provenance = f.proposal.provenance
  <2>1. /\ e.proposal.provenance \in SafeVoiceProvenance
        /\ f.proposal.provenance \in SafeVoiceProvenance
    BY <1>4 DEF DestructiveApprovalProposal
  <2>2. /\ e.proposal.provenance.channel = f.proposal.provenance.channel
        /\ e.proposal.provenance.voice_review = f.proposal.provenance.voice_review
    BY DEF ApprovalRecord
  <2> QED BY <2>1, <2>2 DEF SafeVoiceProvenance
<1>8. e.proposal.governance_resolution = f.proposal.governance_resolution
  <2> DEFINE re == e.proposal.governance_resolution
             rf == f.proposal.governance_resolution
  <2>1. re \in DeclaredResolution /\ rf \in DeclaredResolution
    BY <1>4 DEF DestructiveApprovalProposal
  <2>2. re.context \in MemoryContext /\ rf.context \in MemoryContext
    BY <2>1 DEF DeclaredResolution
  <2>3. /\ re.outcome = rf.outcome /\ re.operation = rf.operation
        /\ re.context.actor_ref = rf.context.actor_ref
        /\ re.context.purpose = rf.context.purpose
        /\ re.policy.key = rf.policy.key /\ re.policy.version = rf.policy.version
        /\ re.matched_rule_id = rf.matched_rule_id
    BY DEF ApprovalRecord
  <2>8. re.policy = rf.policy
    <3>1. /\ re.policy \in [key : PolicyKeys, version : Versions]
          /\ rf.policy \in [key : PolicyKeys, version : Versions]
      BY EnvelopeParts
    <3> HIDE DEF re, rf
    <3> QED BY <2>3, <3>1, SamePolicy
  <2>9. re.grounds = rf.grounds
    <3>1. re.grounds \in Grounds /\ rf.grounds \in Grounds
      BY <2>1 DEF DeclaredResolution
    <3>2. /\ re.grounds.safety_boundary_version = rf.grounds.safety_boundary_version
          /\ re.grounds.safety_rationale = rf.grounds.safety_rationale
          /\ re.grounds.preserved_intent = rf.grounds.preserved_intent
          /\ re.grounds.policy_id = rf.grounds.policy_id
          /\ re.grounds.policy_rationale = rf.grounds.policy_rationale
      BY DEF ApprovalRecord
    <3> HIDE DEF re, rf
    <3> QED BY <3>1, <3>2, SameGrounds
  <2>4. re.context.domain_ids = rf.context.domain_ids
    BY <1>1, <1>6
  <2>5. re.blocked_capabilities = rf.blocked_capabilities /\ re.declared = rf.declared
    BY <1>1
  <2> HIDE DEF re, rf
  <2>6. re.context = rf.context
    BY <2>2, <2>3, <2>4, SameContext
  <2>7. re = rf
    BY <2>1, <2>3, <2>5, <2>6, <2>8, <2>9, SameResolution
  <2> QED BY <2>7 DEF re, rf
<1>9. e.proposal = f.proposal
  <2>1. \A p \in DestructiveApprovalProposal :
           p = [operation |-> p.operation, targets |-> p.targets, impact |-> p.impact,
                governance_resolution |-> p.governance_resolution, context |-> p.context,
                provenance |-> p.provenance, blockers |-> p.blockers,
                materialized_at |-> p.materialized_at]
    BY DEF DestructiveApprovalProposal
  <2> QED BY <2>1, <1>1, <1>2, <1>4, <1>5, <1>6, <1>7, <1>8
<1>10. \A x \in DestructiveApprovalEnvelope :
          x = [proposal |-> x.proposal, approval_id |-> x.approval_id, nonce |-> x.nonce,
               identity |-> x.identity, issued_at |-> x.issued_at,
               confirmed_at |-> x.confirmed_at, expires_at |-> x.expires_at]
  BY DEF DestructiveApprovalEnvelope
<1> QED BY <1>2, <1>3, <1>9, <1>10

(* The statement that consumes or revokes an approval finds its row exactly  *)
(* for the envelope that was stored (append_approved, _condicoes_de_binding, *)
(* _condicoes_das_filhas).                                                   *)
THEOREM BindingIsWhole ==
    \A e, f \in DestructiveApprovalEnvelope : Bound(Rows(e), f) <=> e = f
<1> SUFFICES ASSUME NEW e \in DestructiveApprovalEnvelope,
                    NEW f \in DestructiveApprovalEnvelope
             PROVE  Bound(Rows(e), f) <=> e = f
  OBVIOUS
<1>1. ASSUME e = f PROVE Bound(Rows(e), f)
  BY <1>1, OwnRows
<1>2. ASSUME Bound(Rows(e), f) PROVE e = f
  <2>1. ApprovalRecord(e) = ApprovalRecord(f)
    BY <1>2 DEF Bound, condicoes_de_binding, Rows
  <2>2. f.proposal.targets = e.proposal.targets
    BY <1>2, TargetsBound
  <2>3. f.proposal.governance_resolution.declared = e.proposal.governance_resolution.declared
    BY <1>2, TextsBound
  <2> QED BY <2>1, <2>2, <2>3, HeaderDetermines
<1> QED BY <1>1, <1>2

-----------------------------------------------------------------------------
(* The rows read back.                                                       *)

(* A sequence is the function of its positions, and a row is found by its    *)
(* position.                                                                 *)
LEMMA SequenceShape ==
    ASSUME NEW T, NEW s \in Seq(T)
    PROVE  /\ Len(s) \in Nat /\ DOMAIN s = 1 .. Len(s)
           /\ s = [i \in 1 .. Len(s) |-> s[i]]
OBVIOUS

LEMMA RowFound ==
    ASSUME NEW S, NEW x \in S, NEW i, x.position = i,
           \A y \in S : y.position = i => y = x
    PROVE  RowAt(S, i) = x
BY DEF RowAt

\* the rows have each value of a sequence once, at its position
Numbers(rows, s) ==
    /\ Cardinality(rows) = Len(s)
    /\ \A x \in rows : \E i \in 1 .. Len(s) : x.position = i /\ x.value = s[i]
    /\ \A i \in 1 .. Len(s) : \E x \in rows : x.position = i
    /\ \A x, y \in rows : x.position = y.position => x = y

(* Such rows are read as the sequence.                                       *)
LEMMA ReadInOrder ==
    ASSUME NEW T, NEW s \in Seq(T), NEW rows, Numbers(rows, s)
    PROVE  InOrder(rows) = s
<1>1. s = [i \in 1 .. Len(s) |-> s[i]]
  BY SequenceShape
<1>2. ASSUME NEW i \in 1 .. Len(s) PROVE RowAt(rows, i).value = s[i]
  <2>1. PICK x \in rows : x.position = i
    BY DEF Numbers
  <2>2. \A y \in rows : y.position = i => y = x
    BY <2>1 DEF Numbers
  <2>3. RowAt(rows, i) = x
    BY <2>1, <2>2, RowFound
  <2>4. x.value = s[i]
    BY <2>1 DEF Numbers
  <2> QED BY <2>3, <2>4
<1>3. InOrder(rows) = [i \in 1 .. Len(s) |-> RowAt(rows, i).value]
  BY DEF InOrder, Numbers
<1>4. InOrder(rows) = [i \in 1 .. Len(s) |-> s[i]]
  BY <1>2, <1>3
<1> QED BY <1>1, <1>4

(* So a batch is, and the texts of a kind are.                               *)
LEMMA BatchReadBack ==
    ASSUME NEW T, NEW s \in Seq(T)
    PROVE  InOrder(Numbered(s)) = s
<1>1. Cardinality(Numbered(s)) = Len(s)
  BY NumberedCardinality
<1>2. DOMAIN s = 1 .. Len(s)
  BY SequenceShape
<1> DEFINE Row(i) == [position |-> i, value |-> s[i]]
<1>3. Numbered(s) = {Row(i) : i \in 1 .. Len(s)}
  BY <1>2 DEF Numbered
<1>4. \A i : Row(i).position = i /\ Row(i).value = s[i]
  OBVIOUS
<1> HIDE DEF Row
<1>5. Numbers(Numbered(s), s)
  <2>1. ASSUME NEW x \in Numbered(s) PROVE \E i \in 1 .. Len(s) : x = Row(i)
    BY <1>3
  <2>2. \A x \in Numbered(s) : \E i \in 1 .. Len(s) : x.position = i /\ x.value = s[i]
    BY <1>4, <2>1
  <2>3. ASSUME NEW i \in 1 .. Len(s) PROVE \E x \in Numbered(s) : x.position = i
    <3>1. Row(i) \in Numbered(s)
      BY <1>3
    <3> QED BY <1>4, <3>1
  <2>4. ASSUME NEW x \in Numbered(s), NEW y \in Numbered(s), x.position = y.position
        PROVE  x = y
    BY <1>4, <2>1, <2>4
  <2> QED BY <1>1, <2>2, <2>3, <2>4 DEF Numbers
<1> QED BY <1>5, ReadInOrder

LEMMA TextsReadBack ==
    ASSUME NEW e, NEW k \in Textuais, NEW T,
           e.proposal.governance_resolution.declared[k] \in Seq(T)
    PROVE  InOrder(OfKind(itens_de_governanca(e), k))
               = e.proposal.governance_resolution.declared[k]
<1> DEFINE s == e.proposal.governance_resolution.declared[k]
           items == OfKind(itens_de_governanca(e), k)
<1>1. items = {Item(k, i, s[i]) : i \in 1 .. Len(s)} /\ Cardinality(items) = Len(s)
  BY TextsOfKind
<1>2. \A i : Item(k, i, s[i]).position = i /\ Item(k, i, s[i]).value = s[i]
  BY DEF Item
<1> HIDE DEF s, items
<1>3. Numbers(items, s)
  <2>1. ASSUME NEW x \in items PROVE \E i \in 1 .. Len(s) : x = Item(k, i, s[i])
    BY <1>1
  <2>2. \A x \in items : \E i \in 1 .. Len(s) : x.position = i /\ x.value = s[i]
    BY <1>2, <2>1
  <2>3. ASSUME NEW i \in 1 .. Len(s) PROVE \E x \in items : x.position = i
    <3>1. Item(k, i, s[i]) \in items
      BY <1>1
    <3> QED BY <1>2, <3>1
  <2>4. ASSUME NEW x \in items, NEW y \in items, x.position = y.position
        PROVE  x = y
    BY <1>2, <2>1, <2>4
  <2> QED BY <1>1, <2>2, <2>3, <2>4 DEF Numbers
<1>4. s \in Seq(T)
  BY DEF s
<1>5. InOrder(items) = s
  BY <1>3, <1>4, ReadInOrder
<1> QED BY <1>5 DEF s, items

(* A resolution, a proposal and an envelope are the records of their fields. *)
LEMMA Fields ==
    /\ \A r \in DeclaredResolution :
           /\ r = [outcome |-> r.outcome, operation |-> r.operation, context |-> r.context,
                   policy |-> r.policy, matched_rule_id |-> r.matched_rule_id,
                   blocked_capabilities |-> r.blocked_capabilities, grounds |-> r.grounds,
                   declared |-> r.declared]
           /\ r.grounds \in Grounds
           /\ r.context \in MemoryContext /\ r.declared \in [Textuais -> Seq(Texts)]
    /\ \A c \in MemoryContext :
           c = [domain_ids |-> c.domain_ids, actor_ref |-> c.actor_ref, purpose |-> c.purpose]
    /\ \A p \in DestructiveApprovalProposal :
           p = [operation |-> p.operation, targets |-> p.targets, impact |-> p.impact,
                governance_resolution |-> p.governance_resolution, context |-> p.context,
                provenance |-> p.provenance, blockers |-> p.blockers,
                materialized_at |-> p.materialized_at]
    /\ \A m \in PresentedImpact :
           m = [item_count |-> m.item_count, volume_kind |-> m.volume_kind,
                bytes_total |-> m.bytes_total]
    /\ \A c \in ApprovalContext :
           c = [tenant |-> c.tenant, workspace |-> c.workspace, domain |-> c.domain,
                purpose |-> c.purpose]
    /\ \A v \in SafeVoiceProvenance :
           v = [channel |-> v.channel, voice_review |-> v.voice_review]
    /\ \A i \in IdentityEvidence :
           i = [principal |-> i.principal, assurance_level |-> i.assurance_level,
                authenticated_at |-> i.authenticated_at]
    /\ \A e \in DestructiveApprovalEnvelope :
           e = [proposal |-> e.proposal, approval_id |-> e.approval_id, nonce |-> e.nonce,
                identity |-> e.identity, issued_at |-> e.issued_at,
                confirmed_at |-> e.confirmed_at, expires_at |-> e.expires_at]
<1>1. \A r \in DeclaredResolution :
         /\ r = [outcome |-> r.outcome, operation |-> r.operation, context |-> r.context,
                 policy |-> r.policy, matched_rule_id |-> r.matched_rule_id,
                 blocked_capabilities |-> r.blocked_capabilities, grounds |-> r.grounds,
                 declared |-> r.declared]
         /\ r.grounds \in Grounds
         /\ r.context \in MemoryContext /\ r.declared \in [Textuais -> Seq(Texts)]
  BY DEF DeclaredResolution
<1>2. \A c \in MemoryContext :
         c = [domain_ids |-> c.domain_ids, actor_ref |-> c.actor_ref, purpose |-> c.purpose]
  BY DEF MemoryContext
<1>3. \A p \in DestructiveApprovalProposal :
         p = [operation |-> p.operation, targets |-> p.targets, impact |-> p.impact,
              governance_resolution |-> p.governance_resolution, context |-> p.context,
              provenance |-> p.provenance, blockers |-> p.blockers,
              materialized_at |-> p.materialized_at]
  BY DEF DestructiveApprovalProposal
<1>4. \A m \in PresentedImpact :
         m = [item_count |-> m.item_count, volume_kind |-> m.volume_kind,
              bytes_total |-> m.bytes_total]
  BY DEF PresentedImpact
<1>5. \A c \in ApprovalContext :
         c = [tenant |-> c.tenant, workspace |-> c.workspace, domain |-> c.domain,
              purpose |-> c.purpose]
  BY DEF ApprovalContext
<1>6. \A v \in SafeVoiceProvenance :
         v = [channel |-> v.channel, voice_review |-> v.voice_review]
  BY DEF SafeVoiceProvenance
<1>7. \A i \in IdentityEvidence :
         i = [principal |-> i.principal, assurance_level |-> i.assurance_level,
              authenticated_at |-> i.authenticated_at]
  BY DEF IdentityEvidence
<1>8. \A e \in DestructiveApprovalEnvelope :
         e = [proposal |-> e.proposal, approval_id |-> e.approval_id, nonce |-> e.nonce,
              identity |-> e.identity, issued_at |-> e.issued_at,
              confirmed_at |-> e.confirmed_at, expires_at |-> e.expires_at]
  BY DEF DestructiveApprovalEnvelope
<1> QED BY <1>1, <1>2, <1>3, <1>4, <1>5, <1>6, <1>7, <1>8

(* The resolution is read back whole.                                        *)
LEMMA ResolutionReadBack ==
    ASSUME NEW e \in DestructiveApprovalEnvelope
    PROVE  reconstruir_governanca(Rows(e)) = e.proposal.governance_resolution
<1> DEFINE r == e.proposal.governance_resolution
           h == Rows(e).header
           items == Rows(e).items
           got == [k \in Textuais |-> InOrder(OfKind(items, k))]
           row == [key |-> h.governance_policy_key, version |-> h.governance_policy_version]
           said == [safety_boundary_version |-> h.governance_safety_boundary_version,
                    safety_rationale |-> h.governance_safety_rationale,
                    preserved_intent |-> h.governance_preserved_intent,
                    policy_id |-> h.governance_policy_id,
                    policy_rationale |-> h.governance_policy_rationale]
<1>1. r \in DeclaredResolution
  BY DEF DestructiveApprovalEnvelope, DestructiveApprovalProposal
<1>2. items = itens_de_governanca(e)
  BY DEF Rows
<1>3. got = r.declared
  <2>1. r.declared \in [Textuais -> Seq(Texts)]
    BY <1>1, Fields
  <2>2. ASSUME NEW k \in Textuais PROVE InOrder(OfKind(items, k)) = r.declared[k]
    BY <1>2, <2>1, TextsReadBack
  <2> HIDE DEF items, r
  <2> QED BY <2>1, <2>2
<1>4. {x.value : x \in OfKind(items, "domain_id")} = r.context.domain_ids
  <2>1. OfKind(items, "domain_id") = {Item("domain_id", 1, d) : d \in r.context.domain_ids}
    BY <1>2 DEF OfKind, itens_de_governanca, Item, Textuais
  <2>2. \A d : Item("domain_id", 1, d).value = d
    BY DEF Item
  <2> DEFINE ds == r.context.domain_ids
             rows == OfKind(items, "domain_id")
  <2> HIDE DEF items, r, ds, rows
  <2>3. rows = {Item("domain_id", 1, d) : d \in ds}
    BY <2>1 DEF ds, rows
  <2>4. {x.value : x \in rows} = ds
    BY <2>2, <2>3
  <2> QED BY <2>4 DEF ds, rows
<1>5. {x.value : x \in OfKind(items, "blocked_capability")} = r.blocked_capabilities
  <2>1. OfKind(items, "blocked_capability") = {}
    BY <1>2 DEF OfKind, itens_de_governanca, Item, Textuais
  <2>2. r.blocked_capabilities = {}
    BY EnvelopeParts
  <2> QED BY <2>1, <2>2
<1>6. /\ h.governance_outcome = r.outcome /\ h.governance_operation = r.operation
      /\ h.governance_actor_ref = r.context.actor_ref
      /\ h.governance_purpose = r.context.purpose
      /\ h.governance_matched_rule_id = r.matched_rule_id
  BY DEF Rows, ApprovalRecord
<1>7. reconstruir_governanca(Rows(e)) =
         [outcome |-> h.governance_outcome, operation |-> h.governance_operation,
          context |-> [domain_ids |-> {x.value : x \in OfKind(items, "domain_id")},
                       actor_ref |-> h.governance_actor_ref, purpose |-> h.governance_purpose],
          policy |-> row, matched_rule_id |-> h.governance_matched_rule_id,
          blocked_capabilities |-> {x.value : x \in OfKind(items, "blocked_capability")},
          grounds |-> said, declared |-> got]
  BY DEF reconstruir_governanca
<1>12. row = r.policy
  <2>1. r.policy \in [key : PolicyKeys, version : Versions]
    BY EnvelopeParts
  <2>2. h.governance_policy_key = r.policy.key /\ h.governance_policy_version = r.policy.version
    BY DEF Rows, ApprovalRecord
  <2>3. row = [key |-> r.policy.key, version |-> r.policy.version]
    BY <2>2
  <2> HIDE DEF r, h, row
  <2> QED BY <2>1, <2>3
<1>13. said = r.grounds
  <2>1. r.grounds \in Grounds
    BY <1>1, Fields
  <2>2. /\ h.governance_safety_boundary_version = r.grounds.safety_boundary_version
        /\ h.governance_safety_rationale = r.grounds.safety_rationale
        /\ h.governance_preserved_intent = r.grounds.preserved_intent
        /\ h.governance_policy_id = r.grounds.policy_id
        /\ h.governance_policy_rationale = r.grounds.policy_rationale
    BY DEF Rows, ApprovalRecord
  <2>3. said = [safety_boundary_version |-> r.grounds.safety_boundary_version,
                safety_rationale |-> r.grounds.safety_rationale,
                preserved_intent |-> r.grounds.preserved_intent,
                policy_id |-> r.grounds.policy_id,
                policy_rationale |-> r.grounds.policy_rationale]
    BY <2>2
  <2> HIDE DEF r, h, said
  <2> QED BY <2>1, <2>3 DEF Grounds
<1> HIDE DEF r, h, items, got, row, said
<1>8. r.context \in MemoryContext
  BY <1>1, Fields
<1>9. r.context = [domain_ids |-> r.context.domain_ids, actor_ref |-> r.context.actor_ref,
                   purpose |-> r.context.purpose]
  BY <1>8, Fields
<1>10. reconstruir_governanca(Rows(e)) =
         [outcome |-> r.outcome, operation |-> r.operation, context |-> r.context,
          policy |-> r.policy, matched_rule_id |-> r.matched_rule_id,
          blocked_capabilities |-> r.blocked_capabilities, grounds |-> r.grounds,
          declared |-> r.declared]
  BY <1>3, <1>4, <1>5, <1>6, <1>7, <1>9, <1>12, <1>13
<1>11. reconstruir_governanca(Rows(e)) = r
  BY <1>1, <1>10, Fields
<1> QED BY <1>11 DEF r

(* What is read back from the rows of an envelope is the envelope.           *)
LEMMA RowsReadBack ==
    ASSUME NEW e \in DestructiveApprovalEnvelope
    PROVE  reconstruir(Rows(e)) = e
<1> DEFINE p == e.proposal
           h == Rows(e).header
           batch == InOrder(Rows(e).targets)
<1>1. p \in DestructiveApprovalProposal /\ e.identity \in IdentityEvidence
  BY DEF DestructiveApprovalEnvelope
<1>2. /\ p.impact \in PresentedImpact /\ p.context \in ApprovalContext
      /\ p.provenance \in SafeVoiceProvenance
  BY <1>1 DEF DestructiveApprovalProposal
<1>3. p.targets \in Seq(SafeTargetSnapshot) /\ p.blockers = {}
  BY EnvelopeParts
<1>4. batch = p.targets
  <2>1. Rows(e).targets = Numbered(p.targets)
    BY DEF Rows, ApprovalRecordTarget, Numbered
  <2> HIDE DEF p
  <2> QED BY <1>3, <2>1, BatchReadBack
<1>5. /\ h.id = e.approval_id /\ h.nonce = e.nonce /\ h.operation = p.operation
      /\ h.principal_ref = e.identity.principal
      /\ h.assurance_level = e.identity.assurance_level
      /\ h.authenticated_at = e.identity.authenticated_at
      /\ h.tenant_id = p.context.tenant /\ h.workspace_id = p.context.workspace
      /\ h.domain_id = p.context.domain /\ h.purpose_ref = p.context.purpose
      /\ h.channel = p.provenance.channel /\ h.voice_review = p.provenance.voice_review
      /\ h.impact_item_count = p.impact.item_count
      /\ h.impact_volume_kind = p.impact.volume_kind
      /\ h.impact_bytes_total = p.impact.bytes_total
      /\ h.materialized_at = p.materialized_at /\ h.issued_at = e.issued_at
      /\ h.confirmed_at = e.confirmed_at /\ h.expires_at = e.expires_at
  BY DEF Rows, ApprovalRecord
<1>6. reconstruir(Rows(e)) =
         [proposal |->
             [operation |-> h.operation, targets |-> batch,
              impact |-> [item_count |-> h.impact_item_count,
                          volume_kind |-> h.impact_volume_kind,
                          bytes_total |-> h.impact_bytes_total],
              governance_resolution |-> reconstruir_governanca(Rows(e)),
              context |-> [tenant |-> h.tenant_id, workspace |-> h.workspace_id,
                           domain |-> h.domain_id, purpose |-> h.purpose_ref],
              provenance |-> [channel |-> h.channel, voice_review |-> h.voice_review],
              blockers |-> {}, materialized_at |-> h.materialized_at],
          approval_id |-> h.id, nonce |-> h.nonce,
          identity |-> [principal |-> h.principal_ref, assurance_level |-> h.assurance_level,
                        authenticated_at |-> h.authenticated_at],
          issued_at |-> h.issued_at, confirmed_at |-> h.confirmed_at,
          expires_at |-> h.expires_at]
  BY DEF reconstruir
<1>7. reconstruir_governanca(Rows(e)) = p.governance_resolution
  BY ResolutionReadBack
<1> HIDE DEF p, h, batch
<1>8. /\ p.impact = [item_count |-> p.impact.item_count, volume_kind |-> p.impact.volume_kind,
                     bytes_total |-> p.impact.bytes_total]
      /\ p.context = [tenant |-> p.context.tenant, workspace |-> p.context.workspace,
                      domain |-> p.context.domain, purpose |-> p.context.purpose]
      /\ p.provenance = [channel |-> p.provenance.channel,
                         voice_review |-> p.provenance.voice_review]
      /\ e.identity = [principal |-> e.identity.principal,
                       assurance_level |-> e.identity.assurance_level,
                       authenticated_at |-> e.identity.authenticated_at]
  BY <1>1, <1>2, Fields
<1>9. reconstruir(Rows(e)) =
         [proposal |->
             [operation |-> p.operation, targets |-> p.targets, impact |-> p.impact,
              governance_resolution |-> p.governance_resolution, context |-> p.context,
              provenance |-> p.provenance, blockers |-> p.blockers,
              materialized_at |-> p.materialized_at],
          approval_id |-> e.approval_id, nonce |-> e.nonce, identity |-> e.identity,
          issued_at |-> e.issued_at, confirmed_at |-> e.confirmed_at,
          expires_at |-> e.expires_at]
  BY <1>3, <1>4, <1>5, <1>6, <1>7, <1>8
<1>10. p = [operation |-> p.operation, targets |-> p.targets, impact |-> p.impact,
            governance_resolution |-> p.governance_resolution, context |-> p.context,
            provenance |-> p.provenance, blockers |-> p.blockers,
            materialized_at |-> p.materialized_at]
  BY <1>1, Fields
<1>11. reconstruir(Rows(e)) =
         [proposal |-> p, approval_id |-> e.approval_id, nonce |-> e.nonce,
          identity |-> e.identity, issued_at |-> e.issued_at,
          confirmed_at |-> e.confirmed_at, expires_at |-> e.expires_at]
  BY <1>9, <1>10
<1> QED BY <1>11, Fields DEF p

-----------------------------------------------------------------------------
(* The records and the envelopes.                                            *)

\* the record of an approval is there with its envelope, and is what it became
RecordStands(id) ==
    \/ approvals[id] = None /\ approved[id] = None
    \/ /\ approved[id] \in Envelopes /\ approved[id].approval_id = id
       /\ approvals[id] \in StoredApproval
       /\ approvals[id].rows = Rows(approved[id])
       /\ RowAccepted(approvals[id].rows)
       /\ StateCoherent(approvals[id])

Stored ==
    /\ clock \in Instants
    /\ DOMAIN approvals = Approvals /\ DOMAIN approved = Approvals
    /\ \A id \in Approvals : RecordStands(id)

(* An envelope that is confirmed has an identifier and is a whole one; None  *)
(* is neither an envelope, a record nor an instant.                          *)
LEMMA EnvelopesStand ==
    /\ \A e \in Envelopes : e \in DestructiveApprovalEnvelope /\ e.approval_id \in Approvals
    /\ \A e \in Envelopes : Rows(e).header.expires_at = e.expires_at /\ e.expires_at \in Nat
    /\ None \notin Envelopes /\ None \notin StoredApproval /\ None \notin Instants
<1>1. \A e \in Envelopes : e \in DestructiveApprovalEnvelope /\ e.approval_id \in Approvals
  BY DEF Envelopes, Approvals
<1>2. \A e \in DestructiveApprovalEnvelope : e.expires_at \in Nat
  BY DEF DestructiveApprovalEnvelope, Instants
<1>3. \A e : Rows(e).header.expires_at = e.expires_at
  BY DEF Rows, ApprovalRecord
<1>4. None \notin Envelopes /\ None \notin StoredApproval
  BY DestructiveApprovalAssumption
<1>5. None \notin Instants
  BY GovernanceAssumption DEF Instants
<1> QED BY <1>1, <1>2, <1>3, <1>4, <1>5

(* The fields of a record.                                                   *)
LEMMA StoredFields ==
    ASSUME NEW a \in StoredApproval
    PROVE  /\ a = [rows |-> a.rows, state |-> a.state, consumed_at |-> a.consumed_at,
                   revoked_at |-> a.revoked_at]
           /\ a.rows \in {Rows(e) : e \in Envelopes}
           /\ a.state \in ApprovalLifecycleState
           /\ a.consumed_at \in Instants \cup {None}
           /\ a.revoked_at \in Instants \cup {None}
BY DEF StoredApproval

(* What the records of the invariant say: what is stored reads back as what  *)
(* was confirmed.                                                            *)
LEMMA StoredIsTyped ==
    ASSUME Stored
    PROVE  TypeOK /\ RoundTrip
<1>1. ASSUME NEW id \in Approvals
      PROVE  /\ approvals[id] = None <=> approved[id] = None
             /\ approvals[id] # None =>
                    /\ RowAccepted(approvals[id].rows)
                    /\ approvals[id].state \in ApprovalLifecycleState
                    /\ StateCoherent(approvals[id])
             /\ get_materialized(id) = approved[id]
  <2>1. RecordStands(id)
    BY DEF Stored
  <2>2. CASE approvals[id] = None /\ approved[id] = None
    BY <2>2 DEF get_materialized
  <2>3. CASE ~ (approvals[id] = None /\ approved[id] = None)
    <3>1. /\ approved[id] \in Envelopes /\ approvals[id] \in StoredApproval
          /\ approvals[id].rows = Rows(approved[id])
          /\ RowAccepted(approvals[id].rows) /\ StateCoherent(approvals[id])
      BY <2>1, <2>3 DEF RecordStands
    <3>2. approvals[id] # None /\ approved[id] # None
      BY <3>1, EnvelopesStand
    <3>3. reconstruir(Rows(approved[id])) = approved[id]
      <4>1. approved[id] \in DestructiveApprovalEnvelope
        BY <3>1, EnvelopesStand
      <4> QED BY <4>1, RowsReadBack
    <3>4. approvals[id].state \in ApprovalLifecycleState
      BY <3>1, StoredFields
    <3>5. get_materialized(id) = approved[id]
      BY <3>1, <3>2, <3>3 DEF get_materialized
    <3> QED BY <3>1, <3>2, <3>4, <3>5
  <2> QED BY <2>2, <2>3
<1> QED BY <1>1 DEF TypeOK, RoundTrip

(* The transition finds a record that is active, in the state of the         *)
(* envelope that is presented, which is the one that was confirmed; it finds *)
(* none although it is confirmed only if it has moved or expired.            *)
LEMMA ConditionsHold ==
    ASSUME Stored, NEW e \in Envelopes, NEW unexpired \in BOOLEAN
    PROVE  LET id == e.approval_id
           IN  /\ Condicoes(e, unexpired) =>
                      /\ approvals[id] \in StoredApproval /\ approvals[id].state = "ACTIVE"
                      /\ StateCoherent(approvals[id])
                      /\ approvals[id].rows = Rows(e) /\ approved[id] = e
                      /\ RowAccepted(Rows(e))
                      /\ unexpired => clock < e.expires_at
               /\ ~ Condicoes(e, unexpired) /\ approvals[id] # None /\ approved[id] = e =>
                      \/ approvals[id].state # "ACTIVE"
                      \/ unexpired /\ e.expires_at <= clock
<1> DEFINE id == e.approval_id
           a == approvals[id]
<1>1. RecordStands(id) /\ e \in DestructiveApprovalEnvelope /\ clock \in Nat
  BY EnvelopesStand DEF Stored, Instants
<1>2. CASE a = None
  <2>1. ~ Condicoes(e, unexpired)
    BY <1>2 DEF Condicoes
  <2> QED BY <1>2, <2>1
<1>3. CASE a # None
  <2>1. /\ approved[id] \in Envelopes /\ a \in StoredApproval /\ a.rows = Rows(approved[id])
        /\ RowAccepted(a.rows) /\ StateCoherent(a)
    BY <1>1, <1>3 DEF RecordStands
  <2>2. approved[id] \in DestructiveApprovalEnvelope
    BY <2>1, EnvelopesStand
  <2>3. Bound(a.rows, e) <=> approved[id] = e
    BY <1>1, <2>1, <2>2, BindingIsWhole
  <2>4. /\ a.rows.header.expires_at = approved[id].expires_at
        /\ approved[id].expires_at \in Nat
    BY <2>1, EnvelopesStand
  <2>6. ASSUME Condicoes(e, unexpired)
        PROVE  /\ a.state = "ACTIVE" /\ approved[id] = e
               /\ unexpired => clock < e.expires_at
    <3>1. a.state = "ACTIVE" /\ Bound(a.rows, e) /\ (unexpired => a.rows.header.expires_at > clock)
      BY <2>6 DEF Condicoes
    <3> QED BY <1>1, <2>3, <2>4, <3>1
  <2>7. ASSUME ~ Condicoes(e, unexpired), approved[id] = e, a.state = "ACTIVE"
        PROVE  unexpired /\ e.expires_at <= clock
    <3>1. Bound(a.rows, e)
      BY <2>3, <2>7
    <3>2. unexpired /\ ~ (a.rows.header.expires_at > clock)
      BY <1>3, <2>7, <3>1 DEF Condicoes
    <3> QED BY <1>1, <2>4, <2>7, <3>2
  <2> QED BY <2>1, <2>6, <2>7
<1> QED BY <1>2, <1>3

(* A record that was consumed or revoked is one the trigger lets pass.       *)
LEMMA RecordsMove ==
    ASSUME NEW at \in Instants, NEW a \in StoredApproval, a.state = "ACTIVE", StateCoherent(a)
    PROVE  /\ Consumed(a, at) \in StoredApproval /\ TriggerAccepts(a, Consumed(a, at))
           /\ Revoked(a, at) \in StoredApproval /\ TriggerAccepts(a, Revoked(a, at))
           /\ Consumed(a, at).state = "CONSUMED" /\ Revoked(a, at).state = "REVOKED"
<1>1. a.consumed_at = None /\ a.revoked_at = None
  BY DEF StateCoherent
<1>2. at # None
  BY EnvelopesStand
<1>3. /\ Consumed(a, at).rows = a.rows /\ Consumed(a, at).state = "CONSUMED"
      /\ Consumed(a, at).consumed_at = at /\ Consumed(a, at).revoked_at = a.revoked_at
  BY DEF Consumed, StoredApproval
<1>4. /\ Revoked(a, at).rows = a.rows /\ Revoked(a, at).state = "REVOKED"
      /\ Revoked(a, at).consumed_at = a.consumed_at /\ Revoked(a, at).revoked_at = at
  BY DEF Revoked, StoredApproval
<1>5. Consumed(a, at) \in StoredApproval /\ Revoked(a, at) \in StoredApproval
  BY DEF Consumed, Revoked, StoredApproval, ApprovalLifecycleState
<1>6. StateCoherent(Consumed(a, at)) /\ StateCoherent(Revoked(a, at))
  BY <1>1, <1>2, <1>3, <1>4 DEF StateCoherent
<1> QED BY <1>3, <1>4, <1>5, <1>6 DEF TriggerAccepts

-----------------------------------------------------------------------------
(* The values of the call.                                                   *)

Below == OpToRel(<, Nat)

(* Among positions there is a least one.                                     *)
LEMMA LeastPosition ==
    ASSUME NEW S \in SUBSET Nat, S # {}
    PROVE  Least(S) \in S /\ \A j \in S : Least(S) <= j
<1>1. IsWellFoundedOn(Below, Nat)
  BY NatLessThanWellFounded DEF Below
<1>2. PICK m \in S : \A n \in S : <<n, m>> \notin Below
  BY <1>1, WFMin
<1>3. ASSUME NEW n \in S PROVE m <= n
  <2>1. n \in Nat /\ m \in Nat
    OBVIOUS
  <2>2. n < m => <<n, m>> \in Below
    BY <2>1 DEF Below, OpToRel
  <2> QED BY <1>2, <2>1, <2>2
<1> QED BY <1>3 DEF Least

(* The refusals the call builds are ones their constructor accepts.          *)
LEMMA RefusalsForm ==
    /\ \A reason \in RAZOES_DE_LOTE : Refusal(reason, None, {}, None) \in PreConsumptionRefusal
    /\ \A i \in Nat :
           /\ Refusal("DUPLICATE_SUBJECT_IN_BATCH", i, {}, None) \in PreConsumptionRefusal
           /\ Refusal("REFERENCE_DOES_NOT_MATCH_APPROVED_TARGET", i, {}, None)
                  \in PreConsumptionRefusal
           /\ \A refused \in TargetResolutionRefusalReason :
                  Refusal("TARGET_RESOLUTION_REFUSED", i, {}, refused) \in PreConsumptionRefusal
           /\ \A fields \in SUBSET CAMPOS_DO_BINDING : fields # {} =>
                  Refusal("FRESH_SNAPSHOT_DIVERGED", i, fields, None) \in PreConsumptionRefusal
<1>1. None \notin Nat /\ None \notin TargetResolutionRefusalReason
  BY GovernanceAssumption, DestructiveApprovalAssumption
<1>2. \A reason \in RAZOES_DE_LOTE : Refusal(reason, None, {}, None) \in PreConsumptionRefusal
  BY DEF Refusal, PreConsumptionRefusal, PreConsumptionRefusalReason, RAZOES_DE_LOTE
<1>3. ASSUME NEW i \in Nat
      PROVE  /\ Refusal("DUPLICATE_SUBJECT_IN_BATCH", i, {}, None) \in PreConsumptionRefusal
             /\ Refusal("REFERENCE_DOES_NOT_MATCH_APPROVED_TARGET", i, {}, None)
                    \in PreConsumptionRefusal
  BY <1>1 DEF Refusal, PreConsumptionRefusal, PreConsumptionRefusalReason, RAZOES_DE_LOTE
<1>4. ASSUME NEW i \in Nat, NEW refused \in TargetResolutionRefusalReason
      PROVE  Refusal("TARGET_RESOLUTION_REFUSED", i, {}, refused) \in PreConsumptionRefusal
  <2>1. refused # None /\ i # None
    BY <1>1
  <2> QED BY <2>1 DEF Refusal, PreConsumptionRefusal, PreConsumptionRefusalReason, RAZOES_DE_LOTE
<1>5. ASSUME NEW i \in Nat, NEW fields \in SUBSET CAMPOS_DO_BINDING, fields # {}
      PROVE  Refusal("FRESH_SNAPSHOT_DIVERGED", i, fields, None) \in PreConsumptionRefusal
  BY <1>1, <1>5
     DEF Refusal, PreConsumptionRefusal, PreConsumptionRefusalReason, RAZOES_DE_LOTE
<1> QED BY <1>2, <1>3, <1>4, <1>5

(* The references of a call: there are some.                                 *)
LEMMA ReferencesShape ==
    ASSUME NEW refs \in References
    PROVE  Len(refs) \in Nat \ {0} /\ DOMAIN refs = 1 .. Len(refs)
<1>1. refs \in Seq(ErasureTargetReference) /\ refs # <<>>
  BY DestructiveApprovalAssumption
<1>2. Len(refs) \in Nat /\ DOMAIN refs = 1 .. Len(refs)
  BY <1>1, SequenceShape
<1>3. Len(refs) # 0
  BY <1>1
<1> QED BY <1>2, <1>3

(* A batch is refused in a form its constructor accepts, or has a reference  *)
(* for every target of an approval whose resolution says what granted it.    *)
LEMMA BatchChecked ==
    ASSUME NEW e, NEW refs \in References
    PROVE  /\ validar_lote(e, refs) # None => validar_lote(e, refs) \in PreConsumptionRefusal
           /\ validar_lote(e, refs) = None =>
                  /\ Len(refs) = Len(e.proposal.targets)
                  /\ proveniencia(e.proposal.governance_resolution) # None
<1> DEFINE targets == e.proposal.targets
           offending == {i \in DOMAIN refs : Duplicated(refs, i)
                             \/ ~ ReferenciaCorresponde(refs[i], targets[i])}
           least == Least(offending)
<1>1. None \notin PreConsumptionRefusal
  BY DestructiveApprovalAssumption
<1>2. CASE Len(refs) # Len(targets)
  <2>1. validar_lote(e, refs) = Refusal("BATCH_CARDINALITY_MISMATCH", None, {}, None)
    BY <1>2 DEF validar_lote
  <2>2. validar_lote(e, refs) \in PreConsumptionRefusal
    BY <2>1, RefusalsForm DEF RAZOES_DE_LOTE
  <2> QED BY <1>1, <2>2
<1>3. CASE Len(refs) = Len(targets) /\ offending # {}
  <2>1. least \in Nat
    <3>1. DOMAIN refs \subseteq Nat
      BY ReferencesShape
    <3>2. offending \in SUBSET Nat
      BY <3>1
    <3> HIDE DEF offending
    <3>3. least \in offending
      BY <1>3, <3>2, LeastPosition
    <3> QED BY <3>2, <3>3
  <2>2. \/ validar_lote(e, refs) = Refusal("DUPLICATE_SUBJECT_IN_BATCH", least, {}, None)
        \/ validar_lote(e, refs)
               = Refusal("REFERENCE_DOES_NOT_MATCH_APPROVED_TARGET", least, {}, None)
    BY <1>3 DEF validar_lote
  <2> HIDE DEF least
  <2>3. validar_lote(e, refs) \in PreConsumptionRefusal
    BY <2>1, <2>2, RefusalsForm
  <2> QED BY <1>1, <2>3
<1>4. CASE Len(refs) = Len(targets) /\ offending = {}
  <2>1. CASE proveniencia(e.proposal.governance_resolution) = None
    <3>1. validar_lote(e, refs) = Refusal("GOVERNANCE_PROVENANCE_INCOMPLETE", None, {}, None)
      BY <1>4, <2>1 DEF validar_lote
    <3>2. validar_lote(e, refs) \in PreConsumptionRefusal
      BY <3>1, RefusalsForm DEF RAZOES_DE_LOTE
    <3> QED BY <1>1, <3>2
  <2>2. CASE proveniencia(e.proposal.governance_resolution) # None
    <3>1. validar_lote(e, refs) = None
      BY <1>4, <2>2 DEF validar_lote
    <3> QED BY <1>4, <2>2, <3>1
  <2> QED BY <2>1, <2>2
<1> QED BY <1>2, <1>3, <1>4

(* The resolver ends the call in a form its constructor accepts, or          *)
(* describes every target as the approval has it.                            *)
LEMMA TargetsResolved ==
    ASSUME NEW e, NEW refs \in References, NEW resolved \in [DOMAIN refs -> Resolutions]
    PROVE  /\ resolver_alvos(e, resolved) # None =>
                  resolver_alvos(e, resolved) \in PreConsumptionRefusal
           /\ resolver_alvos(e, resolved) = None =>
                  \A i \in DOMAIN refs :
                      /\ resolved[i] \in ErasureTargetDescriptor
                      /\ resolved[i].snapshot.scope = e.proposal.targets[i].scope
<1> DEFINE Refuse(i) == resolved[i] \in TargetResolutionRefusal
           Diverging(i) == comparar(from_descriptor(resolved[i]), e.proposal.targets[i])
           ending == {i \in DOMAIN resolved : Refuse(i) \/ Diverging(i) # {}}
           least == Least(ending)
<1>1. None \notin PreConsumptionRefusal
  BY DestructiveApprovalAssumption
<1>2. CASE ending # {}
  <2>1. least \in Nat /\ least \in ending
    <3>1. DOMAIN resolved \subseteq Nat
      BY ReferencesShape
    <3>2. ending \in SUBSET Nat
      BY <3>1
    <3> HIDE DEF ending
    <3>3. least \in ending
      BY <1>2, <3>2, LeastPosition
    <3> QED BY <3>2, <3>3
  <2>2. resolver_alvos(e, resolved) =
           IF Refuse(least)
           THEN Refusal("TARGET_RESOLUTION_REFUSED", least, {}, resolved[least].reason)
           ELSE Refusal("FRESH_SNAPSHOT_DIVERGED", least, Diverging(least), None)
    BY <1>2 DEF resolver_alvos
  <2>3. Refuse(least) \/ Diverging(least) # {}
    BY <2>1
  <2>4. Refuse(least) => resolved[least].reason \in TargetResolutionRefusalReason
    BY DEF TargetResolutionRefusal
  <2>5. Diverging(least) \in SUBSET CAMPOS_DO_BINDING
    BY DEF comparar
  <2> HIDE DEF Refuse, Diverging, least
  <2>6. CASE Refuse(least)
    <3>1. resolver_alvos(e, resolved)
             = Refusal("TARGET_RESOLUTION_REFUSED", least, {}, resolved[least].reason)
      BY <2>2, <2>6
    <3>2. resolver_alvos(e, resolved) \in PreConsumptionRefusal
      BY <2>1, <2>4, <2>6, <3>1, RefusalsForm
    <3> QED BY <1>1, <3>2
  <2>7. CASE ~ Refuse(least)
    <3>1. resolver_alvos(e, resolved)
             = Refusal("FRESH_SNAPSHOT_DIVERGED", least, Diverging(least), None)
      BY <2>2, <2>7
    <3>2. resolver_alvos(e, resolved) \in PreConsumptionRefusal
      BY <2>1, <2>3, <2>5, <2>7, <3>1, RefusalsForm
    <3> QED BY <1>1, <3>2
  <2> QED BY <2>6, <2>7
<1>3. CASE ending = {}
  <2>1. resolver_alvos(e, resolved) = None
    BY <1>3 DEF resolver_alvos
  <2>2. ASSUME NEW i \in DOMAIN refs
        PROVE  /\ resolved[i] \in ErasureTargetDescriptor
               /\ resolved[i].snapshot.scope = e.proposal.targets[i].scope
    <3>1. ~ Refuse(i) /\ Diverging(i) = {}
      BY <1>3
    <3>2. resolved[i] \in ErasureTargetDescriptor
      BY <3>1, DestructiveApprovalAssumption
    <3>3. "scope" \in CAMPOS_DO_BINDING
      BY DEF CAMPOS_DO_BINDING
    <3>4. resolved[i].snapshot["scope"] = e.proposal.targets[i]["scope"]
      BY <3>1, <3>3 DEF comparar, from_descriptor
    <3> QED BY <3>2, <3>4
  <2> QED BY <2>1, <2>2
<1> QED BY <1>2, <1>3

-----------------------------------------------------------------------------
(* The effects.                                                              *)

\* a receipt of the target at a position, citing what was approved of it
ReceiptOf(e, i, r) ==
    /\ r.approval_ref = e.approval_id
    /\ r.subject = e.proposal.targets[i].subject
    /\ r.target_class = e.proposal.targets[i].target_class
    /\ r.scope_token = e.proposal.operation
    /\ r.governance_policy = e.proposal.governance_resolution.policy
    /\ r.governance_rule = e.proposal.governance_resolution.matched_rule_id
    /\ ErasureRecord(r)

(* The targets of an envelope: one of each subject, in the scope of the      *)
(* approval and under the principal who confirmed it.                        *)
LEMMA TargetsOfEnvelope ==
    ASSUME NEW e \in Envelopes
    PROVE  LET targets == e.proposal.targets
           IN  /\ e.proposal.operation \in DestructiveOperation
               /\ DOMAIN targets = 1 .. Len(targets)
               /\ \A i \in DOMAIN targets :
                      /\ targets[i].target_class \in CLASSES_DE_CONTEUDO
                      /\ targets[i].scope.tenant = e.proposal.context.tenant
                      /\ targets[i].scope.workspace = e.proposal.context.workspace
                      /\ targets[i].scope.principal = e.identity.principal
               /\ \A i, j \in DOMAIN targets : targets[i].subject = targets[j].subject => i = j
<1> DEFINE targets == e.proposal.targets
<1>1. e \in DestructiveApprovalEnvelope
  BY EnvelopesStand
<1>2. e.proposal \in DestructiveApprovalProposal /\ PrincipalRules(e)
  BY <1>1 DEF DestructiveApprovalEnvelope
<1>3. /\ targets \in Seq(SafeTargetSnapshot) /\ e.proposal.operation \in DestructiveOperation
      /\ BatchRules(e.proposal) /\ ScopeRules(e.proposal)
  BY <1>2 DEF DestructiveApprovalProposal
<1>4. DOMAIN targets = 1 .. Len(targets)
  BY <1>3, SequenceShape
<1>5. \A i \in DOMAIN targets : targets[i] \in SafeTargetSnapshot
  BY <1>3, <1>4
<1>6. \A i \in DOMAIN targets : targets[i].target_class \in CLASSES_DE_CONTEUDO
  BY <1>5 DEF SafeTargetSnapshot
<1>7. \A i \in DOMAIN targets :
          /\ targets[i].scope.tenant = e.proposal.context.tenant
          /\ targets[i].scope.workspace = e.proposal.context.workspace
          /\ targets[i].scope.principal = e.identity.principal
  BY <1>2, <1>3 DEF ScopeRules, PrincipalRules
<1>8. \A i, j \in DOMAIN targets : targets[i].subject = targets[j].subject => i = j
  BY <1>3 DEF BatchRules
<1> QED BY <1>3, <1>4, <1>6, <1>7, <1>8

(* What a position that lets the effects go on answered.                     *)
LEMMA ReceiptBuilt ==
    ASSUME NEW at \in Instants, NEW e \in Envelopes, NEW i \in DOMAIN e.proposal.targets,
           proveniencia(e.proposal.governance_resolution) # None,
           NEW a \in Attempts, a.violation = None
    PROVE  /\ About(e, i, a).subject = e.proposal.targets[i].subject
           /\ Observed(a) /\ ErasureRecordAppend(Recibo(e, i, a, at)) =>
                  ReceiptOf(e, i, Recibo(e, i, a, at))
<1> DEFINE g == e.proposal.governance_resolution
           r == Recibo(e, i, a, at)
           t == e.proposal.targets[i]
<1>1. None \notin AdapterContractViolation
  BY DestructiveApprovalAssumption
<1>2. About(e, i, a) = [approval_id |-> e.approval_id, subject |-> t.subject,
                        target_class |-> t.target_class]
  BY <1>1 DEF About, AdapterContractViolation
<1>3. proveniencia(g) = [policy |-> g.policy, rule |-> g.matched_rule_id]
  BY DEF proveniencia
<1>4. ASSUME Observed(a), ErasureRecordAppend(r) PROVE ReceiptOf(e, i, r)
  <2>1. r = [subject |-> t.subject, target_class |-> t.target_class,
             scope_token |-> e.proposal.operation, outcome |-> a.outcome,
             governance_policy |-> g.policy, governance_rule |-> g.matched_rule_id,
             approval_ref |-> e.approval_id, attempted_at |-> at, completed_at |-> at,
             failure_code |-> a.failure_code]
    BY <1>2, <1>3 DEF Recibo
  <2>2. a.failure_code \in 1 .. MAX_OPAQUE_LENGTH \cup {None}
    BY DestructiveApprovalAssumption DEF Attempt
  <2>3. t.target_class \in ErasureTargetClass /\ e.proposal.operation \in DestructiveOperation
    BY TargetsOfEnvelope DEF CLASSES_DE_CONTEUDO, ErasureTargetClass
  <2>4. r.failure_code # None => 0 < r.failure_code /\ r.failure_code <= MAX_FAILURE_CODE_LENGTH
    BY <1>4, <2>1, <2>2 DEF ErasureRecordAppend, MAX_OPAQUE_LENGTH
  <2>5. /\ r.outcome \in ErasureOutcome
        /\ r.outcome = "succeeded" <=> r.failure_code = None
        /\ r.governance_policy.version >= 1
        /\ r.attempted_at <= r.completed_at
    BY <1>4 DEF ErasureRecordAppend
  <2>6. r.target_class \in ErasureTargetClass /\ r.scope_token \in DestructiveOperation
    BY <2>1, <2>3
  <2>7. ErasureRecord(r)
    BY <2>4, <2>5, <2>6 DEF ErasureRecord
  <2> HIDE DEF r, t, g
  <2>8. /\ r.approval_ref = e.approval_id /\ r.subject = t.subject
        /\ r.target_class = t.target_class /\ r.scope_token = e.proposal.operation
        /\ r.governance_policy = g.policy /\ r.governance_rule = g.matched_rule_id
    BY <2>1
  <2> QED BY <2>7, <2>8 DEF ReceiptOf, t, g
<1> QED BY <1>2, <1>4

(* What a call that consumes an approval leaves: receipts of its targets,    *)
(* one of each, requests within the authority that was consumed and a report *)
(* its constructor accepts.                                                  *)
LEMMA Effects ==
    ASSUME Stored, NEW e \in Envelopes, NEW refs \in References, execute(e, refs)
    PROVE  /\ Condicoes(e, TRUE)
           /\ clock' \in Instants /\ clock <= clock'
           /\ approvals' = [approvals EXCEPT ![e.approval_id] = Consumed(@, clock')]
           /\ UNCHANGED <<approved, defeated>>
           /\ answer'.kind = "executed" /\ answer'.expected = e
           /\ \A q \in answer'.requests : ErasureEffectRequest(q)
           /\ answer'.error = None => DestructiveExecutionReport(answer'.outcomes)
           /\ \A r \in erasures' \ erasures :
                  \E i \in DOMAIN e.proposal.targets : ReceiptOf(e, i, r)
           /\ \A r, q \in erasures' \ erasures : r.subject = q.subject => r = q
           /\ erasures \subseteq erasures'
<1> DEFINE targets == e.proposal.targets
<1>1. clock \in Instants
  BY DEF Stored
<1>2. validar_lote(e, refs) = None /\ Condicoes(e, TRUE)
  BY DEF execute
<1>3. /\ Len(refs) = Len(targets) /\ proveniencia(e.proposal.governance_resolution) # None
      /\ Len(refs) \in Nat \ {0} /\ DOMAIN refs = 1 .. Len(refs)
      /\ DOMAIN targets = 1 .. Len(refs)
  BY <1>2, BatchChecked, ReferencesShape, TargetsOfEnvelope
<1>4. PICK frescos \in Resolved(e, refs), answers \in [DOMAIN refs -> PortAnswers],
           at \in clock .. MaxTime :
        LET ends  == Ends(e, answers, at)
            upto  == IF ends = {} THEN Len(refs) ELSE Least(ends) - 1
            Recorded(i) == IF Observed(answers[i]) THEN Recibo(e, i, answers[i], at) ELSE None
            outcomes == [i \in 1 .. upto |-> TargetExecutionOutcome(e, i, answers[i], Recorded(i))]
            asked == {[descriptor    |-> frescos[i],
                       authorization |-> ConsumedApprovalEvidence(e, at)] :
                          i \in 1 .. (IF ends = {} THEN upto ELSE upto + 1)}
        IN  /\ clock' = at
            /\ approvals' = [approvals EXCEPT ![e.approval_id] = Consumed(@, at)]
            /\ erasures' = erasures \cup ({Recorded(i) : i \in 1 .. upto} \ {None})
            /\ answer' = [kind |-> "executed", expected |-> e, requests |-> asked,
                          error |-> IF ends = {} THEN None ELSE Raised(answers[Least(ends)]),
                          outcomes |-> outcomes,
                          evidence |-> IF ends = {} THEN None
                                       ELSE PartialExecutionEvidence(Least(ends), outcomes)]
            /\ UNCHANGED <<approved, defeated>>
  BY DEF execute
<1> DEFINE ends == Ends(e, answers, at)
           upto == IF ends = {} THEN Len(refs) ELSE Least(ends) - 1
           last == IF ends = {} THEN upto ELSE upto + 1
           Recorded(i) == IF Observed(answers[i]) THEN Recibo(e, i, answers[i], at) ELSE None
           outcomes == [i \in 1 .. upto |-> TargetExecutionOutcome(e, i, answers[i], Recorded(i))]
           asked == {[descriptor |-> frescos[i],
                      authorization |-> ConsumedApprovalEvidence(e, at)] : i \in 1 .. last}
<1>5. /\ approvals' = [approvals EXCEPT ![e.approval_id] = Consumed(@, at)]
      /\ clock' = at
      /\ erasures' = erasures \cup ({Recorded(i) : i \in 1 .. upto} \ {None})
      /\ answer'.kind = "executed" /\ answer'.expected = e /\ answer'.requests = asked
      /\ answer'.error = IF ends = {} THEN None ELSE Raised(answers[Least(ends)])
      /\ answer'.outcomes = outcomes
      /\ UNCHANGED <<approved, defeated>>
  BY <1>4
<1>16. at \in Instants /\ clock <= at
  BY <1>1, DestructiveApprovalAssumption DEF Instants
<1>6. /\ upto \in Nat /\ last \in Nat /\ upto <= Len(refs) /\ last <= Len(refs)
      /\ \A i \in 1 .. upto : i \notin ends
  <2>1. ends \subseteq 1 .. Len(refs)
    BY <1>3 DEF Ends
  <2>2. ends \in SUBSET Nat
    BY <1>3, <2>1
  <2> HIDE DEF ends
  <2>3. CASE ends = {}
    BY <1>3, <2>3
  <2>4. CASE ends # {}
    <3>1. Least(ends) \in ends /\ \A j \in ends : Least(ends) <= j
      BY <2>2, <2>4, LeastPosition
    <3>2. Least(ends) \in 1 .. Len(refs)
      BY <2>1, <3>1
    <3>3. upto = Least(ends) - 1 /\ last = Least(ends)
      BY <1>3, <2>4, <3>2
    <3> HIDE DEF upto, last
    <3>4. upto \in Nat /\ last \in Nat /\ upto <= Len(refs) /\ last <= Len(refs)
      BY <1>3, <3>2, <3>3
    <3>5. ASSUME NEW i \in 1 .. upto PROVE i \notin ends
      BY <1>3, <3>1, <3>2, <3>3, <3>5
    <3> QED BY <3>4, <3>5
  <2> QED BY <2>3, <2>4
<1>7. ASSUME NEW i \in 1 .. upto
      PROVE  /\ i \in DOMAIN targets
             /\ answers[i] \in Attempts /\ answers[i].violation = None
             /\ Observed(answers[i]) => ErasureRecordAppend(Recibo(e, i, answers[i], at))
  <2>1. i \in 1 .. Len(refs) /\ i \notin ends
    <3>1. i \notin ends
      BY <1>6
    <3> HIDE DEF ends, upto
    <3> QED BY <1>3, <1>6, <3>1
  <2>2. /\ answers[i] # None /\ verificar_correspondencia(answers[i])
        /\ ~ (Observed(answers[i]) /\ ~ ErasureRecordAppend(Recibo(e, i, answers[i], at)))
    BY <1>3, <2>1 DEF Ends
  <2>3. answers[i] \in PortAnswers
    BY <1>3, <2>1
  <2> QED BY <1>3, <2>1, <2>2, <2>3 DEF PortAnswers, verificar_correspondencia
<1>8. ASSUME NEW i \in 1 .. upto
      PROVE  /\ i \in DOMAIN targets
             /\ About(e, i, answers[i]).subject = targets[i].subject
             /\ Observed(answers[i]) => ReceiptOf(e, i, Recorded(i))
             /\ ~ Observed(answers[i]) => Recorded(i) = None
  BY <1>3, <1>7, <1>16, ReceiptBuilt
<1>9. \A i, j \in DOMAIN targets : targets[i].subject = targets[j].subject => i = j
  BY TargetsOfEnvelope
<1>10. \A q \in asked : ErasureEffectRequest(q)
  <2>1. frescos \in [DOMAIN refs -> Resolutions] /\ resolver_alvos(e, frescos) = None
    BY DEF Resolved
  <2>2. \A i \in DOMAIN refs : /\ frescos[i] \in ErasureTargetDescriptor
                               /\ frescos[i].snapshot.scope = targets[i].scope
    BY <2>1, TargetsResolved
  <2>3. ASSUME NEW i \in 1 .. last
        PROVE  ErasureEffectRequest([descriptor |-> frescos[i],
                                     authorization |-> ConsumedApprovalEvidence(e, at)])
    <3>1. i \in DOMAIN refs /\ i \in DOMAIN targets
      <4> HIDE DEF last
      <4> QED BY <1>3, <1>6
    <3>2. /\ frescos[i] \in ErasureTargetDescriptor
          /\ frescos[i].snapshot.scope = targets[i].scope
      BY <2>2, <3>1
    <3>3. /\ targets[i].scope.tenant = e.proposal.context.tenant
          /\ targets[i].scope.workspace = e.proposal.context.workspace
          /\ targets[i].scope.principal = e.identity.principal
      BY <3>1, TargetsOfEnvelope
    <3> QED BY <3>2, <3>3 DEF ErasureEffectRequest, ConsumedApprovalEvidence
  <2> QED BY <2>3
<1>11. ASSUME answer'.error = None PROVE DestructiveExecutionReport(outcomes)
  <2>1. ends = {}
    <3>1. ASSUME NEW x PROVE Raised(x) # None
      BY DestructiveApprovalAssumption DEF Raised, DestructiveExecutionError
    <3> HIDE DEF ends
    <3> QED BY <1>5, <1>11, <3>1
  <2>2. upto = Len(refs)
    BY <2>1
  <2>3. DOMAIN outcomes = 1 .. upto
    OBVIOUS
  <2>4. \A i \in 1 .. upto : /\ outcomes[i].position = i
                             /\ outcomes[i].subject = targets[i].subject
                             /\ outcomes[i].receipt = Recorded(i)
    BY <1>8 DEF TargetExecutionOutcome
  <2>5. ASSUME NEW i \in 1 .. upto, NEW j \in 1 .. upto,
               \/ outcomes[i].subject = outcomes[j].subject
               \/ outcomes[i].receipt # None /\ outcomes[i].receipt = outcomes[j].receipt
        PROVE  i = j
    <3>1. i \in DOMAIN targets /\ j \in DOMAIN targets
      BY <1>8
    <3>2. CASE outcomes[i].subject = outcomes[j].subject
      <4> HIDE DEF Recorded, outcomes
      <4>1. targets[i].subject = targets[j].subject
        BY <2>4, <3>2
      <4> QED BY <1>9, <3>1, <4>1
    <3>3. CASE outcomes[i].receipt # None /\ outcomes[i].receipt = outcomes[j].receipt
      <4> HIDE DEF Recorded, outcomes
      <4>1. Recorded(i) # None /\ Recorded(j) = Recorded(i)
        BY <2>4, <3>3
      <4>2. ReceiptOf(e, i, Recorded(i)) /\ ReceiptOf(e, j, Recorded(j))
        BY <1>8, <4>1
      <4>3. targets[i].subject = targets[j].subject
        BY <4>1, <4>2 DEF ReceiptOf
      <4> QED BY <1>9, <3>1, <4>3
    <3> QED BY <2>5, <3>2, <3>3
  <2>6. outcomes # <<>>
    <3>1. 1 \in DOMAIN outcomes
      BY <1>3, <2>2, <2>3
    <3> HIDE DEF outcomes
    <3> QED BY <3>1
  <2> HIDE DEF outcomes
  <2> QED BY <2>3, <2>4, <2>5, <2>6 DEF DestructiveExecutionReport
<1>12. ASSUME NEW r \in erasures' \ erasures
       PROVE  \E i \in 1 .. upto : r = Recorded(i) /\ ReceiptOf(e, i, r)
  <2>1. r \in {Recorded(i) : i \in 1 .. upto} /\ r # None
    BY <1>5
  <2> HIDE DEF Recorded, upto
  <2>2. PICK i \in 1 .. upto : r = Recorded(i)
    BY <2>1
  <2> QED BY <1>8, <2>1, <2>2
<1>13. ASSUME NEW r \in erasures' \ erasures, NEW q \in erasures' \ erasures,
              r.subject = q.subject
       PROVE  r = q
  <2> HIDE DEF Recorded, upto
  <2>1. PICK i \in 1 .. upto : r = Recorded(i) /\ ReceiptOf(e, i, r)
    BY <1>12
  <2>2. PICK j \in 1 .. upto : q = Recorded(j) /\ ReceiptOf(e, j, q)
    BY <1>12
  <2>3. targets[i].subject = targets[j].subject
    BY <1>13, <2>1, <2>2 DEF ReceiptOf
  <2>4. i = j
    BY <1>8, <1>9, <2>3
  <2> QED BY <2>1, <2>2, <2>4
<1>14. erasures \subseteq erasures'
  BY <1>5
<1>15. \A r \in erasures' \ erasures : \E i \in DOMAIN targets : ReceiptOf(e, i, r)
  <2> HIDE DEF Recorded, upto
  <2> QED BY <1>8, <1>12
<1> HIDE DEF asked, outcomes
<1> QED BY <1>2, <1>5, <1>10, <1>11, <1>13, <1>14, <1>15, <1>16

-----------------------------------------------------------------------------
(* The invariant.                                                            *)

\* a receipt of a record that was consumed, as it was approved
Cites(r) ==
    /\ r.approval_ref \in Approvals
    /\ approvals[r.approval_ref] \in StoredApproval
    /\ approvals[r.approval_ref].state = "CONSUMED"
    /\ \E i \in DOMAIN approved[r.approval_ref].proposal.targets :
           ReceiptOf(approved[r.approval_ref], i, r)

Accounts ==
    /\ \A r \in erasures : Cites(r)
    /\ \A r, q \in erasures :
           r.approval_ref = q.approval_ref /\ r.subject = q.subject => r = q

(* A call that lost its UPDATE after the record was committed either holds   *)
(* another envelope, or will read that the record has moved, or is a         *)
(* consumption that will read that it has expired; and of the three only the *)
(* last is left once it has read the record as active.                       *)
Doubts(d) ==
    LET id == d.expected.approval_id
    IN  /\ d \in [expected : Envelopes, unexpired : BOOLEAN, absent : BOOLEAN, active : BOOLEAN]
        /\ ~ d.absent => approvals[id] # None
        /\ d.active => approvals[id] # None
        /\ ~ d.absent /\ approved[id] = d.expected =>
               \/ ~ d.active /\ approvals[id].state # "ACTIVE"
               \/ d.unexpired /\ d.expected.expires_at <= clock

IInv == Stored /\ ValuesForm /\ Accounts /\ \A d \in defeated : Doubts(d)

(* It says what the run checks.                                              *)
LEMMA InvariantStands ==
    ASSUME IInv
    PROVE  ApprovalsStand
<1>1. TypeOK /\ RoundTrip
  BY StoredIsTyped DEF IInv
<1>2. ReceiptsCiteTheApproval
  <2>1. ASSUME NEW r \in erasures
        PROVE  LET e == approved[r.approval_ref]
               IN  /\ r.approval_ref \in Approvals
                   /\ approvals[r.approval_ref].state = "CONSUMED"
                   /\ \E i \in DOMAIN e.proposal.targets :
                          /\ e.proposal.targets[i].subject = r.subject
                          /\ e.proposal.targets[i].target_class = r.target_class
                   /\ r.scope_token = e.proposal.operation
                   /\ r.governance_policy = e.proposal.governance_resolution.policy
                   /\ r.governance_rule = e.proposal.governance_resolution.matched_rule_id
                   /\ ErasureRecord(r)
    <3>1. Cites(r)
      BY DEF IInv, Accounts
    <3>2. PICK i \in DOMAIN approved[r.approval_ref].proposal.targets :
                 ReceiptOf(approved[r.approval_ref], i, r)
      BY <3>1 DEF Cites
    <3> QED BY <3>1, <3>2 DEF Cites, ReceiptOf
  <2> QED BY <2>1 DEF ReceiptsCiteTheApproval, IInv, Accounts
<1> QED BY <1>1, <1>2 DEF ApprovalsStand, IInv

LEMMA InvariantBegins == Init => IInv
<1> SUFFICES ASSUME Init PROVE IInv
  OBVIOUS
<1>1. Stored
  BY DEF Init, Stored, RecordStands, Instants
<1>2. ValuesForm
  BY DEF Init, ValuesForm, NoAnswer
<1>3. Accounts
  BY DEF Init, Accounts
<1>4. \A d \in defeated : Doubts(d)
  BY DEF Init
<1> QED BY <1>1, <1>2, <1>3, <1>4 DEF IInv

(* A step that leaves the records and the receipts alone keeps what they     *)
(* say.                                                                      *)
LEMMA RecordsKept ==
    ASSUME Stored, Accounts, clock' \in Instants, UNCHANGED <<approvals, approved, erasures>>
    PROVE  Stored' /\ Accounts'
<1>1. Stored'
  BY DEF Stored, RecordStands
<1>2. Accounts'
  BY DEF Accounts, Cites
<1> QED BY <1>1, <1>2

\* time and records only go on: what has moved stays as it is
Onward ==
    /\ clock' \in Instants /\ clock <= clock'
    /\ \A id \in Approvals : approvals[id] # None =>
           /\ approvals'[id] # None /\ approved'[id] = approved[id]
           /\ approvals[id].state # "ACTIVE" => approvals'[id] = approvals[id]

(* So a call that lost keeps its reason.                                     *)
LEMMA DoubtsKept ==
    ASSUME Onward, clock \in Instants, NEW d, Doubts(d)
    PROVE  Doubts(d)'
<1> DEFINE id == d.expected.approval_id
<1>1. d.expected \in Envelopes /\ id \in Approvals /\ d.expected.expires_at \in Nat
  BY EnvelopesStand DEF Doubts
<1>2. clock \in Nat /\ clock' \in Nat /\ clock <= clock'
  BY DEF Onward, Instants
<1>3. approvals[id] # None =>
          /\ approvals'[id] # None /\ approved'[id] = approved[id]
          /\ approvals[id].state # "ACTIVE" => approvals'[id] = approvals[id]
  BY <1>1 DEF Onward
<1> QED BY <1>1, <1>2, <1>3 DEF Doubts

(* A step that leaves the records alone is onward, and so is one that moves  *)
(* a record that was none or active.                                         *)
LEMMA StillOnward ==
    ASSUME clock \in Instants, clock' \in Instants, clock <= clock',
           UNCHANGED <<approvals, approved>>
    PROVE  Onward
BY DEF Onward

LEMMA MovedOnward ==
    ASSUME clock' \in Instants, clock <= clock', NEW id \in Approvals,
           approvals[id] # None => approvals[id].state = "ACTIVE" /\ approved'[id] = approved[id],
           approvals'[id] # None,
           \A x \in Approvals : x # id => approvals'[x] = approvals[x] /\ approved'[x] = approved[x]
    PROVE  Onward
<1>1. ASSUME NEW x \in Approvals, approvals[x] # None
      PROVE  /\ approvals'[x] # None /\ approved'[x] = approved[x]
             /\ approvals[x].state # "ACTIVE" => approvals'[x] = approvals[x]
  <2>1. CASE x = id
    BY <1>1, <2>1
  <2>2. CASE x # id
    <3>1. approvals'[x] = approvals[x] /\ approved'[x] = approved[x]
      BY <2>2
    <3> QED BY <1>1, <3>1
  <2> QED BY <2>1, <2>2
<1> QED BY <1>1 DEF Onward

(* A record that changes while it is none or active takes no receipt with    *)
(* it.                                                                       *)
LEMMA CitesKept ==
    ASSUME NEW r, Cites(r), NEW id \in Approvals,
           approvals[id] = None \/ approvals[id].state = "ACTIVE",
           approvals' = [approvals EXCEPT ![id] = approvals'[id]],
           \A x \in Approvals : x # id => approved'[x] = approved[x],
           DOMAIN approvals = Approvals
    PROVE  Cites(r)' /\ r.approval_ref # id
<1>1. r.approval_ref # id
  BY EnvelopesStand DEF Cites
<1>2. approvals'[r.approval_ref] = approvals[r.approval_ref]
  BY <1>1 DEF Cites
<1>3. approved'[r.approval_ref] = approved[r.approval_ref]
  BY <1>1 DEF Cites
<1> QED BY <1>1, <1>2, <1>3 DEF Cites

(* And where an active record of an envelope moves, the records stand.       *)
LEMMA StoredKept ==
    ASSUME Stored, NEW e \in Envelopes, approved[e.approval_id] = e,
           RowAccepted(Rows(e)), approvals[e.approval_id] \in StoredApproval,
           approvals[e.approval_id].rows = Rows(e),
           NEW new \in StoredApproval, TriggerAccepts(approvals[e.approval_id], new),
           approvals' = [approvals EXCEPT ![e.approval_id] = new],
           clock' \in Instants, UNCHANGED approved
    PROVE  Stored' /\ approvals' = [approvals EXCEPT ![e.approval_id] = approvals'[e.approval_id]]
<1> DEFINE id == e.approval_id
<1>1. id \in Approvals /\ DOMAIN approvals = Approvals /\ DOMAIN approved = Approvals
  BY EnvelopesStand DEF Stored
<1>2. approvals'[id] = new /\ DOMAIN approvals' = Approvals
  BY <1>1
<1>3. \A x \in Approvals : x # id => approvals'[x] = approvals[x]
  BY <1>1
<1>4. new.rows = Rows(e) /\ StateCoherent(new)
  BY DEF TriggerAccepts
<1>5. ASSUME NEW x \in Approvals PROVE RecordStands(x)'
  <2>1. CASE x = id
    BY <1>2, <1>4, <2>1 DEF RecordStands
  <2>2. CASE x # id
    <3>1. RecordStands(x) /\ approvals'[x] = approvals[x] /\ approved'[x] = approved[x]
      BY <1>3, <2>2 DEF Stored
    <3> QED BY <3>1 DEF RecordStands
  <2> QED BY <2>1, <2>2
<1> QED BY <1>1, <1>2, <1>5 DEF Stored

(* append_approved.                                                          *)
LEMMA AppendStands ==
    ASSUME IInv, NEW e \in Envelopes, append_approved(e)
    PROVE  IInv' /\ TransitionBound
<1> DEFINE id == e.approval_id
           new == [rows |-> Rows(e), state |-> "ACTIVE", consumed_at |-> None,
                   revoked_at |-> None]
<1>1. /\ id \in Approvals /\ DOMAIN approvals = Approvals /\ DOMAIN approved = Approvals
      /\ clock \in Instants /\ clock <= clock
  BY EnvelopesStand DEF IInv, Stored, Instants
<1>2. /\ approvals[id] = None /\ RowAccepted(Rows(e))
      /\ approvals' = [approvals EXCEPT ![id] = new]
      /\ approved' = [approved EXCEPT ![id] = e]
      /\ answer' = NoAnswer /\ clock' = clock /\ erasures' = erasures
      /\ defeated' = defeated
  BY DEF append_approved
<1>3. new \in StoredApproval /\ StateCoherent(new) /\ new.rows = Rows(e)
  BY DEF StoredApproval, StateCoherent, ApprovalLifecycleState
<1> HIDE DEF new
<1>4. /\ approvals'[id] = new /\ approved'[id] = e
      /\ DOMAIN approvals' = Approvals /\ DOMAIN approved' = Approvals
      /\ \A x \in Approvals : x # id => approvals'[x] = approvals[x] /\ approved'[x] = approved[x]
  BY <1>1, <1>2
<1>5. ASSUME NEW x \in Approvals PROVE RecordStands(x)'
  <2>1. CASE x = id
    BY <1>2, <1>3, <1>4, <2>1 DEF RecordStands
  <2>2. CASE x # id
    <3>1. RecordStands(x) /\ approvals'[x] = approvals[x] /\ approved'[x] = approved[x]
      BY <1>4, <2>2 DEF IInv, Stored
    <3> QED BY <3>1 DEF RecordStands
  <2> QED BY <2>1, <2>2
<1>6. Stored'
  BY <1>1, <1>2, <1>4, <1>5 DEF Stored
<1>7. Accounts'
  <2>1. approvals' = [approvals EXCEPT ![id] = approvals'[id]]
    BY <1>2, <1>4
  <2>2. \A r \in erasures : Cites(r)'
    BY <1>1, <1>2, <1>4, <2>1, CitesKept DEF IInv, Accounts
  <2> QED BY <1>2, <2>2 DEF IInv, Accounts
<1>8. ValuesForm'
  BY <1>2 DEF ValuesForm, NoAnswer
<1>9. TransitionBound
  BY <1>2, <1>4 DEF TransitionBound, NoAnswer
<1>10. \A d \in defeated' : Doubts(d)'
  <2>1. approvals'[id] # None
    BY <1>3, <1>4, EnvelopesStand
  <2>2. Onward
    BY <1>1, <1>2, <1>4, <2>1, MovedOnward
  <2>3. \A d \in defeated : Doubts(d)
    BY DEF IInv
  <2> QED BY <1>1, <1>2, <2>2, <2>3, DoubtsKept
<1> QED BY <1>6, <1>7, <1>8, <1>9, <1>10 DEF IInv

(* An UPDATE that finds no row leaves a call with its reason.                *)
LEMMA LossStands ==
    ASSUME IInv, NEW e \in Envelopes, NEW unexpired \in BOOLEAN, Loses(e, unexpired)
    PROVE  IInv' /\ TransitionBound
<1> DEFINE id == e.approval_id
           mine == [expected |-> e, unexpired |-> unexpired,
                    absent |-> approvals[id] = None, active |-> FALSE]
<1>1. /\ clock \in Instants /\ clock <= clock /\ Stored /\ Accounts
      /\ UNCHANGED <<clock, approvals, approved, erasures>> /\ answer' = NoAnswer
      /\ ~ Condicoes(e, unexpired) /\ defeated' = defeated \cup {mine}
  BY DEF IInv, Stored, Instants, Loses
<1>2. Stored' /\ Accounts'
  BY <1>1, RecordsKept
<1>3. ValuesForm'
  BY <1>1 DEF ValuesForm, NoAnswer
<1>4. Onward
  BY <1>1, StillOnward
<1>5. Doubts(mine)
  <2>1. approvals[id] # None /\ approved[id] = e =>
            \/ approvals[id].state # "ACTIVE"
            \/ unexpired /\ e.expires_at <= clock
    BY <1>1, ConditionsHold
  <2> QED BY <2>1 DEF Doubts
<1> HIDE DEF mine
<1>6. \A d \in defeated' : Doubts(d)'
  <2>1. \A d \in defeated' : Doubts(d)
    BY <1>1, <1>5 DEF IInv
  <2> QED BY <1>1, <1>4, <2>1, DoubtsKept
<1>7. TransitionBound
  BY <1>1 DEF TransitionBound, NoAnswer
<1> QED BY <1>2, <1>3, <1>6, <1>7 DEF IInv

(* A call is told the reason it carries.                                     *)
LEMMA ToldStands ==
    ASSUME IInv, NEW d \in defeated, NEW reason, Told(d, reason),
           UNCHANGED <<clock, approvals, approved, erasures>>,
           reason \in {"NOT_FOUND", "BINDING_MISMATCH"} =>
               d.absent \/ approved[d.expected.approval_id] # d.expected
    PROVE  IInv' /\ TransitionBound
<1>1. /\ clock \in Instants /\ clock <= clock /\ Stored /\ Accounts
      /\ defeated' \subseteq defeated
      /\ answer' = [kind |-> "unusable", expected |-> d.expected, absent |-> d.absent,
                    reason |-> reason]
  BY DEF IInv, Stored, Instants, Told
<1>2. Stored' /\ Accounts'
  BY <1>1, RecordsKept
<1>3. ValuesForm'
  BY <1>1 DEF ValuesForm
<1>4. Onward
  BY <1>1, StillOnward
<1>5. \A x \in defeated' : Doubts(x)'
  BY <1>1, <1>4, DoubtsKept DEF IInv
<1>6. TransitionBound
  BY <1>1 DEF TransitionBound
<1> QED BY <1>2, <1>3, <1>5, <1>6 DEF IInv

(* _diagnosticar: the state, then the expiry.                                *)
LEMMA DiagnosisStands ==
    ASSUME IInv, NEW d \in defeated, diagnosticar(d) \/ consultar_vencida(d)
    PROVE  IInv' /\ TransitionBound
<1> DEFINE id == d.expected.approval_id
           a == approvals[id]
           seen == [d EXCEPT !.active = TRUE]
<1>1. /\ clock \in Instants /\ clock \in Nat /\ clock <= clock /\ Stored /\ Accounts
      /\ UNCHANGED <<clock, approvals, approved, erasures>> /\ Doubts(d)
      /\ id \in Approvals
  BY EnvelopesStand DEF IInv, Stored, Instants, diagnosticar, consultar_vencida, Doubts
<1>2. CASE \/ ~ d.active /\ a = None /\ Told(d, "NOT_FOUND")
           \/ a # None /\ a.state = "CONSUMED" /\ Told(d, "ALREADY_CONSUMED")
           \/ a # None /\ a.state = "REVOKED" /\ Told(d, "REVOKED")
  <2>1. a = None => d.absent
    BY <1>1 DEF Doubts
  <2> QED BY <1>1, <1>2, <2>1, ToldStands
<1>3. CASE /\ ~ d.active /\ a # None /\ a.state = "ACTIVE"
           /\ defeated' = (defeated \ {d}) \cup {seen}
           /\ answer' = NoAnswer
  <2>1. Stored' /\ Accounts'
    BY <1>1, RecordsKept
  <2>2. ValuesForm'
    BY <1>3 DEF ValuesForm, NoAnswer
  <2>3. Onward
    BY <1>1, StillOnward
  <2>4. Doubts(seen)
    <3>1. /\ seen \in [expected : Envelopes, unexpired : BOOLEAN, absent : BOOLEAN,
                       active : BOOLEAN]
          /\ seen.expected = d.expected /\ seen.unexpired = d.unexpired
          /\ seen.absent = d.absent
      BY <1>1 DEF Doubts
    <3>2. ~ d.absent /\ approved[id] = d.expected =>
              d.unexpired /\ d.expected.expires_at <= clock
      BY <1>1, <1>3 DEF Doubts
    <3> HIDE DEF seen
    <3> QED BY <1>3, <3>1, <3>2 DEF Doubts
  <2>5. defeated' = (defeated \ {d}) \cup {seen}
    BY <1>3
  <2> HIDE DEF seen
  <2>6. \A x \in defeated' : Doubts(x)'
    <3>1. \A x \in defeated' : Doubts(x)
      BY <2>4, <2>5 DEF IInv
    <3> QED BY <1>1, <2>3, <3>1, DoubtsKept
  <2>7. TransitionBound
    BY <1>1, <1>3 DEF TransitionBound, NoAnswer
  <2> QED BY <2>1, <2>2, <2>6, <2>7 DEF IInv
<1>4. CASE consultar_vencida(d)
  <2>1. /\ d.active
        /\ Told(d, IF d.unexpired /\ a.rows.header.expires_at <= clock
                   THEN "EXPIRED" ELSE "BINDING_MISMATCH")
    BY <1>4 DEF consultar_vencida
  <2>2. ASSUME ~ d.absent, approved[id] = d.expected
        PROVE  d.unexpired /\ a.rows.header.expires_at <= clock
    <3>1. a # None /\ d.unexpired /\ d.expected.expires_at <= clock
      BY <1>1, <2>1, <2>2 DEF Doubts
    <3>2. RecordStands(id)
      BY <1>1 DEF Stored
    <3>3. a.rows = Rows(d.expected) /\ d.expected \in Envelopes
      BY <1>1, <2>2, <3>1, <3>2 DEF RecordStands, Doubts
    <3> QED BY <3>1, <3>3, EnvelopesStand
  <2>3. CASE d.unexpired /\ a.rows.header.expires_at <= clock
    BY <1>1, <2>1, <2>3, ToldStands
  <2>4. CASE ~ (d.unexpired /\ a.rows.header.expires_at <= clock)
    <3>1. Told(d, "BINDING_MISMATCH") /\ (d.absent \/ approved[id] # d.expected)
      BY <2>1, <2>2, <2>4
    <3> QED BY <1>1, <3>1, ToldStands
  <2> QED BY <2>3, <2>4
<1> HIDE DEF a, id, seen
<1>5. CASE diagnosticar(d)
  <2>1. /\ ~ d.active
        /\ \/ a = None /\ Told(d, "NOT_FOUND")
           \/ a # None /\ a.state = "CONSUMED" /\ Told(d, "ALREADY_CONSUMED")
           \/ a # None /\ a.state = "REVOKED" /\ Told(d, "REVOKED")
           \/ /\ a # None /\ a.state = "ACTIVE"
              /\ defeated' = (defeated \ {d}) \cup {seen}
              /\ answer' = NoAnswer
    BY <1>5 DEF diagnosticar, a, id, seen
  <2>2. CASE /\ ~ d.active /\ a # None /\ a.state = "ACTIVE"
             /\ defeated' = (defeated \ {d}) \cup {seen}
             /\ answer' = NoAnswer
    BY <1>3, <2>2
  <2>3. CASE \/ ~ d.active /\ a = None /\ Told(d, "NOT_FOUND")
             \/ a # None /\ a.state = "CONSUMED" /\ Told(d, "ALREADY_CONSUMED")
             \/ a # None /\ a.state = "REVOKED" /\ Told(d, "REVOKED")
    BY <1>2, <2>3
  <2> QED BY <2>1, <2>2, <2>3
<1> QED BY <1>4, <1>5

(* revoke_once.                                                              *)
LEMMA RevokeStands ==
    ASSUME IInv, NEW e \in Envelopes, revoke_once(e)
    PROVE  IInv' /\ TransitionBound
<1> DEFINE id == e.approval_id
           new == Revoked(approvals[id], clock')
<1>1. /\ id \in Approvals /\ DOMAIN approvals = Approvals /\ DOMAIN approved = Approvals
      /\ clock \in Instants /\ Stored /\ Accounts
  BY EnvelopesStand DEF IInv, Stored
<1>2. CASE Loses(e, FALSE)
  BY <1>2, LossStands
<1>3. CASE ~ Loses(e, FALSE)
  <2>1. /\ Condicoes(e, FALSE) /\ clock' \in clock .. MaxTime
        /\ approvals' = [approvals EXCEPT ![id] = new]
        /\ answer' = [kind |-> "revoked", expected |-> e]
        /\ UNCHANGED <<approved, erasures, defeated>>
    BY <1>3 DEF revoke_once
  <2>2. clock' \in Instants /\ clock <= clock'
    BY <1>1, <2>1, DestructiveApprovalAssumption DEF Instants
  <2>3. /\ approvals[id] \in StoredApproval /\ approvals[id].state = "ACTIVE"
        /\ StateCoherent(approvals[id])
        /\ approvals[id].rows = Rows(e) /\ approved[id] = e /\ RowAccepted(Rows(e))
    BY <1>1, <2>1, ConditionsHold
  <2>4. new \in StoredApproval /\ TriggerAccepts(approvals[id], new) /\ new.state = "REVOKED"
    BY <2>2, <2>3, RecordsMove
  <2> HIDE DEF new
  <2>5. Stored' /\ approvals' = [approvals EXCEPT ![id] = approvals'[id]]
    BY <1>1, <2>1, <2>2, <2>3, <2>4, StoredKept
  <2>6. Accounts'
    <3>1. \A r \in erasures : Cites(r)'
      BY <1>1, <2>1, <2>3, <2>5, CitesKept DEF Accounts
    <3> QED BY <1>1, <2>1, <3>1 DEF Accounts
  <2>7. ValuesForm'
    BY <2>1 DEF ValuesForm
  <2>8. approvals'[id] = new /\ \A x \in Approvals : x # id => approvals'[x] = approvals[x]
    BY <1>1, <2>1
  <2>9. TransitionBound
    <3>1. answer'.kind = "revoked" /\ answer'.expected = e
      BY <2>1
    <3> QED BY <2>3, <2>4, <2>8, <3>1 DEF TransitionBound
  <2>10. \A d \in defeated' : Doubts(d)'
    <3>1. approvals'[id] # None
      BY <2>4, <2>8, EnvelopesStand
    <3>2. Onward
      BY <1>1, <2>1, <2>2, <2>3, <2>8, <3>1, MovedOnward
    <3> QED BY <1>1, <2>1, <3>2, DoubtsKept DEF IInv
  <2> QED BY <2>5, <2>6, <2>7, <2>9, <2>10 DEF IInv
<1> QED BY <1>2, <1>3

(* execute, when the batch is refused or the approval is unusable.           *)
LEMMA RefusalStands ==
    ASSUME IInv, NEW e \in Envelopes, NEW refs \in References,
           execute_refused(e, refs) \/ execute_unusable(e, refs)
    PROVE  IInv' /\ TransitionBound
<1>1. Stored /\ Accounts /\ clock \in Instants /\ clock <= clock
  BY DEF IInv, Stored, Instants
<1>2. CASE execute_refused(e, refs)
  <2>1. PICK refusal : refusal \in PreConsumptionRefusal /\ Refuses(e, refs, refusal)
    <3>1. CASE Refuses(e, refs, validar_lote(e, refs))
      <4>1. validar_lote(e, refs) # None
        BY <3>1 DEF Refuses
      <4>2. validar_lote(e, refs) \in PreConsumptionRefusal
        BY <4>1, BatchChecked
      <4> QED BY <3>1, <4>2
    <3>2. CASE \E resolved \in [DOMAIN refs -> Resolutions] :
                  Refuses(e, refs, resolver_alvos(e, resolved))
      <4>1. PICK resolved \in [DOMAIN refs -> Resolutions] :
                   Refuses(e, refs, resolver_alvos(e, resolved))
        BY <3>2
      <4>2. resolver_alvos(e, resolved) # None
        BY <4>1 DEF Refuses
      <4>3. resolver_alvos(e, resolved) \in PreConsumptionRefusal
        BY <4>2, TargetsResolved
      <4> QED BY <4>1, <4>3
    <3> QED BY <1>2, <3>1, <3>2 DEF execute_refused
  <2>2. /\ UNCHANGED <<clock, approvals, approved, erasures, defeated>>
        /\ answer' = [kind |-> "refused", refusal |-> refusal]
    BY <2>1 DEF Refuses
  <2>3. Stored' /\ Accounts'
    BY <1>1, <2>2, RecordsKept
  <2>4. ValuesForm'
    BY <2>1, <2>2 DEF ValuesForm
  <2>5. TransitionBound
    BY <2>2 DEF TransitionBound
  <2>6. \A d \in defeated' : Doubts(d)'
    <3>1. Onward
      BY <1>1, <2>2, StillOnward
    <3> QED BY <1>1, <2>2, <3>1, DoubtsKept DEF IInv
  <2> QED BY <2>3, <2>4, <2>5, <2>6 DEF IInv
<1>3. CASE execute_unusable(e, refs)
  <2>1. Loses(e, TRUE)
    BY <1>3 DEF execute_unusable
  <2> QED BY <2>1, LossStands
<1> QED BY <1>2, <1>3

(* execute, when it consumes the approval.                                   *)
LEMMA ExecutionStands ==
    ASSUME IInv, NEW e \in Envelopes, NEW refs \in References, execute(e, refs)
    PROVE  IInv' /\ TransitionBound
<1> DEFINE id == e.approval_id
           new == Consumed(approvals[id], clock')
<1>1. /\ id \in Approvals /\ DOMAIN approvals = Approvals /\ DOMAIN approved = Approvals
      /\ clock \in Instants /\ Stored /\ Accounts
  BY EnvelopesStand DEF IInv, Stored
<1>2. /\ Condicoes(e, TRUE) /\ UNCHANGED <<approved, defeated>>
      /\ clock' \in Instants /\ clock <= clock'
      /\ approvals' = [approvals EXCEPT ![id] = new]
      /\ answer'.kind = "executed" /\ answer'.expected = e
      /\ \A q \in answer'.requests : ErasureEffectRequest(q)
      /\ answer'.error = None => DestructiveExecutionReport(answer'.outcomes)
      /\ \A r \in erasures' \ erasures : \E i \in DOMAIN e.proposal.targets : ReceiptOf(e, i, r)
      /\ \A r, q \in erasures' \ erasures : r.subject = q.subject => r = q
      /\ erasures \subseteq erasures'
  BY <1>1, Effects
<1>3. /\ approvals[id] \in StoredApproval /\ approvals[id].state = "ACTIVE"
      /\ StateCoherent(approvals[id])
      /\ approvals[id].rows = Rows(e) /\ approved[id] = e /\ RowAccepted(Rows(e))
      /\ clock < e.expires_at
  BY <1>1, <1>2, ConditionsHold
<1>4. new \in StoredApproval /\ TriggerAccepts(approvals[id], new) /\ new.state = "CONSUMED"
  BY <1>2, <1>3, RecordsMove
<1> HIDE DEF new
<1>5. Stored' /\ approvals' = [approvals EXCEPT ![id] = approvals'[id]]
  BY <1>1, <1>2, <1>3, <1>4, StoredKept
<1>6. approvals'[id] = new /\ \A x \in Approvals : x # id => approvals'[x] = approvals[x]
  BY <1>1, <1>2
<1>7. \A r \in erasures : Cites(r)' /\ r.approval_ref # id
  BY <1>1, <1>2, <1>3, <1>5, CitesKept DEF Accounts
<1>8. ASSUME NEW r \in erasures' \ erasures PROVE Cites(r)' /\ r.approval_ref = id
  <2>1. PICK i \in DOMAIN e.proposal.targets : ReceiptOf(e, i, r)
    BY <1>2
  <2>2. r.approval_ref = id
    BY <2>1 DEF ReceiptOf
  <2>3. approved'[id] = e
    BY <1>2, <1>3
  <2> QED BY <1>1, <1>4, <1>6, <2>1, <2>2, <2>3 DEF Cites
<1>9. Accounts'
  <2>1. \A r \in erasures' : Cites(r)'
    BY <1>7, <1>8
  <2>2. ASSUME NEW r \in erasures', NEW q \in erasures',
               r.approval_ref = q.approval_ref, r.subject = q.subject
        PROVE  r = q
    <3>1. CASE r \in erasures /\ q \in erasures
      BY <1>1, <2>2, <3>1 DEF Accounts
    <3>2. CASE r \notin erasures /\ q \notin erasures
      BY <1>2, <2>2, <3>2
    <3>3. CASE r \in erasures <=> q \notin erasures
      BY <1>7, <1>8, <2>2, <3>3
    <3> QED BY <3>1, <3>2, <3>3
  <2> QED BY <2>1, <2>2 DEF Accounts
<1>10. ValuesForm'
  BY <1>2 DEF ValuesForm
<1>11. TransitionBound
  BY <1>2, <1>3, <1>4, <1>6 DEF TransitionBound
<1>12. \A d \in defeated' : Doubts(d)'
  <2>1. approvals'[id] # None
    BY <1>4, <1>6, EnvelopesStand
  <2>2. Onward
    BY <1>1, <1>2, <1>3, <1>6, <2>1, MovedOnward
  <2> QED BY <1>1, <1>2, <2>2, DoubtsKept DEF IInv
<1> QED BY <1>5, <1>9, <1>10, <1>11, <1>12 DEF IInv

(* Every step keeps the invariant, and every one that is none is bound.      *)
LEMMA InvariantKept ==
    ASSUME IInv, [Next]_vars
    PROVE  IInv' /\ [TransitionBound]_vars
<1>1. CASE Tick
  <2>1. /\ UNCHANGED <<approvals, approved, erasures, defeated>> /\ answer' = NoAnswer
        /\ clock \in Instants /\ clock' \in Instants /\ clock <= clock'
    BY <1>1 DEF Tick, IInv, Stored, Instants
  <2>2. Stored' /\ Accounts'
    BY <2>1, RecordsKept DEF IInv
  <2>3. ValuesForm'
    BY <2>1 DEF ValuesForm, NoAnswer
  <2>4. TransitionBound
    BY <2>1 DEF TransitionBound, NoAnswer
  <2>5. \A d \in defeated' : Doubts(d)'
    <3>1. Onward
      BY <2>1, StillOnward
    <3> QED BY <2>1, <3>1, DoubtsKept DEF IInv
  <2> QED BY <2>2, <2>3, <2>4, <2>5 DEF IInv
<1>2. ASSUME NEW e \in Envelopes, append_approved(e) PROVE IInv' /\ TransitionBound
  BY <1>2, AppendStands
<1>3. ASSUME NEW e \in Envelopes, revoke_once(e) PROVE IInv' /\ TransitionBound
  BY <1>3, RevokeStands
<1>4. ASSUME NEW e \in Envelopes, NEW refs \in References,
             execute_refused(e, refs) \/ execute_unusable(e, refs)
      PROVE  IInv' /\ TransitionBound
  BY <1>4, RefusalStands
<1>5. ASSUME NEW e \in Envelopes, NEW refs \in References, execute(e, refs)
      PROVE  IInv' /\ TransitionBound
  BY <1>5, ExecutionStands
<1>6. CASE UNCHANGED vars
  <2>1. /\ UNCHANGED <<clock, approvals, approved, erasures, defeated>> /\ answer' = answer
        /\ clock \in Instants /\ clock <= clock
    BY <1>6 DEF vars, IInv, Stored, Instants
  <2>2. Stored' /\ Accounts'
    BY <2>1, RecordsKept DEF IInv, Stored
  <2>3. ValuesForm'
    BY <2>1 DEF IInv, ValuesForm
  <2>4. \A d \in defeated' : Doubts(d)'
    <3>1. Onward
      BY <2>1, StillOnward
    <3> QED BY <2>1, <3>1, DoubtsKept DEF IInv
  <2> QED BY <1>6, <2>2, <2>3, <2>4 DEF IInv
<1>7. ASSUME NEW d \in defeated, diagnosticar(d) \/ consultar_vencida(d)
      PROVE  IInv' /\ TransitionBound
  BY <1>7, DiagnosisStands
<1>8. CASE Answered
  <2>1. /\ UNCHANGED <<clock, approvals, approved, erasures, defeated>> /\ answer' = NoAnswer
        /\ clock \in Instants /\ clock <= clock
    BY <1>8 DEF Answered, IInv, Stored, Instants
  <2>2. Stored' /\ Accounts'
    BY <2>1, RecordsKept DEF IInv, Stored
  <2>3. ValuesForm'
    BY <2>1 DEF ValuesForm, NoAnswer
  <2>4. TransitionBound
    BY <2>1 DEF TransitionBound, NoAnswer
  <2>5. \A d \in defeated' : Doubts(d)'
    <3>1. Onward
      BY <2>1, StillOnward
    <3> QED BY <2>1, <3>1, DoubtsKept DEF IInv
  <2> QED BY <2>2, <2>3, <2>4, <2>5 DEF IInv
<1> QED BY <1>1, <1>2, <1>3, <1>4, <1>5, <1>6, <1>7, <1>8 DEF Next, Proceeds

(* Rows, envelopes and receipts say the same (append_approved, _reconstruir, *)
(* _registrar_recibo, execute).                                              *)
THEOREM ApprovalsHold == Spec => []ApprovalsStand
<1>1. IInv /\ [Next]_vars => IInv'
  BY InvariantKept
<1>2. IInv => ApprovalsStand
  BY InvariantStands
<1> QED BY <1>1, <1>2, InvariantBegins, PTL DEF Spec

(* A record changes once, for the very envelope that was confirmed, and is   *)
(* consumed only if it had not expired at the instant that was compared; who *)
(* holds the envelope and loses is told that it is missing or mismatched     *)
(* only after an UPDATE that came before it (_transicionar, _diagnosticar).  *)
THEOREM TransitionsAreBound == Spec => TransitionsBound
<1>1. IInv /\ [Next]_vars => IInv'
  BY InvariantKept
<1>2. IInv /\ [Next]_vars => [TransitionBound]_vars
  BY InvariantKept
<1> QED BY <1>1, <1>2, InvariantBegins, PTL DEF Spec, TransitionsBound

=============================================================================
