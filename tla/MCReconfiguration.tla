-------------------------- MODULE MCReconfiguration -------------------------
(* Two subjects, two sessions, three event identifiers, versions 1 and 2. *)
EXTENDS Reconfiguration, TLC

CONSTANTS s1, s2, x, y, c1, c2, scope, place, k1, k2, yes, no, e1, e2, e3

MCSubjects == {x, y}
MCReferences == {c1, c2}
MCScopes == {scope}
MCPlaces == {place}
MCComparabilityKeys == {k1, k2}
MCConclusions == {yes, no}
MCEvents == {e1, e2, e3}
MCSessions == {s1, s2}

\* an approval of candidate c as version v, until 5
Approval(c, v) ==
    [reference |-> c1, version |-> v, scope |-> {scope}, expiry |-> 5, jurisdiction |-> place,
     bound_to |-> [kind |-> "promotion_candidate", ref |-> c]]
Authority(c, v) == [status |-> "asserted_authorized", approval |-> Approval(c, v)]

Weight(n) == [source |-> c1, magnitude |-> [d \in PredictiveBurdenDimensionKind |-> n]]
Burden == [a0_inaction |-> Weight(2), a1_reversible_escalation |-> Weight(1),
           a2_full_action |-> Weight(3)]

\* a protective branch, restating the approval as version v until 4
Branch(id, v, against) ==
    [identifier |-> id, material_effect_claimed |-> TRUE, complete |-> TRUE,
     incompatible_with |-> against,
     authority |-> [reference |-> c1, version |-> v, jurisdiction |-> place, scope |-> {scope},
                    valid_from |-> 0, valid_until |-> 4]]

Offered == {[kind |-> a, key |-> k1, known |-> TRUE, cost |-> 1, reversible |-> TRUE] :
                a \in PredictiveAlternativeKind}

\* the same alternatives, one of them measured otherwise
Uneven == {[a EXCEPT !.key = IF a.kind = "a2_full_action" THEN k2 ELSE k1] : a \in Offered}

Governed(key, conclusion, branches) ==
    [key |-> key, conclusion |-> conclusion, candidates |-> branches,
     required_identifiers |-> {c1}, inventory |-> TRUE, materiality_required_scope |-> {scope},
     guidance |-> [jurisdiction |-> place, version |-> 1, valid_from |-> 0, valid_until |-> 9],
     expected_jurisdiction |-> place, expected_version |-> 1,
     alternatives |-> Offered, asymmetry_justification |-> FALSE, burden |-> Burden]

Predictable == [a_minus |-> 1, a_star_worst |-> 2, a_rel |-> 1, confirmatory_pass |-> TRUE]
Inaccessible == [a_minus |-> 0, a_star_worst |-> 0, a_rel |-> 1, confirmatory_pass |-> FALSE]

\* a claim on a subject, with an approval of c as version v
Claim(subject, evidence, c, v, governed) ==
    [ready |-> TRUE, subject |-> subject, lags |-> {1}, observed_at_offset |-> 1,
     d_regime |-> 2, theta |-> 1, beats_fluctuation |-> TRUE, evidence |-> evidence,
     authority |-> Authority(c, v), at |-> 0, expected_version |-> v, required_scope |-> {scope},
     expected_jurisdiction |-> place, expected_binding_kind |-> "promotion_candidate",
     governed |-> governed]

Instruct(c, subject, expected, id) ==
    [candidate |-> c, subject |-> subject, expected_version |-> expected, event_id |-> id,
     recorded_at |-> 3]

\* one instant for the items of a batch
At(items, at) == [i \in DOMAIN items |-> [items[i] EXCEPT !.at = at]]

Batch(items, instructions, at) ==
    [kind |-> "batch", items |-> At(items, at), instructions |-> instructions, at |-> at]

One(v) == Governed(k1, yes, {Branch(c1, v, {})})

\* a claim that promotes c as the version after v
Promote(c, subject, v, id) ==
    Batch(<<Claim(subject, Predictable, c, v + 1, One(v + 1))>>,
          <<Instruct(c, subject, v, id)>>, 3)

\* asked for by several sessions
Again == Promote(c1, x, 0, e1)

MCBatches ==
    {Again, Promote(c2, x, 0, e2), Promote(c2, x, 1, e2), Promote(c2, x, 1, e3),
     \* the same promotion under an approval that lasts longer; without a scope;
     \* with what cannot be compared
     [Again EXCEPT !.items[1].authority.approval.expiry = 6],
     [Again EXCEPT !.items[1].required_scope = {}],
     [Again EXCEPT !.items[1].governed.alternatives = Uneven],
     \* two subjects, in either order
     Batch(<<Claim(x, Predictable, c1, 1, One(1)),
             Claim(y, Predictable, c1, 1, Governed(k2, no, {Branch(c1, 1, {})}))>>,
           <<Instruct(c1, x, 0, e1), Instruct(c1, y, 0, e2)>>, 3),
     Batch(<<Claim(y, Predictable, c1, 1, One(1)),
             Claim(x, Predictable, c1, 1, Governed(k2, no, {Branch(c1, 1, {})}))>>,
           <<Instruct(c1, y, 0, e2), Instruct(c1, x, 0, e1)>>, 3),
     \* a contradiction beside an unavailable claim; the second subject is mistaken
     Batch(<<Claim(x, Predictable, c1, 1, One(1)),
             Claim(x, Inaccessible, c1, 1, Governed(k1, no, {Branch(c1, 1, {})})),
             [Claim(x, Inaccessible, c1, 1, One(1)) EXCEPT !.ready = FALSE]>>,
           <<Instruct(c1, x, 0, e1), None, None>>, 3),
     Batch(<<Claim(x, Predictable, c1, 1, One(1)), Claim(y, Predictable, c2, 1, One(1))>>,
           <<None, Instruct(c2, x, 0, e3)>>, 3),
     \* branches that exclude each other, and a claim nothing can predict; the
     \* approval of the second names another candidate
     Batch(<<Claim(x, Predictable, c1, 1,
                   Governed(k1, yes, {Branch(c1, 1, {c2}), Branch(c2, 1, {})})),
             Claim(y, Inaccessible, c1, 1, Governed(k2, yes, {Branch(c1, 1, {})})),
             Claim(y, Predictable, c2, 2, One(2))>>,
           <<Instruct(c1, x, 0, e3), None, Instruct(c2, y, 0, e2)>>, 4)}

Back(id, of, c, v, at) ==
    [kind |-> "rollback", event_id |-> id, subject |-> x, rollback_of |-> of,
     expected_version |-> v, required_scope |-> {scope}, expected_jurisdiction |-> place,
     recorded_at |-> at, authority |-> Authority(c, v + 1)]

MCRollbacks == {Back(e3, e1, c1, 2, 4), Back(e2, e1, c1, 1, 4), Back(e3, e1, c2, 1, 4),
                Back(e3, e1, c1, 1, 5),
                [Back(e3, e1, c1, 1, 4) EXCEPT !.expected_version = -1]}

\* what is sent for a claim, well formed
Model(item) ==
    [item |-> item, training |-> 3, blind |-> 2, mvp_library |-> TRUE, varied |-> TRUE,
     transport |-> [bytes |-> 2, writing |-> "canonical",
                    envelope |-> [contract_version |-> "1.0", authority |-> item.authority,
                                  delta |-> 1, payload_refs |-> <<1, 2>>, reference_time |-> 1,
                                  recorded_at |-> 1, sealed_at |-> 1]]]

Sent == At(<<Claim(x, Predictable, c1, 1, One(1)),
             Claim(y, Inaccessible, c1, 1, Governed(k1, no, {Branch(c1, 1, {})}))>>, 3)
First == Model(Sent[1])
Second == Model(Sent[2])

MCRequests ==
    {<<First>>, <<First, Second>>,
     \* refused: written otherwise, references out of order, an instant of its own, limits
     <<[First EXCEPT !.transport.writing = "another_spelling"]>>,
     <<[First EXCEPT !.transport.envelope.payload_refs = <<2, 1>>]>>,
     <<First, [Second EXCEPT !.item.at = 2]>>, <<First, First, First>>,
     \* an empty scope, an alternative that is missing, a single blind pair
     <<[First EXCEPT !.item.required_scope = {}]>>,
     <<[First EXCEPT !.item.governed.alternatives = {}]>>, <<First, [Second EXCEPT !.blind = 1]>>,
     \* alternatives measured otherwise, without and with a reason; guidance without a version
     <<[First EXCEPT !.item.governed.alternatives = Uneven]>>,
     <<[First EXCEPT !.item.governed.alternatives = Uneven,
                     !.item.governed.asymmetry_justification = TRUE]>>,
     <<[First EXCEPT !.item.governed.guidance.version = 0,
                     !.item.governed.expected_version = 0]>>}

MCSymmetry == Permutations(MCSessions)
=============================================================================
