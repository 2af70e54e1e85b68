----------------------- MODULE MCDestructiveApproval -----------------------
(* DestructiveApproval with one person, two targets, two identifiers and      *)
(* envelopes that differ from a confirmed one in one thing each, some of      *)
(* which no constructor accepts.                                              *)
EXTENDS DestructiveApproval

Scope(p) == [workspace |-> "w1", tenant |-> "t1", principal |-> p]

Target(s, p, etag) ==
    [target_class |-> "pia_managed_artifact", subject |-> s, scope |-> Scope(p),
     custody |-> "c1", origin |-> [origin |-> "payload_ref", position |-> None],
     protection |-> "not_protected", version_etag |-> etag]

NoTexts == [k \in Textuais |-> <<>>]
Declared == [NoTexts EXCEPT !["constraint"] = <<"x1", "x2">>, !["declared_loss"] = <<"x1">>]

Conceded ==
    [outcome |-> "admissible", operation |-> "legal_erasure",
     context |-> [domain_ids |-> {"d1"}, actor_ref |-> "p1", purpose |-> "u1"],
     policy |-> [key |-> "k1", version |-> 1], matched_rule_id |-> 1,
     blocked_capabilities |-> {},
     grounds |-> [safety_boundary_version |-> 1, safety_rationale |-> "x1",
                  preserved_intent |-> None, policy_id |-> "g1", policy_rationale |-> "x2"],
     declared |-> Declared]

Both == <<Target("s1", "p1", None), Target("s2", "p1", "v1")>>

Proposal ==
    [operation |-> "permanent_erasure", targets |-> Both,
     impact |-> [item_count |-> 2, volume_kind |-> "known", bytes_total |-> 1],
     governance_resolution |-> Conceded,
     context |-> [tenant |-> "t1", workspace |-> "w1", domain |-> "d1", purpose |-> "u1"],
     provenance |-> [channel |-> "voice", voice_review |-> "reviewed_and_confirmed"],
     blockers |-> {}, materialized_at |-> 0]

Confirmed ==
    [proposal |-> Proposal, approval_id |-> "a1", nonce |-> "n1",
     identity |-> [principal |-> "p1", assurance_level |-> "step_up_verified",
                   authenticated_at |-> 0],
     issued_at |-> 0, confirmed_at |-> 0, expires_at |-> 1]

\* other values of one thing each: the first ones are envelopes of their own
Variants ==
    {Confirmed,
     [Confirmed EXCEPT !.approval_id = "a2", !.nonce = "n2"],
     [Confirmed EXCEPT !.proposal.targets = <<Both[2], Both[1]>>],
     [Confirmed EXCEPT !.proposal.governance_resolution.declared["constraint"] = <<"x2", "x1">>],
     [Confirmed EXCEPT !.expires_at = 2],
     [Confirmed EXCEPT !.proposal.impact.bytes_total = 9],
     [Confirmed EXCEPT !.proposal.governance_resolution.grounds.policy_rationale = "x1"],
     \* refused: other controllers, a weaker session, a held target, a batch miscounted
     [Confirmed EXCEPT !.proposal.targets[2].scope.principal = "p2"],
     [Confirmed EXCEPT !.identity.assurance_level = "authenticated"],
     [Confirmed EXCEPT !.proposal.blockers = {"legal_hold"}],
     [Confirmed EXCEPT !.proposal.impact.item_count = 1]}

Reference(s, p) ==
    [subject |-> s, origin |-> [origin |-> "payload_ref", position |-> None],
     scope |-> Scope(p), expected_namespace |-> None]

MCReferences ==
    {<<Reference("s1", "p1"), Reference("s2", "p1")>>,
     <<Reference("s1", "p1"), Reference("s2", "p2")>>,
     <<Reference("s1", "p1")>>}

Described(t) == [snapshot |-> t, verified |-> TRUE, resolved_at |-> 0]

\* as approved, another controller, or refused
MCResolutions ==
    {Described(Both[1]), Described(Both[2]), Described(Target("s2", "p2", "v1")),
     [reason |-> "stale_resolution", subject |-> "s1",
      origin |-> [origin |-> "payload_ref", position |-> None]]}

NotStarted == [reason |-> "adapter_unavailable", outcome |-> None, failure_code |-> None,
               violation |-> None]
Result(outcome, code) == [NotStarted EXCEPT !.reason = None, !.outcome = outcome,
                                            !.failure_code = code]

\* no attempt, a success, codes that fit and do not, and an answer about another
MCAttempts ==
    {NotStarted, Result("succeeded", None), Result("partial", 64), Result("failed", 65),
     [Result("succeeded", None) EXCEPT !.violation = "SUBJECT_MISMATCH"]}
=============================================================================
