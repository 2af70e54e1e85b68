----------------------------- MODULE MCHandoff -----------------------------
(* Instance of OrchestrationRows: an open step and a delegated one, and what *)
(* callers may present.                                                      *)
EXTENDS OrchestrationRows, TLC

CONSTANTS t1, t2

Words(n) == [length |-> n, made_of |-> "letters"]

Declaring(required) ==
    <<<<GATE_KEY_REQUIRED, required>>, <<GATE_KEY_SCOPE, "dispatch">>>>

DraftOf(constraints) ==
    [role |-> Words(1), instruction_ref |-> Words(1),
     expected_output_contract |-> OUTPUT_JSON_OBJECT_V1, context_refs |-> <<>>,
     constraints |-> constraints]

MCTitle  == Words(MAX_TITLE_LENGTH)
MCGate   == <<"none", "delegation">>
MCDrafts == <<DraftOf(<<>>), DraftOf(Declaring("service_delegation"))>>

Texts(limit) == [length : {0, 1, limit, limit + 1}, made_of : {"spaces", "tabs", "letters"}]
Refs == [uri : Texts(MAX_URI_LENGTH), sha256 : Digest, bytes : {-1, 0, 1}]

MCStepDrafts ==
    [role : Texts(MAX_ROLE_LENGTH), instruction_ref : Texts(MAX_REF_LENGTH),
     expected_output_contract : SUPPORTED_OUTPUT_CONTRACTS \cup {"other"},
     context_refs : {<<>>} \cup {<<ref>> : ref \in Refs},
     constraints : {<<>>, Declaring("human"), Declaring("service_delegation")}]

Pairs == ConstraintPairs \X ConstraintValues
MCGivenConstraints ==
    {<<>>} \cup {<<pair>> : pair \in Pairs} \cup (Pairs \X Pairs) \cup (Pairs \X Pairs \X Pairs)

MCSymmetry == Permutations({t1, t2})
=============================================================================
