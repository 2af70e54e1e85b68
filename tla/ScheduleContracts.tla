------------------------- MODULE ScheduleContracts -------------------------
(***************************************************************************)
(* What app/orchestration accepts from its callers before it writes a row: *)
(* drafts of a Schedule with the gate their constraints declare, returned  *)
(* outputs, opinions and controls; and, next to each, what the tables      *)
(* accept.  The value objects and the database check on their own.         *)
(*                                                                         *)
(* A text is its length and what it is made of; an output is what parsing  *)
(* it comes to.                                                            *)
(***************************************************************************)
EXTENDS Integers, FiniteSets, Sequences

MAX_REF_LENGTH == 255
MAX_ROLE_LENGTH == 64
MAX_TITLE_LENGTH == 200
MAX_URI_LENGTH == 1024

\* "tabs" is white space that btrim, which only takes spaces, leaves in place
Text == [length : Nat, made_of : {"spaces", "tabs", "letters"}]

texto_obrigatorio(text, limit) ==
    text.made_of = "letters" /\ text.length > 0 /\ text.length <= limit

\* length(btrim(column)) > 0 in a column of that width
NotBlank(text) == text.made_of # "spaces" /\ text.length > 0
Fits(text, limit) == text.length <= limit

-----------------------------------------------------------------------------
(* Context references and constraints. *)

\* "hex_line" is a digest with a line feed after it, which `$` matches in Python
Digest == {"hex", "hex_line", "other"}

\* what the request admits
ContextRefInput(ref) ==
    ref.uri.length \in 1 .. MAX_URI_LENGTH /\ ref.sha256 = "hex" /\ ref.bytes >= 0

\* the value object
ContextRef(ref) ==
    /\ texto_obrigatorio(ref.uri, MAX_URI_LENGTH)
    /\ ref.sha256 \in {"hex", "hex_line"} /\ ref.bytes >= 0

parse_context_refs(refs) == \A i \in DOMAIN refs : ContextRef(refs[i])

\* the function of the database
context_refs_canonical(refs) ==
    \A i \in DOMAIN refs :
        NotBlank(refs[i].uri) /\ refs[i].sha256 = "hex" /\ refs[i].bytes \in Nat

GATE_KEY_REQUIRED == "pia.gate.required"
GATE_KEY_SCOPE == "pia.gate.scope"
GATE_RESERVED_KEYS == {GATE_KEY_REQUIRED, GATE_KEY_SCOPE}
ReservedPrefix == GATE_RESERVED_KEYS \cup {"pia.gate.other"}

GATE_REQUIRED_VALUES == {"service_delegation", "service_delegation_and_human"}
GATE_SCOPE_VALUES == {"dispatch"}

ConstraintPairs == {"note"} \cup ReservedPrefix
ConstraintValues == GATE_REQUIRED_VALUES \cup GATE_SCOPE_VALUES \cup {"human"}

Keys(pairs) == {pair[1] : pair \in pairs}
Value(pairs, key) == (CHOOSE pair \in pairs : pair[1] = key)[2]

GateRequirement(pairs) ==
    /\ Value(pairs, GATE_KEY_REQUIRED) \in GATE_REQUIRED_VALUES
    /\ Value(pairs, GATE_KEY_SCOPE) \in GATE_SCOPE_VALUES

(* No reserved key, or both of them with values that mean something. *)
validate_gate_keys(pairs) ==
    LET present == Keys(pairs) \cap ReservedPrefix
    IN  \/ present = {}
        \/ present = GATE_RESERVED_KEYS /\ GateRequirement(pairs)

\* the pairs in the order given; a key twice is refused
canonical_constraints(given) ==
    LET pairs == {given[i] : i \in DOMAIN given}
    IN  Cardinality(Keys(pairs)) = Len(given) /\ validate_gate_keys(pairs)

\* the function of the database, over the object the pairs become
gate_marker_is_valid(pairs) ==
    LET reserved == {key \in Keys(pairs) : key \in ReservedPrefix}
    IN  /\ reserved \subseteq {"pia.gate.required", "pia.gate.scope"}
        /\ \/ reserved = {}
           \/ /\ Cardinality(reserved) = 2
              /\ Value(pairs, "pia.gate.required") \in
                     {"service_delegation", "service_delegation_and_human"}
              /\ Value(pairs, "pia.gate.scope") = "dispatch"

\* what the step asks for before it is dispatched
gate_requirement(pairs) ==
    IF GATE_KEY_REQUIRED \notin Keys(pairs) THEN "none"
    ELSE IF Value(pairs, GATE_KEY_REQUIRED) = "service_delegation_and_human" THEN "human"
    ELSE "delegation"

OUTPUT_NON_EMPTY_TEXT_V1 == "non-empty-text"
OUTPUT_JSON_OBJECT_V1 == "json-object"
SUPPORTED_OUTPUT_CONTRACTS == {OUTPUT_NON_EMPTY_TEXT_V1, OUTPUT_JSON_OBJECT_V1}

-----------------------------------------------------------------------------
(* Drafts, and what is sealed of a step. *)

\* the request: lengths, the two contracts of the vocabulary, its references
StepInput(draft) ==
    /\ draft.role.length \in 1 .. MAX_ROLE_LENGTH
    /\ draft.instruction_ref.length \in 1 .. MAX_REF_LENGTH
    /\ draft.expected_output_contract \in SUPPORTED_OUTPUT_CONTRACTS
    /\ \A i \in DOMAIN draft.context_refs : ContextRefInput(draft.context_refs[i])

StepDraft(draft) ==
    /\ texto_obrigatorio(draft.role, MAX_ROLE_LENGTH)
    /\ texto_obrigatorio(draft.instruction_ref, MAX_REF_LENGTH)
    /\ parse_context_refs(draft.context_refs)
    /\ canonical_constraints(draft.constraints)

ScheduleDraft(title, drafts) ==
    /\ texto_obrigatorio(title, MAX_TITLE_LENGTH)
    /\ drafts # <<>>
    /\ \A i \in DOMAIN drafts : StepDraft(drafts[i])

\* the checks of schedule_steps
schedule_steps_accepts(draft) ==
    /\ NotBlank(draft.role) /\ Fits(draft.role, MAX_ROLE_LENGTH)
    /\ NotBlank(draft.instruction_ref) /\ Fits(draft.instruction_ref, MAX_REF_LENGTH)
    /\ context_refs_canonical(draft.context_refs)
    /\ gate_marker_is_valid({draft.constraints[i] : i \in DOMAIN draft.constraints})

-----------------------------------------------------------------------------
(* Returned outputs. *)

CONTRACT_MEDIA_TYPES(contract) ==
    IF contract = OUTPUT_NON_EMPTY_TEXT_V1 THEN "text/plain" ELSE "application/json"

\* blank, prose, an object, another JSON value, an object with a NaN
Content == {"blank", "prose", "object", "array", "nan_object"}

(* The codes of a rejected output, none for an accepted one. *)
validate_output(contract, media_type, content) ==
    IF contract \notin SUPPORTED_OUTPUT_CONTRACTS THEN {"unsupported_output_contract"}
    ELSE IF media_type # CONTRACT_MEDIA_TYPES(contract) THEN {"media_type_mismatch"}
    ELSE IF contract = OUTPUT_NON_EMPTY_TEXT_V1
    THEN IF content = "blank" THEN {"expected_non_empty_text"} ELSE {}
    ELSE IF content = "nan_object" THEN {"non_canonical_json_number"}
    ELSE IF content = "object" THEN {} ELSE {"expected_json_object"}

HandoffResultStatus(codes) == IF codes = {} THEN "validated" ELSE "rejected"

\* the check of handoff_results
status_codes_coherent(status, codes) ==
    \/ status = "validated" /\ Cardinality(codes) = 0
    \/ status = "rejected" /\ Cardinality(codes) >= 1

-----------------------------------------------------------------------------
(* Opinions of an auditor and controls of an operator. *)

AuditOpinionKind == {"concur", "dissent", "insufficient_evidence", "out_of_scope"}
AuditReasonCode ==
    {"contract_conforms", "contract_nonconformity", "evidence_missing", "scope_excluded"}

AUDIT_OPINION_REASON_MATRIX(opinion) ==
    CASE opinion = "concur"                -> {"contract_conforms"}
      [] opinion = "dissent"               -> {"contract_nonconformity"}
      [] opinion = "insufficient_evidence" -> {"evidence_missing"}
      [] opinion = "out_of_scope"          -> {"scope_excluded"}

canonical_audit_reason_codes(codes) == codes # {} /\ codes \subseteq AuditReasonCode

assert_opinion_matrix(opinion, codes) == codes \subseteq AUDIT_OPINION_REASON_MATRIX(opinion)

\* AuditService.issue
issue(opinion, codes) ==
    canonical_audit_reason_codes(codes) /\ assert_opinion_matrix(opinion, codes)

\* the function of the database: one code, the one of the opinion
audit_opinion_matrix_is_valid(opinion, codes) ==
    /\ Cardinality(codes) = 1
    /\ opinion = "concur" => codes = {"contract_conforms"}
    /\ opinion = "dissent" => codes = {"contract_nonconformity"}
    /\ opinion = "insufficient_evidence" => codes = {"evidence_missing"}
    /\ opinion = "out_of_scope" => codes = {"scope_excluded"}
    /\ opinion # "pass_final" /\ "pass_final" \notin codes

NoCategory == "NULL"
StopConditionCategory == {"missing_authority", "scope_or_impact_change"}

\* apply takes a category with a stop and with nothing else
CategoryAccepted(action, category) == action = "stop" <=> category # NoCategory

ReasonOf(action) ==
    IF action = "stop" THEN "stop_condition_declared" ELSE "operator_requested"

\* the check of orchestration_control_events
stop_category_matrix(reason, category) ==
    reason = "stop_condition_declared" <=> category # NoCategory
=============================================================================
