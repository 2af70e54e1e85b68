------------------------- MODULE OrchestrationRows -------------------------
(***************************************************************************)
(* The records app/orchestration keeps of the life in Handoff: the control *)
(* events and the rows the state stands for, with the constraints and the  *)
(* triggers of the migrations.  A row the database refuses takes the whole *)
(* command with it, so the tables must admit whatever the services decide  *)
(* to write.                                                               *)
(***************************************************************************)
EXTENDS Handoff, ScheduleContracts, SequencesExt

CONSTANTS Title,            \* the title of the Schedule
          Drafts,           \* its steps as they are composed
          StepDrafts,       \* drafts callers may present
          GivenConstraints, \* constraints callers may present, as sequences of pairs
          MaxEvents         \* bound of the control events

(* The gate of a step is the one its constraints declare. *)
ASSUME DraftAssumption ==
    /\ ScheduleDraft(Title, Drafts) /\ Len(Drafts) = MaxSteps
    /\ \A s \in Steps :
           StepInput(Drafts[s]) /\ Gate[s] = gate_requirement(ToSet(Drafts[s].constraints))

(* The size of what a reference names is an integer, whatever the caller says. *)
ASSUME BytesAssumption ==
    \A draft \in StepDrafts \cup {Drafts[s] : s \in Steps} :
        \A i \in DOMAIN draft.context_refs : draft.context_refs[i].bytes \in Int

VARIABLE control_events \* orchestration_control_events, in the order of their commits

rowVars == <<vars, control_events>>

-----------------------------------------------------------------------------
(* The rows of the other tables. *)

ScheduleRows == {[title |-> Title, state |-> state] : state \in {schedule} \ {"ABSENT"}}

Composed == {s \in Steps : step[s] # "ABSENT"}
StepRows == {[id |-> s, position |-> s, draft |-> Drafts[s], state |-> step[s]] : s \in Composed}

\* the content of an envelope is the step it is built from, whenever it is built
build_envelope_content(s) == [step_id |-> s, draft |-> Drafts[s]]

Sealed == {a \in Steps \X Attempts : attempt[a[1]][a[2]] # "ABSENT"}
AttemptRows ==
    {[id |-> a, step_id |-> a[1], attempt_number |-> a[2], state |-> attempt[a[1]][a[2]],
      content |-> build_envelope_content(a[1])] : a \in Sealed}
SealReceiptRows == {[attempt_id |-> a, content |-> build_envelope_content(a[1])] : a \in Sealed}

Judged == {a \in Sealed : attempt[a[1]][a[2]] \in {"CLOSED_OK", "CLOSED_REJECTED"}}
HandoffResultRows ==
    {[attempt_id |-> a, accepted |-> attempt[a[1]][a[2]] = "CLOSED_OK"] : a \in Judged}
HandoffAttributionRows ==
    {[attempt_id |-> a, declared_provider_id |-> provider[a[1]][a[2]]] :
        a \in {a \in Steps \X Attempts : provider[a[1]][a[2]] # Unattributed}}

ServiceDelegationRows ==
    {[id |-> e, step_id |-> e[1], state |-> delegation[e[1]][e[2]],
      valid_until |-> valid_until[e[1]][e[2]], consumed_by |-> consumed_by[e[1]][e[2]]] :
        e \in {e \in Steps \X Delegations : delegation[e[1]][e[2]] # "ABSENT"}}

ExecutionObservationRows ==
    {[previous |-> <<o[1], o[2]>>, current |-> <<o[1], o[3]>>,
      previous_provider |-> provider[o[1]][o[2]], current_provider |-> provider[o[1]][o[3]]] :
        o \in observed}

-----------------------------------------------------------------------------
(* Control events. *)

(* create_control_event.  occurred_at is now() of the transaction and need   *)
(* not follow the order of the commits, which is the one kept here.          *)
create_control_event(kind, reason, s) ==
    /\ Len(control_events) < MaxEvents
    /\ control_events' = Append(control_events, [kind |-> kind, reason |-> reason, step |-> s])

\* _ACAO_EVENTO
Evento(action) ==
    CASE action = "pause"  -> "paused"
      [] action = "resume" -> "resumed"
      [] action = "stop"   -> "stopped"
      [] action = "cancel" -> "cancelled"

applyWithEvent(t, action, category) ==
    /\ CategoryAccepted(action, category)
    /\ apply(t, action)
    /\ create_control_event(Evento(action), ReasonOf(action), NoStep)

(* Mutant: a dispatch that stays blocked pauses without saying so. *)
SilentPause(t, s) ==
    /\ register_block(t, s)
    /\ UNCHANGED control_events

registerBlockWithEvent(t, s) ==
    /\ register_block(t, s)
    /\ create_control_event("paused",
           IF Gate[s] = "human" THEN "human_gate_unavailable" ELSE "delegation_missing", s)

importWithEvent(t, s, n, p, contract, media_type, content) ==
    /\ import_return(t, s, n, p, validate_output(contract, media_type, content) = {})
    /\ IF schedule' # schedule
       THEN create_control_event("completed", "all_steps_returned", NoStep)
       ELSE UNCHANGED control_events

-----------------------------------------------------------------------------
RowsInit == Init /\ control_events = <<>>

(* The commands that leave no control event. *)
Unrecorded(t) ==
    \/ Begin(t) \/ Rollback(t)
    \/ criar_schedule(t)
    \/ \E s \in Steps : seal_step(t, s) \/ revoke(t, s) \/ export_step(t, s)
    \/ seal_commit(t) \/ Grant(t) \/ revoke_active_delegations(t)

RowsNext ==
    \/ (Tick \/ \E t \in Txs : Unrecorded(t)) /\ UNCHANGED control_events
    \/ \E t \in Txs, s \in Steps : registerBlockWithEvent(t, s)
    \/ \E t \in Txs, action \in Actions, category \in StopConditionCategory \cup {NoCategory} :
           applyWithEvent(t, action, category)
    \/ \E t \in Txs, s \in Steps, n \in Attempts, p \in Providers, content \in Content :
           importWithEvent(t, s, n, p, Drafts[s].expected_output_contract,
                           CONTRACT_MEDIA_TYPES(Drafts[s].expected_output_contract), content)

RowsSpec == RowsInit /\ [][RowsNext]_rowVars
-----------------------------------------------------------------------------
(* The constraints of the tables. *)

SchedulesTable ==
    \A row \in ScheduleRows : NotBlank(row.title) /\ Fits(row.title, MAX_TITLE_LENGTH)

StepsTable ==
    /\ StepRows # {} => ScheduleRows # {}
    /\ \A row \in StepRows : row.position >= 1 /\ schedule_steps_accepts(row.draft)
    /\ \A row, other \in StepRows : row.position = other.position => row = other

AttemptsTable ==
    /\ \A row \in AttemptRows : row.attempt_number >= 1 /\ row.step_id \in Composed
    /\ \A row, other \in AttemptRows :
           row.step_id = other.step_id /\ row.attempt_number = other.attempt_number => row = other

ix_handoff_attempts_single_open ==
    \A row, other \in AttemptRows :
        row.state = "OPEN" /\ other.state = "OPEN" /\ row.step_id = other.step_id => row = other

SealReceiptsTable ==
    /\ \A row \in SealReceiptRows : \E a \in AttemptRows : a.id = row.attempt_id
    /\ \A row, other \in SealReceiptRows : row.attempt_id = other.attempt_id => row = other

HandoffResultsTable ==
    /\ \A row \in HandoffResultRows : row.attempt_id \in Sealed
    /\ \A row, other \in HandoffResultRows : row.attempt_id = other.attempt_id => row = other

HandoffAttributionsTable ==
    /\ \A row \in HandoffAttributionRows : row.attempt_id \in Sealed
    /\ \A row, other \in HandoffAttributionRows : row.attempt_id = other.attempt_id => row = other

ServiceDelegationsTable ==
    \A row \in ServiceDelegationRows :
        /\ row.step_id \in Composed
        /\ row.state = "CONSUMED" <=> row.consumed_by # NoAttempt
        /\ row.consumed_by # NoAttempt => <<row.step_id, row.consumed_by>> \in Sealed

ix_service_delegations_single_active ==
    \A row, other \in ServiceDelegationRows :
        row.state = "ACTIVE" /\ other.state = "ACTIVE" /\ row.step_id = other.step_id => row = other

ControlEventsTable ==
    \A i \in DOMAIN control_events : control_events[i].step \in Composed \cup {NoStep}

ExecutionObservationsTable ==
    \A row \in ExecutionObservationRows :
        /\ {row.previous, row.current} \subseteq Sealed
        /\ row.previous # row.current
        /\ row.previous_provider # row.current_provider

-----------------------------------------------------------------------------
(* Properties. *)

TablesAdmit ==
    /\ SchedulesTable /\ StepsTable
    /\ AttemptsTable /\ ix_handoff_attempts_single_open /\ SealReceiptsTable
    /\ HandoffResultsTable /\ HandoffAttributionsTable /\ ExecutionObservationsTable
    /\ ServiceDelegationsTable /\ ix_service_delegations_single_active
    /\ ControlEventsTable

(* What one layer lets through the next one takes: requests and value        *)
(* objects against the checks of schedule_steps, measured outputs against    *)
(* the one of handoff_results, controls against the one of the events.       *)
(* Gates and opinions are the same to both.                                  *)
LayersAgree ==
    /\ \A draft \in StepDrafts :
           StepInput(draft) /\ StepDraft(draft) => schedule_steps_accepts(draft)
    /\ \A given \in GivenConstraints :
           canonical_constraints(given) <=>
               Cardinality(Keys(ToSet(given))) = Len(given) /\ gate_marker_is_valid(ToSet(given))
    /\ \A contract \in SUPPORTED_OUTPUT_CONTRACTS \cup {"other"}, content \in Content :
           \A media_type \in {"text/plain", "application/json", "other"} :
               LET codes == validate_output(contract, media_type, content)
               IN  status_codes_coherent(HandoffResultStatus(codes), codes)
    /\ \A action \in Actions, category \in StopConditionCategory \cup {NoCategory} :
           CategoryAccepted(action, category) => stop_category_matrix(ReasonOf(action), category)
    /\ \A opinion \in AuditOpinionKind, codes \in SUBSET AuditReasonCode :
           issue(opinion, codes) <=> audit_opinion_matrix_is_valid(opinion, codes)

(* The database refuses nothing the services decided to write: a delegation  *)
(* is consumed by an attempt of its own step, an observed switch changed the *)
(* provider, one attempt is open and one delegation ACTIVE per step, and the *)
(* constraints, outputs and controls accepted are the ones it accepts.       *)
RowsAdmitted == TablesAdmit /\ LayersAgree

GuardServiceDelegation ==
    \A row \in ServiceDelegationRows \ ServiceDelegationRows' :
        /\ row.state = "ACTIVE"
        /\ \E new \in ServiceDelegationRows' :
               /\ new.id = row.id /\ new.valid_until = row.valid_until
               /\ new.state \in {"CONSUMED", "REVOKED", "EXPIRED"}

AppendsOnly ==
    /\ SealReceiptRows \subseteq SealReceiptRows'
    /\ HandoffResultRows \subseteq HandoffResultRows'
    /\ HandoffAttributionRows \subseteq HandoffAttributionRows'
    /\ ExecutionObservationRows \subseteq ExecutionObservationRows'
    /\ IsPrefix(control_events, control_events')

(* E7_2_ and E7_3_IMPLEMENTED_STEP_TRANSITIONS; DISPATCHED is passed within  *)
(* one transaction.                                                          *)
StepTransitions ==
    {<<"PENDING", "AWAITING_RETURN">>, <<"AWAITING_RETURN", "RETURNED">>,
     <<"PENDING", "CANCELLED">>, <<"AWAITING_RETURN", "CANCELLED">>}

AttemptTransitions == {"OPEN"} \X {"CLOSED_OK", "CLOSED_REJECTED", "CLOSED_CANCELLED"}

Implemented ==
    /\ \A s \in Composed : step'[s] = step[s] \/ <<step[s], step'[s]>> \in StepTransitions
    /\ \A a \in Sealed :
           \/ attempt'[a[1]][a[2]] = attempt[a[1]][a[2]]
           \/ <<attempt[a[1]][a[2]], attempt'[a[1]][a[2]]>> \in AttemptTransitions

(* No command runs into a trigger or leaves the implemented transitions:     *)
(* history is only appended to, and a delegation leaves ACTIVE once, with    *)
(* the binding it was granted with (guard_service_delegation_transition,     *)
(* reject_handoff_record_mutation, reject_governance_record_mutation).       *)
TriggersAdmit == [][GuardServiceDelegation /\ AppendsOnly /\ Implemented]_rowVars

StateOf(kind) ==
    CASE kind = "paused"    -> "PAUSED"
      [] kind = "resumed"   -> "ACTIVE"
      [] kind = "stopped"   -> "STOPPED"
      [] kind = "cancelled" -> "CANCELLED"
      [] kind = "completed" -> "COMPLETED"

(* The control events, in the order of their commits, tell how the Schedule  *)
(* came to its state: the last one names it, a pause and a resume alternate  *)
(* however often a blocked dispatch is repeated, and none follows an end.    *)
EventsTellState ==
    /\ \/ control_events = <<>> /\ schedule \in {"ABSENT", "ACTIVE"}
       \/ control_events # <<>> /\ schedule = StateOf(Last(control_events).kind)
    /\ \A i \in 1 .. Len(control_events) - 1 :
           <<control_events[i].kind, control_events[i + 1].kind>> \in
               {<<"paused", "resumed">>, <<"resumed", "paused">>}
               \cup ({"paused", "resumed"} \X {"stopped", "cancelled"})
               \cup {<<"resumed", "completed">>}

(* What the tables hold is accepted by every layer and agrees with the log   *)
(* of control events.                                                        *)
RowsAgree == RowsAdmitted /\ EventsTellState
=============================================================================
