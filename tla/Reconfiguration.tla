--------------------------- MODULE Reconfiguration --------------------------
(***************************************************************************)
(* Governed reconfiguration (app/predictive_accessibility): which model is *)
(* active for a subject, as an append-only log of events, one per version. *)
(* Batches evaluate claims, promote candidates and route; rollbacks make   *)
(* an earlier candidate active again.  Each call is a transaction; the log *)
(* is guarded by its primary key and by one event per subject and version. *)
(* The public evaluation is the same chain without instructions and without *)
(* a transaction.                                                          *)
(***************************************************************************)
EXTENDS PublicEvaluation

CONSTANTS Events,     \* identifiers of events
          Sessions,   \* each makes one call after the other
          Batches,    \* the batches that may be asked for
          Rollbacks,  \* the rollbacks that may be asked for
          Requests    \* the public requests that may arrive

PredictiveReconfigurationDecision ==
    {"promoted", "replayed", "lost_concurrent_race", "not_applicable", "rejected_approval",
     "rejected_validation"}

PredictiveReconfigurationEvent ==
    [event_id : Events, subject : Subjects, kind : {"PROMOTE", "ROLLBACK"},
     from_version : Nat, to_version : Nat \ {0}, candidate : References,
     approval : ApprovalBinding, rollback_of : Events \cup {None}, recorded_at : Nat]

\* what promotes the candidate of an item, or None
PredictiveReconfigurationInstruction ==
    [candidate : References, subject : Subjects, expected_version : Nat, event_id : Events,
     recorded_at : Nat]

PredictiveRollbackRequest ==
    [kind : {"rollback"}, event_id : Events, subject : Subjects, rollback_of : Events,
     expected_version : Int, required_scope : SUBSET Scopes,
     expected_jurisdiction : Places \cup {None}, recorded_at : Nat, authority : AuthorityContext]

ASSUME ReconfigurationAssumption ==
    /\ None \notin Events \cup Sessions \cup PredictiveReconfigurationDecision
    /\ None \notin PredictiveReconfigurationEvent
    /\ \A b \in Batches :
          /\ b.kind = "batch" /\ b.at \in Nat
          /\ Len(b.items) \in Nat /\ DOMAIN b.items = 1 .. Len(b.items)
          /\ \A i \in DOMAIN b.items : b.items[i] \in PredictiveEvaluationItem
          /\ b.instructions \in
                [DOMAIN b.items -> PredictiveReconfigurationInstruction \cup {None}]
    /\ Rollbacks \subseteq PredictiveRollbackRequest
    /\ \A models \in Requests :
          /\ Len(models) \in Nat /\ DOMAIN models = 1 .. Len(models)
          /\ \A i \in DOMAIN models : models[i].item \in PredictiveEvaluationItem

VARIABLES log,        \* the committed events
          mine,       \* those a transaction has inserted and not committed
          pc,         \* what a session does next
          call,       \* what it was asked, None for a new one
          outcomes,   \* the evaluations of its batch
          event,      \* the event it is about to append
          decisions,  \* what its gates decided so far, one per item
          routes      \* the routes it answered

reconfigurationVars == <<log, mine, pc, call, outcomes, event, decisions, routes>>

ReconfigurationInit ==
    /\ log = {}
    /\ mine = [s \in Sessions |-> {}]
    /\ pc = [s \in Sessions |-> "idle"]
    /\ call = [s \in Sessions |-> None]
    /\ outcomes = [s \in Sessions |-> <<>>]
    /\ event = [s \in Sessions |-> None]
    /\ decisions = [s \in Sessions |-> <<>>]
    /\ routes = [s \in Sessions |-> <<>>]

IsBatch(request) == request.kind # "rollback"
Position(s) == Len(decisions[s]) + 1
Outcome(decision, id, version) == [decision |-> decision, event_id |-> id, version |-> version]

\* what a statement of the session sees
Visible(s) == log \cup mine[s]

OfSubject(events, subject) == {e \in events : e.subject = subject}

\* the event of the greatest version, None before the first
current(events, subject) ==
    LET of == OfSubject(events, subject)
    IN  IF of = {} THEN None ELSE CHOOSE e \in of : \A f \in of : f.to_version <= e.to_version

get(events, id) ==
    LET of == {e \in events : e.event_id = id}
    IN  IF of = {} THEN None ELSE CHOOSE e \in of : TRUE

version_of(e) == IF e = None THEN 0 ELSE e.to_version
id_of(e) == IF e = None THEN None ELSE e.event_id

-----------------------------------------------------------------------------
(* A call begins. *)

\* an approval that cannot be validated raises
Evaluates(item) == item.ready /\ predictive_availability(item) => validates(item)

(* predictive_evaluate_batch: nothing is read or written. *)
predictive_evaluate_batch(s) ==
    \E b \in Batches :
        /\ pc[s] = "idle"
        /\ IF \E i \in DOMAIN b.items : ~ Evaluates(b.items[i])
           THEN /\ pc' = [pc EXCEPT ![s] = "raised"]
                /\ UNCHANGED <<call, outcomes>>
           ELSE /\ pc' = [pc EXCEPT ![s] = "gate"]
                /\ call' = [call EXCEPT ![s] = b]
                /\ outcomes' = [outcomes EXCEPT ![s] =
                       [i \in DOMAIN b.items |-> predictive_evaluate_item(b.items[i])]]
        /\ UNCHANGED <<log, mine, event, decisions, routes>>

BeginRollback(s) ==
    \E r \in Rollbacks :
        /\ pc[s] = "idle"
        /\ call' = [call EXCEPT ![s] = r]
        /\ pc' = [pc EXCEPT ![s] = "rollback"]
        /\ UNCHANGED <<log, mine, outcomes, event, decisions, routes>>

(* The public evaluation: evaluated and routed without any instruction. *)
predictive_evaluations(s) ==
    \E models \in Requests :
        LET answer == evaluate_and_route(models)
            items  == [i \in DOMAIN models |-> IF models[i].item.ready THEN to_ready_item(models[i])
                                                                     ELSE models[i].item]
            alone  == [i \in DOMAIN models |-> predictive_evaluate_item(items[i])]
        IN  /\ pc[s] = "idle"
            /\ IF answer # "evaluated"
               THEN /\ pc' = [pc EXCEPT ![s] = answer]
                    /\ UNCHANGED <<call, outcomes, decisions, routes>>
               ELSE /\ pc' = [pc EXCEPT ![s] = "answered"]
                    /\ call' = [call EXCEPT ![s] = [kind |-> "public", items |-> items,
                                                    at |-> items[1].at]]
                    /\ outcomes' = [outcomes EXCEPT ![s] = alone]
                    /\ decisions' = [decisions EXCEPT ![s] =
                           [i \in DOMAIN models |-> Outcome("not_applicable", None, None)]]
                    /\ routes' = [routes EXCEPT ![s] = predictive_route_batch(items, alone,
                           [i \in DOMAIN models |-> FALSE], items[1].at)]
            /\ UNCHANGED <<log, mine, event>>

-----------------------------------------------------------------------------
(* The gates. *)

Answer(s, outcome) ==
    /\ decisions' = [decisions EXCEPT ![s] = Append(@, outcome)]
    /\ event' = [event EXCEPT ![s] = None]
    /\ pc' = [pc EXCEPT ![s] = IF IsBatch(call[s]) THEN "gate" ELSE "commit"]
    /\ UNCHANGED <<log, call, outcomes, routes>>

Decide(s, outcome) == Answer(s, outcome) /\ UNCHANGED mine

\* the session is free for another call
Forget(s) ==
    /\ pc' = [pc EXCEPT ![s] = "idle"]
    /\ call' = [call EXCEPT ![s] = None]
    /\ outcomes' = [outcomes EXCEPT ![s] = <<>>]
    /\ event' = [event EXCEPT ![s] = None]
    /\ decisions' = [decisions EXCEPT ![s] = <<>>]
    /\ routes' = [routes EXCEPT ![s] = <<>>]

(* Mutant: the transaction stays open with what it wrote. *)
AbortKeepsRows(s) == Forget(s) /\ UNCHANGED <<log, mine>>

\* an exception ends the transaction, and nothing of it stays
Abort(s) ==
    /\ mine' = [mine EXCEPT ![s] = {}]
    /\ Forget(s)
    /\ UNCHANGED log

\* the approval names this candidate and this version
valid_binding(approval, candidate, version) ==
    /\ approval.bound_to = [kind |-> "promotion_candidate", ref |-> candidate]
    /\ approval.version = version

\* why an item is not promoted whatever the log says, None if it may be
Refusal(outcome, approval, instruction) ==
    IF ~ Evaluated(outcome) \/ instruction = None THEN "not_applicable"
    ELSE IF ~ outcome.regime THEN "not_applicable"
    ELSE IF outcome.a_minus <= 0 \/ outcome.state # "predictable" THEN "rejected_validation"
    ELSE IF \/ ~ Approved(outcome) \/ approval = None
            \/ ~ valid_binding(approval, instruction.candidate, instruction.expected_version + 1)
    THEN "rejected_approval"
    ELSE None

Lost(s, subject) ==
    LET now == current(Visible(s), subject)
    IN  Decide(s, Outcome("lost_concurrent_race", id_of(now), version_of(now)))

(* Mutant: the version the candidate expects is not compared. *)
AnyVersion(s, subject, expected) == TRUE

\* what a candidate was measured against is still current
Expected(s, subject, expected) == version_of(current(Visible(s), subject)) = expected

Propose(s, e) ==
    /\ event' = [event EXCEPT ![s] = e]
    /\ pc' = [pc EXCEPT ![s] = "append"]
    /\ UNCHANGED <<log, mine, call, outcomes, decisions, routes>>

(* predictive_reconfiguration_gate: one item of the batch, in order. *)
predictive_reconfiguration_gate(s) ==
    LET i           == Position(s)
        item        == call[s].items[i]
        outcome     == outcomes[s][i]
        instruction == call[s].instructions[i]
    IN  /\ pc[s] = "gate"
        /\ i <= Len(call[s].items)
        /\ IF Evaluated(outcome) /\ instruction # None /\ instruction.subject # outcome.subject
           THEN Abort(s)
           ELSE LET refusal == Refusal(outcome, IF item.ready THEN item.authority.approval ELSE None,
                                       instruction)
                IN  IF refusal # None THEN Decide(s, Outcome(refusal, None, None))
                    ELSE IF ~ Expected(s, instruction.subject, instruction.expected_version)
                    THEN Lost(s, instruction.subject)
                    ELSE Propose(s, [event_id     |-> instruction.event_id,
                                     subject      |-> instruction.subject,
                                     kind         |-> "PROMOTE",
                                     from_version |-> instruction.expected_version,
                                     to_version   |-> instruction.expected_version + 1,
                                     candidate    |-> instruction.candidate,
                                     approval     |-> item.authority.approval,
                                     rollback_of  |-> None,
                                     recorded_at  |-> instruction.recorded_at])

(* predictive_rollback_gate: the target never changes once it is there, so   *)
(* reading it and reading the current version are one step.  The approval is *)
(* validated now, for the candidate that becomes active again; one that      *)
(* cannot be validated raises.                                               *)
predictive_rollback_gate(s) ==
    LET r        == call[s]
        target   == get(Visible(s), r.rollback_of)
        approval == r.authority.approval
        version  == r.expected_version + 1
    IN  /\ pc[s] = "rollback"
        /\ IF /\ target # None
              /\ ~ (validar_inteiro_positivo(version) /\ validar_escopo(r.required_scope))
           THEN Abort(s)
           ELSE IF \/ target = None
                   \/ target.subject # r.subject
                   \/ validate_approval(r.authority, r.recorded_at, version, r.required_scope,
                                        r.expected_jurisdiction,
                                        [kind |-> "promotion_candidate", ref |-> target.candidate])
                      # "valid"
           THEN Decide(s, Outcome("rejected_approval", None, None))
           ELSE IF ~ Expected(s, r.subject, r.expected_version) THEN Lost(s, r.subject)
           ELSE Propose(s, [event_id |-> r.event_id, subject |-> r.subject, kind |-> "ROLLBACK",
                            from_version |-> r.expected_version, to_version |-> version,
                            candidate |-> target.candidate, approval |-> approval,
                            rollback_of |-> target.event_id, recorded_at |-> r.recorded_at])

-----------------------------------------------------------------------------
(* The log. *)

Rivals(s) ==
    {t \in Sessions \ {s} : \E e \in mine[t] :
        \/ e.event_id = event[s].event_id
        \/ e.subject = event[s].subject /\ e.to_version = event[s].to_version}

\* whose commit or rollback the insertion has to wait for
Waits(s) == pc[s] = "append" /\ get(Visible(s), event[s].event_id) = None /\ Rivals(s) # {}

\* the columns of an event: when its approval expires is not one of them
Columns(e) == [e EXCEPT !.approval.expiry = None]

\* a retry brings the very event that is there
same_event(existing, e) == Columns(existing) = Columns(e)

(* append: an event that is there is replayed or, if it says something else, *)
(* an error; a version that is taken is a lost race, behind a SAVEPOINT.     *)
(* Looking for the identifier first and colliding with it later answer the   *)
(* same, so both are one step.                                               *)
append(s) ==
    LET existing == get(Visible(s), event[s].event_id)
        taken    == \E e \in OfSubject(log, event[s].subject) : e.to_version = event[s].to_version
    IN  /\ pc[s] = "append"
        /\ ~ Waits(s)
        /\ IF existing # None
           THEN IF same_event(existing, event[s])
                THEN Decide(s, Outcome("replayed", existing.event_id, existing.to_version))
                ELSE Abort(s)
           ELSE IF taken THEN Lost(s, event[s].subject)
           ELSE /\ mine' = [mine EXCEPT ![s] = @ \cup {event[s]}]
                /\ Answer(s, Outcome("promoted", event[s].event_id, event[s].to_version))

(* Two transactions that wait for each other: the database ends one. *)
DeadlockVictim(s) ==
    /\ Waits(s)
    /\ \E t \in Rivals(s) : Waits(t) /\ s \in Rivals(t)
    /\ Abort(s)

(* predictive_route_batch: after the last gate; what cannot be compared      *)
(* raises.                                                                   *)
predictive_route(s) ==
    LET promoted == [i \in DOMAIN decisions[s] |-> decisions[s][i].decision = "promoted"]
    IN  /\ pc[s] = "gate"
        /\ Position(s) > Len(call[s].items)
        /\ IF \E i \in DOMAIN outcomes[s] :
                 Evaluated(outcomes[s][i]) /\ ~ routable(call[s].items[i].governed)
           THEN Abort(s)
           ELSE /\ routes' = [routes EXCEPT ![s] =
                       predictive_route_batch(call[s].items, outcomes[s], promoted, call[s].at)]
                /\ pc' = [pc EXCEPT ![s] = "commit"]
                /\ UNCHANGED <<log, mine, call, outcomes, event, decisions>>

(* The caller's commit.  One that fails leaves nothing and answers nothing;  *)
(* one that raises may have succeeded.                                       *)
Commit(s) ==
    /\ pc[s] = "commit"
    /\ log' = log \cup mine[s]
    /\ mine' = [mine EXCEPT ![s] = {}]
    /\ pc' = [pc EXCEPT ![s] = "answered"]
    /\ UNCHANGED <<call, outcomes, event, decisions, routes>>

CommitFails(s) == pc[s] = "commit" /\ Abort(s)

NextCall(s) ==
    /\ pc[s] \in {"answered", "refused", "raised"}
    /\ Forget(s)
    /\ UNCHANGED <<log, mine>>

ReconfigurationNext ==
    \E s \in Sessions :
        \/ predictive_evaluate_batch(s) \/ BeginRollback(s) \/ predictive_evaluations(s)
        \/ predictive_reconfiguration_gate(s) \/ predictive_rollback_gate(s)
        \/ append(s) \/ DeadlockVictim(s) \/ predictive_route(s)
        \/ Commit(s) \/ CommitFails(s) \/ NextCall(s)

ReconfigurationSpec == ReconfigurationInit /\ [][ReconfigurationNext]_reconfigurationVars

-----------------------------------------------------------------------------
(* Properties. *)

(* The variables hold values of the code's types: an answered batch has a    *)
(* decision and a route per item, and inserted events are real events.       *)
ReconfigurationTypeOK ==
    /\ log \subseteq PredictiveReconfigurationEvent
    /\ \A s \in Sessions :
        /\ mine[s] \subseteq PredictiveReconfigurationEvent
        /\ pc[s] \in {"idle", "gate", "rollback", "append", "commit", "answered",
                      "refused", "raised"}
        /\ pc[s] \in {"idle", "refused", "raised"} => call[s] = None /\ mine[s] = {}
        /\ pc[s] \in {"gate", "rollback", "append", "commit"} =>
              call[s] \in Batches \cup Rollbacks
        /\ pc[s] = "append" => event[s] \in PredictiveReconfigurationEvent
        /\ \A i \in DOMAIN decisions[s] :
              decisions[s][i].decision \in PredictiveReconfigurationDecision
        /\ pc[s] \in {"commit", "answered"} =>
              IF IsBatch(call[s])
              THEN /\ Len(decisions[s]) = Len(call[s].items)
                   /\ DOMAIN routes[s] = DOMAIN decisions[s]
                   /\ \A i \in DOMAIN routes[s] :
                         routes[s][i].route \in PredictiveRoute \cup {None}
              ELSE Len(decisions[s]) = 1

(* The log of a subject is whole: its versions follow one another from one,  *)
(* each made from the one before it by one event, and an identifier names    *)
(* one event.  No caller locks a subject: the version expected, the index on *)
(* subject and version and the commit of the rival have to add up to this    *)
(* (ReconfigurationRepository.append).                                       *)
LogWhole ==
    /\ \A e, f \in log :
          e.event_id = f.event_id \/ (e.subject = f.subject /\ e.to_version = f.to_version)
          => e = f
    /\ \A e \in log :
          /\ e.to_version = e.from_version + 1
          /\ e.from_version > 0 =>
                \E f \in OfSubject(log, e.subject) : f.to_version = e.from_version

(* Whoever made a candidate active was allowed to make that candidate that   *)
(* version; a rollback names an earlier event of its subject, activates the  *)
(* candidate of that event, and its approval had not expired when it was     *)
(* recorded (predictive_reconfiguration_gate, predictive_rollback_gate).     *)
EventsAuthorized ==
    \A e \in log :
        /\ e.approval.version = e.to_version
        /\ e.approval.bound_to = [kind |-> "promotion_candidate", ref |-> e.candidate]
        /\ e.kind = "ROLLBACK" =>
              /\ e.approval.expiry # None => e.recorded_at < e.approval.expiry
              /\ \E f \in OfSubject(log, e.subject) :
                    /\ f.event_id = e.rollback_of
                    /\ f.to_version < e.to_version
                    /\ f.candidate = e.candidate

\* the version that item i of the call was to make
Asked(s, i) ==
    1 + IF IsBatch(call[s]) THEN call[s].instructions[i].expected_version
        ELSE call[s].expected_version

(* What was answered is so, whatever other sessions committed meanwhile: an  *)
(* event said to be promoted or replayed is in the log and made the version  *)
(* asked for; a lost race reports a committed event, never one undone        *)
(* (append, _reconcile).                                                     *)
AnswersHold ==
    \A s \in Sessions : pc[s] = "answered" =>
        \A i \in DOMAIN decisions[s] :
            LET d == decisions[s][i]
            IN  /\ d.decision \in {"promoted", "replayed"} =>
                      /\ d.version = Asked(s, i)
                      /\ \E e \in log : e.event_id = d.event_id /\ e.to_version = d.version
                /\ d.decision = "lost_concurrent_race" /\ d.event_id # None =>
                      \E e \in log : e.event_id = d.event_id /\ e.to_version = d.version

(* What is recommended rests on what was decided: comparable claims that     *)
(* contradict each other are both silent; a claim follows a reconfiguration  *)
(* only if the log has the event of this very item; the routes that need     *)
(* protection have an approval and no branch left open; an accepted branch   *)
(* lies in the scope and the time of the approval of its claim; and          *)
(* revalidating never makes a route bolder (route_batch, protection_set).    *)
RoutesSound ==
    \A s \in Sessions : pc[s] = "answered" /\ IsBatch(call[s]) =>
        \A i \in DOMAIN routes[s] :
            LET item     == call[s].items[i]
                answer   == routes[s][i]
                approval == item.authority.approval
            IN  /\ \A j \in DOMAIN routes[s] :
                      /\ Evaluated(outcomes[s][i]) /\ Evaluated(outcomes[s][j])
                      /\ item.governed.key = call[s].items[j].governed.key
                      /\ item.governed.conclusion # call[s].items[j].governed.conclusion
                      => answer.route = None
                /\ answer.route = "reconfigure" =>
                      \E e \in log : /\ e.event_id = call[s].instructions[i].event_id
                                     /\ e.candidate = approval.bound_to.ref
                                     /\ e.subject = item.subject
                /\ answer.route \in {"robust", "reconfigure"} =>
                      /\ outcomes[s][i].approval = "valid"
                      /\ item.governed.required_identifiers
                            \subseteq {c.identifier : c \in item.governed.candidates}
                      /\ \A c \in item.governed.candidates :
                            c.material_effect_claimed => c \in answer.accepted
                /\ \A c \in answer.accepted :
                      /\ c.incompatible_with \cap {d.identifier : d \in answer.accepted} = {}
                      /\ item.governed.materiality_required_scope \subseteq approval.scope
                      /\ approval.expiry # None =>
                            item.at < approval.expiry /\ call[s].at < approval.expiry
                /\ answer.alternative # None => answer.route # None
                /\ answer.route # None =>
                      _CONSERVADORISMO[answer.route] <= _CONSERVADORISMO[answer.revalidated]

(* What is recorded, who was allowed to record it, and what was said of it:  *)
(* the three stay true together while sessions race, wait and roll back.     *)
HistorySound == LogWhole /\ EventsAuthorized /\ AnswersHold
=============================================================================
