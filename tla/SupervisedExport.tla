-------------------------- MODULE SupervisedExport --------------------------
(***************************************************************************)
(* Exports of handoffs under the human protection gates (app/mcp, with the *)
(* services it composes): an application that is a client of the platform  *)
(* exports a step, a person exports it by hand, gates are applied on their *)
(* own, and the work is paused, resumed and cancelled meanwhile.           *)
(*                                                                         *)
(* Each call is a transaction of READ COMMITTED that commits what it wrote *)
(* or nothing of it; a row lock, a unique key or an advisory lock makes it *)
(* wait for the transaction that holds it.                                 *)
(***************************************************************************)
EXTENDS HumanProtection

CONSTANTS Sessions,       \* each makes one call after the other
          Keys,           \* command keys of the client
          Texts,          \* what the classifier may answer
          ScheduleOf,     \* the Schedule of a step
          Position,       \* and its place in it
          ObjectiveOf,    \* the objective read for a step
          Operation,      \* the governed operation the composition gives
          Vouched,        \* effects a caller of a gate may say it has had
          Principal,      \* the principal of the Schedules
          MaxApplications, \* bound of the events of gates that belong to no export
          ConnectionIds, ClaimIds, Names

INSTANCE Connections WITH Moments <- 0 .. MaxTime

AttemptRow == [id : Attempts, step : Steps, mode : {"supervised", "manual"},
               state : {"OPEN", "VALIDATED", "REJECTED", "CANCELLED"}]

\* effects a caller says it has had; what it does not say, and what exports say
Efeitos == [pause_applied : BOOLEAN, delegations_revoked : 0 .. MaxRevoked,
            attempt : Attempts \cup {None}]

NoEffects(attempt) ==
    [pause_applied |-> FALSE, delegations_revoked |-> 0, attempt |-> attempt]

\* what a command key was claimed for
Claim == [step : Steps, attempt : Attempts]

ASSUME SupervisedExportAssumption ==
    /\ Texts \subseteq ClassifierText
    /\ ScheduleOf \in [Steps -> Schedules] /\ Position \in [Steps -> Nat]
    /\ ObjectiveOf \in [Steps \cup {None} -> Objectives]
    /\ Vouched \subseteq Efeitos
    /\ Operation \in CognitiveOperation /\ Principal \in Principals
    /\ None \notin Keys \cup ConnectionIds \cup {"ACTIVE", "PAUSED"}
    /\ None \notin AttemptRow /\ None \notin Claim /\ None \notin ConnectionProfile

VARIABLES clock, schedule, step, attempts,
          events,    \* the committed events of the gates
          claims,    \* command_receipts: what a key was claimed for
          profiles, receipts,
          pc,        \* what a session does next
          job,       \* the call it serves
          view,      \* the answer of governance to the last gate
          answer,    \* the last application a gate answered with
          mine       \* what its transaction wrote

tables == <<schedule, step, attempts, events, claims, profiles, receipts>>
vars == <<clock, tables, pc, job, view, answer, mine>>

NoJob == [kind |-> None, gate |-> None, step |-> None, key |-> None, text |-> None,
          efeitos |-> None]

Nothing == [events |-> {}, attempt |-> None, claim |-> None, state |-> None, profile |-> None]

Init ==
    /\ clock = 0
    /\ schedule = [c \in Schedules |-> "ACTIVE"]
    /\ step = [p \in Steps |-> "PENDING"]
    /\ attempts = {}
    /\ events = {}
    /\ claims = [k \in Keys |-> None]
    /\ profiles = {}
    /\ receipts = {}
    /\ pc = [s \in Sessions |-> "idle"]
    /\ job = [s \in Sessions |-> NoJob]
    /\ view = [s \in Sessions |-> None]
    /\ answer = [s \in Sessions |-> None]
    /\ mine = [s \in Sessions |-> Nothing]

Tick ==
    /\ clock < MaxTime
    /\ clock' = clock + 1
    /\ UNCHANGED <<tables, pc, job, view, answer, mine>>

-----------------------------------------------------------------------------
(* Locks, and the transaction. *)

Others(s) == Sessions \ {s}
Goes(s, label) == pc' = [pc EXCEPT ![s] = label]

(* Mutant: the row of the step is read and not locked. *)
StepNeverHeld(s, p) == FALSE

\* a row lock is kept to the end of the transaction
StepHeld(s, p) ==
    /\ job[s].step = p
    /\ \/ job[s].kind = "manual"
       \/ job[s].kind = "mcp" /\ job[s].gate = "g3"

StepFree(s, p) == \A t \in Others(s) : ~ StepHeld(t, p)

ScheduleHeld(s, c) ==
    /\ job[s].step # None /\ ScheduleOf[job[s].step] = c
    /\ \/ job[s].kind = "manual"
       \/ mine[s].state # None

ScheduleFree(s, c) == \A t \in Others(s) : ~ ScheduleHeld(t, c)

Forget(s) ==
    /\ Goes(s, "idle")
    /\ job' = [job EXCEPT ![s] = NoJob]
    /\ view' = [view EXCEPT ![s] = None]
    /\ answer' = [answer EXCEPT ![s] = None]
    /\ mine' = [mine EXCEPT ![s] = Nothing]

(* Any exception: nothing the transaction wrote stays. *)
Abort(s) == Forget(s) /\ UNCHANGED <<clock, tables>>

\* identifiers no transaction has taken
Fresh(a) ==
    /\ \A x \in attempts : x.id # a
    /\ \A k \in Keys : claims[k] # None => claims[k].attempt # a
    /\ \A t \in Sessions : mine[t].claim # None => mine[t].claim.attempt # a
    /\ \A t \in Sessions : mine[t].attempt # None => mine[t].attempt.id # a

OpenAttempt(p) == \E x \in attempts : x.step = p /\ x.state = "OPEN"

-----------------------------------------------------------------------------
(* The gates. *)

(* The descriptor, the binding and the resolution, at one instant. *)
Evaluated(text, gate, p, attempt) ==
    LET c == IF p = None THEN None ELSE ScheduleOf[p]
    IN  {avaliar(m, text, ObjectiveOf[p], Operation,
                 Subject(Principal, gate, c, p, attempt), clock) : m \in Classifiers}

Asks(s, j, attempt) ==
    \E v \in Evaluated(j.text, j.gate, j.step, attempt) :
        /\ job' = [job EXCEPT ![s] = j]
        /\ view' = [view EXCEPT ![s] = v]
        /\ Goes(s, IF v = None THEN "unavailable" ELSE "apply")
        /\ UNCHANGED <<clock, tables, answer, mine>>

(* HumanProtectionGateUnavailableError ends the transaction. *)
Unavailable(s) == pc[s] = "unavailable" /\ Abort(s)

blocked(v) == desfecho(v) = "blocked"

\* the pause port is asked unless the caller says that the work is paused
PauseAsked(v, efeitos) ==
    blocked(v) /\ v.binding.gate_position # "g1" /\ ~ efeitos.pause_applied

RevocationAsked(v) == blocked(v) /\ v.binding.gate_position = "g4"

ResumeAsked(kind, v) == kind = "resume" /\ ~ blocked(v)

pausado(efeitos) ==
    IF efeitos.pause_applied THEN efeitos
    ELSE [efeitos EXCEPT !.pause_applied = TRUE, !.attempt = None]

(* G1 has nothing to pause, G2 and G3 pause, G4 pauses and revokes: as many  *)
(* as the port says, or the caller.                                          *)
efeitos_do_bloqueio(gate, efeitos, revoked) ==
    CASE gate = "g1" -> [efeitos EXCEPT !.pause_applied = FALSE, !.attempt = None]
      [] gate = "g4" -> [pause_applied |-> TRUE, attempt |-> None, delegations_revoked |->
                            IF revoked > efeitos.delegations_revoked THEN revoked
                            ELSE efeitos.delegations_revoked]
      [] OTHER       -> pausado(efeitos)

Effects(v, efeitos, revoked) ==
    IF blocked(v) THEN efeitos_do_bloqueio(v.binding.gate_position, efeitos, revoked)
    ELSE efeitos

(* WorkPausePort and WorkResumePort have no implementation.  One that        *)
(* returns may have set the state of the Schedule in this transaction,       *)
(* whatever it was, or have done nothing of the kind.                        *)
PortWrites(kind, v, efeitos) ==
    {None} \cup {state \in {"PAUSED"} : PauseAsked(v, efeitos)}
           \cup {state \in {"ACTIVE"} : ResumeAsked(kind, v)}

\* what follows an application, by the call it belongs to
AfterGate(kind, v) ==
    IF kind # "mcp" THEN "commit"
    ELSE IF blocked(v) THEN "refused"
    ELSE IF v.binding.gate_position = "g2" THEN "claim" ELSE "seal"

(* The effects and the event of the answer, in the transaction of the call.  *)
(* An update waits for the row lock, the insertion for one of the same key   *)
(* that is not committed.                                                    *)
registrar_aplicacao(s) ==
    /\ pc[s] = "apply"
    /\ LET v       == view[s]
           efeitos == job[s].efeitos
           label   == AfterGate(job[s].kind, v)
       IN  \E next \in PortWrites(job[s].kind, v, efeitos), revoked \in 0 .. MaxRevoked :
              LET a == montar_aplicacao(v, Effects(v, efeitos, revoked))
              IN  /\ RevocationAsked(v) \/ revoked = 0
                  /\ next # None => ScheduleFree(s, v.binding.schedule)
                  /\ \A t \in Others(s) : \A e \in mine[t].events : Key(e) # Key(a)
                  /\ IF /\ exigir_vinculo(v, v.binding) /\ exigir_validade(v, clock)
                        /\ HumanProtectionApplication(a) /\ CHECKS_DO_EVENTO(a)
                        /\ ler_aplicacao(events, Key(a)) # {} => confirmar_vencedor(events, a)
                        /\ label # "refused"
                     THEN /\ mine' = [mine EXCEPT
                                 ![s].events = IF ler_aplicacao(events, Key(a)) = {}
                                               THEN @ \cup {a} ELSE @,
                                 ![s].state = next]
                          /\ answer' = [answer EXCEPT ![s] = a]
                          /\ Goes(s, label)
                          /\ UNCHANGED <<clock, tables, job, view>>
                     ELSE Abort(s)

(* Whatever a port raises, and a count nobody can use, is a gate that is     *)
(* unavailable.                                                              *)
PortFails(s) ==
    /\ pc[s] = "apply"
    /\ \/ PauseAsked(view[s], job[s].efeitos) \/ RevocationAsked(view[s])
       \/ ResumeAsked(job[s].kind, view[s])
    /\ Abort(s)

\* the gates that belong to no export
GATES_DO_B2 == {"g1", "g4"}

Bounded == Cardinality({e \in events : e.gate_position # "g3"}) < MaxApplications

(* A gate on its own, in the transaction of its caller, who may have had     *)
(* effects already.                                                          *)
aplicar(s) ==
    \E gate \in GATES_DO_B2, p \in Steps, text \in Texts, efeitos \in Vouched :
        /\ pc[s] = "idle" /\ Bounded
        /\ Asks(s, [kind |-> "gate", gate |-> gate, step |-> IF gate = "g1" THEN None ELSE p,
                    key |-> None, text |-> text, efeitos |-> efeitos], None)

(* The work is taken up again by a decision of its own. *)
retomar(s) ==
    \E gate \in GatePosition \ {"g1"}, p \in Steps, text \in Texts :
        /\ pc[s] = "idle" /\ Bounded
        /\ Asks(s, [kind |-> "resume", gate |-> gate, step |-> p, key |-> None, text |-> text,
                    efeitos |-> NoEffects(None)], None)

-----------------------------------------------------------------------------
(* The export of the client: G2, its key, the step, G3, the seal. *)

exportar(s) ==
    \E p \in Steps, key \in Keys, text \in Texts :
        /\ pc[s] = "idle"
        /\ Asks(s, [kind |-> "mcp", gate |-> "g2", step |-> p, key |-> key, text |-> text,
                    efeitos |-> NoEffects(None)], None)

(* Mutant: a repeated key runs the export again, with the attempt of its     *)
(* receipt.                                                                  *)
claim_and_run(s) ==
    LET key == job[s].key
    IN  /\ pc[s] = "claim"
        /\ \A t \in Others(s) : mine[t].claim = None \/ job[t].key # key
        /\ \E a \in Attempts :
              /\ IF claims[key] # None THEN a = claims[key].attempt ELSE Fresh(a)
              /\ mine' = [mine EXCEPT ![s].claim = [step |-> job[s].step, attempt |-> a]]
              /\ Goes(s, "lock")
              /\ UNCHANGED <<clock, tables, job, view, answer>>

(* export_handoff_once: the key belongs to one request; a repetition is      *)
(* answered from the receipt.                                                *)
claim_command(s) ==
    LET key == job[s].key
    IN  /\ pc[s] = "claim"
        /\ \A t \in Others(s) : mine[t].claim = None \/ job[t].key # key
        /\ IF claims[key] # None
           THEN IF claims[key].step # job[s].step THEN Abort(s)
                ELSE Goes(s, "commit") /\ UNCHANGED <<clock, tables, job, view, answer, mine>>
           ELSE \E a \in Attempts :
                   /\ Fresh(a)
                   /\ mine' = [mine EXCEPT ![s].claim = [step |-> job[s].step, attempt |-> a]]
                   /\ Goes(s, "lock")
                   /\ UNCHANGED <<clock, tables, job, view, answer>>

(* export_step: the step is locked before the gate is asked. *)
lock_step(s) ==
    \E text \in Texts :
        /\ pc[s] = "lock"
        /\ StepFree(s, job[s].step)
        /\ LET attempt == mine[s].claim.attempt
           IN  Asks(s, [job[s] EXCEPT !.gate = "g3", !.text = text,
                                      !.efeitos = NoEffects(attempt)], attempt)

(* seal_step_for_export reads the Schedule without its lock. *)
seal_step_for_export(s) ==
    LET p == job[s].step
    IN  /\ pc[s] = "seal"
        /\ IF /\ schedule[ScheduleOf[p]] = "ACTIVE"
              /\ step[p] \in {"PENDING", "AWAITING_RETURN"}
              /\ ~ OpenAttempt(p)
           THEN /\ mine' = [mine EXCEPT ![s].attempt =
                       [id |-> mine[s].claim.attempt, step |-> p, mode |-> "supervised",
                        state |-> "OPEN"]]
                /\ Goes(s, "commit")
                /\ UNCHANGED <<clock, tables, job, view, answer>>
           ELSE Abort(s)

-----------------------------------------------------------------------------
(* The export by hand, and the connection it went through. *)

\* every step before this one was returned
NoUnreturnedPredecessors(p) ==
    \A q \in Steps : ScheduleOf[q] = ScheduleOf[p] /\ Position[q] < Position[p]
                        => step[q] = "RETURNED"

export_step(s) ==
    \E p \in Steps, a \in Attempts :
        /\ pc[s] = "idle"
        /\ ScheduleFree(s, ScheduleOf[p]) /\ StepFree(s, p)
        /\ schedule[ScheduleOf[p]] = "ACTIVE"
        /\ step[p] \in {"PENDING", "AWAITING_RETURN"}
        /\ NoUnreturnedPredecessors(p)
        /\ ~ OpenAttempt(p)
        /\ Fresh(a)
        /\ job' = [job EXCEPT ![s] = [NoJob EXCEPT !.kind = "manual", !.step = p]]
        /\ mine' = [mine EXCEPT ![s].attempt =
               [id |-> a, step |-> p, mode |-> "manual", state |-> "OPEN"]]
        /\ Goes(s, "profile")
        /\ UNCHANGED <<clock, tables, view, answer>>

Connected(s, profile) ==
    /\ mine' = [mine EXCEPT ![s].profile = profile]
    /\ Goes(s, "commit")
    /\ UNCHANGED <<clock, tables, job, view, answer>>

(* ensure_manual_profile: found, or else looked for again under the lock. *)
ensure_manual_profile(s) ==
    LET found == get_manual_profile(profiles, Principal)
    IN  \/ pc[s] = "profile" /\ found # None /\ Connected(s, found)
        \/ /\ pc[s] = "profile" /\ found = None
           /\ Goes(s, "profile_lock")
           /\ UNCHANGED <<clock, tables, job, view, answer, mine>>

\* pg_advisory_xact_lock is held by whoever is about to create it
acquire_manual_profile_lock(s) ==
    /\ pc[s] = "profile_lock"
    /\ \A t \in Others(s) : pc[t] = "commit" /\ mine[t].profile # None =>
                                mine[t].profile \in profiles
    /\ LET found == get_manual_profile(profiles, Principal)
       IN  IF found # None THEN Connected(s, found)
           ELSE \E id \in ConnectionIds :
                   Connected(s, create_profile(id, Principal, "manual_handoff", None, None))

\* record_execution: the receipt of what a person carried
Recorded(m) ==
    IF m.profile = None THEN {}
    ELSE {[principal |-> Principal, step |-> m.attempt.step, attempt |-> m.attempt.id,
           attribution |-> manual_attribution(m.profile.id)]}

-----------------------------------------------------------------------------
(* The end of a transaction. *)

Rows(s) == IF mine[s].attempt = None THEN {} ELSE {mine[s].attempt}

\* the deferred foreign key: an event names an attempt that exists
AttemptsExist(s) ==
    \A e \in mine[s].events : e.attempt # None =>
        \E x \in attempts \cup Rows(s) : x.id = e.attempt /\ x.step = e.step

WithProfile(s) == IF mine[s].profile = None THEN profiles ELSE profiles \cup {mine[s].profile}

Commit(s) ==
    LET m == mine[s]
        p == job[s].step
    IN  /\ pc[s] = "commit"
        /\ IF /\ AttemptsExist(s)
              /\ \A e \in m.events : hp_event_coherence(e)
              /\ ProfileIndexes(WithProfile(s))
           THEN /\ events' = events \cup m.events
                /\ attempts' = attempts \cup Rows(s)
                /\ step' = IF m.attempt = None THEN step
                           ELSE [step EXCEPT ![p] = "AWAITING_RETURN"]
                /\ claims' = IF m.claim = None THEN claims
                             ELSE [claims EXCEPT ![job[s].key] = m.claim]
                /\ schedule' = IF m.state = None THEN schedule
                               ELSE [schedule EXCEPT ![ScheduleOf[p]] = m.state]
                /\ profiles' = WithProfile(s)
                /\ receipts' = receipts \cup Recorded(m)
                /\ Forget(s)
                /\ UNCHANGED clock
           ELSE Abort(s)

-----------------------------------------------------------------------------
(* What else happens to a Schedule, each in a transaction under its lock. *)

Closed(x, state) == [x EXCEPT !.state = state]

(* A return is imported: validated, or rejected and awaited again. *)
import_return(s) ==
    \E x \in attempts, state \in {"VALIDATED", "REJECTED"} :
        /\ pc[s] = "idle"
        /\ x.state = "OPEN"
        /\ ScheduleFree(s, ScheduleOf[x.step]) /\ StepFree(s, x.step)
        /\ attempts' = (attempts \ {x}) \cup {Closed(x, state)}
        /\ step' = IF state = "VALIDATED" THEN [step EXCEPT ![x.step] = "RETURNED"] ELSE step
        /\ UNCHANGED <<clock, schedule, events, claims, profiles, receipts,
                       pc, job, view, answer, mine>>

(* Steps first, which waits for whoever locked one, then open attempts. *)
cancelar(s) ==
    \E c \in Schedules :
        /\ pc[s] = "idle"
        /\ schedule[c] \in {"ACTIVE", "PAUSED"}
        /\ ScheduleFree(s, c)
        /\ \A p \in Steps : ScheduleOf[p] = c => StepFree(s, p)
        /\ schedule' = [schedule EXCEPT ![c] = "CANCELLED"]
        /\ step' = [p \in Steps |-> IF ScheduleOf[p] = c /\ step[p] # "RETURNED"
                                    THEN "CANCELLED" ELSE step[p]]
        /\ attempts' = {IF ScheduleOf[x.step] = c /\ x.state = "OPEN" THEN Closed(x, "CANCELLED")
                        ELSE x : x \in attempts}
        /\ UNCHANGED <<clock, events, claims, profiles, receipts, pc, job, view, answer, mine>>

Next ==
    \/ Tick
    \/ \E s \in Sessions :
          \/ aplicar(s) \/ retomar(s) \/ exportar(s)
          \/ Unavailable(s) \/ registrar_aplicacao(s) \/ PortFails(s)
          \/ claim_command(s) \/ lock_step(s) \/ seal_step_for_export(s)
          \/ export_step(s) \/ ensure_manual_profile(s) \/ acquire_manual_profile_lock(s)
          \/ Commit(s) \/ import_return(s) \/ cancelar(s)

Spec == Init /\ [][Next]_vars

-----------------------------------------------------------------------------
(* The rows are those the tables accept: an event of the gates is an         *)
(* application its constructor takes and passes the checks, a receipt has    *)
(* an attribution its method allows.                                         *)
TypeOK ==
    /\ clock \in 0 .. MaxTime
    /\ schedule \in [Schedules -> {"ACTIVE", "PAUSED", "CANCELLED"}]
    /\ step \in [Steps -> {"PENDING", "AWAITING_RETURN", "RETURNED", "CANCELLED"}]
    /\ attempts \subseteq AttemptRow
    /\ \A e \in events : /\ HumanProtectionApplication(e) /\ CHECKS_DO_EVENTO(e)
                          /\ hp_event_coherence(e)
    /\ profiles \subseteq ConnectionProfile
    /\ \A r \in receipts : r.attribution \in ExecutionAttribution

AllowedG3(x) == {e \in events : e.attempt = x.id}
ReceiptsOf(x) == {r \in receipts : r.attempt = x.id}

(* Every attempt left the evidence of how it was exported, and no evidence   *)
(* is left without its attempt: the client's has exactly one allowed G3 that *)
(* names it and one command key, a person's has one receipt of a manual      *)
(* profile.  The G3 event is written before the attempt exists, the claim    *)
(* before both, and any of them may fail (supervised_export_service.py:131,  *)
(* connection_profile_service.py:71).                                        *)
EveryAttemptAccounted ==
    /\ \A x, y \in attempts : x.id = y.id => x = y
    /\ \A x \in attempts :
          IF x.mode = "supervised"
          THEN /\ \E e \in AllowedG3(x) : AllowedG3(x) = {e} /\ e.step = x.step
               /\ \E k \in Keys : claims[k] = [step |-> x.step, attempt |-> x.id]
               /\ ReceiptsOf(x) = {}
          ELSE AllowedG3(x) = {} /\ \E r \in ReceiptsOf(x) : ReceiptsOf(x) = {r}
    /\ \A e \in events : e.attempt # None => \E x \in attempts : x.id = e.attempt
    /\ \A k \in Keys : claims[k] # None =>
          \E x \in attempts : x.id = claims[k].attempt /\ x.step = claims[k].step
    /\ ReceiptKeys(receipts, profiles) /\ ProfileIndexes(profiles)

(* What a gate answered is what is recorded under its key, also when another *)
(* application was recorded first at the same instant                        *)
(* (human_protection_repository.py:197).                                     *)
AnswersRecorded ==
    /\ \A s \in Sessions : answer[s] # None => answer[s] \in events \cup mine[s].events
    /\ \A e, f \in events : Key(e) = Key(f) => e = f

(* Attempts, gates, keys and receipts account for each other.                *)
ExportsAccounted == EveryAttemptAccounted /\ AnswersRecorded

(* Nothing of a cancelled Schedule is left open, though a seal reads the     *)
(* Schedule without its lock (handoff_service.py:170).                       *)
CancelledIsClosed ==
    \A x \in attempts : schedule[ScheduleOf[x.step]] = "CANCELLED" => x.state # "OPEN"

=============================================================================
