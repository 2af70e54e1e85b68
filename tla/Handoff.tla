------------------------------ MODULE Handoff ------------------------------
(***************************************************************************)
(* The life of one Schedule of app/orchestration: its ordered steps, the   *)
(* handoff attempts of each step, the single-use delegations that open a   *)
(* gated step, the control events and the observations of a declared       *)
(* change of provider.                                                     *)
(*                                                                         *)
(* Every command is one database transaction.  Export, import, grant and   *)
(* control take the row lock of the Schedule first, so each is one atomic  *)
(* step here; sealing and revoking read without that lock and write later, *)
(* so each is two steps.  PostgreSQL's now() is the instant the            *)
(* transaction began, which may lie before the commit of another one:      *)
(* Begin captures it and the command uses it however late it runs.         *)
(* Whatever raises rolls the transaction back: guards are the conditions   *)
(* of success and Rollback is every error path.                            *)
(***************************************************************************)
EXTENDS Integers

CONSTANTS Txs,            \* sessions that can run a command
          MaxSteps,       \* number of steps of the Schedule
          Gate,           \* Gate[s]: "none", "delegation" or "human"
          Providers,      \* values of declared_provider_id, NULL included
          Unattributed,   \* an attempt without an attribution row
          SealedSteps,    \* steps sealed outside an export, which the domain API allows
          MaxAttempts,    \* bound of the attempts of a step
          MaxDelegations, \* bound of the delegations of a step
          MaxClock        \* bound of the database clock

Steps       == 1 .. MaxSteps
Attempts    == 1 .. MaxAttempts
Delegations == 1 .. MaxDelegations
Times       == 0 .. MaxClock
NoStep      == 0
NoAttempt   == 0

ASSUME BoundAssumption ==
    /\ MaxSteps \in Nat /\ MaxAttempts \in Nat
    /\ MaxDelegations \in Nat /\ MaxClock \in Nat
ASSUME GateAssumption == Gate \in [Steps -> {"none", "delegation", "human"}]
ASSUME ProviderAssumption == Unattributed \notin Providers
ASSUME SealAssumption == SealedSteps \subseteq Steps

VARIABLES
    schedule,     \* schedules.state, "ABSENT" before it is created
    step,         \* schedule_steps.state
    attempt,      \* handoff_attempts.state by step and attempt_number
    created_at,   \* handoff_attempts.created_at
    provider,     \* handoff_attributions.declared_provider_id
    observed,     \* execution_observations: <<step, previous, current>>
    delegation,   \* service_delegations.state by step and order of creation
    valid_until,  \* service_delegations.valid_until
    consumed_at,  \* service_delegations.consumed_at
    consumed_by,  \* service_delegations.consumed_by_attempt_id
    clock,        \* the time of the database server
    tx,           \* what each session is doing
    now,          \* now() of its transaction
    alvo          \* the step its unlocked read was about

attemptVars    == <<attempt, created_at, provider, observed>>
delegationVars == <<delegation, valid_until, consumed_at, consumed_by>>
txVars         == <<tx, now, alvo>>
vars == <<schedule, step, attempt, created_at, provider, observed,
          delegation, valid_until, consumed_at, consumed_by, clock, tx, now, alvo>>

Init ==
    /\ schedule = "ABSENT"
    /\ step = [s \in Steps |-> "ABSENT"]
    /\ attempt = [s \in Steps |-> [n \in Attempts |-> "ABSENT"]]
    /\ created_at = [s \in Steps |-> [n \in Attempts |-> 0]]
    /\ provider = [s \in Steps |-> [n \in Attempts |-> Unattributed]]
    /\ observed = {}
    /\ delegation = [s \in Steps |-> [d \in Delegations |-> "ABSENT"]]
    /\ valid_until = [s \in Steps |-> [d \in Delegations |-> 0]]
    /\ consumed_at = [s \in Steps |-> [d \in Delegations |-> 0]]
    /\ consumed_by = [s \in Steps |-> [d \in Delegations |-> NoAttempt]]
    /\ clock = 0
    /\ tx = [t \in Txs |-> "idle"]
    /\ now = [t \in Txs |-> 0]
    /\ alvo = [t \in Txs |-> NoStep]

-----------------------------------------------------------------------------
(* Transactions and time. *)

Tick ==
    /\ clock < MaxClock
    /\ clock' = clock + 1
    /\ UNCHANGED <<schedule, step, attemptVars, delegationVars, txVars>>

Begin(t) ==
    /\ tx[t] = "idle"
    /\ tx' = [tx EXCEPT ![t] = "open"]
    /\ now' = [now EXCEPT ![t] = clock]
    /\ UNCHANGED <<schedule, step, attemptVars, delegationVars, clock, alvo>>

(* The session is done with its transaction. *)
End(t) ==
    /\ tx' = [tx EXCEPT ![t] = "idle"]
    /\ now' = [now EXCEPT ![t] = 0]
    /\ alvo' = [alvo EXCEPT ![t] = NoStep]

(* An exception of any command, a lost connection or a crash: the router's   *)
(* except clause, or the server, rolls the transaction back.                 *)
Rollback(t) ==
    /\ tx[t] # "idle"
    /\ End(t)
    /\ UNCHANGED <<schedule, step, attemptVars, delegationVars, clock>>

-----------------------------------------------------------------------------
(* Schedules. *)

(* criar_schedule: the Schedule and its steps are created and the Schedule   *)
(* activated in one transaction.                                             *)
criar_schedule(t) ==
    /\ tx[t] = "open"
    /\ schedule = "ABSENT"
    /\ schedule' = "ACTIVE"
    /\ step' = [s \in Steps |-> "PENDING"]
    /\ End(t)
    /\ UNCHANGED <<attemptVars, delegationVars, clock>>

(* set_schedule_state, which every caller follows with a control event. *)
set_schedule_state(state) == schedule' = state

-----------------------------------------------------------------------------
(* Attempts. *)

Existing(s) == {n \in Attempts : attempt[s][n] # "ABSENT"}

(* next_attempt_number: the greatest number used by the step, plus one. *)
IsNextAttempt(s, n) ==
    /\ n \in Attempts
    /\ \A m \in Existing(s) : m < n
    /\ n = 1 \/ n - 1 \in Existing(s)

(* get_open_attempt, and the partial unique index behind it. *)
NoOpenAttempt(s) == \A n \in Attempts : attempt[s][n] # "OPEN"

(* create_attempt: an OPEN row, stamped with now() of the transaction. *)
create_attempt(t, s, n) ==
    /\ attempt' = [attempt EXCEPT ![s][n] = "OPEN"]
    /\ created_at' = [created_at EXCEPT ![s][n] = now[t]]
    /\ UNCHANGED <<provider, observed>>

(* seal_step up to the lock of the step: the states are read without a lock. *)
seal_step(t, s) ==
    /\ s \in SealedSteps
    /\ tx[t] = "open"
    /\ schedule = "ACTIVE"
    /\ step[s] = "PENDING"
    /\ tx' = [tx EXCEPT ![t] = "sealing"]
    /\ alvo' = [alvo EXCEPT ![t] = s]
    /\ UNCHANGED <<schedule, step, attemptVars, delegationVars, clock, now>>

(* The rest of _seal: number, attempt and seal receipt, then the commit.     *)
(* Nothing is read again under the lock of the step.                         *)
seal_commit(t) ==
    /\ tx[t] = "sealing"
    /\ NoOpenAttempt(alvo[t])
    /\ \E n \in Attempts :
           IsNextAttempt(alvo[t], n) /\ create_attempt(t, alvo[t], n)
    /\ End(t)
    /\ UNCHANGED <<schedule, step, delegationVars, clock>>

-----------------------------------------------------------------------------
(* Delegations. *)

Active(s) == {d \in Delegations : delegation[s][d] = "ACTIVE"}

(* Mutant: a delegation is usable at the very instant it expires. *)
FreshInclusive(t, s) == {d \in Active(s) : valid_until[s][d] >= now[t]}

(* expire_stale_delegations, as the set it leaves ACTIVE. *)
Fresh(t, s) == {d \in Active(s) : valid_until[s][d] > now[t]}

ExpireStale(t, s, d) ==
    IF d \in Active(s) \ Fresh(t, s) THEN "EXPIRED" ELSE delegation[s][d]

(* Mutant: a new grant moves the end of the one that is ACTIVE. *)
grantRenewing(t, s, d, until) ==
    /\ tx[t] = "open"
    /\ schedule # "ABSENT"
    /\ Gate[s] # "none"
    /\ until > now[t]
    /\ \/ d \in Active(s)
       \/ Active(s) = {} /\ delegation[s][d] = "ABSENT"
    /\ delegation' = [delegation EXCEPT ![s][d] = "ACTIVE"]
    /\ valid_until' = [valid_until EXCEPT ![s][d] = until]
    /\ End(t)
    /\ UNCHANGED <<schedule, step, attemptVars, consumed_at, consumed_by, clock>>

(* DelegationService.grant: stale delegations of the step expire, the ones   *)
(* still ACTIVE are revoked, the new one is created.  The state of the       *)
(* Schedule is not looked at.                                                *)
grant(t, s, d, until) ==
    /\ tx[t] = "open"
    /\ schedule # "ABSENT"
    /\ Gate[s] # "none"
    /\ until > now[t]
    /\ delegation[s][d] = "ABSENT"
    /\ \A e \in Delegations : e < d => delegation[s][e] # "ABSENT"
    /\ delegation' = [delegation EXCEPT ![s] =
           [e \in Delegations |->
               IF e = d THEN "ACTIVE"
               ELSE IF e \in Fresh(t, s) THEN "REVOKED"
               ELSE ExpireStale(t, s, e)]]
    /\ valid_until' = [valid_until EXCEPT ![s][d] = until]
    /\ End(t)
    /\ UNCHANGED <<schedule, step, attemptVars, consumed_at, consumed_by, clock>>

(* DelegationService.revoke up to its check: the delegation of the path is   *)
(* read without a lock.                                                      *)
revoke(t, s) ==
    /\ tx[t] = "open"
    /\ Active(s) # {}
    /\ tx' = [tx EXCEPT ![t] = "revoking"]
    /\ alvo' = [alvo EXCEPT ![t] = s]
    /\ UNCHANGED <<schedule, step, attemptVars, delegationVars, clock, now>>

(* Mutant: the UPDATE does not look at the state of the rows. *)
RevokeEveryDelegation(t) ==
    /\ tx[t] = "revoking"
    /\ delegation' = [delegation EXCEPT ![alvo[t]] =
           [d \in Delegations |-> IF @[d] # "ABSENT" THEN "REVOKED" ELSE @[d]]]
    /\ End(t)
    /\ UNCHANGED <<schedule, step, attemptVars, valid_until, consumed_at, consumed_by, clock>>

(* revoke_active_delegations: whatever is ACTIVE for the step by now. *)
revoke_active_delegations(t) ==
    /\ tx[t] = "revoking"
    /\ delegation' = [delegation EXCEPT ![alvo[t]] =
           [d \in Delegations |-> IF @[d] = "ACTIVE" THEN "REVOKED" ELSE @[d]]]
    /\ End(t)
    /\ UNCHANGED <<schedule, step, attemptVars, valid_until, consumed_at, consumed_by, clock>>

-----------------------------------------------------------------------------
(* Export. *)

(* Mutant: list_unreturned_predecessors looks at PENDING steps only. *)
NoUnreturnedPredecessorsPending(s) == \A r \in Steps : r < s => step[r] # "PENDING"

(* ScheduleService.advance / list_unreturned_predecessors is empty. *)
NoUnreturnedPredecessors(s) == \A r \in Steps : r < s => step[r] = "RETURNED"

(* What ManualHandoffExportService.preflight requires before it looks at the *)
(* gate.                                                                     *)
Preflight(s) ==
    /\ schedule = "ACTIVE"
    /\ step[s] # "CANCELLED"
    /\ NoUnreturnedPredecessors(s)
    /\ NoOpenAttempt(s)
    /\ step[s] \in {"PENDING", "AWAITING_RETURN"}

(* DispatchBlocked: the human gate denies everything, a delegation is        *)
(* missing or stale.                                                         *)
Blocked(t, s) ==
    \/ Gate[s] = "human"
    \/ Gate[s] = "delegation" /\ Fresh(t, s) = {}

(* consume_delegation, after expire_stale_delegations in the same statement  *)
(* sequence: the one ACTIVE delegation is bound to the attempt.              *)
consume_delegation(t, s, n) ==
    \E d \in Fresh(t, s) :
        /\ delegation' = [delegation EXCEPT ![s] =
               [e \in Delegations |-> IF e = d THEN "CONSUMED" ELSE ExpireStale(t, s, e)]]
        /\ consumed_at' = [consumed_at EXCEPT ![s][d] = now[t]]
        /\ consumed_by' = [consumed_by EXCEPT ![s][d] = n]
        /\ UNCHANGED valid_until

(* export_step: delegation, attempt, seal receipt and transport, then the    *)
(* step waits for its return.                                                *)
export_step(t, s) ==
    /\ tx[t] = "open"
    /\ Preflight(s)
    /\ ~ Blocked(t, s)
    /\ \E n \in Attempts :
           /\ IsNextAttempt(s, n)
           /\ create_attempt(t, s, n)
           /\ IF Gate[s] = "delegation" THEN consume_delegation(t, s, n)
              ELSE UNCHANGED delegationVars
    /\ step' = [step EXCEPT ![s] = "AWAITING_RETURN"]
    /\ End(t)
    /\ UNCHANGED <<schedule, clock>>

(* register_block: the Schedule is paused and the router commits the pause   *)
(* before it answers 409.  A human gate is refused before delegations expire.*)
register_block(t, s) ==
    /\ tx[t] = "open"
    /\ Preflight(s)
    /\ Blocked(t, s)
    /\ set_schedule_state("PAUSED")
    /\ delegation' = [delegation EXCEPT ![s] =
           [d \in Delegations |->
               IF Gate[s] = "human" THEN @[d] ELSE ExpireStale(t, s, d)]]
    /\ End(t)
    /\ UNCHANGED <<step, attemptVars, valid_until, consumed_at, consumed_by, clock>>

-----------------------------------------------------------------------------
(* Import. *)

(* The attempts get_last_attribution_before may return: attributed, of the   *)
(* step, created no later than n by created_at, the latest of those.  Equal  *)
(* instants are ordered by a random identifier.                              *)
LastAttributionBefore(s, n) ==
    LET before == {m \in Attempts \ {n} : /\ provider[s][m] # Unattributed
                                          /\ created_at[s][m] <= created_at[s][n]}
    IN {m \in before : \A k \in before : created_at[s][k] <= created_at[s][m]}

(* Mutant: a return that names no provider is compared with nothing. *)
ObservarDeclarados(s, n, p) ==
    IF p = "NULL" \/ LastAttributionBefore(s, n) = {} THEN UNCHANGED observed
    ELSE \E m \in LastAttributionBefore(s, n) :
             observed' = IF provider[s][m] = p THEN observed
                         ELSE observed \cup {<<s, m, n>>}

(* _observar_troca_de_provedor *)
observar_troca_de_provedor(s, n, p) ==
    IF LastAttributionBefore(s, n) = {} THEN UNCHANGED observed
    ELSE \E m \in LastAttributionBefore(s, n) :
             observed' = IF provider[s][m] = p THEN observed
                         ELSE observed \cup {<<s, m, n>>}

(* complete_if_all_returned, in the transaction that returns step s. *)
complete_if_all_returned(s) ==
    IF schedule = "ACTIVE" /\ \A r \in Steps \ {s} : step[r] = "RETURNED"
    THEN set_schedule_state("COMPLETED") ELSE UNCHANGED schedule

(* import_return.  The state of the Schedule is not looked at; validate_output *)
(* is external data: accepted or not.                                        *)
import_return(t, s, n, p, accepted) ==
    /\ tx[t] = "open"
    /\ attempt[s][n] = "OPEN"
    /\ step[s] = "AWAITING_RETURN"
    /\ provider' = [provider EXCEPT ![s][n] = p]
    /\ attempt' = [attempt EXCEPT ![s][n] = IF accepted THEN "CLOSED_OK" ELSE "CLOSED_REJECTED"]
    /\ observar_troca_de_provedor(s, n, p)
    /\ IF accepted THEN /\ step' = [step EXCEPT ![s] = "RETURNED"]
                        /\ complete_if_all_returned(s)
       ELSE UNCHANGED <<step, schedule>>
    /\ End(t)
    /\ UNCHANGED <<created_at, delegationVars, clock>>

-----------------------------------------------------------------------------
(* Control. *)

(* _ACAO_DESTINO, which is also the event_kind's table. *)
Destino(action) ==
    CASE action = "pause"  -> "PAUSED"
      [] action = "resume" -> "ACTIVE"
      [] action = "stop"   -> "STOPPED"
      [] action = "cancel" -> "CANCELLED"

(* Mutant: a stopped Schedule can be resumed. *)
TransitionsWithRestart ==
    {<<"ACTIVE", "PAUSED">>, <<"PAUSED", "ACTIVE">>, <<"STOPPED", "ACTIVE">>,
     <<"ACTIVE", "STOPPED">>, <<"PAUSED", "STOPPED">>,
     <<"ACTIVE", "CANCELLED">>, <<"PAUSED", "CANCELLED">>}

(* E7_3_IMPLEMENTED_SCHEDULE_TRANSITIONS, the ones an operator can ask for. *)
Transitions ==
    {<<"ACTIVE", "PAUSED">>, <<"PAUSED", "ACTIVE">>,
     <<"ACTIVE", "STOPPED">>, <<"PAUSED", "STOPPED">>,
     <<"ACTIVE", "CANCELLED">>, <<"PAUSED", "CANCELLED">>}

(* _cancelar_conteudo: RETURNED steps are preserved. *)
cancelar_conteudo ==
    /\ step' = [s \in Steps |->
           IF step[s] \in {"PENDING", "AWAITING_RETURN"} THEN "CANCELLED" ELSE step[s]]
    /\ attempt' = [s \in Steps |-> [n \in Attempts |->
           IF attempt[s][n] = "OPEN" THEN "CLOSED_CANCELLED" ELSE attempt[s][n]]]

(* ControlService.apply *)
apply(t, action) ==
    /\ tx[t] = "open"
    /\ <<schedule, Destino(action)>> \in Transitions
    /\ IF action = "cancel" THEN cancelar_conteudo ELSE UNCHANGED <<step, attempt>>
    /\ set_schedule_state(Destino(action))
    /\ End(t)
    /\ UNCHANGED <<created_at, provider, observed, delegationVars, clock>>

-----------------------------------------------------------------------------
Actions == {"pause", "resume", "stop", "cancel"}

Import(t) ==
    \E s \in Steps, n \in Attempts, p \in Providers, accepted \in BOOLEAN :
        import_return(t, s, n, p, accepted)
Grant(t) == \E s \in Steps, d \in Delegations, until \in 1 .. MaxClock + 1 : grant(t, s, d, until)
Command(t) ==
    \/ criar_schedule(t)
    \/ \E s \in Steps : seal_step(t, s)
    \/ seal_commit(t)
    \/ Grant(t)
    \/ \E s \in Steps : revoke(t, s)
    \/ revoke_active_delegations(t)
    \/ \E s \in Steps : export_step(t, s)
    \/ \E s \in Steps : register_block(t, s)
    \/ Import(t)
    \/ \E action \in Actions : apply(t, action)

Next ==
    \/ Tick
    \/ \E t \in Txs : Begin(t) \/ Rollback(t) \/ Command(t)

Spec == Init /\ [][Next]_vars
-----------------------------------------------------------------------------
(* Properties. *)

ScheduleStates == {"ABSENT", "ACTIVE", "PAUSED", "COMPLETED", "CANCELLED", "STOPPED"}
StepStates == {"ABSENT", "PENDING", "AWAITING_RETURN", "RETURNED", "CANCELLED"}
AttemptStates == {"ABSENT", "OPEN", "CLOSED_OK", "CLOSED_REJECTED", "CLOSED_CANCELLED"}
DelegationStates == {"ABSENT", "ACTIVE", "CONSUMED", "REVOKED", "EXPIRED"}

(* The rows and the sessions have their types; consumed_by is set exactly on *)
(* CONSUMED delegations (ck_service_delegations_consumed_attempt_coherent).  *)
TypeOK ==
    /\ schedule \in ScheduleStates
    /\ step \in [Steps -> StepStates]
    /\ attempt \in [Steps -> [Attempts -> AttemptStates]]
    /\ created_at \in [Steps -> [Attempts -> Times]]
    /\ provider \in [Steps -> [Attempts -> Providers \cup {Unattributed}]]
    /\ observed \subseteq Steps \X Attempts \X Attempts
    /\ delegation \in [Steps -> [Delegations -> DelegationStates]]
    /\ valid_until \in [Steps -> [Delegations -> 0 .. MaxClock + 1]]
    /\ consumed_at \in [Steps -> [Delegations -> Times]]
    /\ consumed_by \in [Steps -> [Delegations -> Attempts \cup {NoAttempt}]]
    /\ \A s \in Steps, d \in Delegations :
           consumed_by[s][d] # NoAttempt <=> delegation[s][d] = "CONSUMED"
    /\ clock \in Times
    /\ tx \in [Txs -> {"idle", "open", "sealing", "revoking"}]
    /\ now \in [Txs -> Times]
    /\ alvo \in [Txs -> Steps \cup {NoStep}]
    /\ \A t \in Txs : tx[t] \in {"sealing", "revoking"} => alvo[t] \in Steps

(* A step has at most one OPEN attempt whatever exports, seals and imports   *)
(* overlap, so a return can belong to one attempt only.                      *)
OneOpenAttempt ==
    \A s \in Steps, m, n \in Attempts :
        attempt[s][m] = "OPEN" /\ attempt[s][n] = "OPEN" => m = n

(* The handoff is sequential: nothing of a step was exported before every    *)
(* earlier position had a validated return (advance is the only authority).  *)
DispatchInOrder ==
    \A r, s \in Steps :
        r < s /\ step[s] \in {"AWAITING_RETURN", "RETURNED"} => step[r] = "RETURNED"

(* A step is RETURNED exactly when one of its attempts was accepted, and     *)
(* that attempt is its last: a rejected return or a retry after success      *)
(* never produces a second verdict.  Sealing outside an export, which checks *)
(* without a lock, may still add an attempt nothing can return.              *)
ReturnedByLastAttempt ==
    \A s \in Steps :
        /\ step[s] = "RETURNED" <=> \E n \in Attempts : attempt[s][n] = "CLOSED_OK"
        /\ \A m, n \in Attempts :
               attempt[s][m] = "CLOSED_OK" /\ m < n =>
                   /\ attempt[s][n] \notin {"CLOSED_OK", "CLOSED_REJECTED"}
                   /\ s \notin SealedSteps => attempt[s][n] = "ABSENT"

(* A completed or cancelled Schedule leaves nothing to do: no step waits and *)
(* no attempt is OPEN (_cancelar_conteudo, complete_if_all_returned), except *)
(* one that was being sealed outside an export meanwhile.                    *)
TerminalHasNoOpenWork ==
    /\ schedule = "COMPLETED" => \A s \in Steps : step[s] = "RETURNED"
    /\ schedule \in {"COMPLETED", "CANCELLED"} =>
           \A s \in Steps : /\ step[s] \in {"RETURNED", "CANCELLED"}
                            /\ NoOpenAttempt(s) \/ s \in SealedSteps

(* A step behind a delegation gate is exported once per delegation: every    *)
(* attempt is paid by exactly one consumed delegation, and a step behind the *)
(* human gate is never exported.  Sealing outside an export asks no gate.    *)
OneDelegationPerAttempt ==
    \A s \in Steps \ SealedSteps :
        /\ Gate[s] = "human" => Existing(s) = {}
        /\ Gate[s] = "delegation" =>
               \A n \in Existing(s) : \E d \in Delegations :
                   /\ consumed_by[s][d] = n
                   /\ \A e \in Delegations : consumed_by[s][e] = n => e = d

(* A delegation is consumed before it expires, by the instant stored with it.*)
ConsumedBeforeExpiry ==
    \A s \in Steps, d \in Delegations :
        delegation[s][d] = "CONSUMED" => consumed_at[s][d] < valid_until[s][d]

(* A new grant replaces the previous one: at most one ACTIVE delegation per  *)
(* step, although revocations run without the lock of the Schedule.          *)
OneActiveDelegation ==
    \A s \in Steps : \A d, e \in Active(s) : d = e

(* What travels between steps and attempts never splits: each step has one   *)
(* open attempt, one validated return, its last, after every earlier step;   *)
(* and an ended Schedule leaves nothing open.                                *)
OneReturnPerStep ==
    DispatchInOrder /\ OneOpenAttempt /\ ReturnedByLastAttempt /\ TerminalHasNoOpenWork

(* Every dispatch behind a delegation gate is paid once, by a delegation     *)
(* that was the only ACTIVE one of its step and had not expired.             *)
DelegationsSpentOnce == OneDelegationPerAttempt /\ ConsumedBeforeExpiry /\ OneActiveDelegation

KeepsTerminalStates ==
    /\ schedule \in {"COMPLETED", "CANCELLED", "STOPPED"} => schedule' = schedule
    /\ \A s \in Steps : step[s] \in {"RETURNED", "CANCELLED"} => step'[s] = step[s]
    /\ \A s \in Steps, n \in Attempts :
           attempt[s][n] \notin {"ABSENT", "OPEN"} => attempt'[s][n] = attempt[s][n]
    /\ \A s \in Steps, d \in Delegations :
           delegation[s][d] \notin {"ABSENT", "ACTIVE"} => delegation'[s][d] = delegation[s][d]

(* Terminal does not regress: neither a late import, a cancel, a revocation  *)
(* decided on an old read nor a grant changes what was already decided.      *)
TerminalIsFinal == [][KeepsTerminalStates]_vars

Attributed(s, n) == provider[s][n] # Unattributed

(* m is the attributed attempt that precedes the attributed attempt n. *)
Preceding(s, m, n) ==
    /\ m < n /\ Attributed(s, m) /\ Attributed(s, n)
    /\ \A k \in Attempts : m < k /\ k < n => ~ Attributed(s, k)

(* NO_SILENT_PROVIDER_SWITCH as _observar_troca_de_provedor states it: a     *)
(* return is observed exactly when its provider differs from the one of the  *)
(* last attribution before it, NULL included.  It holds of steps whose       *)
(* attempts have creation instants in the order of their numbers: an export  *)
(* that began first and committed last is compared with nothing.             *)
SwitchObservedInOrder ==
    \A s \in Steps :
        (\A m, n \in Existing(s) : m < n => created_at[s][m] < created_at[s][n]) =>
            \A m, n \in Attempts :
                <<s, m, n>> \in observed <=>
                    Preceding(s, m, n) /\ provider[s][m] # provider[s][n]
=============================================================================
