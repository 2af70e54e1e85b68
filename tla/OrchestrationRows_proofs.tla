---------------------- MODULE OrchestrationRows_proofs ----------------------
(* Proofs about Handoff and OrchestrationRows for any number of sessions,     *)
(* steps, attempts and delegations, any gates, any drafts and any clock.      *)
(* First the life of the rows, which Handoff models; then what                *)
(* OrchestrationRows writes beside them: it never holds a command back that   *)
(* Handoff could not take, so the theorems of Handoff hold of the rows, the   *)
(* control events tell the state of the Schedule, and no command runs into a  *)
(* trigger.  Last, Reconfiguration for any number of sessions, batches,       *)
(* rollbacks and public requests: a log of its own, which shares no row with  *)
(* the others.                                                                *)
EXTENDS OrchestrationRows, Reconfiguration, WellFoundedInduction, SequenceTheorems,
        FiniteSetTheorems, TLAPS

(* The steps exist once the Schedule does. *)
Created == schedule = "ABSENT" => \A s \in Steps : step[s] = "ABSENT"

IInv ==
    /\ TypeOK
    /\ Created
    /\ OneOpenAttempt
    /\ DispatchInOrder
    /\ ConsumedBeforeExpiry
    /\ OneActiveDelegation


(* The bounds are numbers and the first instants belong to their sets. *)
LEMMA Numbers ==
    /\ Steps \subseteq Nat /\ Attempts \subseteq Nat /\ Delegations \subseteq Nat
    /\ 0 \in Times /\ Times \subseteq Nat /\ 0 \in 0 .. MaxClock + 1
    /\ NoAttempt \notin Attempts /\ NoStep \notin Steps
BY BoundAssumption DEF Steps, Attempts, Delegations, Times, NoAttempt, NoStep

(* The session that ends is idle again and the others go on. *)
LEMMA EndTyped ==
    ASSUME TypeOK, NEW t \in Txs, End(t)
    PROVE  /\ tx' \in [Txs -> {"idle", "open", "sealing", "revoking"}]
           /\ now' \in [Txs -> Times]
           /\ alvo' \in [Txs -> Steps \cup {NoStep}]
           /\ \A u \in Txs : tx'[u] \in {"sealing", "revoking"} => alvo'[u] \in Steps
BY Numbers DEF TypeOK, End

(* The initial state satisfies the inductive invariant. *)
LEMMA InitIInv == Init => IInv
<1> SUFFICES ASSUME Init PROVE IInv
    OBVIOUS
<1>1. TypeOK
    BY Numbers DEF Init, TypeOK, ScheduleStates, StepStates, AttemptStates,
                   DelegationStates
<1>2. Created /\ OneOpenAttempt /\ DispatchInOrder
    BY DEF Init, Created, OneOpenAttempt, DispatchInOrder
<1>3. ConsumedBeforeExpiry /\ OneActiveDelegation
    BY DEF Init, ConsumedBeforeExpiry, OneActiveDelegation, Active
<1>. QED BY <1>1, <1>2, <1>3 DEF IInv

(* Tick, Begin and Rollback leave every row alone; so do the unlocked reads  *)
(* of seal_step and revoke.                                                  *)
LEMMA RowsUnchanged ==
    ASSUME IInv, UNCHANGED <<schedule, step, attemptVars, delegationVars>>,
           clock' \in Times,
           tx' \in [Txs -> {"idle", "open", "sealing", "revoking"}],
           now' \in [Txs -> Times],
           alvo' \in [Txs -> Steps \cup {NoStep}],
           \A u \in Txs : tx'[u] \in {"sealing", "revoking"} => alvo'[u] \in Steps
    PROVE  IInv'
<1>. USE DEF attemptVars, delegationVars, IInv
<1>1. TypeOK'
    BY DEF TypeOK
<1>2. Created' /\ OneOpenAttempt' /\ DispatchInOrder'
    BY DEF Created, OneOpenAttempt, DispatchInOrder
<1>3. ConsumedBeforeExpiry' /\ OneActiveDelegation'
    BY DEF ConsumedBeforeExpiry, OneActiveDelegation, Active
<1>. QED BY <1>1, <1>2, <1>3

(* Steps that only open or close a transaction, move the clock or read. *)
LEMMA QuietSteps ==
    ASSUME IInv, NEW t \in Txs,
           \/ Tick \/ Begin(t) \/ Rollback(t)
           \/ \E s \in Steps : seal_step(t, s)
           \/ \E s \in Steps : revoke(t, s)
    PROVE  IInv'
<1>1. CASE Tick
    BY <1>1, RowsUnchanged, BoundAssumption DEF Tick, txVars, IInv, TypeOK, Times
<1>2. CASE Begin(t)
    BY <1>2, RowsUnchanged DEF Begin, IInv, TypeOK
<1>3. CASE Rollback(t)
    BY <1>3, RowsUnchanged, EndTyped DEF Rollback, IInv, TypeOK
<1>4. ASSUME NEW s \in Steps, seal_step(t, s) PROVE IInv'
    BY <1>4, RowsUnchanged DEF seal_step, IInv, TypeOK
<1>5. ASSUME NEW s \in Steps, revoke(t, s) PROVE IInv'
    BY <1>5, RowsUnchanged DEF revoke, IInv, TypeOK
<1>. QED BY <1>1, <1>2, <1>3, <1>4, <1>5

(* criar_schedule *)
LEMMA CreateStep ==
    ASSUME IInv, NEW t \in Txs, criar_schedule(t)
    PROVE  IInv'
<1>. USE DEF criar_schedule, attemptVars, delegationVars, IInv
<1>1. TypeOK'
    BY EndTyped DEF TypeOK, ScheduleStates, StepStates
<1>2. Created' /\ OneOpenAttempt' /\ DispatchInOrder'
    BY DEF Created, OneOpenAttempt, DispatchInOrder
<1>3. ConsumedBeforeExpiry' /\ OneActiveDelegation'
    BY DEF ConsumedBeforeExpiry, OneActiveDelegation, Active
<1>. QED BY <1>1, <1>2, <1>3

(* A new attempt is typed, was absent, and is the only OPEN one. *)
LEMMA AttemptCreated ==
    ASSUME TypeOK, OneOpenAttempt, NEW t \in Txs, NEW s \in Steps, NEW n \in Attempts,
           IsNextAttempt(s, n), NoOpenAttempt(s), create_attempt(t, s, n)
    PROVE  /\ attempt' \in [Steps -> [Attempts -> AttemptStates]]
           /\ created_at' \in [Steps -> [Attempts -> Times]]
           /\ UNCHANGED <<provider, observed>>
           /\ attempt[s][n] = "ABSENT"
           /\ OneOpenAttempt'
<1>1. attempt[s][n] = "ABSENT"
    BY Numbers DEF IsNextAttempt, Existing, TypeOK
<1>2. attempt' = [attempt EXCEPT ![s] = [attempt[s] EXCEPT ![n] = "OPEN"]]
    BY DEF create_attempt, TypeOK
<1>3. attempt' \in [Steps -> [Attempts -> AttemptStates]]
    BY <1>2 DEF TypeOK, AttemptStates
<1>4. created_at' \in [Steps -> [Attempts -> Times]]
    BY DEF create_attempt, TypeOK
<1>5. OneOpenAttempt'
    BY <1>2 DEF OneOpenAttempt, NoOpenAttempt, TypeOK
<1>. QED BY <1>1, <1>3, <1>4, <1>5 DEF create_attempt

(* seal_commit *)
LEMMA SealStep ==
    ASSUME IInv, NEW t \in Txs, seal_commit(t)
    PROVE  IInv'
<1>1. PICK n \in Attempts : IsNextAttempt(alvo[t], n) /\ create_attempt(t, alvo[t], n)
    BY DEF seal_commit
<1>2. alvo[t] \in Steps
    BY DEF seal_commit, IInv, TypeOK
<1>3. /\ attempt' \in [Steps -> [Attempts -> AttemptStates]]
      /\ created_at' \in [Steps -> [Attempts -> Times]]
      /\ UNCHANGED <<provider, observed>>
      /\ OneOpenAttempt'
    BY <1>1, <1>2, AttemptCreated DEF seal_commit, IInv
<1>. USE DEF seal_commit, delegationVars, IInv
<1>4. TypeOK'
    BY <1>3, EndTyped DEF TypeOK
<1>5. Created' /\ DispatchInOrder'
    BY DEF Created, DispatchInOrder
<1>6. ConsumedBeforeExpiry' /\ OneActiveDelegation'
    BY DEF ConsumedBeforeExpiry, OneActiveDelegation, Active
<1>. QED BY <1>3, <1>4, <1>5, <1>6

(* DelegationService.grant: whatever was ACTIVE is revoked or expired. *)
LEMMA GrantStep ==
    ASSUME IInv, NEW t \in Txs, NEW s \in Steps, NEW d \in Delegations,
           NEW until \in 1 .. MaxClock + 1, grant(t, s, d, until)
    PROVE  IInv'
<1>. USE DEF grant, attemptVars, IInv
<1>1. delegation' \in [Steps -> [Delegations -> DelegationStates]]
    BY DEF TypeOK, ExpireStale, DelegationStates
<1>2. valid_until' \in [Steps -> [Delegations -> 0 .. MaxClock + 1]]
    BY BoundAssumption DEF TypeOK
<1>3. \A u \in Steps, e \in Delegations :
          delegation'[u][e] = "CONSUMED" <=> delegation[u][e] = "CONSUMED"
    BY DEF TypeOK, ExpireStale, Fresh, Active
<1>4. TypeOK'
    BY <1>1, <1>2, <1>3, EndTyped DEF TypeOK
<1>5. Created' /\ OneOpenAttempt' /\ DispatchInOrder'
    BY DEF Created, OneOpenAttempt, DispatchInOrder
<1>6. ConsumedBeforeExpiry'
  <2>1. \A u \in Steps, e \in Delegations :
            delegation[u][e] = "CONSUMED" => valid_until'[u][e] = valid_until[u][e]
      BY DEF TypeOK
  <2>. QED BY <1>3, <2>1 DEF ConsumedBeforeExpiry, TypeOK
<1>7. OneActiveDelegation'
  <2>1. \A e \in Delegations : delegation'[s][e] = "ACTIVE" => e = d
      BY DEF TypeOK, ExpireStale, Fresh, Active
  <2>2. \A u \in Steps \ {s} : delegation'[u] = delegation[u]
      BY DEF TypeOK
  <2>. QED BY <2>1, <2>2 DEF OneActiveDelegation, Active
<1>. QED BY <1>4, <1>5, <1>6, <1>7

(* revoke_active_delegations *)
LEMMA RevokeStep ==
    ASSUME IInv, NEW t \in Txs, revoke_active_delegations(t)
    PROVE  IInv'
<1>. USE DEF revoke_active_delegations, attemptVars, IInv
<1>0. alvo[t] \in Steps
    BY DEF TypeOK
<1>1. delegation' \in [Steps -> [Delegations -> DelegationStates]]
    BY <1>0 DEF TypeOK, DelegationStates
<1>2. \A u \in Steps, e \in Delegations :
          /\ delegation'[u][e] = "CONSUMED" <=> delegation[u][e] = "CONSUMED"
          /\ delegation'[u][e] = "ACTIVE" => delegation[u][e] = "ACTIVE"
    BY <1>0 DEF TypeOK
<1>3. TypeOK'
    BY <1>1, <1>2, EndTyped DEF TypeOK
<1>4. Created' /\ OneOpenAttempt' /\ DispatchInOrder'
    BY DEF Created, OneOpenAttempt, DispatchInOrder
<1>5. ConsumedBeforeExpiry'
    BY <1>2 DEF ConsumedBeforeExpiry
<1>6. OneActiveDelegation'
    BY <1>2 DEF OneActiveDelegation, Active
<1>. QED BY <1>3, <1>4, <1>5, <1>6

(* consume_delegation: one delegation that is valid at now() is consumed. *)
LEMMA Consumed ==
    ASSUME IInv, NEW t \in Txs, NEW s \in Steps, NEW n \in Attempts,
           consume_delegation(t, s, n)
    PROVE  /\ delegation' \in [Steps -> [Delegations -> DelegationStates]]
           /\ valid_until' \in [Steps -> [Delegations -> 0 .. MaxClock + 1]]
           /\ consumed_at' \in [Steps -> [Delegations -> Times]]
           /\ consumed_by' \in [Steps -> [Delegations -> Attempts \cup {NoAttempt}]]
           /\ \A u \in Steps, e \in Delegations :
                  consumed_by'[u][e] # NoAttempt <=> delegation'[u][e] = "CONSUMED"
           /\ ConsumedBeforeExpiry'
           /\ OneActiveDelegation'
<1>1. PICK d \in Fresh(t, s) :
          /\ delegation' = [delegation EXCEPT ![s] =
                 [e \in Delegations |-> IF e = d THEN "CONSUMED" ELSE ExpireStale(t, s, e)]]
          /\ consumed_at' = [consumed_at EXCEPT ![s][d] = now[t]]
          /\ consumed_by' = [consumed_by EXCEPT ![s][d] = n]
          /\ UNCHANGED valid_until
    BY DEF consume_delegation
<1>2. d \in Delegations /\ valid_until[s][d] > now[t]
    BY <1>1 DEF Fresh, Active
<1>. USE <1>1, <1>2 DEF IInv
<1>3. delegation' \in [Steps -> [Delegations -> DelegationStates]]
    BY DEF TypeOK, ExpireStale, DelegationStates
<1>4. /\ valid_until' \in [Steps -> [Delegations -> 0 .. MaxClock + 1]]
      /\ consumed_at' \in [Steps -> [Delegations -> Times]]
      /\ consumed_by' \in [Steps -> [Delegations -> Attempts \cup {NoAttempt}]]
    BY DEF TypeOK
<1>5. \A u \in Steps, e \in Delegations :
          delegation'[u][e] = "CONSUMED" <=>
              delegation[u][e] = "CONSUMED" \/ (u = s /\ e = d)
    BY DEF TypeOK, ExpireStale, Fresh, Active
<1>6. \A u \in Steps, e \in Delegations :
          /\ consumed_by'[u][e] = IF u = s /\ e = d THEN n ELSE consumed_by[u][e]
          /\ consumed_at'[u][e] = IF u = s /\ e = d THEN now[t] ELSE consumed_at[u][e]
    BY DEF TypeOK
<1>7. \A u \in Steps, e \in Delegations :
          consumed_by'[u][e] # NoAttempt <=> delegation'[u][e] = "CONSUMED"
    BY <1>5, <1>6, Numbers DEF TypeOK
<1>8. ConsumedBeforeExpiry'
    BY <1>5, <1>6 DEF ConsumedBeforeExpiry
<1>9. OneActiveDelegation'
  <2>1. \A u \in Steps, e \in Delegations :
            delegation'[u][e] = "ACTIVE" => delegation[u][e] = "ACTIVE"
      BY DEF TypeOK, ExpireStale
  <2>. QED BY <2>1 DEF OneActiveDelegation, Active
<1>. QED BY <1>3, <1>4, <1>7, <1>8, <1>9

(* export_step *)
LEMMA ExportStep ==
    ASSUME IInv, NEW t \in Txs, NEW s \in Steps, export_step(t, s)
    PROVE  IInv'
<1>1. PICK n \in Attempts :
          /\ IsNextAttempt(s, n)
          /\ create_attempt(t, s, n)
          /\ consume_delegation(t, s, n) \/ UNCHANGED delegationVars
    BY DEF export_step
<1>2. /\ attempt' \in [Steps -> [Attempts -> AttemptStates]]
      /\ created_at' \in [Steps -> [Attempts -> Times]]
      /\ UNCHANGED <<provider, observed>>
      /\ OneOpenAttempt'
    BY <1>1, AttemptCreated DEF export_step, Preflight, IInv
<1>3. /\ delegation' \in [Steps -> [Delegations -> DelegationStates]]
      /\ valid_until' \in [Steps -> [Delegations -> 0 .. MaxClock + 1]]
      /\ consumed_at' \in [Steps -> [Delegations -> Times]]
      /\ consumed_by' \in [Steps -> [Delegations -> Attempts \cup {NoAttempt}]]
      /\ \A u \in Steps, e \in Delegations :
             consumed_by'[u][e] # NoAttempt <=> delegation'[u][e] = "CONSUMED"
      /\ ConsumedBeforeExpiry'
      /\ OneActiveDelegation'
  <2>1. CASE consume_delegation(t, s, n)
      BY <2>1, Consumed
  <2>2. CASE UNCHANGED delegationVars
      BY <2>2 DEF delegationVars, IInv, TypeOK, ConsumedBeforeExpiry, OneActiveDelegation, Active
  <2>. QED BY <1>1, <2>1, <2>2
<1>4. step' \in [Steps -> StepStates] /\ UNCHANGED <<schedule, clock>>
    BY DEF export_step, IInv, TypeOK, StepStates
<1>5. TypeOK'
    BY <1>2, <1>3, <1>4, EndTyped DEF export_step, IInv, TypeOK
<1>6. Created'
    BY DEF export_step, Preflight, Created
<1>7. DispatchInOrder'
    BY Numbers DEF export_step, Preflight, NoUnreturnedPredecessors, DispatchInOrder, IInv, TypeOK
<1>. QED BY <1>2, <1>3, <1>5, <1>6, <1>7 DEF IInv

(* register_block: the pause, and the delegations that were stale. *)
LEMMA BlockStep ==
    ASSUME IInv, NEW t \in Txs, NEW s \in Steps, register_block(t, s)
    PROVE  IInv'
<1>. USE DEF register_block, attemptVars, set_schedule_state, IInv
<1>1. delegation' \in [Steps -> [Delegations -> DelegationStates]]
    BY DEF TypeOK, ExpireStale, DelegationStates
<1>2. \A u \in Steps, e \in Delegations :
          /\ delegation'[u][e] = "CONSUMED" <=> delegation[u][e] = "CONSUMED"
          /\ delegation'[u][e] = "ACTIVE" => delegation[u][e] = "ACTIVE"
    BY DEF TypeOK, ExpireStale, Fresh, Active
<1>3. TypeOK'
    BY <1>1, <1>2, EndTyped DEF TypeOK, ScheduleStates
<1>4. Created' /\ OneOpenAttempt' /\ DispatchInOrder'
    BY DEF Created, OneOpenAttempt, DispatchInOrder
<1>5. ConsumedBeforeExpiry'
    BY <1>2 DEF ConsumedBeforeExpiry
<1>6. OneActiveDelegation'
    BY <1>2 DEF OneActiveDelegation, Active
<1>. QED BY <1>3, <1>4, <1>5, <1>6

(* import_return *)
LEMMA ImportStep ==
    ASSUME IInv, NEW t \in Txs, NEW s \in Steps, NEW n \in Attempts,
           NEW p \in Providers, NEW accepted \in BOOLEAN,
           import_return(t, s, n, p, accepted)
    PROVE  IInv'
<1>. DEFINE closed == IF accepted THEN "CLOSED_OK" ELSE "CLOSED_REJECTED"
<1>1. /\ attempt' = [attempt EXCEPT ![s] = [attempt[s] EXCEPT ![n] = closed]]
      /\ closed \in AttemptStates /\ closed # "OPEN"
    BY DEF import_return, IInv, TypeOK, AttemptStates
<1>2. attempt' \in [Steps -> [Attempts -> AttemptStates]]
    BY <1>1 DEF IInv, TypeOK
<1>3. provider' \in [Steps -> [Attempts -> Providers \cup {Unattributed}]]
    BY DEF import_return, IInv, TypeOK
<1>4. observed' \subseteq Steps \X Attempts \X Attempts
    BY DEF import_return, observar_troca_de_provedor, LastAttributionBefore, IInv, TypeOK
<1>5. /\ step' \in [Steps -> StepStates]
      /\ \A u \in Steps : step'[u] = step[u] \/ (u = s /\ step'[u] = "RETURNED")
    BY DEF import_return, IInv, TypeOK, StepStates
<1>6. schedule' \in ScheduleStates /\ schedule' # "ABSENT"
  <2>1. schedule # "ABSENT"
      BY DEF import_return, IInv, Created
  <2>. QED BY <2>1 DEF import_return, complete_if_all_returned, set_schedule_state,
                       IInv, TypeOK, ScheduleStates
<1>7. TypeOK'
    BY <1>2, <1>3, <1>4, <1>5, <1>6, EndTyped DEF import_return, delegationVars, IInv, TypeOK
<1>8. Created'
    BY <1>6 DEF Created
<1>9. OneOpenAttempt'
    BY <1>1 DEF OneOpenAttempt, IInv, TypeOK
<1>10. DispatchInOrder'
    BY <1>5 DEF import_return, DispatchInOrder, IInv, TypeOK
<1>11. ConsumedBeforeExpiry' /\ OneActiveDelegation'
    BY DEF import_return, delegationVars, ConsumedBeforeExpiry, OneActiveDelegation, Active, IInv
<1>. QED BY <1>7, <1>8, <1>9, <1>10, <1>11 DEF IInv

(* ControlService.apply *)
LEMMA ApplyStep ==
    ASSUME IInv, NEW t \in Txs, NEW action \in Actions, apply(t, action)
    PROVE  IInv'
<1>. USE DEF apply, IInv
<1>1. Destino(action) \in ScheduleStates \ {"ABSENT"}
    BY DEF Actions, Destino, ScheduleStates
<1>2. /\ step' \in [Steps -> StepStates]
      /\ attempt' \in [Steps -> [Attempts -> AttemptStates]]
    BY DEF cancelar_conteudo, TypeOK, StepStates, AttemptStates
<1>3. /\ \A s \in Steps : step'[s] = step[s] \/ (step[s] # "RETURNED" /\ step'[s] = "CANCELLED")
      /\ \A s \in Steps, n \in Attempts : attempt'[s][n] = "OPEN" => attempt[s][n] = "OPEN"
  <2>1. CASE action = "cancel"
    <3>1. cancelar_conteudo
        BY <2>1
    <3>2. ASSUME NEW s \in Steps
          PROVE  step'[s] = step[s] \/ (step[s] # "RETURNED" /\ step'[s] = "CANCELLED")
        BY <3>1 DEF cancelar_conteudo
    <3>3. ASSUME NEW s \in Steps, NEW n \in Attempts, attempt'[s][n] = "OPEN"
          PROVE  attempt[s][n] = "OPEN"
        BY <3>1, <3>3 DEF cancelar_conteudo
    <3>. QED BY <3>2, <3>3
  <2>2. CASE action # "cancel"
    <3>1. UNCHANGED <<step, attempt>>
        BY <2>2
    <3>. QED BY <3>1
  <2>. QED BY <2>1, <2>2
<1>4. TypeOK'
    BY <1>1, <1>2, EndTyped DEF set_schedule_state, delegationVars, TypeOK
<1>5. Created'
    BY <1>1 DEF set_schedule_state, Created
<1>6. OneOpenAttempt'
    BY <1>3 DEF OneOpenAttempt
<1>7. DispatchInOrder'
    BY <1>3 DEF DispatchInOrder
<1>8. ConsumedBeforeExpiry' /\ OneActiveDelegation'
    BY DEF delegationVars, ConsumedBeforeExpiry, OneActiveDelegation, Active
<1>. QED BY <1>4, <1>5, <1>6, <1>7, <1>8

(* Every step preserves the inductive invariant. *)
LEMMA NextIInv == IInv /\ [Next]_vars => IInv'
<1> SUFFICES ASSUME IInv, [Next]_vars PROVE IInv'
    OBVIOUS
<1>1. CASE UNCHANGED vars
    BY <1>1, RowsUnchanged DEF vars, attemptVars, delegationVars, IInv, TypeOK
<1>2. CASE Tick
  <2>1. CASE Txs = {}
      BY <1>2, RowsUnchanged, BoundAssumption DEF Tick, txVars, IInv, TypeOK, Times
  <2>2. CASE Txs # {}
      BY <1>2, <2>2, QuietSteps
  <2>. QED BY <2>1, <2>2
<1>3. ASSUME NEW t \in Txs, Begin(t) \/ Rollback(t) \/ Command(t) PROVE IInv'
    BY <1>3, QuietSteps, CreateStep, SealStep, GrantStep, RevokeStep, ExportStep, BlockStep,
       ImportStep, ApplyStep DEF Command, Import, Grant
<1>. QED BY <1>1, <1>2, <1>3 DEF Next

(* The rows of the orchestration keep their types and the consumption        *)
(* columns their coherence, for any number of sessions and steps.            *)
THEOREM HandoffTyped == Spec => []TypeOK
<1>1. IInv => TypeOK
    BY DEF IInv
<1>. QED BY <1>1, InitIInv, NextIInv, PTL DEF Spec

(* At most one OPEN attempt per step, sealing without a lock included.       *)
THEOREM SingleOpenAttempt == Spec => []OneOpenAttempt
<1>1. IInv => OneOpenAttempt
    BY DEF IInv
<1>. QED BY <1>1, InitIInv, NextIInv, PTL DEF Spec

(* Steps are exported in the order of their positions.                       *)
THEOREM SequentialDispatch == Spec => []DispatchInOrder
<1>1. IInv => DispatchInOrder
    BY DEF IInv
<1>. QED BY <1>1, InitIInv, NextIInv, PTL DEF Spec

(* A delegation is consumed before it expires by its own stamps.             *)
THEOREM DelegationInTime == Spec => []ConsumedBeforeExpiry
<1>1. IInv => ConsumedBeforeExpiry
    BY DEF IInv
<1>. QED BY <1>1, InitIInv, NextIInv, PTL DEF Spec

(* At most one delegation of a step is ACTIVE.                               *)
THEOREM SingleActiveDelegation == Spec => []OneActiveDelegation
<1>1. IInv => OneActiveDelegation
    BY DEF IInv
<1>. QED BY <1>1, InitIInv, NextIInv, PTL DEF Spec

(* What was decided stays decided in every step of every command. *)
LEMMA TerminalKept == IInv /\ [Next]_vars => KeepsTerminalStates
<1> SUFFICES ASSUME IInv, [Next]_vars PROVE KeepsTerminalStates
    OBVIOUS
<1>. USE DEF IInv
<1>1. CASE UNCHANGED <<schedule, step, attempt, delegation>>
    BY <1>1 DEF KeepsTerminalStates
<1>2. ASSUME NEW t \in Txs, criar_schedule(t) PROVE KeepsTerminalStates
    BY <1>2 DEF criar_schedule, attemptVars, delegationVars, Created, KeepsTerminalStates
<1>3. ASSUME NEW t \in Txs, seal_commit(t) PROVE KeepsTerminalStates
  <2>1. PICK n \in Attempts : IsNextAttempt(alvo[t], n) /\ create_attempt(t, alvo[t], n)
      BY <1>3 DEF seal_commit
  <2>2. \A u \in Steps, m \in Attempts :
            attempt[u][m] \notin {"ABSENT", "OPEN"} => attempt'[u][m] = attempt[u][m]
      BY <2>1, Numbers DEF IsNextAttempt, Existing, create_attempt, TypeOK, Attempts
  <2>. QED BY <1>3, <2>2 DEF seal_commit, delegationVars, KeepsTerminalStates
<1>4. ASSUME NEW t \in Txs, NEW s \in Steps, NEW d \in Delegations,
             NEW until \in 1 .. MaxClock + 1, grant(t, s, d, until)
      PROVE  KeepsTerminalStates
  <2>1. \A u \in Steps, e \in Delegations :
            delegation[u][e] \notin {"ABSENT", "ACTIVE"} => delegation'[u][e] = delegation[u][e]
      BY <1>4 DEF grant, ExpireStale, Fresh, Active, TypeOK
  <2>. QED BY <1>4, <2>1 DEF grant, attemptVars, KeepsTerminalStates
<1>5. ASSUME NEW t \in Txs, revoke_active_delegations(t) PROVE KeepsTerminalStates
  <2>1. \A u \in Steps, e \in Delegations :
            delegation[u][e] \notin {"ABSENT", "ACTIVE"} => delegation'[u][e] = delegation[u][e]
      BY <1>5 DEF revoke_active_delegations, TypeOK
  <2>. QED BY <1>5, <2>1 DEF revoke_active_delegations, attemptVars, KeepsTerminalStates
<1>6. ASSUME NEW t \in Txs, NEW s \in Steps, export_step(t, s) PROVE KeepsTerminalStates
  <2>1. PICK n \in Attempts :
            /\ IsNextAttempt(s, n)
            /\ create_attempt(t, s, n)
            /\ consume_delegation(t, s, n) \/ UNCHANGED delegationVars
      BY <1>6 DEF export_step
  <2>2. \A u \in Steps, m \in Attempts :
            attempt[u][m] \notin {"ABSENT", "OPEN"} => attempt'[u][m] = attempt[u][m]
      BY <2>1, Numbers DEF IsNextAttempt, Existing, create_attempt, TypeOK, Attempts
  <2>3. \A u \in Steps, e \in Delegations :
            delegation[u][e] \notin {"ABSENT", "ACTIVE"} => delegation'[u][e] = delegation[u][e]
    <3>1. CASE UNCHANGED delegationVars
        BY <3>1 DEF delegationVars
    <3>2. CASE consume_delegation(t, s, n)
      <4>1. PICK d \in Fresh(t, s) : delegation' = [delegation EXCEPT ![s] =
                [e \in Delegations |-> IF e = d THEN "CONSUMED" ELSE ExpireStale(t, s, e)]]
          BY <3>2 DEF consume_delegation
      <4>. QED BY <4>1 DEF ExpireStale, Fresh, Active, TypeOK
    <3>. QED BY <2>1, <3>1, <3>2
  <2>4. \A u \in Steps : step[u] \in {"RETURNED", "CANCELLED"} => step'[u] = step[u]
      BY <1>6 DEF export_step, Preflight, TypeOK
  <2>. QED BY <1>6, <2>2, <2>3, <2>4 DEF export_step, KeepsTerminalStates
<1>7. ASSUME NEW t \in Txs, NEW s \in Steps, register_block(t, s) PROVE KeepsTerminalStates
  <2>1. \A u \in Steps, e \in Delegations :
            delegation[u][e] \notin {"ABSENT", "ACTIVE"} => delegation'[u][e] = delegation[u][e]
      BY <1>7 DEF register_block, ExpireStale, Fresh, Active, TypeOK
  <2>. QED BY <1>7, <2>1 DEF register_block, Preflight, set_schedule_state, attemptVars, KeepsTerminalStates
<1>8. ASSUME NEW t \in Txs, NEW s \in Steps, NEW n \in Attempts,
             NEW p \in Providers, NEW accepted \in BOOLEAN, import_return(t, s, n, p, accepted)
      PROVE  KeepsTerminalStates
  <2>1. \A u \in Steps, m \in Attempts :
            attempt[u][m] \notin {"ABSENT", "OPEN"} => attempt'[u][m] = attempt[u][m]
      BY <1>8 DEF import_return, TypeOK
  <2>2. \A u \in Steps : step[u] \in {"RETURNED", "CANCELLED"} => step'[u] = step[u]
      BY <1>8 DEF import_return, TypeOK
  <2>3. schedule \in {"COMPLETED", "CANCELLED", "STOPPED"} => schedule' = schedule
      BY <1>8 DEF import_return, complete_if_all_returned
  <2>. QED BY <1>8, <2>1, <2>2, <2>3 DEF import_return, delegationVars, KeepsTerminalStates
<1>9. ASSUME NEW t \in Txs, NEW action \in Actions, apply(t, action) PROVE KeepsTerminalStates
  <2>1. schedule \notin {"COMPLETED", "CANCELLED", "STOPPED"}
      BY <1>9 DEF apply, Transitions
  <2>2. \A u \in Steps : step[u] \in {"RETURNED", "CANCELLED"} => step'[u] = step[u]
      BY <1>9 DEF apply, cancelar_conteudo
  <2>3. \A u \in Steps, m \in Attempts :
            attempt[u][m] \notin {"ABSENT", "OPEN"} => attempt'[u][m] = attempt[u][m]
      BY <1>9 DEF apply, cancelar_conteudo
  <2>. QED BY <1>9, <2>1, <2>2, <2>3 DEF apply, delegationVars, KeepsTerminalStates
<1>10. ASSUME NEW t \in Txs, Begin(t) \/ Rollback(t) PROVE KeepsTerminalStates
    BY <1>10, <1>1 DEF Begin, Rollback, attemptVars, delegationVars
<1>11. ASSUME NEW t \in Txs, NEW s \in Steps, seal_step(t, s) \/ revoke(t, s)
       PROVE  KeepsTerminalStates
    BY <1>11, <1>1 DEF seal_step, revoke, attemptVars, delegationVars
<1>12. CASE Tick \/ UNCHANGED vars
    BY <1>12, <1>1 DEF Tick, vars, attemptVars, delegationVars
<1>13. ASSUME NEW t \in Txs, Command(t) PROVE KeepsTerminalStates
    BY <1>13, <1>2, <1>3, <1>4, <1>5, <1>6, <1>7, <1>8, <1>9, <1>11 DEF Command, Import, Grant
<1>. QED BY <1>10, <1>12, <1>13 DEF Next

(* Terminal does not regress: no step of any command reopens a finished      *)
(* Schedule, a returned or cancelled step, a closed attempt or a spent       *)
(* delegation (set_schedule_state, _cancelar_conteudo, consume_delegation).  *)
THEOREM TerminalStaysFinal == Spec => TerminalIsFinal
<1>1. Spec => []IInv
    BY InitIInv, NextIInv, PTL DEF Spec
<1>. QED BY <1>1, TerminalKept, PTL DEF Spec, TerminalIsFinal

-----------------------------------------------------------------------------
(* What steps, attempts and delegations owe each other.                       *)

(* The steps of a Schedule are all there. *)
StepsExist == schedule # "ABSENT" => \A s \in Steps : step[s] # "ABSENT"

(* Only steps that may be sealed on their own are being sealed. *)
SealingSealed == \A t \in Txs : tx[t] = "sealing" => alvo[t] \in SealedSteps

(* An OPEN attempt is the last one of its step. *)
OpenIsLast ==
    \A s \in Steps, m, n \in Attempts :
        attempt[s][m] = "OPEN" /\ m < n => attempt[s][n] = "ABSENT"

(* What a delegation was consumed by exists. *)
ConsumersExist ==
    \A s \in Steps, d \in Delegations :
        consumed_by[s][d] # NoAttempt => consumed_by[s][d] \in Existing(s)

WorkInv ==
    /\ StepsExist
    /\ SealingSealed
    /\ OpenIsLast
    /\ ReturnedByLastAttempt
    /\ TerminalHasNoOpenWork
    /\ ConsumersExist
    /\ OneDelegationPerAttempt

LEMMA InitWork == Init => WorkInv
BY DEF Init, WorkInv, StepsExist, SealingSealed, OpenIsLast, ReturnedByLastAttempt,
       TerminalHasNoOpenWork, ConsumersExist, OneDelegationPerAttempt, Existing

(* Who is being sealed after a session ends was being sealed before. *)
LEMMA EndSealing ==
    ASSUME TypeOK, SealingSealed, NEW t \in Txs, End(t)
    PROVE  SealingSealed'
BY DEF TypeOK, SealingSealed, End

(* Steps that leave Schedule, steps, attempts and consumptions alone. *)
LEMMA WorkUnchanged ==
    ASSUME WorkInv, UNCHANGED <<schedule, step, attempt, consumed_by>>, SealingSealed'
    PROVE  WorkInv'
<1>1. StepsExist' /\ OpenIsLast' /\ ReturnedByLastAttempt'
    BY DEF WorkInv, StepsExist, OpenIsLast, ReturnedByLastAttempt
<1>2. TerminalHasNoOpenWork'
    BY DEF WorkInv, TerminalHasNoOpenWork, NoOpenAttempt
<1>3. ConsumersExist' /\ OneDelegationPerAttempt'
    BY DEF WorkInv, ConsumersExist, OneDelegationPerAttempt, Existing
<1>. QED BY <1>1, <1>2, <1>3 DEF WorkInv

(* Time, sessions, unlocked reads, grants and revocations. *)
LEMMA QuietWork ==
    ASSUME IInv, WorkInv, NEW t \in Txs,
           \/ Tick \/ Begin(t) \/ Rollback(t)
           \/ \E s \in Steps : seal_step(t, s)
           \/ \E s \in Steps : revoke(t, s)
           \/ Grant(t) \/ revoke_active_delegations(t)
    PROVE  WorkInv'
<1>. USE DEF WorkInv, attemptVars, delegationVars
<1>1. CASE Tick
    BY <1>1, WorkUnchanged DEF Tick, txVars, SealingSealed
<1>2. CASE Begin(t)
    BY <1>2, WorkUnchanged DEF Begin, SealingSealed, IInv, TypeOK
<1>3. CASE Rollback(t)
    BY <1>3, WorkUnchanged, EndSealing DEF Rollback, IInv
<1>4. ASSUME NEW s \in Steps, seal_step(t, s) PROVE WorkInv'
    BY <1>4, WorkUnchanged DEF seal_step, SealingSealed, IInv, TypeOK
<1>5. ASSUME NEW s \in Steps, revoke(t, s) PROVE WorkInv'
    BY <1>5, WorkUnchanged DEF revoke, SealingSealed, IInv, TypeOK
<1>6. CASE Grant(t)
    BY <1>6, WorkUnchanged, EndSealing DEF Grant, grant, IInv
<1>7. CASE revoke_active_delegations(t)
    BY <1>7, WorkUnchanged, EndSealing DEF revoke_active_delegations, IInv
<1>. QED BY <1>1, <1>2, <1>3, <1>4, <1>5, <1>6, <1>7

(* criar_schedule *)
LEMMA CreateWork ==
    ASSUME IInv, WorkInv, NEW t \in Txs, criar_schedule(t)
    PROVE  WorkInv'
<1>. USE DEF criar_schedule, attemptVars, delegationVars, WorkInv
<1>1. StepsExist' /\ SealingSealed'
    BY EndSealing DEF StepsExist, IInv
<1>2. OpenIsLast' /\ ConsumersExist' /\ OneDelegationPerAttempt'
    BY DEF OpenIsLast, ConsumersExist, OneDelegationPerAttempt, Existing
<1>3. ReturnedByLastAttempt'
    BY DEF ReturnedByLastAttempt, IInv, Created
<1>4. TerminalHasNoOpenWork'
    BY DEF TerminalHasNoOpenWork
<1>. QED BY <1>1, <1>2, <1>3, <1>4

(* A new attempt is the last one and OPEN; the others stay. *)
LEMMA CreatedLast ==
    ASSUME TypeOK, OpenIsLast, NEW t \in Txs, NEW s \in Steps, NEW n \in Attempts,
           IsNextAttempt(s, n), NoOpenAttempt(s), create_attempt(t, s, n)
    PROVE  /\ attempt[s][n] = "ABSENT"
           /\ \A u \in Steps, m \in Attempts :
                  attempt'[u][m] = IF u = s /\ m = n THEN "OPEN" ELSE attempt[u][m]
           /\ \A m \in Attempts : n < m => attempt[s][m] = "ABSENT"
           /\ OpenIsLast'
<1>1. \A m \in Attempts : n <= m => attempt[s][m] = "ABSENT"
    BY Numbers DEF IsNextAttempt, Existing
<1>2. \A u \in Steps, m \in Attempts :
          attempt'[u][m] = IF u = s /\ m = n THEN "OPEN" ELSE attempt[u][m]
    BY DEF create_attempt, TypeOK
<1>3. OpenIsLast'
    BY <1>1, <1>2, Numbers DEF OpenIsLast, NoOpenAttempt
<1>4. attempt[s][n] = "ABSENT" /\ \A m \in Attempts : n < m => attempt[s][m] = "ABSENT"
    BY <1>1 DEF Attempts
<1>. QED BY <1>2, <1>3, <1>4

(* seal_commit *)
LEMMA SealWork ==
    ASSUME IInv, WorkInv, NEW t \in Txs, seal_commit(t)
    PROVE  WorkInv'
<1>. DEFINE s == alvo[t]
<1>1. PICK n \in Attempts : IsNextAttempt(s, n) /\ create_attempt(t, s, n)
    BY DEF seal_commit
<1>2. s \in Steps /\ s \in SealedSteps
    BY DEF seal_commit, IInv, TypeOK, WorkInv, SealingSealed
<1>3. /\ attempt[s][n] = "ABSENT"
      /\ \A u \in Steps, m \in Attempts :
             attempt'[u][m] = IF u = s /\ m = n THEN "OPEN" ELSE attempt[u][m]
      /\ OpenIsLast'
    BY <1>1, <1>2, CreatedLast DEF seal_commit, WorkInv, IInv
<1>4. UNCHANGED <<schedule, step, consumed_by>> /\ End(t)
    BY DEF seal_commit, delegationVars
<1>. HIDE DEF s
<1>. USE DEF WorkInv
<1>5. StepsExist' /\ SealingSealed'
    BY <1>4, EndSealing DEF StepsExist, IInv
<1>6. ReturnedByLastAttempt'
    BY <1>2, <1>3, <1>4 DEF ReturnedByLastAttempt
<1>7. TerminalHasNoOpenWork'
    BY <1>2, <1>3, <1>4 DEF TerminalHasNoOpenWork, NoOpenAttempt
<1>8. ConsumersExist'
  <2>1. \A u \in Steps : Existing(u) \subseteq Existing(u)'
      BY <1>3 DEF Existing
  <2>. QED BY <1>4, <2>1 DEF ConsumersExist
<1>9. OneDelegationPerAttempt'
    BY <1>2, <1>3, <1>4 DEF OneDelegationPerAttempt, Existing
<1>. QED BY <1>3, <1>5, <1>6, <1>7, <1>8, <1>9

(* An attempt of a step behind a delegation gate is paid. *)
LEMMA Paid ==
    ASSUME IInv, WorkInv, NEW t \in Txs, NEW s \in Steps, NEW n \in Attempts,
           attempt[s][n] = "ABSENT", consume_delegation(t, s, n)
    PROVE  \E d \in Delegations :
               /\ consumed_by[s][d] = NoAttempt
               /\ \A u \in Steps, e \in Delegations :
                      consumed_by'[u][e] = IF u = s /\ e = d THEN n ELSE consumed_by[u][e]
               /\ \A e \in Delegations : consumed_by[s][e] # n
<1>1. PICK d \in Fresh(t, s) : consumed_by' = [consumed_by EXCEPT ![s][d] = n]
    BY DEF consume_delegation
<1>2. d \in Delegations /\ delegation[s][d] = "ACTIVE"
    BY <1>1 DEF Fresh, Active
<1>3. consumed_by[s][d] = NoAttempt
    BY <1>2 DEF IInv, TypeOK
<1>4. \A u \in Steps, e \in Delegations :
          consumed_by'[u][e] = IF u = s /\ e = d THEN n ELSE consumed_by[u][e]
    BY <1>1, <1>2 DEF IInv, TypeOK
<1>5. \A e \in Delegations : consumed_by[s][e] # n
    BY Numbers DEF WorkInv, ConsumersExist, Existing
<1>. QED BY <1>2, <1>3, <1>4, <1>5

(* export_step *)
LEMMA ExportWork ==
    ASSUME IInv, WorkInv, NEW t \in Txs, NEW s \in Steps, export_step(t, s)
    PROVE  WorkInv'
<1>1. PICK n \in Attempts :
          /\ IsNextAttempt(s, n)
          /\ create_attempt(t, s, n)
          /\ IF Gate[s] = "delegation" THEN consume_delegation(t, s, n)
             ELSE UNCHANGED delegationVars
    BY DEF export_step
<1>2. /\ attempt[s][n] = "ABSENT"
      /\ \A u \in Steps, m \in Attempts :
             attempt'[u][m] = IF u = s /\ m = n THEN "OPEN" ELSE attempt[u][m]
      /\ OpenIsLast'
    BY <1>1, CreatedLast DEF export_step, Preflight, WorkInv, IInv
<1>3. /\ schedule = "ACTIVE" /\ schedule' = "ACTIVE" /\ End(t)
      /\ step[s] \in {"PENDING", "AWAITING_RETURN"}
      /\ \A u \in Steps : step'[u] = IF u = s THEN "AWAITING_RETURN" ELSE step[u]
      /\ Gate[s] # "human"
    BY DEF export_step, Preflight, Blocked, IInv, TypeOK
<1>. USE DEF WorkInv
<1>4. StepsExist' /\ SealingSealed'
    BY <1>3, EndSealing DEF StepsExist, IInv
<1>5. ReturnedByLastAttempt'
  <2>1. \A m \in Attempts : attempt[s][m] # "CLOSED_OK"
      BY <1>3 DEF ReturnedByLastAttempt
  <2>. QED BY <1>2, <1>3, <2>1 DEF ReturnedByLastAttempt
<1>6. TerminalHasNoOpenWork'
    BY <1>3 DEF TerminalHasNoOpenWork
<1>7. ConsumersExist' /\ OneDelegationPerAttempt'
  <2>1. CASE Gate[s] = "delegation"
    <3>1. PICK d \in Delegations :
              /\ consumed_by[s][d] = NoAttempt
              /\ \A u \in Steps, e \in Delegations :
                     consumed_by'[u][e] = IF u = s /\ e = d THEN n ELSE consumed_by[u][e]
              /\ \A e \in Delegations : consumed_by[s][e] # n
        BY <1>1, <1>2, <2>1, Paid
    <3>2. \A u \in Steps : Existing(u)' = IF u = s THEN Existing(u) \cup {n} ELSE Existing(u)
        BY <1>2 DEF Existing
    <3>3. ConsumersExist'
        BY <3>1, <3>2 DEF ConsumersExist
    <3>4. OneDelegationPerAttempt'
      <4> SUFFICES ASSUME NEW u \in Steps \ SealedSteps, Gate[u] = "delegation",
                          NEW m \in Existing(u)'
                   PROVE  \E c \in Delegations :
                              /\ consumed_by'[u][c] = m
                              /\ \A e \in Delegations : consumed_by'[u][e] = m => e = c
          BY <1>3, <3>2 DEF OneDelegationPerAttempt
      <4>1. CASE u = s /\ m = n
          BY <3>1, <4>1
      <4>2. CASE ~ (u = s /\ m = n)
        <5>1. m \in Existing(u)
            BY <3>2, <4>2
        <5>2. PICK c \in Delegations :
                  /\ consumed_by[u][c] = m
                  /\ \A e \in Delegations : consumed_by[u][e] = m => e = c
            BY <5>1 DEF OneDelegationPerAttempt
        <5>3. m # NoAttempt
            BY <5>1, Numbers DEF Existing
        <5>. QED BY <3>1, <4>2, <5>2, <5>3
      <4>. QED BY <4>1, <4>2
    <3>. QED BY <3>3, <3>4
  <2>2. CASE Gate[s] # "delegation"
    <3>1. consumed_by' = consumed_by
        BY <1>1, <2>2 DEF delegationVars
    <3>2. \A u \in Steps : Existing(u)' = IF u = s THEN Existing(u) \cup {n} ELSE Existing(u)
        BY <1>2 DEF Existing
    <3>3. ConsumersExist'
        BY <3>1, <3>2 DEF ConsumersExist
    <3>4. OneDelegationPerAttempt'
        BY <1>3, <2>2, <3>1, <3>2 DEF OneDelegationPerAttempt
    <3>. QED BY <3>3, <3>4
  <2>. QED BY <2>1, <2>2
<1>. QED BY <1>2, <1>4, <1>5, <1>6, <1>7

(* register_block: a pause asks nothing of steps and attempts. *)
LEMMA BlockWork ==
    ASSUME IInv, WorkInv, NEW t \in Txs, NEW s \in Steps, register_block(t, s)
    PROVE  WorkInv'
<1>. USE DEF register_block, attemptVars, WorkInv
<1>1. StepsExist' /\ SealingSealed'
    BY EndSealing DEF Preflight, StepsExist, IInv
<1>2. OpenIsLast' /\ ReturnedByLastAttempt'
    BY DEF OpenIsLast, ReturnedByLastAttempt
<1>3. TerminalHasNoOpenWork'
    BY DEF set_schedule_state, TerminalHasNoOpenWork
<1>4. ConsumersExist' /\ OneDelegationPerAttempt'
    BY DEF ConsumersExist, OneDelegationPerAttempt, Existing
<1>. QED BY <1>1, <1>2, <1>3, <1>4

(* A returned step that is never sealed has nothing OPEN. *)
LEMMA ReturnedIsClosed ==
    ASSUME IInv, WorkInv, NEW s \in Steps \ SealedSteps, step[s] = "RETURNED"
    PROVE  NoOpenAttempt(s)
<1>1. PICK n \in Attempts : attempt[s][n] = "CLOSED_OK"
    BY DEF WorkInv, ReturnedByLastAttempt
<1> SUFFICES ASSUME NEW m \in Attempts, attempt[s][m] = "OPEN" PROVE FALSE
    BY DEF NoOpenAttempt
<1>2. CASE m < n
    BY <1>1, <1>2 DEF WorkInv, OpenIsLast
<1>3. CASE n < m
    BY <1>1, <1>3 DEF WorkInv, ReturnedByLastAttempt
<1>. QED BY <1>1, <1>2, <1>3, Numbers

(* import_return *)
LEMMA ImportWork ==
    ASSUME IInv, WorkInv, NEW t \in Txs, NEW s \in Steps, NEW n \in Attempts,
           NEW p \in Providers, NEW accepted \in BOOLEAN,
           import_return(t, s, n, p, accepted)
    PROVE  WorkInv'
<1>. DEFINE closed == IF accepted THEN "CLOSED_OK" ELSE "CLOSED_REJECTED"
<1>1. /\ attempt[s][n] = "OPEN" /\ step[s] = "AWAITING_RETURN"
      /\ \A u \in Steps, m \in Attempts :
             attempt'[u][m] = IF u = s /\ m = n THEN closed ELSE attempt[u][m]
      /\ \A u \in Steps :
             step'[u] = IF accepted /\ u = s THEN "RETURNED" ELSE step[u]
      /\ consumed_by' = consumed_by /\ End(t)
    BY DEF import_return, delegationVars, IInv, TypeOK
<1>2. schedule \notin {"ABSENT", "COMPLETED", "CANCELLED"}
    BY <1>1 DEF IInv, Created, WorkInv, TerminalHasNoOpenWork
<1>3. \A m \in Attempts : attempt[s][m] # "CLOSED_OK"
    BY <1>1 DEF WorkInv, ReturnedByLastAttempt
<1>4. \A u \in Steps : Existing(u)' = Existing(u)
    BY <1>1 DEF Existing
<1>. USE DEF WorkInv
<1>5. StepsExist' /\ SealingSealed'
    BY <1>1, <1>2, EndSealing DEF StepsExist, IInv
<1>6. OpenIsLast'
    BY <1>1 DEF OpenIsLast
<1>7. ReturnedByLastAttempt'
  <2>1. \A u \in Steps : step'[u] = "RETURNED" <=>
                             \E m \in Attempts : attempt'[u][m] = "CLOSED_OK"
      BY <1>1, <1>3 DEF ReturnedByLastAttempt
  <2>2. ASSUME NEW u \in Steps, NEW m \in Attempts, NEW k \in Attempts,
               attempt'[u][m] = "CLOSED_OK", m < k
        PROVE  /\ attempt'[u][k] \notin {"CLOSED_OK", "CLOSED_REJECTED"}
               /\ u \notin SealedSteps => attempt'[u][k] = "ABSENT"
    <3>1. CASE u = s
      <4>1. m = n
          BY <1>1, <1>3, <2>2, <3>1
      <4>2. attempt[s][k] = "ABSENT"
          BY <1>1, <2>2, <4>1 DEF OpenIsLast
      <4>. QED BY <1>1, <2>2, <3>1, <4>1, <4>2
    <3>2. CASE u # s
        BY <1>1, <2>2, <3>2 DEF ReturnedByLastAttempt
    <3>. QED BY <3>1, <3>2
  <2>. QED BY <2>1, <2>2 DEF ReturnedByLastAttempt
<1>8. TerminalHasNoOpenWork'
  <2>1. CASE schedule' = schedule
      BY <1>2, <2>1 DEF TerminalHasNoOpenWork
  <2>2. CASE schedule' # schedule
    <3>1. accepted /\ schedule' = "COMPLETED" /\ \A r \in Steps \ {s} : step[r] = "RETURNED"
        BY <2>2 DEF import_return, complete_if_all_returned, set_schedule_state
    <3>2. \A u \in Steps : step'[u] = "RETURNED"
        BY <1>1, <3>1
    <3>3. ASSUME NEW u \in Steps \ SealedSteps PROVE NoOpenAttempt(u)'
      <4>1. CASE u = s
          BY <1>1, <4>1 DEF NoOpenAttempt, IInv, OneOpenAttempt
      <4>2. CASE u # s
          BY <1>1, <3>1, <4>2, ReturnedIsClosed DEF NoOpenAttempt
      <4>. QED BY <4>1, <4>2
    <3>. QED BY <3>1, <3>2, <3>3 DEF TerminalHasNoOpenWork
  <2>. QED BY <2>1, <2>2
<1>9. ConsumersExist' /\ OneDelegationPerAttempt'
    BY <1>1, <1>4 DEF ConsumersExist, OneDelegationPerAttempt
<1>. QED BY <1>5, <1>6, <1>7, <1>8, <1>9

(* What a control leaves of steps and attempts. *)
LEMMA Applied ==
    ASSUME NEW t \in Txs, NEW action \in Actions, apply(t, action)
    PROVE  /\ \A u \in Steps : \/ step'[u] = step[u]
                               \/ /\ step[u] \in {"PENDING", "AWAITING_RETURN"}
                                  /\ step'[u] = "CANCELLED"
           /\ \A u \in Steps, m \in Attempts :
                  \/ attempt'[u][m] = attempt[u][m]
                  \/ attempt[u][m] = "OPEN" /\ attempt'[u][m] = "CLOSED_CANCELLED"
           /\ schedule # "ABSENT" /\ schedule' # "ABSENT" /\ schedule' # "COMPLETED"
           /\ schedule' = "CANCELLED" => cancelar_conteudo
           /\ consumed_by' = consumed_by /\ End(t)
<1>1. /\ schedule # "ABSENT" /\ schedule' # "ABSENT" /\ schedule' # "COMPLETED"
      /\ schedule' = "CANCELLED" => action = "cancel"
    BY DEF apply, Transitions, Actions, Destino, set_schedule_state
<1>2. CASE action = "cancel"
  <2>1. cancelar_conteudo /\ consumed_by' = consumed_by /\ End(t)
      BY <1>2 DEF apply, delegationVars
  <2>2. ASSUME NEW u \in Steps
        PROVE  \/ step'[u] = step[u]
               \/ step[u] \in {"PENDING", "AWAITING_RETURN"} /\ step'[u] = "CANCELLED"
      BY <2>1 DEF cancelar_conteudo
  <2>3. ASSUME NEW u \in Steps, NEW m \in Attempts
        PROVE  \/ attempt'[u][m] = attempt[u][m]
               \/ attempt[u][m] = "OPEN" /\ attempt'[u][m] = "CLOSED_CANCELLED"
      BY <2>1 DEF cancelar_conteudo
  <2>. QED BY <1>1, <2>1, <2>2, <2>3
<1>3. CASE action # "cancel"
  <2>1. UNCHANGED <<step, attempt, consumed_by>> /\ End(t)
      BY <1>3 DEF apply, delegationVars
  <2>. QED BY <1>1, <1>3, <2>1
<1>. QED BY <1>2, <1>3

(* ControlService.apply *)
LEMMA ApplyWork ==
    ASSUME IInv, WorkInv, NEW t \in Txs, NEW action \in Actions, apply(t, action)
    PROVE  WorkInv'
<1>. USE Applied DEF WorkInv
<1>1. StepsExist' /\ SealingSealed'
    BY EndSealing DEF StepsExist, IInv
<1>2. OpenIsLast'
  <2>1. \A u \in Steps, m \in Attempts :
            /\ attempt'[u][m] = "OPEN" => attempt[u][m] = "OPEN"
            /\ attempt[u][m] = "ABSENT" => attempt'[u][m] = "ABSENT"
      OBVIOUS
  <2>. QED BY <2>1 DEF OpenIsLast
<1>3. ReturnedByLastAttempt'
  <2>1. \A u \in Steps : step'[u] = "RETURNED" <=> step[u] = "RETURNED"
      OBVIOUS
  <2>2. \A u \in Steps, m \in Attempts :
            /\ attempt'[u][m] = "CLOSED_OK" <=> attempt[u][m] = "CLOSED_OK"
            /\ attempt'[u][m] = "CLOSED_REJECTED" <=> attempt[u][m] = "CLOSED_REJECTED"
            /\ attempt[u][m] = "ABSENT" <=> attempt'[u][m] = "ABSENT"
      OBVIOUS
  <2>. QED BY <2>1, <2>2 DEF ReturnedByLastAttempt
<1>4. TerminalHasNoOpenWork'
  <2>1. CASE schedule' = "CANCELLED"
    <3>1. cancelar_conteudo
        BY <2>1
    <3>2. ASSUME NEW u \in Steps PROVE step'[u] \in {"RETURNED", "CANCELLED"}
        BY <3>1 DEF cancelar_conteudo, StepsExist, IInv, TypeOK, StepStates
    <3>3. ASSUME NEW u \in Steps PROVE NoOpenAttempt(u)'
        BY <3>1 DEF cancelar_conteudo, NoOpenAttempt
    <3>. QED BY <2>1, <3>2, <3>3 DEF TerminalHasNoOpenWork
  <2>2. CASE schedule' # "CANCELLED"
      BY <2>2 DEF TerminalHasNoOpenWork
  <2>. QED BY <2>1, <2>2
<1>5. ConsumersExist' /\ OneDelegationPerAttempt'
  <2>1. \A u \in Steps : Existing(u)' = Existing(u)
      BY DEF Existing
  <2>. QED BY <2>1 DEF ConsumersExist, OneDelegationPerAttempt
<1>. QED BY <1>1, <1>2, <1>3, <1>4, <1>5

(* Every step preserves it. *)
LEMMA NextWork == IInv /\ WorkInv /\ [Next]_vars => WorkInv'
<1> SUFFICES ASSUME IInv, WorkInv, [Next]_vars PROVE WorkInv'
    OBVIOUS
<1>1. CASE UNCHANGED vars
    BY <1>1, WorkUnchanged DEF vars, WorkInv, SealingSealed
<1>2. CASE Tick
    BY <1>2, WorkUnchanged DEF Tick, attemptVars, delegationVars, txVars, WorkInv, SealingSealed
<1>3. ASSUME NEW t \in Txs, Begin(t) \/ Rollback(t) \/ Command(t) PROVE WorkInv'
    BY <1>3, QuietWork, CreateWork, SealWork, ExportWork, BlockWork, ImportWork, ApplyWork
       DEF Command, Import
<1>. QED BY <1>1, <1>2, <1>3 DEF Next

LEMMA BothInv == Spec => [](IInv /\ WorkInv)
<1>. QED BY InitIInv, NextIInv, InitWork, NextWork, PTL DEF Spec

(* What travels between steps and attempts never splits, however exports,    *)
(* seals, imports and controls interleave: one OPEN attempt, one validated   *)
(* return, the last, in the order of the positions, and nothing left open by *)
(* a Schedule that ended (advance, complete_if_all_returned,                 *)
(* _cancelar_conteudo).                                                      *)
THEOREM ReturnsOnce == Spec => []OneReturnPerStep
<1>1. IInv /\ WorkInv => OneReturnPerStep
    BY DEF IInv, WorkInv, OneReturnPerStep
<1>. QED BY <1>1, BothInv, PTL

(* Every attempt behind a delegation gate is paid by one delegation, alone   *)
(* ACTIVE when it was consumed and not expired (consume_delegation).         *)
THEOREM DelegationsPaidOnce == Spec => []DelegationsSpentOnce
<1>1. IInv /\ WorkInv => DelegationsSpentOnce
    BY DEF IInv, WorkInv, DelegationsSpentOnce
<1>. QED BY <1>1, BothInv, PTL

-----------------------------------------------------------------------------
(* The rows beside the life of the Schedule. *)

(* Every step of the rows is a step of the life they record. *)
LEMMA RowsStep == [RowsNext]_rowVars => [Next]_vars
<1> SUFFICES ASSUME [RowsNext]_rowVars PROVE [Next]_vars
    OBVIOUS
<1>1. CASE UNCHANGED rowVars
    BY <1>1 DEF rowVars
<1>2. CASE Tick \/ \E t \in Txs : Unrecorded(t)
    BY <1>2 DEF Unrecorded, Next, Command
<1>3. ASSUME NEW t \in Txs, NEW s \in Steps, registerBlockWithEvent(t, s) PROVE Next
    BY <1>3 DEF registerBlockWithEvent, Next, Command
<1>4. ASSUME NEW t \in Txs, NEW action \in Actions, apply(t, action) PROVE Next
    BY <1>4 DEF Next, Command
<1>5. ASSUME NEW t \in Txs, NEW s \in Steps, NEW n \in Attempts, NEW p \in Providers,
             NEW accepted \in BOOLEAN, import_return(t, s, n, p, accepted)
      PROVE  Next
    BY <1>5 DEF Next, Command, Import
<1>6. ASSUME NEW t \in Txs, NEW s \in Steps, NEW n \in Attempts, NEW p \in Providers,
             NEW contract, NEW media_type, NEW content,
             importWithEvent(t, s, n, p, contract, media_type, content)
      PROVE  Next
    BY <1>6, <1>5 DEF importWithEvent
<1>. QED BY <1>1, <1>2, <1>3, <1>4, <1>6 DEF RowsNext, applyWithEvent

(* The rows record the life of Handoff: an event or a row beside the state   *)
(* lets no command do what Handoff does not (create_control_event).          *)
THEOREM RowsImplementHandoff == RowsSpec => Spec
<1>1. RowsInit => Init
    BY DEF RowsInit
<1>. QED BY <1>1, RowsStep, PTL DEF RowsSpec, Spec

-----------------------------------------------------------------------------
(* Control events. *)

Kinds == {"paused", "resumed", "stopped", "cancelled", "completed"}

(* The states in which an event of a kind can be written. *)
Before(kind) ==
    CASE kind \in {"paused", "completed"}   -> {"ACTIVE"}
      [] kind = "resumed"                   -> {"PAUSED"}
      [] kind \in {"stopped", "cancelled"}  -> {"ACTIVE", "PAUSED"}

Reasons == {"stop_condition_declared", "operator_requested", "human_gate_unavailable",
            "delegation_missing", "all_steps_returned"}
Event == [kind : Kinds, reason : Reasons, step : Steps \cup {NoStep}]

EventInv == control_events \in Seq(Event) /\ EventsTellState

(* What a command leaves in the table, and the state it goes with. *)
Recorded(kind) ==
    /\ schedule \in Before(kind) /\ schedule' = StateOf(kind)
    /\ \E recorded \in Event :
           recorded.kind = kind /\ control_events' = Append(control_events, recorded)

NotRecorded ==
    /\ control_events' = control_events
    /\ schedule' = schedule \/ (schedule = "ABSENT" /\ schedule' = "ACTIVE")

LEMMA CreateEvent ==
    ASSUME NEW kind \in Kinds, NEW reason \in Reasons, NEW s \in Steps \cup {NoStep},
           create_control_event(kind, reason, s),
           schedule \in Before(kind), schedule' = StateOf(kind)
    PROVE  Recorded(kind)
<1>. DEFINE recorded == [kind |-> kind, reason |-> reason, step |-> s]
<1>1. recorded \in Event /\ recorded.kind = kind
    BY DEF Event
<1>. QED BY <1>1 DEF Recorded, create_control_event

(* Every command records the move of the Schedule it makes, and no other. *)
LEMMA EveryMoveRecorded ==
    ASSUME IInv, RowsNext
    PROVE  NotRecorded \/ \E kind \in Kinds : Recorded(kind)
<1>1. CASE Tick /\ UNCHANGED control_events
    BY <1>1 DEF Tick, NotRecorded
<1>2. ASSUME NEW t \in Txs, Unrecorded(t), UNCHANGED control_events PROVE NotRecorded
    BY <1>2 DEF Unrecorded, Begin, Rollback, criar_schedule, seal_step, revoke, export_step,
                seal_commit, Grant, grant, revoke_active_delegations, NotRecorded
<1>3. ASSUME NEW t \in Txs, NEW s \in Steps, registerBlockWithEvent(t, s)
      PROVE  Recorded("paused")
  <2>1. schedule = "ACTIVE" /\ schedule' = "PAUSED"
      BY <1>3 DEF registerBlockWithEvent, register_block, Preflight, set_schedule_state
  <2>. QED BY <1>3, <2>1, CreateEvent
           DEF registerBlockWithEvent, Kinds, Reasons, Before, StateOf
<1>4. ASSUME NEW t \in Txs, NEW action \in Actions, NEW category,
             applyWithEvent(t, action, category)
      PROVE  Recorded(Evento(action))
  <2>1. Evento(action) \in Kinds /\ ReasonOf(action) \in Reasons
      BY DEF Actions, Evento, Kinds, ReasonOf, Reasons
  <2>2. <<schedule, Destino(action)>> \in Transitions /\ schedule' = Destino(action)
      BY <1>4 DEF applyWithEvent, apply, set_schedule_state
  <2>3. schedule \in Before(Evento(action)) /\ schedule' = StateOf(Evento(action))
      BY <2>2 DEF Actions, Evento, Destino, Transitions, Before, StateOf
  <2>. QED BY <1>4, <2>1, <2>3, CreateEvent DEF applyWithEvent
<1>5. ASSUME NEW t \in Txs, NEW s \in Steps, NEW n \in Attempts, NEW p \in Providers,
             NEW contract, NEW media_type, NEW content,
             importWithEvent(t, s, n, p, contract, media_type, content)
      PROVE  NotRecorded \/ Recorded("completed")
  <2>1. CASE schedule' = schedule
      BY <1>5, <2>1 DEF importWithEvent, NotRecorded
  <2>2. CASE schedule' # schedule
    <3>1. schedule = "ACTIVE" /\ schedule' = "COMPLETED"
        BY <1>5, <2>2 DEF importWithEvent, import_return, complete_if_all_returned,
                          set_schedule_state
    <3>. QED BY <1>5, <2>2, <3>1, CreateEvent DEF importWithEvent, Kinds, Reasons, Before, StateOf
  <2>. QED BY <2>1, <2>2
<1>6. \A action \in Actions : Evento(action) \in Kinds
    BY DEF Actions, Evento, Kinds
<1>7. "paused" \in Kinds /\ "completed" \in Kinds
    BY DEF Kinds
<1>. QED BY <1>1, <1>2, <1>3, <1>4, <1>5, <1>6, <1>7 DEF RowsNext

(* An event appended to a table that told the state keeps telling it. *)
LEMMA AppendTells ==
    ASSUME EventInv, NEW kind \in Kinds, Recorded(kind)
    PROVE  EventInv'
<1>1. PICK recorded \in Event :
          recorded.kind = kind /\ control_events' = Append(control_events, recorded)
    BY DEF Recorded
<1>. DEFINE n == Len(control_events)
<1>2. /\ n \in Nat /\ control_events' \in Seq(Event) /\ Len(control_events') = n + 1
      /\ control_events'[n + 1] = recorded
      /\ \A i \in 1 .. n : control_events'[i] = control_events[i]
    BY <1>1 DEF EventInv
<1>3. control_events' # <<>> /\ Last(control_events') = recorded
    BY <1>2 DEF Last
<1>4. schedule' = StateOf(Last(control_events').kind)
    BY <1>1, <1>3 DEF Recorded
<1>. DEFINE Pairs == {<<"paused", "resumed">>, <<"resumed", "paused">>}
                     \cup ({"paused", "resumed"} \X {"stopped", "cancelled"})
                     \cup {<<"resumed", "completed">>}
<1>5. ASSUME NEW i \in 1 .. Len(control_events') - 1
      PROVE  <<control_events'[i].kind, control_events'[i + 1].kind>> \in Pairs
  <2>1. CASE i < n
    <3>1. <<control_events[i].kind, control_events[i + 1].kind>> \in Pairs
        BY <1>2, <2>1 DEF EventInv, EventsTellState
    <3>. QED BY <1>2, <2>1, <3>1
  <2>2. CASE i = n
    <3>1. n >= 1 /\ control_events # <<>> /\ control_events[n] \in Event
        BY <1>2, <2>2 DEF EventInv
    <3>2. schedule = StateOf(control_events[n].kind) /\ control_events[n].kind \in Kinds
        BY <3>1 DEF EventInv, EventsTellState, Last, Event
    <3>3. <<control_events[n].kind, kind>> \in Pairs
        BY <3>2 DEF Recorded, Before, StateOf, Kinds
    <3>. QED BY <1>1, <1>2, <2>2, <3>1, <3>3
  <2>. QED BY <1>2, <2>1, <2>2
<1>. QED BY <1>2, <1>3, <1>4, <1>5 DEF EventInv, EventsTellState

LEMMA NextEvents == IInv /\ EventInv /\ [RowsNext]_rowVars => EventInv'
<1> SUFFICES ASSUME IInv, EventInv, [RowsNext]_rowVars PROVE EventInv'
    OBVIOUS
<1>1. CASE UNCHANGED rowVars
    BY <1>1 DEF rowVars, vars, EventInv, EventsTellState
<1>2. CASE NotRecorded
  <2>1. control_events # <<>> => Last(control_events).kind \in Kinds
    <3>1. control_events # <<>> => control_events[Len(control_events)] \in Event
        BY DEF EventInv
    <3>. QED BY <3>1 DEF Last, Event
  <2>2. control_events # <<>> => schedule # "ABSENT"
      BY <2>1 DEF EventInv, EventsTellState, StateOf, Kinds
  <2>. QED BY <1>2, <2>2 DEF NotRecorded, EventInv, EventsTellState
<1>3. ASSUME NEW kind \in Kinds, Recorded(kind) PROVE EventInv'
    BY <1>3, AppendTells
<1>. QED BY <1>1, <1>2, <1>3, EveryMoveRecorded

(* The last control event names the state of the Schedule, pauses and        *)
(* resumes alternate and nothing follows an end, for any number of sessions  *)
(* and events (ControlService.apply, register_block, import_return).         *)
THEOREM EventsTell == RowsSpec => []EventsTellState
<1>1. RowsInit => EventInv
    BY DEF RowsInit, Init, EventInv, EventsTellState
<1>2. RowsInit => IInv
    BY InitIInv DEF RowsInit
<1>3. IInv /\ [RowsNext]_rowVars => IInv'
    BY RowsStep, NextIInv
<1>4. EventInv => EventsTellState
    BY DEF EventInv
<1>. QED BY <1>1, <1>2, <1>3, <1>4, NextEvents, PTL DEF RowsSpec

-----------------------------------------------------------------------------
(* Triggers. *)

(* An attempt is attributed by what closes it; only attributed attempts are  *)
(* compared, and only what differs is observed.                              *)
AttributionInv ==
    /\ \A s \in Steps, n \in Attempts :
           provider[s][n] # Unattributed => attempt[s][n] \notin {"ABSENT", "OPEN"}
    /\ \A s \in Steps, m, n \in Attempts :
           <<s, m, n>> \in observed =>
               /\ m # n /\ provider[s][m] # provider[s][n]
               /\ provider[s][m] # Unattributed /\ provider[s][n] # Unattributed

(* How the rows of one step move in one transaction. *)
StepMoves ==
    \A s \in Steps : \/ step'[s] = step[s]
                     \/ step[s] = "ABSENT"
                     \/ <<step[s], step'[s]>> \in StepTransitions
AttemptMoves ==
    \A s \in Steps, n \in Attempts :
        \/ attempt'[s][n] = attempt[s][n]
        \/ attempt[s][n] = "ABSENT" /\ attempt'[s][n] = "OPEN"
        \/ <<attempt[s][n], attempt'[s][n]>> \in AttemptTransitions
AttributionMoves ==
    /\ \A s \in Steps, n \in Attempts :
           \/ provider'[s][n] = provider[s][n]
           \/ /\ attempt[s][n] = "OPEN" /\ attempt'[s][n] \in {"CLOSED_OK", "CLOSED_REJECTED"}
              /\ provider'[s][n] # Unattributed
    /\ observed \subseteq observed'
    /\ \A s \in Steps, m, n \in Attempts :
           <<s, m, n>> \in observed' \ observed =>
               /\ provider[s][m] # Unattributed /\ m # n
               /\ provider'[s][n] # Unattributed /\ provider'[s][n] # provider[s][m]
DelegationMoves ==
    \A s \in Steps, d \in Delegations :
        \/ /\ delegation'[s][d] = delegation[s][d] /\ valid_until'[s][d] = valid_until[s][d]
           /\ consumed_by'[s][d] = consumed_by[s][d]
        \/ delegation[s][d] = "ABSENT"
        \/ /\ delegation[s][d] = "ACTIVE" /\ valid_until'[s][d] = valid_until[s][d]
           /\ delegation'[s][d] \in {"CONSUMED", "REVOKED", "EXPIRED"}

Moves == StepMoves /\ AttemptMoves /\ AttributionMoves /\ DelegationMoves

LEMMA StepKept == step' = step => StepMoves
BY DEF StepMoves
LEMMA AttemptKept == attempt' = attempt => AttemptMoves
BY DEF AttemptMoves
LEMMA AttributionKept == UNCHANGED <<provider, observed>> => AttributionMoves
BY DEF AttributionMoves
LEMMA DelegationKept == UNCHANGED <<delegation, valid_until, consumed_by>> => DelegationMoves
BY DEF DelegationMoves

(* Creating an attempt opens an absent row. *)
LEMMA CreatedMoves ==
    ASSUME TypeOK, NEW t \in Txs, NEW s \in Steps, NEW n \in Attempts,
           IsNextAttempt(s, n), create_attempt(t, s, n)
    PROVE  AttemptMoves /\ AttributionMoves
<1>1. attempt[s][n] = "ABSENT"
    BY Numbers DEF IsNextAttempt, Existing
<1>2. \A u \in Steps, m \in Attempts :
          attempt'[u][m] = IF u = s /\ m = n THEN "OPEN" ELSE attempt[u][m]
    BY DEF create_attempt, TypeOK
<1>3. AttemptMoves
    BY <1>1, <1>2 DEF AttemptMoves
<1>4. AttributionMoves
    BY AttributionKept DEF create_attempt
<1>. QED BY <1>3, <1>4

(* The commands of DelegationService, and what a dispatch does to them. *)
LEMMA GrantMoves ==
    ASSUME TypeOK, NEW t \in Txs, NEW s \in Steps, NEW d \in Delegations,
           NEW until \in 1 .. MaxClock + 1, grant(t, s, d, until)
    PROVE  DelegationMoves
<1>1. ASSUME NEW u \in Steps, NEW e \in Delegations
      PROVE  /\ delegation'[u][e] = IF u # s THEN delegation[u][e]
                                    ELSE IF e = d THEN "ACTIVE"
                                    ELSE IF e \in Fresh(t, s) THEN "REVOKED"
                                    ELSE ExpireStale(t, s, e)
             /\ valid_until'[u][e] = IF u = s /\ e = d THEN until ELSE valid_until[u][e]
             /\ consumed_by'[u][e] = consumed_by[u][e]
    BY DEF grant, TypeOK
<1>2. delegation[s][d] = "ABSENT"
    BY DEF grant
<1>. QED BY <1>1, <1>2 DEF DelegationMoves, ExpireStale, Fresh, Active

LEMMA ConsumeMoves ==
    ASSUME TypeOK, NEW t \in Txs, NEW s \in Steps, NEW n \in Attempts,
           consume_delegation(t, s, n)
    PROVE  DelegationMoves
<1>1. PICK d \in Fresh(t, s) :
          /\ delegation' = [delegation EXCEPT ![s] =
                 [e \in Delegations |-> IF e = d THEN "CONSUMED" ELSE ExpireStale(t, s, e)]]
          /\ consumed_by' = [consumed_by EXCEPT ![s][d] = n]
          /\ UNCHANGED valid_until
    BY DEF consume_delegation
<1>2. ASSUME NEW u \in Steps, NEW e \in Delegations
      PROVE  /\ delegation'[u][e] = IF u # s THEN delegation[u][e]
                                    ELSE IF e = d THEN "CONSUMED" ELSE ExpireStale(t, s, e)
             /\ consumed_by'[u][e] = IF u = s /\ e = d THEN n ELSE consumed_by[u][e]
    BY <1>1 DEF TypeOK
<1>3. delegation[s][d] = "ACTIVE"
    BY <1>1 DEF Fresh, Active
<1>. QED BY <1>1, <1>2, <1>3 DEF DelegationMoves, ExpireStale, Fresh, Active

LEMMA BlockMoves ==
    ASSUME TypeOK, NEW t \in Txs, NEW s \in Steps, register_block(t, s)
    PROVE  DelegationMoves
<1>1. ASSUME NEW u \in Steps, NEW e \in Delegations
      PROVE  delegation'[u][e] = IF u # s \/ Gate[s] = "human" THEN delegation[u][e]
                                 ELSE ExpireStale(t, s, e)
    BY DEF register_block, TypeOK
<1>. QED BY <1>1 DEF register_block, DelegationMoves, ExpireStale, Fresh, Active

LEMMA RevokeMoves ==
    ASSUME TypeOK, NEW t \in Txs, revoke_active_delegations(t)
    PROVE  DelegationMoves
<1>1. \A u \in Steps, e \in Delegations :
          \/ delegation'[u][e] = delegation[u][e]
          \/ delegation[u][e] = "ACTIVE" /\ delegation'[u][e] = "REVOKED"
    BY DEF revoke_active_delegations, TypeOK
<1>. QED BY <1>1 DEF revoke_active_delegations, DelegationMoves

(* import_return: the verdict, its attribution and what it is compared with. *)
LEMMA ImportMoves ==
    ASSUME TypeOK, NEW t \in Txs, NEW s \in Steps, NEW n \in Attempts,
           NEW p \in Providers, NEW accepted \in BOOLEAN,
           import_return(t, s, n, p, accepted)
    PROVE  StepMoves /\ AttemptMoves /\ AttributionMoves
<1>. DEFINE closed == IF accepted THEN "CLOSED_OK" ELSE "CLOSED_REJECTED"
<1>1. /\ attempt[s][n] = "OPEN"
      /\ \A u \in Steps, m \in Attempts :
             /\ attempt'[u][m] = IF u = s /\ m = n THEN closed ELSE attempt[u][m]
             /\ provider'[u][m] = IF u = s /\ m = n THEN p ELSE provider[u][m]
    BY DEF import_return, TypeOK
<1>2. StepMoves
    BY DEF import_return, StepMoves, StepTransitions, TypeOK
<1>3. AttemptMoves
    BY <1>1 DEF AttemptMoves, AttemptTransitions
<1>4. \/ observed' = observed
      \/ \E m \in Attempts \ {n} : /\ provider[s][m] \notin {Unattributed, p}
                                   /\ observed' = observed \cup {<<s, m, n>>}
    BY DEF import_return, observar_troca_de_provedor, LastAttributionBefore
<1>5. AttributionMoves
    BY <1>1, <1>4, ProviderAssumption DEF AttributionMoves
<1>. QED BY <1>2, <1>3, <1>5

(* ControlService.apply *)
LEMMA ApplyMoves ==
    ASSUME NEW t \in Txs, NEW action \in Actions, apply(t, action)
    PROVE  Moves
<1>1. StepMoves
    BY Applied DEF StepMoves, StepTransitions
<1>2. AttemptMoves
    BY Applied DEF AttemptMoves, AttemptTransitions
<1>3. AttributionMoves /\ DelegationMoves
    BY AttributionKept, DelegationKept DEF apply, delegationVars
<1>. QED BY <1>1, <1>2, <1>3 DEF Moves

(* Every step moves the rows in one of these ways. *)
LEMMA EveryMove == IInv /\ [Next]_vars => Moves
<1> SUFFICES ASSUME IInv, [Next]_vars PROVE Moves
    OBVIOUS
<1>. USE StepKept, AttemptKept, AttributionKept, DelegationKept
         DEF Moves, attemptVars, delegationVars, IInv
<1>1. CASE UNCHANGED vars
    BY <1>1 DEF vars
<1>2. CASE Tick
    BY <1>2 DEF Tick
<1>3. ASSUME NEW t \in Txs, Begin(t) \/ Rollback(t) PROVE Moves
    BY <1>3 DEF Begin, Rollback
<1>4. ASSUME NEW t \in Txs, criar_schedule(t) PROVE Moves
    BY <1>4 DEF criar_schedule, StepMoves, Created
<1>5. ASSUME NEW t \in Txs, NEW s \in Steps, seal_step(t, s) \/ revoke(t, s) PROVE Moves
    BY <1>5 DEF seal_step, revoke
<1>6. ASSUME NEW t \in Txs, seal_commit(t) PROVE Moves
    BY <1>6, CreatedMoves DEF seal_commit, TypeOK
<1>7. ASSUME NEW t \in Txs, Grant(t) PROVE Moves
    BY <1>7, GrantMoves DEF Grant, grant
<1>8. ASSUME NEW t \in Txs, revoke_active_delegations(t) PROVE Moves
    BY <1>8, RevokeMoves DEF revoke_active_delegations
<1>9. ASSUME NEW t \in Txs, NEW s \in Steps, export_step(t, s) PROVE Moves
  <2>1. PICK n \in Attempts :
            /\ IsNextAttempt(s, n)
            /\ create_attempt(t, s, n)
            /\ consume_delegation(t, s, n) \/ UNCHANGED delegationVars
      BY <1>9 DEF export_step
  <2>2. AttemptMoves /\ AttributionMoves
      BY <2>1, CreatedMoves
  <2>3. DelegationMoves
      BY <2>1, ConsumeMoves
  <2>4. StepMoves
      BY <1>9 DEF export_step, Preflight, StepMoves, StepTransitions, TypeOK
  <2>. QED BY <2>2, <2>3, <2>4
<1>10. ASSUME NEW t \in Txs, NEW s \in Steps, register_block(t, s) PROVE Moves
    BY <1>10, BlockMoves DEF register_block
<1>11. ASSUME NEW t \in Txs, NEW s \in Steps, NEW n \in Attempts, NEW p \in Providers,
              NEW accepted \in BOOLEAN, import_return(t, s, n, p, accepted)
       PROVE  Moves
    BY <1>11, ImportMoves DEF import_return
<1>12. ASSUME NEW t \in Txs, NEW action \in Actions, apply(t, action) PROVE Moves
    BY <1>12, ApplyMoves
<1>13. ASSUME NEW t \in Txs, Command(t) PROVE Moves
    BY <1>13, <1>4, <1>5, <1>6, <1>7, <1>8, <1>9, <1>10, <1>11, <1>12 DEF Command, Import
<1>. QED BY <1>1, <1>2, <1>3, <1>13 DEF Next

LEMMA InitAttribution == Init => AttributionInv
BY DEF Init, AttributionInv

(* What was attributed stays as it was. *)
LEMMA AttributedStays ==
    ASSUME AttributionInv, Moves, NEW s \in Steps, NEW n \in Attempts,
           provider[s][n] # Unattributed
    PROVE  provider'[s][n] = provider[s][n]
BY DEF AttributionInv, Moves, AttributionMoves

LEMMA MovesAttribution == AttributionInv /\ Moves => AttributionInv'
<1> SUFFICES ASSUME AttributionInv, Moves PROVE AttributionInv'
    OBVIOUS
<1>1. ASSUME NEW s \in Steps, NEW n \in Attempts, provider'[s][n] # Unattributed
      PROVE  attempt'[s][n] \notin {"ABSENT", "OPEN"}
  <2>1. CASE provider[s][n] # Unattributed
    <3>1. attempt[s][n] \notin {"ABSENT", "OPEN"}
        BY <2>1 DEF AttributionInv
    <3>. QED BY <3>1 DEF Moves, AttemptMoves, AttemptTransitions
  <2>2. CASE provider[s][n] = Unattributed
      BY <1>1, <2>2 DEF Moves, AttributionMoves
  <2>. QED BY <2>1, <2>2
<1>2. ASSUME NEW s \in Steps, NEW n \in Attempts, provider[s][n] # Unattributed
      PROVE  provider'[s][n] # Unattributed
    BY <1>2 DEF Moves, AttributionMoves
<1>3. ASSUME NEW s \in Steps, NEW m \in Attempts, NEW n \in Attempts, <<s, m, n>> \in observed'
      PROVE  /\ m # n /\ provider'[s][m] # provider'[s][n]
             /\ provider'[s][m] # Unattributed /\ provider'[s][n] # Unattributed
  <2>1. CASE <<s, m, n>> \in observed
      BY <2>1, AttributedStays DEF AttributionInv
  <2>2. CASE <<s, m, n>> \notin observed
      BY <1>2, <1>3, <2>2, AttributedStays DEF Moves, AttributionMoves
  <2>. QED BY <2>1, <2>2
<1>. QED BY <1>1, <1>3 DEF AttributionInv

LEMMA MovesGuardDelegations == TypeOK /\ Moves => GuardServiceDelegation
<1> SUFFICES ASSUME TypeOK, Moves,
                    NEW row \in ServiceDelegationRows \ ServiceDelegationRows'
             PROVE  /\ row.state = "ACTIVE"
                    /\ \E new \in ServiceDelegationRows' :
                           /\ new.id = row.id /\ new.valid_until = row.valid_until
                           /\ new.state \in {"CONSUMED", "REVOKED", "EXPIRED"}
    BY DEF GuardServiceDelegation
<1>1. PICK s \in Steps, d \in Delegations :
          /\ delegation[s][d] # "ABSENT"
          /\ row = [id |-> <<s, d>>, step_id |-> s, state |-> delegation[s][d],
                    valid_until |-> valid_until[s][d], consumed_by |-> consumed_by[s][d]]
    BY DEF ServiceDelegationRows
<1>. DEFINE new == [id |-> <<s, d>>, step_id |-> s, state |-> delegation'[s][d],
                    valid_until |-> valid_until'[s][d], consumed_by |-> consumed_by'[s][d]]
<1>2. delegation'[s][d] # "ABSENT" => new \in ServiceDelegationRows'
    BY SMTT(20) DEF ServiceDelegationRows
<1>3. ~ /\ delegation'[s][d] = delegation[s][d] /\ valid_until'[s][d] = valid_until[s][d]
        /\ consumed_by'[s][d] = consumed_by[s][d]
    BY <1>1, <1>2
<1>4. /\ delegation[s][d] = "ACTIVE" /\ valid_until'[s][d] = valid_until[s][d]
      /\ delegation'[s][d] \in {"CONSUMED", "REVOKED", "EXPIRED"}
    BY <1>1, <1>3 DEF Moves, DelegationMoves
<1>. QED BY <1>1, <1>2, <1>4

LEMMA MovesImplemented == TypeOK /\ Moves => Implemented
<1> SUFFICES ASSUME Moves PROVE Implemented
    OBVIOUS
<1>1. ASSUME NEW s \in Composed
      PROVE  step'[s] = step[s] \/ <<step[s], step'[s]>> \in StepTransitions
    BY <1>1 DEF Composed, Moves, StepMoves
<1>2. ASSUME NEW a \in Sealed
      PROVE  \/ attempt'[a[1]][a[2]] = attempt[a[1]][a[2]]
             \/ <<attempt[a[1]][a[2]], attempt'[a[1]][a[2]]>> \in AttemptTransitions
    BY <1>2 DEF Sealed, Moves, AttemptMoves
<1>. QED BY <1>1, <1>2 DEF Implemented

LEMMA MovesAppend ==
    ASSUME TypeOK, AttributionInv, Moves,
           NEW S, control_events \in Seq(S),
           \/ control_events' = control_events
           \/ \E recorded \in S : control_events' = Append(control_events, recorded)
    PROVE  AppendsOnly
<1>1. ASSUME NEW a \in Sealed PROVE a \in Sealed'
  <2>1. /\ a \in Steps \X Attempts /\ a[1] \in Steps /\ a[2] \in Attempts
        /\ attempt[a[1]][a[2]] # "ABSENT"
      BY DEF Sealed
  <2>2. attempt'[a[1]][a[2]] # "ABSENT"
      BY <2>1 DEF Moves, AttemptMoves, AttemptTransitions
  <2>. QED BY <2>1, <2>2 DEF Sealed
<1>2. ASSUME NEW a \in Judged
      PROVE  a \in Judged' /\ attempt'[a[1]][a[2]] = attempt[a[1]][a[2]]
    BY <1>1 DEF Judged, Sealed, Moves, AttemptMoves, AttemptTransitions
<1>3. SealReceiptRows \subseteq SealReceiptRows'
    BY <1>1 DEF SealReceiptRows, build_envelope_content
<1>4. HandoffResultRows \subseteq HandoffResultRows'
    BY <1>2 DEF HandoffResultRows
<1>5. HandoffAttributionRows \subseteq HandoffAttributionRows'
    BY AttributedStays DEF HandoffAttributionRows
<1>6. ExecutionObservationRows \subseteq ExecutionObservationRows'
  <2>1. ASSUME NEW o \in observed
        PROVE  /\ o \in observed'
               /\ provider'[o[1]][o[2]] = provider[o[1]][o[2]]
               /\ provider'[o[1]][o[3]] = provider[o[1]][o[3]]
    <3>1. PICK s \in Steps, m \in Attempts, n \in Attempts : o = <<s, m, n>>
        BY DEF TypeOK
    <3>. QED BY <3>1, AttributedStays DEF AttributionInv, Moves, AttributionMoves
  <2>. QED BY <2>1 DEF ExecutionObservationRows
<1>7. IsPrefix(control_events, control_events')
  <2>1. CASE control_events' = control_events
      BY <2>1 DEF IsPrefix
  <2>2. ASSUME NEW recorded \in S, control_events' = Append(control_events, recorded)
        PROVE  IsPrefix(control_events, control_events')
      BY <2>2 DEF IsPrefix
  <2>. QED BY <2>1, <2>2
<1>. QED BY <1>3, <1>4, <1>5, <1>6, <1>7 DEF AppendsOnly

(* No command runs into a trigger of the tables: results, attributions,      *)
(* seals, observations and events are only added, a delegation leaves ACTIVE *)
(* once with its window, and states move along the implemented transitions   *)
(* (guard_service_delegation_transition, reject_handoff_record_mutation).    *)
THEOREM TriggersNeverHit == RowsSpec => TriggersAdmit
<1>1. RowsInit => IInv /\ AttributionInv /\ EventInv
    BY InitIInv, InitAttribution DEF RowsInit, Init, EventInv, EventsTellState
<1>2. IInv /\ AttributionInv /\ EventInv /\ [RowsNext]_rowVars
          => (IInv /\ AttributionInv /\ EventInv)'
    BY RowsStep, NextIInv, EveryMove, MovesAttribution, NextEvents
<1>3. IInv /\ AttributionInv /\ EventInv /\ [RowsNext]_rowVars
          => [GuardServiceDelegation /\ AppendsOnly /\ Implemented]_rowVars
  <2> SUFFICES ASSUME IInv, AttributionInv, EventInv, RowsNext
               PROVE  GuardServiceDelegation /\ AppendsOnly /\ Implemented
      OBVIOUS
  <2>1. Moves /\ TypeOK
      BY RowsStep, EveryMove DEF IInv
  <2>2. \/ control_events' = control_events
        \/ \E recorded \in Event : control_events' = Append(control_events, recorded)
      BY EveryMoveRecorded DEF NotRecorded, Recorded
  <2>. QED BY <2>1, <2>2, MovesGuardDelegations, MovesImplemented, MovesAppend DEF EventInv
<1>. QED BY <1>1, <1>2, <1>3, PTL DEF RowsSpec, TriggersAdmit
-----------------------------------------------------------------------------
(* Changes of provider. *)

(* The attempts of a step were created in the order of their numbers. *)
InOrder(s) == \A m, n \in Existing(s) : m < n => created_at[s][m] < created_at[s][n]

(* What a step of the machine does to what is observed of a step. *)
SwitchStays(s) ==
    /\ \A n \in Existing(s) : n \in Existing(s)' /\ created_at'[s][n] = created_at[s][n]
    /\ UNCHANGED <<provider, observed>>

LEMMA CreatedStays ==
    ASSUME TypeOK, NEW t \in Txs, NEW s \in Steps, NEW n \in Attempts,
           IsNextAttempt(s, n), create_attempt(t, s, n), NEW u \in Steps
    PROVE  SwitchStays(u)
<1>1. attempt[s][n] = "ABSENT"
  <2>1. n \in Nat
      BY Numbers
  <2>2. ~ (n < n)
      BY <2>1
  <2>3. n \notin Existing(s)
      BY <2>2 DEF IsNextAttempt
  <2>. QED BY <2>3 DEF Existing
<1>2. \A m \in Attempts :
          /\ attempt'[u][m] = IF u = s /\ m = n THEN "OPEN" ELSE attempt[u][m]
          /\ created_at'[u][m] = IF u = s /\ m = n THEN now[t] ELSE created_at[u][m]
    BY DEF create_attempt, TypeOK
<1>. QED BY <1>1, <1>2 DEF SwitchStays, Existing, create_attempt

LEMMA OnlyImportsObserve ==
    ASSUME IInv, [Next]_vars, NEW u \in Steps
    PROVE  \/ SwitchStays(u)
           \/ \E t \in Txs, s \in Steps, n \in Attempts, p \in Providers, accepted \in BOOLEAN :
                  import_return(t, s, n, p, accepted)
<1>. SUFFICES ASSUME ~ \E t \in Txs : Import(t) PROVE SwitchStays(u)
    BY DEF Import
<1>1. ASSUME attempt' = attempt, UNCHANGED <<created_at, provider, observed>>
      PROVE  SwitchStays(u)
    BY <1>1 DEF SwitchStays, Existing
<1>2. ASSUME NEW t \in Txs, seal_commit(t) PROVE SwitchStays(u)
    BY <1>2, CreatedStays DEF seal_commit, IInv, TypeOK
<1>3. ASSUME NEW t \in Txs, NEW s \in Steps, export_step(t, s) PROVE SwitchStays(u)
    BY <1>3, CreatedStays DEF export_step, IInv
<1>4. ASSUME NEW t \in Txs, NEW action \in Actions, apply(t, action) PROVE SwitchStays(u)
  <2>1. Existing(u)' = Existing(u)
      BY <1>4, EveryMove DEF Existing, apply, cancelar_conteudo, IInv, TypeOK
  <2>. QED BY <1>4, <2>1 DEF apply, SwitchStays
<1>5. ASSUME UNCHANGED attemptVars PROVE SwitchStays(u)
    BY <1>1, <1>5 DEF attemptVars
<1>6. ASSUME NEW t \in Txs, \/ criar_schedule(t) \/ Grant(t) \/ revoke_active_delegations(t)
                            \/ Begin(t) \/ Rollback(t)
      PROVE  SwitchStays(u)
    BY <1>5, <1>6 DEF criar_schedule, Grant, grant, revoke_active_delegations, Begin, Rollback
<1>7. ASSUME NEW t \in Txs, NEW s \in Steps,
             seal_step(t, s) \/ revoke(t, s) \/ register_block(t, s)
      PROVE  SwitchStays(u)
    BY <1>5, <1>7 DEF seal_step, revoke, register_block
<1>8. CASE Tick \/ UNCHANGED vars
  <2>1. UNCHANGED attemptVars
      BY <1>8 DEF Tick, vars, attemptVars
  <2>. QED BY <1>5, <2>1
<1>9. ASSUME NEW t \in Txs, Command(t) PROVE SwitchStays(u)
    BY <1>2, <1>3, <1>4, <1>6, <1>7, <1>9 DEF Command
<1>. QED BY <1>6, <1>8, <1>9 DEF Next

(* The attempt a return is compared with is the one that precedes it. *)
LEMMA ComparedWithPreceding ==
    ASSUME TypeOK, AttributionInv, OpenIsLast, NEW s \in Steps, NEW n \in Attempts,
           attempt[s][n] = "OPEN", InOrder(s), NEW m \in Attempts
    PROVE  /\ Attributed(s, m) => m < n
           /\ m \in LastAttributionBefore(s, n) <=>
                  /\ m < n /\ Attributed(s, m)
                  /\ \A k \in Attempts : m < k /\ k < n => ~ Attributed(s, k)
<1>. DEFINE before == {k \in Attempts \ {n} : /\ provider[s][k] # Unattributed
                                              /\ created_at[s][k] <= created_at[s][n]}
<1>1. \A k \in Attempts : Attributed(s, k) => k \in Existing(s) /\ k # n
    BY DEF Attributed, AttributionInv, Existing
<1>2. n \in Existing(s) /\ \A k \in Attempts : n < k => k \notin Existing(s)
    BY DEF OpenIsLast, Existing
<1>3. \A k \in Attempts : Attributed(s, k) => k < n
    BY <1>1, <1>2 DEF Attempts
<1>4. \A k \in Attempts : created_at[s][k] \in Nat
  <2>1. \A k \in Attempts : created_at[s][k] \in Times
      BY DEF TypeOK
  <2>. QED BY <2>1, Numbers
<1>5. \A k \in Attempts : k \in before <=> Attributed(s, k)
    BY <1>1, <1>2, <1>3, <1>4 DEF InOrder, Attributed
<1>6. \A k, l \in Attempts : Attributed(s, k) /\ Attributed(s, l)
          => (created_at[s][k] <= created_at[s][l] <=> k <= l)
    BY <1>1, <1>4 DEF InOrder, Attempts
<1>7. m \in LastAttributionBefore(s, n) <=>
          m \in before /\ \A k \in before : created_at[s][k] <= created_at[s][m]
    BY DEF LastAttributionBefore
<1>. HIDE DEF before
<1>8. before \subseteq Attempts
    BY DEF before
<1>9. m \in LastAttributionBefore(s, n) <=>
          Attributed(s, m) /\ \A k \in Attempts : Attributed(s, k) => k <= m
    BY <1>5, <1>6, <1>7, <1>8
<1>. QED BY <1>3, <1>9 DEF Attempts

LEMMA ImportObserves ==
    ASSUME TypeOK, AttributionInv, OpenIsLast, SwitchObservedInOrder,
           NEW t \in Txs, NEW s \in Steps, NEW n \in Attempts, NEW p \in Providers,
           NEW accepted \in BOOLEAN, import_return(t, s, n, p, accepted)
    PROVE  SwitchObservedInOrder'
<1>1. attempt[s][n] = "OPEN" /\ observar_troca_de_provedor(s, n, p) /\ UNCHANGED created_at
    BY DEF import_return
<1>2. \A u \in Steps, k \in Attempts :
          provider'[u][k] = IF u = s /\ k = n THEN p ELSE provider[u][k]
    BY DEF import_return, TypeOK
<1>3. \A u \in Steps : Existing(u)' = Existing(u)
    BY DEF import_return, Existing, TypeOK
<1>4. ASSUME NEW u \in Steps, NEW k \in Attempts, NEW l \in Attempts,
             \A i, j \in Existing(u)' : i < j => created_at'[u][i] < created_at'[u][j]
      PROVE  <<u, k, l>> \in observed' <=>
                 Preceding(u, k, l)' /\ provider'[u][k] # provider'[u][l]
  <2>1. InOrder(u)
      BY <1>1, <1>3, <1>4 DEF InOrder
  <2>2. <<u, k, l>> \in observed <=> Preceding(u, k, l) /\ provider[u][k] # provider[u][l]
      BY <2>1 DEF SwitchObservedInOrder, InOrder
  <2>3. \/ observed' = observed
        \/ \E m \in Attempts : observed' = observed \cup {<<s, m, n>>}
      BY <1>1 DEF observar_troca_de_provedor, LastAttributionBefore
  <2>4. CASE u # s
    <3>1. <<u, k, l>> \in observed' <=> <<u, k, l>> \in observed
        BY <2>3, <2>4
    <3>2. \A i \in Attempts : provider'[u][i] = provider[u][i]
        BY <1>2, <2>4
    <3>. QED BY <2>2, <3>1, <3>2 DEF Preceding, Attributed
  <2>5. CASE u = s
    <3>1. \A i \in Attempts :
              /\ Attributed(s, i) => i < n
              /\ i \in LastAttributionBefore(s, n) <=>
                     /\ i < n /\ Attributed(s, i)
                     /\ \A j \in Attempts : i < j /\ j < n => ~ Attributed(s, j)
        BY <1>1, <2>1, <2>5, ComparedWithPreceding
    <3>2. \A i \in Attempts : Attributed(s, i)' <=> i = n \/ Attributed(s, i)
        BY <1>2, ProviderAssumption DEF Attributed
    <3>3. ~ Attributed(s, n)
        BY <3>1 DEF Attempts
    <3>4. CASE l # n
      <4>1. <<s, k, l>> \in observed' <=> <<s, k, l>> \in observed
          BY <2>3, <3>4
      <4>2. Preceding(s, k, l)' <=> Preceding(s, k, l)
        <5>1. CASE Attributed(s, l)
          <6>1. l < n /\ (k < l => k # n) /\ \A j \in Attempts : j < l => j # n
              BY <3>1, <5>1 DEF Attempts
          <6>. QED BY <3>2, <3>4, <6>1 DEF Preceding
        <5>2. CASE ~ Attributed(s, l)
            BY <3>2, <3>4, <5>2 DEF Preceding
        <5>. QED BY <5>1, <5>2
      <4>3. Preceding(s, k, l) => k # n
          BY <3>3 DEF Preceding
      <4>. QED BY <1>2, <2>2, <2>5, <3>4, <4>1, <4>2, <4>3
    <3>5. CASE l = n
      <4>1. <<s, k, n>> \notin observed
          BY <2>2, <2>5, <3>3, <3>5 DEF Preceding
      <4>2. Preceding(s, k, n)' <=> k \in LastAttributionBefore(s, n)
        <5>1. \A j \in Attempts : j < n => (Attributed(s, j)' <=> Attributed(s, j))
            BY <3>2 DEF Attempts
        <5>. QED BY <3>1, <3>2, <5>1 DEF Preceding
      <4>3. \A i, j \in Attempts : i \in LastAttributionBefore(s, n)
                                   /\ j \in LastAttributionBefore(s, n) => i = j
          BY <3>1 DEF Attempts
      <4>4. <<s, k, n>> \in observed' <=>
                k \in LastAttributionBefore(s, n) /\ provider[s][k] # p
        <5>1. CASE LastAttributionBefore(s, n) = {}
            BY <1>1, <4>1, <5>1 DEF observar_troca_de_provedor
        <5>2. CASE LastAttributionBefore(s, n) # {}
          <6>1. PICK m \in LastAttributionBefore(s, n) :
                    observed' = IF provider[s][m] = p THEN observed
                                ELSE observed \cup {<<s, m, n>>}
              BY <1>1, <5>2 DEF observar_troca_de_provedor
          <6>2. m \in Attempts
              BY DEF LastAttributionBefore
          <6>. QED BY <4>1, <4>3, <6>1, <6>2
        <5>. QED BY <5>1, <5>2
      <4>5. k \in LastAttributionBefore(s, n) => k # n
          BY <3>1 DEF Attempts
      <4>. QED BY <1>2, <2>5, <3>5, <4>2, <4>4, <4>5
    <3>. QED BY <2>5, <3>4, <3>5
  <2>. QED BY <2>4, <2>5
<1>. QED BY <1>4 DEF SwitchObservedInOrder

LEMMA NextSwitch ==
    IInv /\ WorkInv /\ AttributionInv /\ SwitchObservedInOrder /\ [Next]_vars
        => SwitchObservedInOrder'
<1>. SUFFICES ASSUME IInv, WorkInv, AttributionInv, SwitchObservedInOrder, [Next]_vars
              PROVE  SwitchObservedInOrder'
    OBVIOUS
<1>1. ASSUME NEW t \in Txs, NEW s \in Steps, NEW n \in Attempts, NEW p \in Providers,
             NEW accepted \in BOOLEAN, import_return(t, s, n, p, accepted)
      PROVE  SwitchObservedInOrder'
    BY <1>1, ImportObserves DEF IInv, WorkInv
<1>2. CASE \A u \in Steps : SwitchStays(u)
  <2>1. ASSUME NEW u \in Steps, NEW k \in Attempts, NEW l \in Attempts,
               \A i, j \in Existing(u)' : i < j => created_at'[u][i] < created_at'[u][j]
        PROVE  <<u, k, l>> \in observed' <=>
                   Preceding(u, k, l)' /\ provider'[u][k] # provider'[u][l]
    <3>1. InOrder(u)
        BY <1>2, <2>1 DEF InOrder, SwitchStays
    <3>2. <<u, k, l>> \in observed <=> Preceding(u, k, l) /\ provider[u][k] # provider[u][l]
        BY <3>1 DEF SwitchObservedInOrder, InOrder
    <3>3. UNCHANGED <<provider, observed>>
        BY <1>2 DEF SwitchStays
    <3>. QED BY <3>2, <3>3 DEF Preceding, Attributed
  <2>. QED BY <2>1 DEF SwitchObservedInOrder
<1>. QED BY <1>1, <1>2, OnlyImportsObserve

(* A declared change of provider is observed, and nothing else is, wherever  *)
(* creation instants follow the numbers of the attempts, for any number of   *)
(* attempts and providers (_observar_troca_de_provedor).                     *)
THEOREM SwitchesObserved == Spec => []SwitchObservedInOrder
<1>1. Init => AttributionInv /\ SwitchObservedInOrder
  <2>1. Init => SwitchObservedInOrder
      BY DEF Init, SwitchObservedInOrder, Preceding, Attributed
  <2>. QED BY <2>1, InitAttribution
<1>2. IInv /\ AttributionInv /\ [Next]_vars => AttributionInv'
    BY EveryMove, MovesAttribution
<1>. QED BY <1>1, <1>2, BothInv, NextSwitch, PTL DEF Spec

-----------------------------------------------------------------------------
(* What one layer lets through the next one takes. *)

LEMMA OneCode == ASSUME NEW code PROVE Cardinality({code}) = 1
BY FS_Singleton

LEMMA NoCode == Cardinality({}) = 0
BY FS_EmptySet

(* Two of the reserved keys are exactly the two of the marker. *)
LEMMA BothKeys ==
    ASSUME NEW keys, keys \subseteq GATE_RESERVED_KEYS
    PROVE  Cardinality(keys) = 2 <=> keys = GATE_RESERVED_KEYS
<1>1. keys \in {{}, {GATE_KEY_REQUIRED}, {GATE_KEY_SCOPE}, GATE_RESERVED_KEYS}
    BY DEF GATE_RESERVED_KEYS
<1>2. Cardinality(GATE_RESERVED_KEYS) = 2
  <2>1. GATE_KEY_SCOPE \notin {GATE_KEY_REQUIRED}
      BY DEF GATE_KEY_SCOPE, GATE_KEY_REQUIRED
  <2>2. GATE_RESERVED_KEYS = {GATE_KEY_REQUIRED} \cup {GATE_KEY_SCOPE}
      BY DEF GATE_RESERVED_KEYS
  <2>3. IsFiniteSet({GATE_KEY_REQUIRED})
      BY FS_Singleton
  <2>4. Cardinality({GATE_KEY_REQUIRED} \cup {GATE_KEY_SCOPE}) =
            Cardinality({GATE_KEY_REQUIRED}) + 1
      BY <2>1, <2>3, FS_AddElement
  <2>5. Cardinality({GATE_KEY_REQUIRED}) = 1
      BY OneCode
  <2>6. Cardinality({GATE_KEY_REQUIRED} \cup {GATE_KEY_SCOPE}) = 2
      BY <2>4, <2>5
  <2>. QED BY <2>2, <2>6
<1>3. Cardinality({GATE_KEY_REQUIRED}) = 1 /\ Cardinality({GATE_KEY_SCOPE}) = 1
    BY OneCode
<1>. QED BY <1>1, <1>2, <1>3, NoCode

(* The marker the value object accepts is the one the database accepts       *)
(* (validate_gate_keys, orchestration_gate_marker_is_valid).                 *)
LEMMA SameMarker ==
    ASSUME NEW pairs
    PROVE  validate_gate_keys(pairs) <=> gate_marker_is_valid(pairs)
<1>. DEFINE present == Keys(pairs) \cap ReservedPrefix
            reserved == {key \in Keys(pairs) : key \in ReservedPrefix}
            means == /\ Value(pairs, "pia.gate.required") \in
                            {"service_delegation", "service_delegation_and_human"}
                     /\ Value(pairs, "pia.gate.scope") = "dispatch"
<1>1. reserved = present
    OBVIOUS
<1>2. GateRequirement(pairs) <=> means
    BY DEF GateRequirement, GATE_KEY_REQUIRED, GATE_KEY_SCOPE, GATE_REQUIRED_VALUES,
           GATE_SCOPE_VALUES
<1>3. GATE_RESERVED_KEYS = {"pia.gate.required", "pia.gate.scope"}
    BY DEF GATE_RESERVED_KEYS, GATE_KEY_REQUIRED, GATE_KEY_SCOPE
<1>4. gate_marker_is_valid(pairs) <=>
          /\ reserved \subseteq {"pia.gate.required", "pia.gate.scope"}
          /\ reserved = {} \/ (Cardinality(reserved) = 2 /\ means)
    BY DEF gate_marker_is_valid
<1>5. validate_gate_keys(pairs) <=>
          present = {} \/ (present = GATE_RESERVED_KEYS /\ GateRequirement(pairs))
    BY DEF validate_gate_keys
<1>. HIDE DEF present, reserved, means
<1>6. present \subseteq GATE_RESERVED_KEYS =>
          (Cardinality(present) = 2 <=> present = GATE_RESERVED_KEYS)
    BY BothKeys
<1>. QED BY <1>1, <1>2, <1>3, <1>4, <1>5, <1>6

(* What requests and value objects accept satisfies the checks of the table. *)
LEMMA DraftAccepted ==
    ASSUME NEW draft \in StepDrafts \cup {Drafts[s] : s \in Steps},
           StepInput(draft), StepDraft(draft)
    PROVE  schedule_steps_accepts(draft)
<1>1. \A text, limit : texto_obrigatorio(text, limit) => NotBlank(text) /\ Fits(text, limit)
    BY DEF texto_obrigatorio, NotBlank, Fits
<1>2. context_refs_canonical(draft.context_refs)
  <2>1. ASSUME NEW i \in DOMAIN draft.context_refs
        PROVE  /\ NotBlank(draft.context_refs[i].uri)
               /\ draft.context_refs[i].sha256 = "hex"
               /\ draft.context_refs[i].bytes \in Nat
    <3>1. draft.context_refs[i].bytes \in Int
        BY BytesAssumption
    <3>2. ContextRefInput(draft.context_refs[i])
        BY DEF StepInput
    <3>3. ContextRef(draft.context_refs[i])
        BY DEF StepDraft, parse_context_refs
    <3>. QED BY <1>1, <3>1, <3>2, <3>3 DEF ContextRefInput, ContextRef
  <2>. QED BY <2>1 DEF context_refs_canonical
<1>3. gate_marker_is_valid({draft.constraints[i] : i \in DOMAIN draft.constraints})
    BY SameMarker DEF StepDraft, canonical_constraints
<1>. QED BY <1>1, <1>2, <1>3 DEF StepDraft, schedule_steps_accepts

LEMMA SameConstraints ==
    ASSUME NEW given
    PROVE  canonical_constraints(given) <=>
               Cardinality(Keys(ToSet(given))) = Len(given) /\ gate_marker_is_valid(ToSet(given))
<1>1. ToSet(given) = {given[i] : i \in DOMAIN given}
    BY DEF ToSet
<1>. QED BY <1>1, SameMarker DEF canonical_constraints

LEMMA CodesCoherent ==
    ASSUME NEW contract, NEW media_type, NEW content
    PROVE  LET codes == validate_output(contract, media_type, content)
           IN  status_codes_coherent(HandoffResultStatus(codes), codes)
<1>1. PICK codes : codes = validate_output(contract, media_type, content)
    OBVIOUS
<1>. SUFFICES status_codes_coherent(HandoffResultStatus(codes), codes)
    BY <1>1
<1>2. \/ codes = {}
      \/ codes = {"unsupported_output_contract"} \/ codes = {"media_type_mismatch"}
      \/ codes = {"expected_non_empty_text"} \/ codes = {"non_canonical_json_number"}
      \/ codes = {"expected_json_object"}
  <2>1. CASE contract \notin SUPPORTED_OUTPUT_CONTRACTS
      BY <1>1, <2>1, Zenon DEF validate_output
  <2>2. CASE contract \in SUPPORTED_OUTPUT_CONTRACTS
      BY <1>1, <2>2, Zenon DEF validate_output
  <2>. QED BY <2>1, <2>2
<1>3. CASE codes = {}
    BY <1>3, NoCode DEF status_codes_coherent, HandoffResultStatus
<1>4. ASSUME NEW code, codes = {code}
      PROVE  status_codes_coherent(HandoffResultStatus(codes), codes)
  <2>1. Cardinality(codes) = 1 /\ codes # {}
      BY <1>4, OneCode
  <2>2. Cardinality(codes) >= 1 /\ HandoffResultStatus(codes) = "rejected"
      BY <2>1 DEF HandoffResultStatus
  <2>. QED BY <2>2 DEF status_codes_coherent
<1>. QED BY <1>2, <1>3, <1>4, Zenon

LEMMA SameOpinions ==
    ASSUME NEW opinion \in AuditOpinionKind, NEW codes \in SUBSET AuditReasonCode
    PROVE  issue(opinion, codes) <=> audit_opinion_matrix_is_valid(opinion, codes)
<1>. DEFINE code == CASE opinion = "concur"                -> "contract_conforms"
                      [] opinion = "dissent"               -> "contract_nonconformity"
                      [] opinion = "insufficient_evidence" -> "evidence_missing"
                      [] opinion = "out_of_scope"          -> "scope_excluded"
<1>1. issue(opinion, codes) <=> codes = {code}
  <2>1. AUDIT_OPINION_REASON_MATRIX(opinion) = {code} /\ code \in AuditReasonCode
      BY DEF AuditOpinionKind, AUDIT_OPINION_REASON_MATRIX, AuditReasonCode
  <2>. HIDE DEF code
  <2>. QED BY <2>1 DEF issue, canonical_audit_reason_codes, assert_opinion_matrix
<1>2. audit_opinion_matrix_is_valid(opinion, codes) =>  codes = {code}
    BY DEF audit_opinion_matrix_is_valid, AuditOpinionKind
<1>3. codes = {code} => Cardinality(codes) = 1
    BY OneCode
<1>4. codes = {code} => audit_opinion_matrix_is_valid(opinion, codes)
    BY <1>3 DEF audit_opinion_matrix_is_valid, AuditOpinionKind
<1>. QED BY <1>1, <1>2, <1>4

(* Gates, drafts, outputs, opinions and controls: what the services decide   *)
(* passes the checks of the database, whatever callers present.              *)
THEOREM LayersAlwaysAgree == LayersAgree
<1>1. \A action, category :
          CategoryAccepted(action, category) => stop_category_matrix(ReasonOf(action), category)
    BY DEF CategoryAccepted, stop_category_matrix, ReasonOf
<1>2. \A draft \in StepDrafts :
          StepInput(draft) /\ StepDraft(draft) => schedule_steps_accepts(draft)
    BY DraftAccepted
<1>. QED BY <1>1, <1>2, SameConstraints, CodesCoherent, SameOpinions DEF LayersAgree

-----------------------------------------------------------------------------
(* What the tables hold. *)

(* Before the Schedule there is nothing of its steps, nor anybody sealing.   *)
Rooted ==
    schedule = "ABSENT" =>
        /\ \A s \in Steps, n \in Attempts : attempt[s][n] = "ABSENT"
        /\ \A s \in Steps, d \in Delegations : delegation[s][d] = "ABSENT"
        /\ \A t \in Txs : tx[t] # "sealing"

LEMMA NextRooted == TypeOK /\ Rooted /\ [Next]_vars => Rooted'
<1>. SUFFICES ASSUME TypeOK, Rooted, [Next]_vars, schedule' = "ABSENT"
              PROVE  /\ \A s \in Steps, n \in Attempts : attempt'[s][n] = "ABSENT"
                     /\ \A s \in Steps, d \in Delegations : delegation'[s][d] = "ABSENT"
                     /\ \A t \in Txs : tx'[t] # "sealing"
    BY DEF Rooted
<1>1. ASSUME schedule = "ABSENT", UNCHANGED <<attempt, delegation>>,
             \A t \in Txs : tx'[t] = "sealing" => tx[t] = "sealing"
      PROVE  /\ \A s \in Steps, n \in Attempts : attempt'[s][n] = "ABSENT"
             /\ \A s \in Steps, d \in Delegations : delegation'[s][d] = "ABSENT"
             /\ \A t \in Txs : tx'[t] # "sealing"
    BY <1>1 DEF Rooted
<1>2. CASE UNCHANGED vars \/ Tick
    BY <1>1, <1>2 DEF vars, Tick, attemptVars, delegationVars, txVars
<1>3. ASSUME NEW t \in Txs, Begin(t) \/ Rollback(t)
      PROVE  /\ schedule = "ABSENT" /\ UNCHANGED <<attempt, delegation>>
             /\ \A u \in Txs : tx'[u] = "sealing" => tx[u] = "sealing"
    BY <1>3 DEF Begin, Rollback, End, attemptVars, delegationVars, TypeOK
<1>4. ASSUME NEW t \in Txs, NEW s \in Steps, revoke(t, s)
      PROVE  /\ schedule = "ABSENT" /\ UNCHANGED <<attempt, delegation>>
             /\ \A u \in Txs : tx'[u] = "sealing" => tx[u] = "sealing"
    BY <1>4 DEF revoke, attemptVars, delegationVars, TypeOK
<1>5. ASSUME NEW t \in Txs, revoke_active_delegations(t)
      PROVE  /\ schedule = "ABSENT" /\ UNCHANGED <<attempt, delegation>>
             /\ \A u \in Txs : tx'[u] = "sealing" => tx[u] = "sealing"
  <2>1. schedule = "ABSENT" /\ attempt' = attempt
        /\ \A u \in Txs : tx'[u] = "sealing" => tx[u] = "sealing"
      BY <1>5 DEF revoke_active_delegations, End, attemptVars, TypeOK
  <2>2. \A s \in Steps, d \in Delegations : delegation[s][d] = "ABSENT"
      BY <2>1 DEF Rooted
  <2>3. alvo[t] \in Steps
      BY <1>5 DEF revoke_active_delegations, TypeOK
  <2>4. [d \in Delegations |-> IF delegation[alvo[t]][d] = "ACTIVE" THEN "REVOKED"
                              ELSE delegation[alvo[t]][d]] = delegation[alvo[t]]
      BY <2>2, <2>3 DEF TypeOK
  <2>5. delegation' = delegation
      BY <1>5, <2>3, <2>4 DEF revoke_active_delegations, TypeOK
  <2>. QED BY <2>1, <2>5
<1>6. ASSUME NEW t \in Txs, \/ criar_schedule(t) \/ Grant(t) \/ seal_commit(t)
                            \/ \E s \in Steps : seal_step(t, s) \/ export_step(t, s)
                                                \/ register_block(t, s)
                            \/ Import(t)
                            \/ \E action \in Actions : apply(t, action)
      PROVE  FALSE
  <2>1. ~ criar_schedule(t) /\ ~ Grant(t)
      BY DEF criar_schedule, Grant, grant
  <2>2. ~ seal_commit(t)
      BY DEF seal_commit, Rooted
  <2>3. \A s \in Steps : ~ (seal_step(t, s) \/ export_step(t, s) \/ register_block(t, s))
      BY DEF seal_step, export_step, register_block, Preflight, set_schedule_state
  <2>4. ~ Import(t)
      BY DEF Import, import_return, complete_if_all_returned, set_schedule_state, Rooted
  <2>5. \A action \in Actions : ~ apply(t, action)
      BY DEF apply, set_schedule_state, Transitions
  <2>. QED BY <1>6, <2>1, <2>2, <2>3, <2>4, <2>5
<1>7. ASSUME NEW t \in Txs, Begin(t) \/ Rollback(t) \/ Command(t)
      PROVE  /\ schedule = "ABSENT" /\ UNCHANGED <<attempt, delegation>>
             /\ \A u \in Txs : tx'[u] = "sealing" => tx[u] = "sealing"
    BY <1>3, <1>4, <1>5, <1>6, <1>7 DEF Command
<1>. QED BY <1>1, <1>2, <1>7 DEF Next

(* The step an event names was already there. *)
LEMMA NextEventSteps ==
    ASSUME StepsExist, TypeOK, Moves, [RowsNext]_rowVars,
           NEW S, control_events \in Seq(S), ControlEventsTable
    PROVE  ControlEventsTable'
<1>1. Composed \subseteq Composed'
    BY DEF Composed, Moves, StepMoves, StepTransitions
<1>2. \/ control_events' = control_events
      \/ \E kind, reason : \E s \in Composed \cup {NoStep} : create_control_event(kind, reason, s)
  <2>1. ASSUME NEW t \in Txs, NEW s \in Steps, registerBlockWithEvent(t, s)
        PROVE  \E kind, reason : create_control_event(kind, reason, s) /\ s \in Composed
    <3>1. s \in Composed
        BY <2>1 DEF registerBlockWithEvent, register_block, Preflight, StepsExist, Composed
    <3>. QED BY <2>1, <3>1 DEF registerBlockWithEvent
  <2>2. ASSUME NEW t \in Txs, NEW action \in Actions, NEW category,
               applyWithEvent(t, action, category)
        PROVE  \E kind, reason : create_control_event(kind, reason, NoStep)
      BY <2>2 DEF applyWithEvent
  <2>3. ASSUME NEW t \in Txs, NEW s \in Steps, NEW n \in Attempts, NEW p \in Providers,
               NEW contract, NEW media_type, NEW content,
               importWithEvent(t, s, n, p, contract, media_type, content)
        PROVE  \/ control_events' = control_events
               \/ \E kind, reason : create_control_event(kind, reason, NoStep)
      BY <2>3 DEF importWithEvent
  <2>. QED BY <2>1, <2>2, <2>3 DEF RowsNext, rowVars
<1>3. CASE control_events' = control_events
    BY <1>1, <1>3 DEF ControlEventsTable
<1>4. ASSUME NEW kind, NEW reason, NEW s \in Composed \cup {NoStep},
             create_control_event(kind, reason, s)
      PROVE  ControlEventsTable'
  <2>1. PICK recorded : /\ control_events' = Append(control_events, recorded)
                        /\ recorded.step = s
      BY <1>4 DEF create_control_event
  <2>2. ASSUME NEW i \in DOMAIN control_events'
        PROVE  \/ i \in DOMAIN control_events /\ control_events'[i] = control_events[i]
               \/ control_events'[i] = recorded
      BY <2>1
  <2>. QED BY <1>1, <2>1, <2>2 DEF ControlEventsTable
<1>. QED BY <1>2, <1>3, <1>4

RowsInv ==
    /\ IInv /\ WorkInv /\ AttributionInv /\ EventInv
    /\ Rooted
    /\ ControlEventsTable

(* A step with an attempt or a delegation is a row. *)
LEMMA ChildrenHaveSteps ==
    ASSUME WorkInv, Rooted
    PROVE  /\ \A a \in Sealed : a[1] \in Composed
           /\ \A s \in Steps, d \in Delegations : delegation[s][d] # "ABSENT" => s \in Composed
<1>1. ASSUME NEW s \in Steps, schedule # "ABSENT" PROVE s \in Composed
    BY <1>1 DEF WorkInv, StepsExist, Composed
<1>2. ASSUME NEW a \in Sealed PROVE a[1] \in Composed
  <2>1. PICK s \in Steps, n \in Attempts : a = <<s, n>>
      BY DEF Sealed
  <2>2. attempt[s][n] # "ABSENT"
      BY <2>1 DEF Sealed
  <2>. QED BY <1>1, <2>1, <2>2 DEF Rooted
<1>3. ASSUME NEW s \in Steps, NEW d \in Delegations, delegation[s][d] # "ABSENT"
      PROVE  s \in Composed
    BY <1>1, <1>3 DEF Rooted
<1>. QED BY <1>2, <1>3

LEMMA ScheduleAdmitted ==
    ASSUME IInv
    PROVE  SchedulesTable /\ StepsTable
<1>1. SchedulesTable
    BY DraftAssumption DEF SchedulesTable, ScheduleRows, ScheduleDraft, texto_obrigatorio,
                           NotBlank, Fits
<1>2. \A row \in StepRows : /\ row.position \in Composed
                            /\ row = [id |-> row.position, position |-> row.position,
                                      draft |-> Drafts[row.position],
                                      state |-> step[row.position]]
    BY DEF StepRows
<1>3. StepRows # {} => ScheduleRows # {}
  <2> SUFFICES ASSUME StepRows # {} PROVE ScheduleRows # {}
      OBVIOUS
  <2>1. PICK s \in Steps : step[s] # "ABSENT"
      BY <1>2 DEF Composed
  <2>2. schedule # "ABSENT"
      BY <2>1 DEF IInv, Created
  <2>3. [title |-> Title, state |-> schedule] \in ScheduleRows
      BY <2>2 DEF ScheduleRows
  <2>. QED BY <2>3
<1>4. ASSUME NEW s \in Steps PROVE schedule_steps_accepts(Drafts[s])
  <2>1. s \in DOMAIN Drafts
      BY DraftAssumption, BoundAssumption DEF Steps, ScheduleDraft
  <2>2. StepInput(Drafts[s]) /\ StepDraft(Drafts[s])
      BY <2>1, DraftAssumption DEF ScheduleDraft
  <2>. QED BY <2>2, DraftAccepted
<1>5. \A row \in StepRows : row.position >= 1 /\ schedule_steps_accepts(row.draft)
  <2>1. ASSUME NEW row \in StepRows
        PROVE  row.position \in Steps /\ row.draft = Drafts[row.position]
      BY <1>2 DEF Composed
  <2>. QED BY <1>4, <2>1 DEF Steps
<1>6. \A row, other \in StepRows : row.position = other.position => row = other
    BY <1>2
<1>. QED BY <1>1, <1>3, <1>5, <1>6 DEF StepsTable

LEMMA AttemptsAdmitted ==
    ASSUME IInv, WorkInv, AttributionInv, Rooted
    PROVE  /\ AttemptsTable /\ ix_handoff_attempts_single_open /\ SealReceiptsTable
           /\ HandoffResultsTable /\ HandoffAttributionsTable /\ ExecutionObservationsTable
<1>1. \A a \in Sealed : /\ a = <<a[1], a[2]>> /\ a[1] \in Steps /\ a[2] \in Attempts
                        /\ a[1] \in Composed
    BY ChildrenHaveSteps DEF Sealed
<1>2. ASSUME NEW row \in AttemptRows
      PROVE  \E a \in Sealed : row = [id |-> a, step_id |-> a[1], attempt_number |-> a[2],
                                      state |-> attempt[a[1]][a[2]],
                                      content |-> build_envelope_content(a[1])]
    BY DEF AttemptRows
<1>3. AttemptsTable
  <2>1. ASSUME NEW row \in AttemptRows
        PROVE  row.attempt_number >= 1 /\ row.step_id \in Composed
    <3>1. row.attempt_number \in Attempts /\ row.step_id \in Composed
        BY <1>1, <1>2
    <3>. QED BY <3>1 DEF Attempts
  <2>2. ASSUME NEW row \in AttemptRows, NEW other \in AttemptRows,
               row.step_id = other.step_id, row.attempt_number = other.attempt_number
        PROVE  row = other
    <3>1. PICK a \in Sealed : row = [id |-> a, step_id |-> a[1], attempt_number |-> a[2],
                                     state |-> attempt[a[1]][a[2]],
                                     content |-> build_envelope_content(a[1])]
        BY <1>2
    <3>2. PICK b \in Sealed : other = [id |-> b, step_id |-> b[1], attempt_number |-> b[2],
                                       state |-> attempt[b[1]][b[2]],
                                       content |-> build_envelope_content(b[1])]
        BY <1>2
    <3>3. a = b
        BY <1>1, <2>2, <3>1, <3>2
    <3>. QED BY <3>1, <3>2, <3>3
  <2>. QED BY <2>1, <2>2 DEF AttemptsTable
<1>4. ix_handoff_attempts_single_open
  <2>1. ASSUME NEW row \in AttemptRows, NEW other \in AttemptRows,
               row.state = "OPEN", other.state = "OPEN", row.step_id = other.step_id
        PROVE  row = other
    <3>1. PICK a \in Sealed : row = [id |-> a, step_id |-> a[1], attempt_number |-> a[2],
                                     state |-> attempt[a[1]][a[2]],
                                     content |-> build_envelope_content(a[1])]
        BY <1>2
    <3>2. PICK b \in Sealed : other = [id |-> b, step_id |-> b[1], attempt_number |-> b[2],
                                       state |-> attempt[b[1]][b[2]],
                                       content |-> build_envelope_content(b[1])]
        BY <1>2
    <3>3. a[1] = b[1] /\ attempt[a[1]][a[2]] = "OPEN" /\ attempt[a[1]][b[2]] = "OPEN"
        BY <2>1, <3>1, <3>2
    <3>4. a[2] = b[2]
        BY <1>1, <3>3 DEF IInv, OneOpenAttempt
    <3>5. a = b
        BY <1>1, <3>3, <3>4
    <3>. QED BY <3>1, <3>2, <3>5
  <2>. QED BY <2>1 DEF ix_handoff_attempts_single_open
<1>5. SealReceiptsTable
  <2>1. ASSUME NEW row \in SealReceiptRows PROVE \E a \in AttemptRows : a.id = row.attempt_id
    <3>1. PICK a \in Sealed :
              row = [attempt_id |-> a, content |-> build_envelope_content(a[1])]
        BY DEF SealReceiptRows
    <3>. DEFINE sealed == [id |-> a, step_id |-> a[1], attempt_number |-> a[2],
                           state |-> attempt[a[1]][a[2]],
                           content |-> build_envelope_content(a[1])]
    <3>2. sealed \in AttemptRows /\ sealed.id = a
        BY DEF AttemptRows
    <3>. QED BY <3>1, <3>2
  <2>2. \A row, other \in SealReceiptRows : row.attempt_id = other.attempt_id => row = other
      BY DEF SealReceiptRows
  <2>. QED BY <2>1, <2>2 DEF SealReceiptsTable
<1>6. HandoffResultsTable
    BY DEF HandoffResultsTable, HandoffResultRows, Judged
<1>7. HandoffAttributionsTable
  <2>1. ASSUME NEW row \in HandoffAttributionRows PROVE row.attempt_id \in Sealed
    <3>1. PICK a \in Steps \X Attempts :
              provider[a[1]][a[2]] # Unattributed /\ row.attempt_id = a
        BY DEF HandoffAttributionRows
    <3>2. attempt[a[1]][a[2]] # "ABSENT"
        BY <3>1 DEF AttributionInv
    <3>. QED BY <3>1, <3>2 DEF Sealed
  <2>2. \A row, other \in HandoffAttributionRows : row.attempt_id = other.attempt_id => row = other
      BY DEF HandoffAttributionRows
  <2>. QED BY <2>1, <2>2 DEF HandoffAttributionsTable
<1>8. ExecutionObservationsTable
  <2>1. ASSUME NEW row \in ExecutionObservationRows
        PROVE  /\ {row.previous, row.current} \subseteq Sealed
               /\ row.previous # row.current
               /\ row.previous_provider # row.current_provider
    <3>1. PICK o \in observed :
              row = [previous |-> <<o[1], o[2]>>, current |-> <<o[1], o[3]>>,
                     previous_provider |-> provider[o[1]][o[2]],
                     current_provider |-> provider[o[1]][o[3]]]
        BY DEF ExecutionObservationRows
    <3>2. PICK s \in Steps, m \in Attempts, n \in Attempts : o = <<s, m, n>>
        BY DEF IInv, TypeOK
    <3>3. /\ m # n /\ provider[s][m] # provider[s][n]
          /\ provider[s][m] # Unattributed /\ provider[s][n] # Unattributed
        BY <3>1, <3>2 DEF AttributionInv
    <3>4. <<s, m>> \in Sealed /\ <<s, n>> \in Sealed
        BY <3>3 DEF AttributionInv, Sealed
    <3>. QED BY <3>1, <3>2, <3>3, <3>4
  <2>. QED BY <2>1 DEF ExecutionObservationsTable
<1>. QED BY <1>3, <1>4, <1>5, <1>6, <1>7, <1>8

LEMMA DelegationsAdmitted ==
    ASSUME IInv, WorkInv, Rooted
    PROVE  ServiceDelegationsTable /\ ix_service_delegations_single_active
<1>1. ASSUME NEW row \in ServiceDelegationRows
      PROVE  \E s \in Steps, d \in Delegations :
                 /\ delegation[s][d] # "ABSENT"
                 /\ row = [id |-> <<s, d>>, step_id |-> s, state |-> delegation[s][d],
                           valid_until |-> valid_until[s][d], consumed_by |-> consumed_by[s][d]]
    BY DEF ServiceDelegationRows
<1>2. ServiceDelegationsTable
  <2>1. ASSUME NEW row \in ServiceDelegationRows
        PROVE  /\ row.step_id \in Composed
               /\ row.state = "CONSUMED" <=> row.consumed_by # NoAttempt
               /\ row.consumed_by # NoAttempt => <<row.step_id, row.consumed_by>> \in Sealed
    <3>1. PICK s \in Steps, d \in Delegations :
              /\ delegation[s][d] # "ABSENT"
              /\ row = [id |-> <<s, d>>, step_id |-> s, state |-> delegation[s][d],
                        valid_until |-> valid_until[s][d], consumed_by |-> consumed_by[s][d]]
        BY <1>1
    <3>2. s \in Composed
        BY <3>1, ChildrenHaveSteps
    <3>3. delegation[s][d] = "CONSUMED" <=> consumed_by[s][d] # NoAttempt
        BY DEF IInv, TypeOK
    <3>4. consumed_by[s][d] # NoAttempt => <<s, consumed_by[s][d]>> \in Sealed
        BY DEF WorkInv, ConsumersExist, Existing, Sealed
    <3>. QED BY <3>1, <3>2, <3>3, <3>4
  <2>. QED BY <2>1 DEF ServiceDelegationsTable
<1>3. ix_service_delegations_single_active
  <2>1. ASSUME NEW row \in ServiceDelegationRows, NEW other \in ServiceDelegationRows,
               row.state = "ACTIVE", other.state = "ACTIVE", row.step_id = other.step_id
        PROVE  row = other
    <3>1. PICK s \in Steps, d \in Delegations :
              row = [id |-> <<s, d>>, step_id |-> s, state |-> delegation[s][d],
                     valid_until |-> valid_until[s][d], consumed_by |-> consumed_by[s][d]]
        BY <1>1
    <3>2. PICK r \in Steps, e \in Delegations :
              other = [id |-> <<r, e>>, step_id |-> r, state |-> delegation[r][e],
                       valid_until |-> valid_until[r][e], consumed_by |-> consumed_by[r][e]]
        BY <1>1
    <3>3. s = r /\ d \in Active(s) /\ e \in Active(s)
        BY <2>1, <3>1, <3>2 DEF Active
    <3>4. d = e
        BY <3>3 DEF IInv, OneActiveDelegation
    <3>. QED BY <3>1, <3>2, <3>3, <3>4
  <2>. QED BY <2>1 DEF ix_service_delegations_single_active
<1>. QED BY <1>2, <1>3

(* The database refuses nothing the services decided to write, and the log   *)
(* tells the state of the Schedule: for any number of sessions, steps,       *)
(* attempts and delegations, whatever the drafts and however the commands    *)
(* interleave (the constraints of the migrations against                     *)
(* OrchestrationRepository).                                                 *)
THEOREM RowsAlwaysAgree == RowsSpec => []RowsAgree
<1>1. RowsInit => RowsInv
  <2>. SUFFICES ASSUME RowsInit PROVE RowsInv
      OBVIOUS
  <2>1. Rooted
      BY DEF RowsInit, Init, Rooted
  <2>2. EventInv /\ ControlEventsTable
      BY DEF RowsInit, Init, EventInv, EventsTellState, ControlEventsTable
  <2>. QED BY <2>1, <2>2, InitIInv, InitWork, InitAttribution DEF RowsInit, RowsInv
<1>2. RowsInv /\ [RowsNext]_rowVars => RowsInv'
  <2>. SUFFICES ASSUME RowsInv, [RowsNext]_rowVars PROVE RowsInv'
      OBVIOUS
  <2>1. [Next]_vars /\ Moves /\ TypeOK /\ StepsExist
      BY RowsStep, EveryMove DEF RowsInv, IInv, WorkInv
  <2>2. IInv' /\ WorkInv' /\ AttributionInv' /\ EventInv'
      BY <2>1, NextIInv, NextWork, MovesAttribution, NextEvents DEF RowsInv
  <2>3. Rooted'
      BY <2>1, NextRooted DEF RowsInv
  <2>4. ControlEventsTable'
      BY <2>1, NextEventSteps DEF RowsInv, EventInv
  <2>. QED BY <2>2, <2>3, <2>4 DEF RowsInv
<1>3. RowsInv => RowsAgree
  <2>. SUFFICES ASSUME RowsInv PROVE RowsAgree
      OBVIOUS
  <2>1. TablesAdmit
      BY ScheduleAdmitted, AttemptsAdmitted, DelegationsAdmitted DEF RowsInv, TablesAdmit
  <2>. QED BY <2>1, LayersAlwaysAgree DEF RowsInv, EventInv, RowsAgree, RowsAdmitted
<1>. QED BY <1>1, <1>2, <1>3, PTL DEF RowsSpec

-----------------------------------------------------------------------------
(* Reconfiguration: the log of events and the answers about it.               *)

(* The invariant says of every open session what its rows, its call, its      *)
(* decisions and the event it is about to append have to do with the log.     *)

(* Two events that would be one row of the log: one identifier, or one       *)
(* version of a subject.                                                     *)
SameRow(e, f) == e.event_id = f.event_id \/ (e.subject = f.subject /\ e.to_version = f.to_version)

(* What made an event right when it was proposed and keeps it right, since   *)
(* rows only grow: the version it follows, the approval it carries and, for  *)
(* a rollback, the event it makes active again.                              *)
Grounded(e, rows) ==
    /\ e.to_version = e.from_version + 1
    /\ e.from_version > 0 => \E f \in OfSubject(rows, e.subject) : f.to_version = e.from_version
    /\ e.approval.version = e.to_version
    /\ e.approval.bound_to = [kind |-> "promotion_candidate", ref |-> e.candidate]
    /\ e.kind = "ROLLBACK" =>
          /\ e.approval.expiry # None => e.recorded_at < e.approval.expiry
          /\ \E f \in OfSubject(rows, e.subject) :
                f.event_id = e.rollback_of /\ f.to_version < e.to_version
                /\ f.candidate = e.candidate

\* a finite log has a last version
Bounded(rows) == \E n \in Nat : \A e \in rows : e.to_version <= n

LogInv ==
    /\ log \subseteq PredictiveReconfigurationEvent /\ Bounded(log)
    /\ \A e \in log : Grounded(e, log)
    /\ \A e, f \in log : SameRow(e, f) => e = f

MineInv(s) ==
    /\ mine[s] \subseteq PredictiveReconfigurationEvent /\ Bounded(mine[s])
    /\ \A e \in mine[s] : Grounded(e, Visible(s))
    /\ \A e, f \in mine[s] : SameRow(e, f) => e = f
    /\ \A e \in mine[s], f \in log : ~ SameRow(e, f)
    /\ \A t \in Sessions \ {s} : \A e \in mine[s], f \in mine[t] : ~ SameRow(e, f)

(* The claims of a call and what was evaluated of them. *)
Claims(c, evaluated) ==
    /\ Len(c.items) \in Nat /\ DOMAIN c.items = 1 .. Len(c.items)
    /\ \A i \in DOMAIN c.items :
          /\ c.items[i] \in PredictiveEvaluationItem
          /\ evaluated[i] = predictive_evaluate_item(c.items[i])
    /\ c.at \in Nat

Public(c) == c.kind = "public"

(* Where a session is in its call. *)
CallInv(s) ==
    /\ pc[s] \in {"idle", "gate", "rollback", "append", "commit", "answered", "refused", "raised"}
    /\ pc[s] \in {"idle", "refused", "raised"} =>
          call[s] = None /\ mine[s] = {} /\ decisions[s] = <<>>
    /\ pc[s] = "gate" => call[s] \in Batches
    /\ pc[s] = "rollback" => call[s] \in Rollbacks /\ decisions[s] = <<>> /\ mine[s] = {}
    /\ pc[s] \in {"append", "commit"} => call[s] \in Batches \cup Rollbacks
    /\ pc[s] = "answered" => mine[s] = {} /\ (call[s] \in Batches \cup Rollbacks \/ Public(call[s]))
    /\ pc[s] \in {"gate", "append", "commit", "answered"} /\ call[s] \notin Rollbacks =>
          Claims(call[s], outcomes[s])

Decisions == [decision : PredictiveReconfigurationDecision,
              event_id : Events \cup {None}, version : Nat \cup {None}]

\* there is a decision to take
Undecided(s) ==
    \/ pc[s] = "append"
    \/ pc[s] = "rollback"
    \/ pc[s] = "gate" /\ Len(decisions[s]) < Len(call[s].items)

(* How far it has come, and what it will have answered. *)
ProgressInv(s) ==
    /\ decisions[s] \in Seq(Decisions)
    /\ pc[s] \in {"gate", "append"} /\ call[s] \in Batches =>
          Len(decisions[s]) <= Len(call[s].items)
    /\ pc[s] = "append" =>
          IF call[s] \in Rollbacks THEN decisions[s] = <<>>
          ELSE Len(decisions[s]) < Len(call[s].items)
    /\ pc[s] \in {"commit", "answered"} =>
          IF call[s] \in Rollbacks THEN Len(decisions[s]) = 1
          ELSE /\ Len(decisions[s]) = Len(call[s].items)
               /\ routes[s] = predictive_route_batch(call[s].items, outcomes[s],
                      [i \in DOMAIN decisions[s] |-> decisions[s][i].decision = "promoted"],
                      call[s].at)

(* The event of item i is the promotion the item asks for. *)
Promotes(e, s, i) ==
    call[s] \notin Rollbacks =>
        /\ i \in DOMAIN call[s].items
        /\ call[s].items[i].ready
        /\ e.event_id = call[s].instructions[i].event_id
        /\ e.subject = call[s].items[i].subject
        /\ e.candidate = call[s].items[i].authority.approval.bound_to.ref

(* What was decided is what the rows say, for those who see them. *)
Told(d, s, i) ==
    /\ d.decision \in {"promoted", "replayed"} =>
          /\ d.version = Asked(s, i)
          /\ \E e \in Visible(s) : e.event_id = d.event_id /\ e.to_version = d.version
    /\ d.decision = "promoted" => \E e \in Visible(s) : Promotes(e, s, i)
    /\ d.decision = "lost_concurrent_race" /\ d.event_id # None =>
          \E e \in Visible(s) : e.event_id = d.event_id /\ e.to_version = d.version

DecisionInv(s) == \A i \in DOMAIN decisions[s] : Told(decisions[s][i], s, i)

(* The event about to be appended is right for what the session sees and     *)
(* newer than all it has inserted itself; only rivals may have its version.  *)
AppendingInv(s) ==
    pc[s] = "append" =>
        /\ event[s] \in PredictiveReconfigurationEvent
        /\ Grounded(event[s], Visible(s))
        /\ \A e \in OfSubject(mine[s], event[s].subject) : e.to_version <= event[s].from_version
        /\ Asked(s, Position(s)) = event[s].to_version
        /\ Promotes(event[s], s, Position(s))

(* One value per session. *)
Shape ==
    /\ DOMAIN mine = Sessions /\ DOMAIN pc = Sessions /\ DOMAIN call = Sessions
    /\ DOMAIN outcomes = Sessions /\ DOMAIN event = Sessions /\ DOMAIN decisions = Sessions
    /\ DOMAIN routes = Sessions

SessionInv(s) == MineInv(s) /\ CallInv(s) /\ ProgressInv(s) /\ DecisionInv(s) /\ AppendingInv(s)

ReconfigurationIInv == Shape /\ LogInv /\ \A s \in Sessions : SessionInv(s)

-----------------------------------------------------------------------------
(* The rows. *)

(* An event is a row with numbers for versions. *)
LEMMA EventFields ==
    ASSUME NEW e \in PredictiveReconfigurationEvent
    PROVE  /\ e # None /\ e.event_id \in Events /\ e.event_id # None /\ e.subject \in Subjects
           /\ e.from_version \in Nat /\ e.to_version \in Nat /\ e.to_version > 0
           /\ e.candidate \in References /\ e.recorded_at \in Nat
           /\ e.approval \in ApprovalBinding
BY ReconfigurationAssumption DEF PredictiveReconfigurationEvent

(* What an event rests on stays where rows are only added. *)
LEMMA GroundedStays ==
    ASSUME NEW e, NEW rows, NEW more, Grounded(e, rows), rows \subseteq more
    PROVE  Grounded(e, more)
<1>1. OfSubject(rows, e.subject) \subseteq OfSubject(more, e.subject)
    BY DEF OfSubject
<1>. QED BY <1>1 DEF Grounded

LEMMA BoundedTogether ==
    ASSUME NEW rows \in SUBSET PredictiveReconfigurationEvent, Bounded(rows),
           NEW more \in SUBSET PredictiveReconfigurationEvent, Bounded(more)
    PROVE  Bounded(rows \cup more)
<1>1. PICK n \in Nat : \A e \in rows : e.to_version <= n
    BY DEF Bounded
<1>2. PICK m \in Nat : \A e \in more : e.to_version <= m
    BY DEF Bounded
<1>3. ASSUME NEW e \in rows \cup more PROVE e.to_version <= n + m
  <2>1. e.to_version \in Nat
      BY EventFields
  <2>2. e.to_version <= n \/ e.to_version <= m
      BY <1>1, <1>2
  <2>. QED BY <2>1, <2>2
<1>. QED BY <1>3 DEF Bounded

LEMMA BoundedOne ==
    ASSUME NEW e \in PredictiveReconfigurationEvent
    PROVE  Bounded({e}) /\ Bounded({})
<1>1. e.to_version \in Nat
    BY EventFields
<1>2. \A f \in {e} : f.to_version <= e.to_version
    BY <1>1
<1>. QED BY <1>1, <1>2 DEF Bounded

Below == OpToRel(<, Nat)

(* A bounded set of versions has a last one. *)
LEMMA LastVersion ==
    ASSUME NEW S \in SUBSET Nat, S # {}, NEW n \in Nat, \A m \in S : m <= n
    PROVE  \E m \in S : \A k \in S : k <= m
<1>. DEFINE Rest == {n - m : m \in S}
<1>1. Rest \in SUBSET Nat /\ Rest # {}
  <2>1. ASSUME NEW m \in S PROVE n - m \in Nat
      BY m <= n
  <2>. QED BY <2>1
<1>2. PICK r \in Rest : \A q \in Rest : r <= q
  <2>1. IsWellFoundedOn(Below, Nat)
      BY NatLessThanWellFounded DEF Below
  <2>. HIDE DEF Rest
  <2>2. PICK r \in Rest : \A q \in Rest : <<q, r>> \notin Below
      BY <1>1, <2>1, WFMin
  <2>3. ASSUME NEW q \in Rest PROVE r <= q
    <3>1. q \in Nat /\ r \in Nat
        BY <1>1
    <3>2. q < r => <<q, r>> \in Below
        BY <3>1 DEF Below, OpToRel
    <3>. QED BY <3>1, <3>2, <2>2
  <2>. QED BY <2>3
<1>3. PICK m \in S : r = n - m
    OBVIOUS
<1>4. ASSUME NEW k \in S PROVE k <= m
  <2>1. n - m <= n - k
      BY <1>2, <1>3
  <2>. QED BY <2>1
<1>. QED BY <1>4

(* What is current is the last event of the subject, if there is one. *)
LEMMA CurrentIsLast ==
    ASSUME NEW rows \in SUBSET PredictiveReconfigurationEvent, Bounded(rows), NEW x
    PROVE  /\ current(rows, x) = None => OfSubject(rows, x) = {}
           /\ current(rows, x) # None => current(rows, x) \in OfSubject(rows, x)
           /\ \A f \in OfSubject(rows, x) : f.to_version <= current(rows, x).to_version
<1>. DEFINE all == OfSubject(rows, x)
            versions == {e.to_version : e \in all}
<1>1. all \subseteq rows
    BY DEF OfSubject
<1>2. CASE all = {}
    BY <1>2 DEF current
<1>3. CASE all # {}
  <2>1. versions \in SUBSET Nat /\ versions # {}
      BY <1>1, <1>3, EventFields
  <2>2. PICK n \in Nat : \A m \in versions : m <= n
      BY <1>1 DEF Bounded
  <2>3. PICK m \in versions : \A k \in versions : k <= m
    <3>. HIDE DEF versions
    <3>. QED BY <2>1, <2>2, LastVersion
  <2>4. PICK e \in all : e.to_version = m
      OBVIOUS
  <2>5. \A f \in all : f.to_version <= e.to_version
      BY <2>3, <2>4
  <2>6. current(rows, x) = CHOOSE g \in all : \A f \in all : f.to_version <= g.to_version
      BY <1>3 DEF current
  <2>. HIDE DEF all
  <2>7. current(rows, x) \in all /\ \A f \in all : f.to_version <= current(rows, x).to_version
      BY <2>4, <2>5, <2>6
  <2>8. current(rows, x) # None
      BY <2>7, <1>1, EventFields
  <2>. QED BY <2>7, <2>8 DEF all
<1>. QED BY <1>2, <1>3

(* A subject at version n has an event that made it n and none later. *)
LEMMA VersionReached ==
    ASSUME NEW rows \in SUBSET PredictiveReconfigurationEvent, Bounded(rows), NEW x, NEW n \in Nat,
           version_of(current(rows, x)) = n
    PROVE  /\ n > 0 => \E f \in OfSubject(rows, x) : f.to_version = n
           /\ \A f \in OfSubject(rows, x) : f.to_version <= n
<1>1. CASE current(rows, x) = None
    BY <1>1, CurrentIsLast DEF version_of
<1>2. CASE current(rows, x) # None
    BY <1>2, CurrentIsLast DEF version_of
<1>. QED BY <1>1, <1>2

(* An event is found by its identifier exactly if it is there. *)
LEMMA Found ==
    ASSUME NEW rows \in SUBSET PredictiveReconfigurationEvent, NEW id
    PROVE  /\ get(rows, id) = None => \A e \in rows : e.event_id # id
           /\ get(rows, id) # None => get(rows, id) \in rows /\ get(rows, id).event_id = id
<1>. DEFINE all == {e \in rows : e.event_id = id}
<1>1. CASE all = {}
    BY <1>1 DEF get
<1>2. CASE all # {}
  <2>1. get(rows, id) = CHOOSE e \in all : TRUE
      BY <1>2 DEF get
  <2>2. get(rows, id) \in all
      BY <1>2, <2>1
  <2>. QED BY <2>2, EventFields
<1>. QED BY <1>1, <1>2

(* What a session sees. *)
LEMMA Seen ==
    ASSUME LogInv, NEW s \in Sessions, MineInv(s)
    PROVE  /\ Visible(s) \in SUBSET PredictiveReconfigurationEvent /\ Bounded(Visible(s))
           /\ log \subseteq Visible(s) /\ mine[s] \subseteq Visible(s)
BY BoundedTogether DEF LogInv, MineInv, Visible

-----------------------------------------------------------------------------
(* The calls. *)

(* A batch is no rollback, and its claims and instructions have their types. *)
LEMMA BatchForm ==
    ASSUME NEW b \in Batches
    PROVE  /\ b.kind = "batch" /\ b \notin Rollbacks /\ IsBatch(b) /\ ~ Public(b)
           /\ b.at \in Nat /\ Len(b.items) \in Nat /\ DOMAIN b.items = 1 .. Len(b.items)
           /\ \A i \in DOMAIN b.items : b.items[i] \in PredictiveEvaluationItem
           /\ \A i \in DOMAIN b.items :
                 b.instructions[i] \in PredictiveReconfigurationInstruction \cup {None}
<1>1. b.kind = "batch"
    BY ReconfigurationAssumption
<1>2. b \notin Rollbacks
    BY <1>1, ReconfigurationAssumption DEF PredictiveRollbackRequest
<1>. QED BY <1>1, <1>2, ReconfigurationAssumption DEF IsBatch, Public

LEMMA RollbackForm ==
    ASSUME NEW r \in Rollbacks
    PROVE  /\ r \in PredictiveRollbackRequest /\ r.kind = "rollback"
           /\ ~ IsBatch(r) /\ ~ Public(r)
BY ReconfigurationAssumption DEF PredictiveRollbackRequest, IsBatch, Public

(* A call is a batch, public or not, exactly if it is no rollback. *)
LEMMA BatchOrRollback ==
    ASSUME NEW s, call[s] \in Batches \cup Rollbacks \/ Public(call[s])
    PROVE  IsBatch(call[s]) <=> call[s] \notin Rollbacks
BY BatchForm, RollbackForm DEF IsBatch, Public

(* A session that nobody disturbs, while rows it does not collide with are   *)
(* added, keeps its invariant.                                               *)
LEMMA OthersStand ==
    ASSUME NEW s \in Sessions, SessionInv(s),
           mine'[s] = mine[s], pc'[s] = pc[s], call'[s] = call[s], outcomes'[s] = outcomes[s],
           event'[s] = event[s], decisions'[s] = decisions[s], routes'[s] = routes[s],
           log \subseteq log',
           \A e \in mine[s], f \in log' : ~ SameRow(e, f),
           \A t \in Sessions \ {s} : \A e \in mine[s], f \in mine'[t] : ~ SameRow(e, f)
    PROVE  SessionInv(s)'
<1>1. Visible(s) \subseteq Visible(s)'
    BY DEF Visible
<1>2. MineInv(s)'
  <2>1. MineInv(s)
      BY DEF SessionInv
  <2>2. \A e \in mine'[s] : Grounded(e, Visible(s)')
      BY <1>1, <2>1, GroundedStays DEF MineInv
  <2>. QED BY <2>1, <2>2 DEF MineInv
<1>3. CallInv(s)'
    BY DEF SessionInv, CallInv
<1>4. ProgressInv(s)'
    BY DEF SessionInv, ProgressInv
<1>5. DecisionInv(s)'
  <2>. SUFFICES ASSUME NEW i \in DOMAIN decisions[s] PROVE Told(decisions[s][i], s, i)'
      BY DEF DecisionInv
  <2>1. Told(decisions[s][i], s, i)
      BY DEF SessionInv, DecisionInv
  <2>2. Asked(s, i)' = Asked(s, i)
      BY DEF Asked
  <2>3. \A e : Promotes(e, s, i)' <=> Promotes(e, s, i)
      BY DEF Promotes
  <2>4. decisions'[s][i] = decisions[s][i]
      OBVIOUS
  <2>. QED BY <1>1, <2>1, <2>2, <2>3, <2>4 DEF Told
<1>6. AppendingInv(s)'
  <2>. SUFFICES ASSUME pc[s] = "append" PROVE AppendingInv(s)'
      BY DEF AppendingInv
  <2>1. AppendingInv(s)
      BY DEF SessionInv
  <2>2. Position(s)' = Position(s) /\ Asked(s, Position(s))' = Asked(s, Position(s))
      BY DEF Position, Asked
  <2>3. Promotes(event[s], s, Position(s))' <=> Promotes(event[s], s, Position(s))
      BY <2>2 DEF Promotes
  <2>4. Grounded(event'[s], Visible(s)')
      BY <1>1, <2>1, GroundedStays DEF AppendingInv
  <2>. QED BY <2>1, <2>2, <2>3, <2>4 DEF AppendingInv
<1>. QED BY <1>2, <1>3, <1>4, <1>5, <1>6 DEF SessionInv

(* While no row is written, only the session that acts has to be looked at.  *)
LEMMA OneActs ==
    ASSUME ReconfigurationIInv, NEW s \in Sessions, UNCHANGED log, Shape',
           \A t \in Sessions \ {s} : /\ mine'[t] = mine[t] /\ pc'[t] = pc[t] /\ call'[t] = call[t]
                                     /\ outcomes'[t] = outcomes[t] /\ event'[t] = event[t]
                                     /\ decisions'[t] = decisions[t] /\ routes'[t] = routes[t],
           mine'[s] \subseteq mine[s], SessionInv(s)'
    PROVE  ReconfigurationIInv'
<1>1. LogInv'
    BY DEF ReconfigurationIInv, LogInv
<1>2. ASSUME NEW u \in Sessions \ {s} PROVE SessionInv(u)'
  <2>1. SessionInv(u) /\ MineInv(u)
      BY DEF ReconfigurationIInv, SessionInv
  <2>2. \A e \in mine[u], f \in log' : ~ SameRow(e, f)
      BY <2>1 DEF MineInv
  <2>3. ASSUME NEW t \in Sessions \ {u}, NEW e \in mine[u], NEW f \in mine'[t]
        PROVE  ~ SameRow(e, f)
    <3>1. f \in mine[t]
        OBVIOUS
    <3>. QED BY <2>1, <3>1 DEF MineInv
  <2>4. /\ mine'[u] = mine[u] /\ pc'[u] = pc[u] /\ call'[u] = call[u]
        /\ outcomes'[u] = outcomes[u] /\ event'[u] = event[u]
        /\ decisions'[u] = decisions[u] /\ routes'[u] = routes[u]
      OBVIOUS
  <2>. QED BY <2>1, <2>2, <2>3, <2>4, OthersStand
<1>. QED BY <1>1, <1>2 DEF ReconfigurationIInv

-----------------------------------------------------------------------------
(* The steps. *)

(* A decision is taken: the session goes on to the next item, or its caller  *)
(* commits.                                                                  *)
LEMMA Answering ==
    ASSUME ReconfigurationIInv, NEW s \in Sessions, NEW d \in Decisions, Answer(s, d),
           Undecided(s),
           Visible(s) \subseteq Visible(s)', MineInv(s)',
           d.decision \in {"promoted", "replayed"} =>
               /\ d.version = Asked(s, Position(s))
               /\ \E e \in Visible(s)' : e.event_id = d.event_id /\ e.to_version = d.version,
           d.decision = "promoted" => \E e \in Visible(s)' : Promotes(e, s, Position(s)),
           d.decision = "lost_concurrent_race" /\ d.event_id # None =>
               \E e \in Visible(s)' : e.event_id = d.event_id /\ e.to_version = d.version
    PROVE  SessionInv(s)'
<1>1. Shape /\ CallInv(s) /\ ProgressInv(s) /\ DecisionInv(s)
    BY DEF ReconfigurationIInv, SessionInv
<1>2. /\ decisions'[s] = Append(decisions[s], d) /\ call'[s] = call[s]
      /\ outcomes'[s] = outcomes[s] /\ routes'[s] = routes[s] /\ event'[s] = None
      /\ pc'[s] = IF IsBatch(call[s]) THEN "gate" ELSE "commit"
    BY <1>1 DEF Answer, Shape
<1>0. \/ pc[s] \in {"rollback", "append"}
      \/ pc[s] = "gate" /\ Len(decisions[s]) < Len(call[s].items)
    BY DEF Undecided
<1>3. /\ call[s] \in Batches \cup Rollbacks
      /\ IsBatch(call[s]) <=> call[s] \notin Rollbacks
      /\ pc[s] = "gate" => call[s] \in Batches
      /\ pc[s] = "rollback" => call[s] \in Rollbacks /\ decisions[s] = <<>>
      /\ pc[s] = "append" =>
            IF call[s] \in Rollbacks THEN decisions[s] = <<>>
            ELSE Len(decisions[s]) < Len(call[s].items)
  <2>1. call[s] \in Batches \cup Rollbacks
      BY <1>0, <1>1 DEF CallInv
  <2>. QED BY <1>0, <1>1, <2>1, BatchOrRollback DEF CallInv, ProgressInv
<1>4. /\ decisions[s] \in Seq(Decisions) /\ decisions'[s] \in Seq(Decisions)
      /\ Len(decisions[s]) \in Nat /\ Len(decisions'[s]) = Len(decisions[s]) + 1
      /\ DOMAIN decisions[s] = 1 .. Len(decisions[s])
      /\ DOMAIN decisions'[s] = 1 .. Position(s)
      /\ \A i \in 1 .. Len(decisions[s]) : decisions'[s][i] = decisions[s][i]
      /\ decisions'[s][Position(s)] = d
  <2>1. decisions[s] \in Seq(Decisions)
      BY <1>1 DEF ProgressInv
  <2>. HIDE DEF Decisions
  <2>. QED BY <2>1, <1>2, AppendProperties, LenProperties DEF Position
<1>5. call[s] \in Rollbacks => Len(decisions[s]) = 0
    BY <1>0, <1>3, BatchForm
<1>6. CallInv(s)'
  <2>1. pc'[s] = "gate" => call'[s] \in Batches
      BY <1>2, <1>3
  <2>2. Claims(call'[s], outcomes'[s]) <=> Claims(call[s], outcomes[s])
      BY <1>2
  <2>3. call[s] \notin Rollbacks => Claims(call[s], outcomes[s])
      BY <1>0, <1>1, <1>3 DEF CallInv
  <2>. QED BY <2>1, <2>2, <2>3, <1>2, <1>3 DEF CallInv
<1>7. ProgressInv(s)'
  <2>1. call[s] \in Batches => Len(decisions'[s]) <= Len(call[s].items)
    <3>1. ASSUME call[s] \in Batches PROVE Len(call[s].items) \in Nat /\ call[s] \notin Rollbacks
        BY <3>1, BatchForm
    <3>2. ASSUME call[s] \in Batches PROVE Len(decisions[s]) < Len(call[s].items)
        BY <3>1, <3>2, <1>0, <1>3, <1>1
    <3>. QED BY <3>1, <3>2, <1>4
  <2>2. pc'[s] = "commit" => call[s] \in Rollbacks /\ Len(decisions'[s]) = 1
      BY <1>2, <1>3, <1>4, <1>5
  <2>. QED BY <2>1, <2>2, <1>2, <1>4 DEF ProgressInv
<1>8. \A i : Asked(s, i)' = Asked(s, i) /\ \A e : Promotes(e, s, i)' <=> Promotes(e, s, i)
    BY <1>2 DEF Asked, Promotes
<1>9. DecisionInv(s)'
  <2>. SUFFICES ASSUME NEW i \in 1 .. Position(s) PROVE Told(decisions[s][i], s, i)'
      BY <1>4 DEF DecisionInv
  <2>1. CASE i \in 1 .. Len(decisions[s])
    <3>1. Told(decisions[s][i], s, i)
        BY <1>1, <1>4, <2>1 DEF DecisionInv
    <3>2. decisions'[s][i] = decisions[s][i]
        BY <1>4, <2>1
    <3>. QED BY <3>1, <3>2, <1>8 DEF Told
  <2>2. CASE i = Position(s)
    <3>1. decisions'[s][i] = d
        BY <1>4, <2>2
    <3>. QED BY <3>1, <1>8, <2>2 DEF Told
  <2>. QED BY <2>1, <2>2, <1>4 DEF Position
<1>10. AppendingInv(s)'
    BY <1>2 DEF AppendingInv
<1>. QED BY <1>6, <1>7, <1>9, <1>10 DEF SessionInv

(* An answer that writes nothing. *)
LEMMA Deciding ==
    ASSUME ReconfigurationIInv, NEW s \in Sessions, NEW d \in Decisions, Decide(s, d),
           Undecided(s),
           d.decision # "promoted",
           d.decision = "replayed" =>
               /\ d.version = Asked(s, Position(s))
               /\ \E e \in Visible(s) : e.event_id = d.event_id /\ e.to_version = d.version,
           d.decision = "lost_concurrent_race" /\ d.event_id # None =>
               \E e \in Visible(s) : e.event_id = d.event_id /\ e.to_version = d.version
    PROVE  ReconfigurationIInv'
<1>1. Shape /\ MineInv(s)
    BY DEF ReconfigurationIInv, SessionInv
<1>2. UNCHANGED log /\ mine' = mine /\ Answer(s, d)
    BY DEF Decide, Answer
<1>3. Visible(s)' = Visible(s) /\ MineInv(s)'
    BY <1>1, <1>2 DEF Visible, MineInv
<1>4. SessionInv(s)'
    BY <1>2, <1>3, Answering
<1>5. Shape' /\ \A t \in Sessions \ {s} :
          /\ mine'[t] = mine[t] /\ pc'[t] = pc[t] /\ call'[t] = call[t]
          /\ outcomes'[t] = outcomes[t] /\ event'[t] = event[t]
          /\ decisions'[t] = decisions[t] /\ routes'[t] = routes[t]
    BY <1>1, <1>2 DEF Answer, Shape
<1>. QED BY <1>2, <1>4, <1>5, OneActs

(* A lost race names what is current for the session. *)
LEMMA Losing ==
    ASSUME ReconfigurationIInv, NEW s \in Sessions, NEW x, Lost(s, x),
           Undecided(s)
    PROVE  ReconfigurationIInv'
<1>. DEFINE found == current(Visible(s), x)
            d == Outcome("lost_concurrent_race", id_of(found), version_of(found))
<1>1. Visible(s) \in SUBSET PredictiveReconfigurationEvent /\ Bounded(Visible(s))
    BY Seen DEF ReconfigurationIInv, SessionInv
<1>2. found # None => found \in Visible(s)
    BY <1>1, CurrentIsLast DEF OfSubject
<1>3. id_of(found) \in Events \cup {None} /\ version_of(found) \in Nat
    BY <1>1, <1>2, EventFields DEF id_of, version_of
<1>4. d \in Decisions /\ d.decision = "lost_concurrent_race"
      /\ d.event_id = id_of(found) /\ d.version = version_of(found)
    BY <1>3 DEF Outcome, Decisions, PredictiveReconfigurationDecision
<1>5. d.event_id # None => \E e \in Visible(s) : e.event_id = d.event_id /\ e.to_version = d.version
    BY <1>2, <1>4 DEF id_of, version_of
<1>6. Decide(s, d)
    BY DEF Lost
<1>. HIDE DEF d
<1>. QED BY <1>4, <1>5, <1>6, Deciding

(* The session gives up, or is done: nothing of it stays but what it         *)
(* committed.                                                                *)
LEMMA Forgetting ==
    ASSUME ReconfigurationIInv, NEW s \in Sessions, Forget(s), UNCHANGED log,
           DOMAIN mine' = Sessions, mine'[s] = {}, \A t \in Sessions \ {s} : mine'[t] = mine[t]
    PROVE  ReconfigurationIInv'
<1>1. Shape /\ LogInv
    BY DEF ReconfigurationIInv
<1>2. Shape' /\ \A t \in Sessions \ {s} :
          /\ mine'[t] = mine[t] /\ pc'[t] = pc[t] /\ call'[t] = call[t]
          /\ outcomes'[t] = outcomes[t] /\ event'[t] = event[t]
          /\ decisions'[t] = decisions[t] /\ routes'[t] = routes[t]
    BY <1>1 DEF Forget, Shape
<1>3. mine'[s] = {} /\ pc'[s] = "idle" /\ call'[s] = None /\ decisions'[s] = <<>>
    BY <1>1 DEF Forget, Shape
<1>4. MineInv(s)'
  <2>1. Bounded({})
      BY DEF Bounded
  <2>. QED BY <2>1, <1>3 DEF MineInv
<1>5. CallInv(s)' /\ ProgressInv(s)' /\ AppendingInv(s)'
    BY <1>3 DEF CallInv, ProgressInv, AppendingInv
<1>6. DecisionInv(s)'
  <2>1. DOMAIN decisions'[s] = {}
      BY <1>3
  <2>. QED BY <2>1 DEF DecisionInv
<1>7. SessionInv(s)'
    BY <1>4, <1>5, <1>6 DEF SessionInv
<1>. QED BY <1>2, <1>3, <1>7, OneActs

LEMMA Aborting ==
    ASSUME ReconfigurationIInv, NEW s \in Sessions, Abort(s)
    PROVE  ReconfigurationIInv'
<1>1. DOMAIN mine = Sessions /\ mine' = [mine EXCEPT ![s] = {}]
    BY DEF ReconfigurationIInv, Shape, Abort
<1>2. DOMAIN mine' = Sessions /\ mine'[s] = {} /\ \A t \in Sessions \ {s} : mine'[t] = mine[t]
    BY <1>1
<1>3. Forget(s) /\ UNCHANGED log
    BY DEF Abort
<1>. QED BY <1>2, <1>3, Forgetting

LEMMA Leaving ==
    ASSUME ReconfigurationIInv, NEW s \in Sessions, NextCall(s)
    PROVE  ReconfigurationIInv'
<1>1. Shape /\ CallInv(s)
    BY DEF ReconfigurationIInv, SessionInv
<1>2. mine[s] = {}
    BY <1>1 DEF CallInv, NextCall
<1>3. Forget(s) /\ UNCHANGED <<log, mine>>
    BY DEF NextCall
<1>. QED BY <1>1, <1>2, <1>3, Forgetting DEF Shape

(* An event that is right for what the session sees may be proposed. *)
LEMMA Proposing ==
    ASSUME ReconfigurationIInv, NEW s \in Sessions, NEW e \in PredictiveReconfigurationEvent,
           Propose(s, e),
           Undecided(s), pc[s] # "append",
           Grounded(e, Visible(s)),
           \A f \in OfSubject(mine[s], e.subject) : f.to_version <= e.from_version,
           Asked(s, Position(s)) = e.to_version, Promotes(e, s, Position(s))
    PROVE  ReconfigurationIInv'
<1>1. Shape /\ SessionInv(s)
    BY DEF ReconfigurationIInv
<1>2. /\ event'[s] = e /\ pc'[s] = "append" /\ decisions' = decisions /\ call' = call
      /\ outcomes' = outcomes /\ routes' = routes /\ mine' = mine /\ UNCHANGED log
    BY <1>1 DEF Propose, Shape
<1>3. Shape' /\ \A t \in Sessions \ {s} :
          /\ mine'[t] = mine[t] /\ pc'[t] = pc[t] /\ call'[t] = call[t]
          /\ outcomes'[t] = outcomes[t] /\ event'[t] = event[t]
          /\ decisions'[t] = decisions[t] /\ routes'[t] = routes[t]
    BY <1>1, <1>2 DEF Propose, Shape
<1>0. \/ pc[s] = "rollback"
      \/ pc[s] = "gate" /\ Len(decisions[s]) < Len(call[s].items)
    BY DEF Undecided
<1>4. /\ pc[s] = "gate" => call[s] \in Batches
      /\ pc[s] = "rollback" => call[s] \in Rollbacks /\ decisions[s] = <<>>
    BY <1>1 DEF SessionInv, CallInv
<1>5. MineInv(s)'
    BY <1>1, <1>2 DEF SessionInv, MineInv, Visible
<1>6. CallInv(s)'
  <2>1. call[s] \notin Rollbacks => Claims(call[s], outcomes[s])
      BY <1>0, <1>1, <1>4 DEF SessionInv, CallInv
  <2>2. Claims(call'[s], outcomes'[s]) <=> Claims(call[s], outcomes[s])
      BY <1>2
  <2>. QED BY <1>0, <1>2, <1>4, <2>1, <2>2 DEF CallInv
<1>7. ProgressInv(s)'
  <2>1. call[s] \in Batches => call[s] \notin Rollbacks
      BY BatchForm
  <2>2. ProgressInv(s)
      BY <1>1 DEF SessionInv
  <2>. QED BY <1>0, <1>2, <1>4, <2>1, <2>2 DEF ProgressInv
<1>8. DecisionInv(s)'
  <2>1. \A i : Asked(s, i)' = Asked(s, i)
      BY <1>2 DEF Asked
  <2>2. \A i, f : Promotes(f, s, i)' <=> Promotes(f, s, i)
      BY <1>2 DEF Promotes
  <2>3. Visible(s)' = Visible(s)
      BY <1>2 DEF Visible
  <2>. QED BY <1>1, <1>2, <2>1, <2>2, <2>3 DEF SessionInv, DecisionInv, Told
<1>9. AppendingInv(s)'
  <2>1. Position(s)' = Position(s) /\ Asked(s, Position(s))' = Asked(s, Position(s))
      BY <1>2 DEF Position, Asked
  <2>2. Promotes(event[s], s, Position(s))' <=> Promotes(e, s, Position(s))
      BY <1>2, <2>1 DEF Promotes
  <2>3. Visible(s)' = Visible(s)
      BY <1>2 DEF Visible
  <2>. QED BY <1>2, <2>1, <2>2, <2>3 DEF AppendingInv
<1>10. SessionInv(s)'
    BY <1>5, <1>6, <1>7, <1>8, <1>9 DEF SessionInv
<1>. QED BY <1>2, <1>3, <1>10, OneActs

(* What is not refused was evaluated and shifted, and has an approval that   *)
(* binds its candidate as the next version.                                  *)
LEMMA NotRefused ==
    ASSUME NEW item \in PredictiveEvaluationItem,
           NEW instruction \in PredictiveReconfigurationInstruction \cup {None},
           Refusal(predictive_evaluate_item(item),
                   IF item.ready THEN item.authority.approval ELSE None, instruction) = None
    PROVE  /\ item.ready /\ Evaluated(predictive_evaluate_item(item))
           /\ predictive_evaluate_item(item).subject = item.subject
           /\ instruction \in PredictiveReconfigurationInstruction
           /\ item.authority.approval \in ApprovalBinding
           /\ valid_binding(item.authority.approval, instruction.candidate,
                            instruction.expected_version + 1)
<1>. DEFINE outcome == predictive_evaluate_item(item)
            approval == IF item.ready THEN item.authority.approval ELSE None
<1>1. None \notin {"not_applicable", "rejected_validation", "rejected_approval"}
    BY ReconfigurationAssumption DEF PredictiveReconfigurationDecision
<1>2. /\ Evaluated(outcome) /\ instruction # None /\ approval # None
      /\ valid_binding(approval, instruction.candidate, instruction.expected_version + 1)
  <2>. HIDE DEF outcome, approval
  <2>1. Refusal(outcome, approval, instruction) = None
      BY DEF outcome, approval
  <2>. QED BY <1>1, <2>1 DEF Refusal
<1>3. item.ready
    BY <1>2
<1>4. outcome.subject = item.subject
    BY <1>2, <1>3 DEF Evaluated, predictive_evaluate_item
<1>5. item.authority.approval \in ApprovalBinding
    BY <1>2, <1>3 DEF PredictiveEvaluationItem, AuthorityContext
<1>. QED BY <1>2, <1>3, <1>4, <1>5

(* What a refusal says is one of the decisions. *)
LEMMA Refusals ==
    ASSUME NEW outcome, NEW approval, NEW instruction
    PROVE  Refusal(outcome, approval, instruction)
               \in {"not_applicable", "rejected_validation", "rejected_approval", None}
BY DEF Refusal

LEMMA PlainDecision ==
    ASSUME NEW word \in {"not_applicable", "rejected_validation", "rejected_approval"}
    PROVE  Outcome(word, None, None) \in Decisions /\ Outcome(word, None, None).decision = word
BY DEF Outcome, Decisions, PredictiveReconfigurationDecision

LEMMA GateKeeps ==
    ASSUME ReconfigurationIInv, NEW s \in Sessions, predictive_reconfiguration_gate(s)
    PROVE  ReconfigurationIInv'
<1>. DEFINE i == Position(s)
            item == call[s].items[i]
            outcome == outcomes[s][i]
            instruction == call[s].instructions[i]
            approval == IF item.ready THEN item.authority.approval ELSE None
            refusal == Refusal(outcome, approval, instruction)
            mistaken == Evaluated(outcome) /\ instruction # None
                            /\ instruction.subject # outcome.subject
            e == [event_id     |-> instruction.event_id,
                  subject      |-> instruction.subject,
                  kind         |-> "PROMOTE",
                  from_version |-> instruction.expected_version,
                  to_version   |-> instruction.expected_version + 1,
                  candidate    |-> instruction.candidate,
                  approval     |-> item.authority.approval,
                  rollback_of  |-> None,
                  recorded_at  |-> instruction.recorded_at]
<1>1. /\ pc[s] = "gate" /\ i <= Len(call[s].items)
      /\ \/ mistaken /\ Abort(s)
         \/ ~ mistaken /\ refusal # None /\ Decide(s, Outcome(refusal, None, None))
         \/ /\ ~ mistaken /\ refusal = None
            /\ ~ Expected(s, instruction.subject, instruction.expected_version)
            /\ Lost(s, instruction.subject)
         \/ /\ ~ mistaken /\ refusal = None
            /\ Expected(s, instruction.subject, instruction.expected_version)
            /\ Propose(s, e)
    BY DEF predictive_reconfiguration_gate
<1>2. CallInv(s) /\ ProgressInv(s) /\ MineInv(s) /\ LogInv
    BY DEF ReconfigurationIInv, SessionInv
<1>3. call[s] \in Batches /\ call[s] \notin Rollbacks /\ IsBatch(call[s])
    BY <1>1, <1>2, BatchForm DEF CallInv
<1>4. Len(decisions[s]) \in Nat
    BY <1>2, LenProperties DEF ProgressInv
<1>5. i \in DOMAIN call[s].items /\ Len(decisions[s]) < Len(call[s].items)
    BY <1>1, <1>3, <1>4, BatchForm DEF Position
<1>0. Undecided(s) /\ pc[s] # "append"
    BY <1>1, <1>5 DEF Undecided
<1>6. /\ item \in PredictiveEvaluationItem /\ outcome = predictive_evaluate_item(item)
      /\ instruction \in PredictiveReconfigurationInstruction \cup {None}
    BY <1>1, <1>2, <1>3, <1>5, BatchForm DEF CallInv, Claims
<1>7. CASE mistaken /\ Abort(s)
    BY <1>7, Aborting
<1>8. CASE refusal # None /\ Decide(s, Outcome(refusal, None, None))
  <2>. DEFINE d == Outcome(refusal, None, None)
  <2>1. refusal \in {"not_applicable", "rejected_validation", "rejected_approval"}
      BY <1>8, Refusals
  <2>2. d \in Decisions /\ d.decision = refusal
      BY <2>1, PlainDecision
  <2>3. d.decision \notin {"promoted", "replayed", "lost_concurrent_race"}
      BY <2>1, <2>2
  <2>4. Decide(s, d)
      BY <1>8
  <2>. HIDE DEF d, refusal
  <2>. QED BY <1>0, <2>2, <2>3, <2>4, Deciding
<1>9. CASE Lost(s, instruction.subject)
    BY <1>0, <1>9, Losing
<1>10. CASE /\ ~ mistaken /\ refusal = None
            /\ Expected(s, instruction.subject, instruction.expected_version)
            /\ Propose(s, e)
  <2>1. Refusal(predictive_evaluate_item(item), approval, instruction) = None
      BY <1>6, <1>10
  <2>2. /\ item.ready /\ Evaluated(outcome) /\ outcome.subject = item.subject
        /\ instruction \in PredictiveReconfigurationInstruction
        /\ item.authority.approval \in ApprovalBinding
        /\ valid_binding(item.authority.approval, instruction.candidate,
                         instruction.expected_version + 1)
    <3>. HIDE DEF item, instruction, outcome
    <3>. QED BY <2>1, <1>6, NotRefused
  <2>3. instruction.subject = item.subject
    <3>1. instruction # None => instruction.subject = outcome.subject
        BY <1>10, <2>2
    <3>2. instruction # None
      <4>1. refusal = None /\ None \notin PredictiveReconfigurationDecision
          BY <1>10, ReconfigurationAssumption
      <4>. QED BY <4>1 DEF Refusal, PredictiveReconfigurationDecision
    <3>. QED BY <2>2, <3>1, <3>2
  <2>. HIDE DEF item, instruction, outcome, i
  <2>4. /\ instruction.event_id \in Events /\ instruction.subject \in Subjects
        /\ instruction.expected_version \in Nat /\ instruction.candidate \in References
        /\ instruction.recorded_at \in Nat
      BY <2>2 DEF PredictiveReconfigurationInstruction
  <2>5. e \in PredictiveReconfigurationEvent
      BY <2>2, <2>4 DEF PredictiveReconfigurationEvent
  <2>6. version_of(current(Visible(s), instruction.subject)) = instruction.expected_version
      BY <1>10 DEF Expected
  <2>7. /\ instruction.expected_version > 0 =>
               \E f \in OfSubject(Visible(s), instruction.subject) :
                   f.to_version = instruction.expected_version
        /\ \A f \in OfSubject(Visible(s), instruction.subject) :
               f.to_version <= instruction.expected_version
      BY <1>2, <2>4, <2>6, Seen, VersionReached
  <2>8. Grounded(e, Visible(s))
      BY <2>2, <2>7 DEF Grounded, valid_binding
  <2>9. \A f \in OfSubject(mine[s], e.subject) : f.to_version <= e.from_version
      BY <2>7 DEF OfSubject, Visible
  <2>10. Asked(s, i) = e.to_version
    <3>1. Asked(s, i) = 1 + instruction.expected_version
        BY <1>3 DEF Asked, instruction
    <3>. QED BY <3>1, <2>4
  <2>11. Promotes(e, s, i)
      BY <1>5, <2>2, <2>3 DEF Promotes, valid_binding, instruction, item
  <2>12. Propose(s, e)
      BY <1>10
  <2>. HIDE DEF e
  <2>. QED BY <1>0, <2>5, <2>8, <2>9, <2>10, <2>11, <2>12, Proposing DEF i
<1>. QED BY <1>1, <1>7, <1>8, <1>9, <1>10

(* What a rollback needs: the event it names, of its subject, and an         *)
(* approval of that event's candidate as the next version, still in time.    *)
LEMMA ApprovalValidates ==
    ASSUME NEW context \in AuthorityContext, NEW at \in Nat, NEW version, NEW scope,
           NEW jurisdiction, NEW binding,
           validate_approval(context, at, version, scope, jurisdiction, binding) = "valid"
    PROVE  /\ context.approval \in ApprovalBinding
           /\ context.approval.bound_to = binding /\ context.approval.version = version
           /\ context.approval.expiry # None => at < context.approval.expiry
<1>1. context.approval \in ApprovalBinding \cup {None}
    BY DEF AuthorityContext
<1>2. /\ context.approval # None /\ context.approval.bound_to = binding
      /\ context.approval.version = version
      /\ ~ (context.approval.expiry # None /\ context.approval.expiry <= at)
    BY DEF validate_approval
<1>3. context.approval.expiry \in Nat \cup {None}
    BY <1>1, <1>2 DEF ApprovalBinding
<1>. QED BY <1>1, <1>2, <1>3

(* Versions fit their columns. *)
LEMMA ApprovedVersion ==
    ASSUME NEW approval \in ApprovalBinding
    PROVE  approval.version \in Nat /\ approval.version >= 1
<1>1. approval.version \in 1 .. MAX_PIAP_VERSION_NUMBER
    BY DEF ApprovalBinding
<1>2. MAX_PIAP_VERSION_NUMBER \in Nat
    BY RoutingAssumption
<1>. QED BY <1>1, <1>2

LEMMA RollbackKeeps ==
    ASSUME ReconfigurationIInv, NEW s \in Sessions, predictive_rollback_gate(s)
    PROVE  ReconfigurationIInv'
<1>. DEFINE r == call[s]
            target == get(Visible(s), r.rollback_of)
            approval == r.authority.approval
            version == r.expected_version + 1
            binding == [kind |-> "promotion_candidate", ref |-> target.candidate]
            unfit == \/ target = None
                     \/ target.subject # r.subject
                     \/ validate_approval(r.authority, r.recorded_at, version, r.required_scope,
                                          r.expected_jurisdiction, binding) # "valid"
            e == [event_id |-> r.event_id, subject |-> r.subject, kind |-> "ROLLBACK",
                  from_version |-> r.expected_version, to_version |-> version,
                  candidate |-> target.candidate, approval |-> approval,
                  rollback_of |-> target.event_id, recorded_at |-> r.recorded_at]
<1>1. /\ pc[s] = "rollback"
      /\ \/ Abort(s)
         \/ Decide(s, Outcome("rejected_approval", None, None))
         \/ Lost(s, r.subject)
         \/ ~ unfit /\ Expected(s, r.subject, r.expected_version) /\ Propose(s, e)
    BY DEF predictive_rollback_gate
<1>. HIDE DEF unfit, e
<1>10. Undecided(s) /\ pc[s] # "append"
    BY <1>1 DEF Undecided
<1>2. CallInv(s) /\ ProgressInv(s) /\ MineInv(s) /\ LogInv
    BY DEF ReconfigurationIInv, SessionInv
<1>3. r \in PredictiveRollbackRequest /\ r \in Rollbacks /\ ~ IsBatch(r)
    BY <1>1, <1>2, RollbackForm DEF CallInv
<1>4. CASE Decide(s, Outcome("rejected_approval", None, None))
  <2>. DEFINE d == Outcome("rejected_approval", None, None)
  <2>1. d \in Decisions /\ d.decision = "rejected_approval"
      BY PlainDecision
  <2>2. Decide(s, d)
      BY <1>4
  <2>. HIDE DEF d
  <2>. QED BY <1>10, <2>1, <2>2, Deciding
<1>5. CASE Lost(s, r.subject)
    BY <1>10, <1>5, Losing
<1>6. CASE ~ unfit /\ Expected(s, r.subject, r.expected_version) /\ Propose(s, e)
  <2>20. /\ r.event_id \in Events /\ r.subject \in Subjects /\ r.expected_version \in Int
         /\ r.recorded_at \in Nat /\ r.authority \in AuthorityContext
      BY <1>3 DEF PredictiveRollbackRequest
  <2>2. /\ target # None /\ target.subject = r.subject
        /\ validate_approval(r.authority, r.recorded_at, version, r.required_scope,
                             r.expected_jurisdiction, binding) = "valid"
      BY <1>6 DEF unfit
  <2>3. Visible(s) \in SUBSET PredictiveReconfigurationEvent /\ Bounded(Visible(s))
        /\ mine[s] \subseteq Visible(s)
      BY <1>2, Seen
  <2>4. target \in Visible(s) /\ target.event_id = r.rollback_of
      BY <2>2, <2>3, Found
  <2>5. target \in PredictiveReconfigurationEvent
      BY <2>3, <2>4
  <2>6. /\ target.event_id \in Events /\ target.candidate \in References
        /\ target.to_version \in Nat
      BY <2>5, EventFields
  <2>. HIDE DEF target
  <2>7. /\ approval \in ApprovalBinding /\ approval.bound_to = binding
        /\ approval.version = version
        /\ approval.expiry # None => r.recorded_at < approval.expiry
      BY <2>20, <2>2, ApprovalValidates
  <2>1. /\ r.event_id \in Events /\ r.subject \in Subjects /\ r.expected_version \in Nat
        /\ r.recorded_at \in Nat /\ r.authority \in AuthorityContext
    <3>1. approval.version \in Nat /\ approval.version >= 1
        BY <2>7, ApprovedVersion
    <3>. QED BY <3>1, <2>7, <2>20
  <2>8. version_of(current(Visible(s), r.subject)) = r.expected_version
      BY <1>6 DEF Expected
  <2>9. /\ r.expected_version > 0 =>
               \E f \in OfSubject(Visible(s), r.subject) : f.to_version = r.expected_version
        /\ \A f \in OfSubject(Visible(s), r.subject) : f.to_version <= r.expected_version
      BY <2>1, <2>3, <2>8, VersionReached
  <2>10. target \in OfSubject(Visible(s), r.subject)
      BY <2>2, <2>4 DEF OfSubject
  <2>11. target.to_version < version
    <3>1. target.to_version <= r.expected_version
        BY <2>9, <2>10
    <3>. QED BY <3>1, <2>1, <2>6
  <2>12. e \in PredictiveReconfigurationEvent
      BY <2>1, <2>6, <2>7 DEF e, PredictiveReconfigurationEvent
  <2>13. Grounded(e, Visible(s))
      BY <2>7, <2>9, <2>10, <2>11 DEF Grounded, e
  <2>14. \A f \in OfSubject(mine[s], e.subject) : f.to_version <= e.from_version
      BY <2>3, <2>9 DEF OfSubject, e
  <2>15. Asked(s, Position(s)) = e.to_version
    <3>1. Asked(s, Position(s)) = 1 + r.expected_version
        BY <1>3 DEF Asked
    <3>. QED BY <3>1, <2>1 DEF e
  <2>16. Promotes(e, s, Position(s))
      BY <1>3 DEF Promotes
  <2>17. Propose(s, e)
      BY <1>6
  <2>. QED BY <1>10, <2>12, <2>13, <2>14, <2>15, <2>16, <2>17, Proposing
<1>7. CASE Abort(s)
    BY <1>7, Aborting
<1>. QED BY <1>1, <1>4, <1>5, <1>6, <1>7

(* An event that is neither there nor somebody's whom the session would have *)
(* to wait for is a row of its own.                                          *)
LEMMA Inserting ==
    ASSUME ReconfigurationIInv, NEW s \in Sessions, pc[s] = "append", ~ Waits(s),
           get(Visible(s), event[s].event_id) = None,
           ~ \E e \in OfSubject(log, event[s].subject) : e.to_version = event[s].to_version,
           mine' = [mine EXCEPT ![s] = @ \cup {event[s]}],
           Answer(s, Outcome("promoted", event[s].event_id, event[s].to_version))
    PROVE  ReconfigurationIInv'
<1>. DEFINE e == event[s]
            d == Outcome("promoted", e.event_id, e.to_version)
<1>1. Shape /\ LogInv /\ SessionInv(s) /\ MineInv(s) /\ AppendingInv(s) /\ CallInv(s)
    BY DEF ReconfigurationIInv, SessionInv
<1>2. /\ e \in PredictiveReconfigurationEvent /\ Grounded(e, Visible(s))
      /\ \A f \in OfSubject(mine[s], e.subject) : f.to_version <= e.from_version
      /\ Asked(s, Position(s)) = e.to_version /\ Promotes(e, s, Position(s))
    BY <1>1 DEF AppendingInv
<1>3. e.from_version \in Nat /\ e.to_version \in Nat /\ e.event_id \in Events
    BY <1>2, EventFields
<1>4. e.to_version = e.from_version + 1
    BY <1>2 DEF Grounded
<1>5. /\ mine'[s] = mine[s] \cup {e} /\ log' = log
      /\ \A t \in Sessions \ {s} : mine'[t] = mine[t]
    BY <1>1 DEF Shape, Answer
<1>6. Visible(s)' = Visible(s) \cup {e} /\ Visible(s) \subseteq PredictiveReconfigurationEvent
    BY <1>1, <1>5, Seen DEF Visible
<1>7. \A f \in Visible(s) : f.event_id # e.event_id
    BY <1>6, Found
<1>8. \A f \in log : ~ SameRow(e, f)
    BY <1>7 DEF SameRow, OfSubject, Visible
<1>9. \A f \in mine[s] : ~ SameRow(e, f)
  <2>. SUFFICES ASSUME NEW f \in mine[s], SameRow(e, f) PROVE FALSE
      OBVIOUS
  <2>1. f.event_id # e.event_id
      BY <1>7 DEF Visible
  <2>2. f \in OfSubject(mine[s], e.subject) /\ f.to_version = e.to_version
      BY <2>1 DEF SameRow, OfSubject
  <2>. QED BY <1>2, <1>3, <1>4, <2>2
<1>10. \A t \in Sessions \ {s} : \A f \in mine[t] : ~ SameRow(e, f)
  <2>1. Rivals(s) = {}
      BY DEF Waits
  <2>. QED BY <2>1 DEF Rivals, SameRow
<1>11. MineInv(s)'
  <2>1. mine'[s] \subseteq PredictiveReconfigurationEvent
      BY <1>1, <1>2, <1>5 DEF MineInv
  <2>2. Bounded(mine'[s])
    <3>1. Bounded(mine[s]) /\ mine[s] \in SUBSET PredictiveReconfigurationEvent
        BY <1>1 DEF MineInv
    <3>2. Bounded({e}) /\ {e} \in SUBSET PredictiveReconfigurationEvent
        BY <1>2, BoundedOne
    <3>. HIDE DEF e
    <3>. QED BY <3>1, <3>2, <1>5, BoundedTogether
  <2>3. \A f \in mine'[s] : Grounded(f, Visible(s)')
      BY <1>1, <1>2, <1>5, <1>6, GroundedStays DEF MineInv
  <2>4. \A f, g \in mine'[s] : SameRow(f, g) => f = g
    <3>1. \A f \in mine[s] : ~ SameRow(f, e)
        BY <1>9 DEF SameRow
    <3>. QED BY <1>1, <1>5, <1>9, <3>1 DEF MineInv
  <2>5. \A f \in mine'[s], g \in log' : ~ SameRow(f, g)
      BY <1>1, <1>5, <1>8 DEF MineInv
  <2>6. \A t \in Sessions \ {s} : \A f \in mine'[s], g \in mine'[t] : ~ SameRow(f, g)
      BY <1>1, <1>5, <1>10 DEF MineInv
  <2>. QED BY <2>1, <2>2, <2>3, <2>4, <2>5, <2>6 DEF MineInv
<1>12. d \in Decisions /\ d.decision = "promoted" /\ d.event_id = e.event_id
       /\ d.version = e.to_version
    BY <1>3 DEF Outcome, Decisions, PredictiveReconfigurationDecision
<1>13. SessionInv(s)'
  <2>1. Visible(s) \subseteq Visible(s)' /\ e \in Visible(s)'
      BY <1>6
  <2>2. Answer(s, d)
      OBVIOUS
  <2>3. Undecided(s)
      BY DEF Undecided
  <2>. HIDE DEF d, e
  <2>. QED BY <1>2, <1>11, <1>12, <2>1, <2>2, <2>3, Answering
<1>14. ASSUME NEW u \in Sessions \ {s} PROVE SessionInv(u)'
  <2>1. SessionInv(u) /\ MineInv(u)
      BY DEF ReconfigurationIInv, SessionInv
  <2>2. /\ mine'[u] = mine[u] /\ pc'[u] = pc[u] /\ call'[u] = call[u]
        /\ outcomes'[u] = outcomes[u] /\ event'[u] = event[u]
        /\ decisions'[u] = decisions[u] /\ routes'[u] = routes[u]
      BY <1>1 DEF Shape, Answer
  <2>3. \A f \in mine[u], g \in log' : ~ SameRow(f, g)
      BY <1>5, <2>1 DEF MineInv
  <2>4. ASSUME NEW t \in Sessions \ {u}, NEW f \in mine[u], NEW g \in mine'[t]
        PROVE  ~ SameRow(f, g)
    <3>1. CASE t # s
        BY <1>5, <2>1, <3>1 DEF MineInv
    <3>2. CASE t = s /\ g \in mine[s]
        BY <2>1, <3>2 DEF MineInv
    <3>3. CASE t = s /\ g = e
        BY <1>10, <3>3 DEF SameRow
    <3>. QED BY <1>5, <3>1, <3>2, <3>3
  <2>. QED BY <1>5, <2>1, <2>2, <2>3, <2>4, OthersStand
<1>15. LogInv' /\ Shape'
    BY <1>1, <1>5 DEF LogInv, Shape, Answer
<1>. QED BY <1>13, <1>14, <1>15 DEF ReconfigurationIInv

(* Events of the same columns are one row, whatever approval was looked at. *)
LEMMA SameColumns ==
    ASSUME NEW e \in PredictiveReconfigurationEvent, NEW f \in PredictiveReconfigurationEvent,
           same_event(e, f)
    PROVE  e.event_id = f.event_id /\ e.to_version = f.to_version
<1>1. /\ Columns(e).event_id = e.event_id /\ Columns(e).to_version = e.to_version
      /\ Columns(f).event_id = f.event_id /\ Columns(f).to_version = f.to_version
    BY DEF Columns, PredictiveReconfigurationEvent
<1>. QED BY <1>1 DEF same_event

LEMMA AppendKeeps ==
    ASSUME ReconfigurationIInv, NEW s \in Sessions, append(s)
    PROVE  ReconfigurationIInv'
<1>. DEFINE existing == get(Visible(s), event[s].event_id)
            d == Outcome("replayed", existing.event_id, existing.to_version)
<1>1. /\ pc[s] = "append" /\ ~ Waits(s)
      /\ \/ existing # None /\ same_event(existing, event[s]) /\ Decide(s, d)
         \/ existing # None /\ Abort(s)
         \/ existing = None /\ Lost(s, event[s].subject)
         \/ /\ existing = None
            /\ ~ \E e \in OfSubject(log, event[s].subject) : e.to_version = event[s].to_version
            /\ mine' = [mine EXCEPT ![s] = @ \cup {event[s]}]
            /\ Answer(s, Outcome("promoted", event[s].event_id, event[s].to_version))
    BY DEF append
<1>10. Undecided(s)
    BY <1>1 DEF Undecided
<1>2. CASE existing # None /\ same_event(existing, event[s]) /\ Decide(s, d)
  <2>1. MineInv(s) /\ LogInv /\ AppendingInv(s)
      BY DEF ReconfigurationIInv, SessionInv
  <2>2. event[s] \in PredictiveReconfigurationEvent /\ Asked(s, Position(s)) = event[s].to_version
      BY <1>1, <2>1 DEF AppendingInv
  <2>3. existing \in Visible(s) /\ existing \in PredictiveReconfigurationEvent
    <3>1. Visible(s) \in SUBSET PredictiveReconfigurationEvent
        BY <2>1, Seen
    <3>2. existing \in Visible(s)
        BY <1>2, <3>1, Found
    <3>. QED BY <3>1, <3>2
  <2>. HIDE DEF existing
  <2>7. /\ existing.event_id = event[s].event_id
        /\ existing.to_version = event[s].to_version
      BY <1>2, <2>2, <2>3, SameColumns
  <2>4. event[s].event_id \in Events /\ event[s].to_version \in Nat
      BY <2>2, EventFields
  <2>5. d \in Decisions /\ d.decision = "replayed" /\ d.event_id = existing.event_id
        /\ d.version = event[s].to_version
      BY <2>4, <2>7 DEF Outcome, Decisions, PredictiveReconfigurationDecision
  <2>8. \E e \in Visible(s) : e.event_id = d.event_id /\ e.to_version = d.version
      BY <2>3, <2>5, <2>7
  <2>6. Decide(s, d)
      BY <1>2
  <2>. HIDE DEF d
  <2>. QED BY <1>10, <2>2, <2>5, <2>6, <2>8, Deciding
<1>3. CASE Abort(s)
    BY <1>3, Aborting
<1>4. CASE Lost(s, event[s].subject)
    BY <1>10, <1>4, Losing
<1>5. CASE /\ existing = None
           /\ ~ \E e \in OfSubject(log, event[s].subject) : e.to_version = event[s].to_version
           /\ mine' = [mine EXCEPT ![s] = @ \cup {event[s]}]
           /\ Answer(s, Outcome("promoted", event[s].event_id, event[s].to_version))
    BY <1>1, <1>5, Inserting
<1>. QED BY <1>1, <1>2, <1>3, <1>4, <1>5

(* A session that is free has neither rows nor decisions. *)
LEMMA Free ==
    ASSUME ReconfigurationIInv, NEW s \in Sessions, pc[s] = "idle"
    PROVE  Shape /\ MineInv(s) /\ mine[s] = {} /\ decisions[s] = <<>> /\ call[s] = None
BY DEF ReconfigurationIInv, SessionInv, CallInv

(* A call that is refused or raises at once changes nothing but where its    *)
(* session is.                                                               *)
LEMMA Refusing ==
    ASSUME ReconfigurationIInv, NEW s \in Sessions, NEW word \in {"refused", "raised"},
           pc[s] = "idle", pc' = [pc EXCEPT ![s] = word],
           UNCHANGED <<log, mine, call, outcomes, event, decisions, routes>>
    PROVE  ReconfigurationIInv'
<1>1. Shape /\ MineInv(s) /\ mine[s] = {} /\ decisions[s] = <<>> /\ call[s] = None
    BY Free
<1>2. /\ pc'[s] \in {"refused", "raised"} /\ call'[s] = None /\ decisions'[s] = <<>>
      /\ mine'[s] = {} /\ mine' = mine /\ UNCHANGED log
    BY <1>1 DEF Shape
<1>3. Shape' /\ \A t \in Sessions \ {s} :
          /\ mine'[t] = mine[t] /\ pc'[t] = pc[t] /\ call'[t] = call[t]
          /\ outcomes'[t] = outcomes[t] /\ event'[t] = event[t]
          /\ decisions'[t] = decisions[t] /\ routes'[t] = routes[t]
    BY <1>1 DEF Shape
<1>4. MineInv(s)'
    BY <1>1, <1>2 DEF MineInv, Visible
<1>5. CallInv(s)' /\ ProgressInv(s)' /\ AppendingInv(s)'
    BY <1>2 DEF CallInv, ProgressInv, AppendingInv
<1>6. DecisionInv(s)'
  <2>1. DOMAIN decisions'[s] = {}
      BY <1>2
  <2>. QED BY <2>1 DEF DecisionInv
<1>7. SessionInv(s)'
    BY <1>4, <1>5, <1>6 DEF SessionInv
<1>. QED BY <1>2, <1>3, <1>7, OneActs

LEMMA BatchEvaluated ==
    ASSUME ReconfigurationIInv, NEW s \in Sessions, NEW b \in Batches,
           pc[s] = "idle", pc' = [pc EXCEPT ![s] = "gate"], call' = [call EXCEPT ![s] = b],
           outcomes' = [outcomes EXCEPT ![s] =
                            [i \in DOMAIN b.items |-> predictive_evaluate_item(b.items[i])]],
           UNCHANGED <<log, mine, event, decisions, routes>>
    PROVE  ReconfigurationIInv'
<1>. DEFINE evaluated == [i \in DOMAIN b.items |-> predictive_evaluate_item(b.items[i])]
<1>2. Shape /\ MineInv(s) /\ mine[s] = {} /\ decisions[s] = <<>>
    BY Free
<1>3. Claims(b, evaluated)
    BY BatchForm DEF Claims
<1>. HIDE DEF evaluated
<1>4. /\ call'[s] = b /\ outcomes'[s] = evaluated /\ pc'[s] = "gate" /\ mine' = mine
      /\ UNCHANGED log /\ decisions'[s] = <<>>
    BY <1>2 DEF Shape, evaluated
<1>5. Shape' /\ \A t \in Sessions \ {s} :
          /\ mine'[t] = mine[t] /\ pc'[t] = pc[t] /\ call'[t] = call[t]
          /\ outcomes'[t] = outcomes[t] /\ event'[t] = event[t]
          /\ decisions'[t] = decisions[t] /\ routes'[t] = routes[t]
    BY <1>2 DEF Shape, evaluated
<1>6. MineInv(s)'
    BY <1>2, <1>4 DEF MineInv, Visible
<1>7. CallInv(s)'
    BY <1>3, <1>4 DEF CallInv
<1>8. ProgressInv(s)'
  <2>1. Len(b.items) \in Nat /\ b \notin Rollbacks
      BY BatchForm
  <2>. QED BY <1>4, <2>1 DEF ProgressInv
<1>9. DecisionInv(s)' /\ AppendingInv(s)'
  <2>1. DOMAIN decisions'[s] = {}
      BY <1>4
  <2>. QED BY <1>4, <2>1 DEF DecisionInv, AppendingInv
<1>10. SessionInv(s)'
    BY <1>6, <1>7, <1>8, <1>9 DEF SessionInv
<1>. QED BY <1>4, <1>5, <1>10, OneActs

LEMMA BatchBegins ==
    ASSUME ReconfigurationIInv, NEW s \in Sessions, predictive_evaluate_batch(s)
    PROVE  ReconfigurationIInv'
<1>1. PICK b \in Batches :
          /\ pc[s] = "idle" /\ UNCHANGED <<log, mine, event, decisions, routes>>
          /\ \/ pc' = [pc EXCEPT ![s] = "raised"] /\ UNCHANGED <<call, outcomes>>
             \/ /\ pc' = [pc EXCEPT ![s] = "gate"] /\ call' = [call EXCEPT ![s] = b]
                /\ outcomes' = [outcomes EXCEPT ![s] =
                       [i \in DOMAIN b.items |-> predictive_evaluate_item(b.items[i])]]
    BY DEF predictive_evaluate_batch
<1>2. CASE pc' = [pc EXCEPT ![s] = "raised"] /\ UNCHANGED <<call, outcomes>>
    BY <1>1, <1>2, Refusing
<1>3. CASE /\ pc' = [pc EXCEPT ![s] = "gate"] /\ call' = [call EXCEPT ![s] = b]
           /\ outcomes' = [outcomes EXCEPT ![s] =
                  [i \in DOMAIN b.items |-> predictive_evaluate_item(b.items[i])]]
    BY <1>1, <1>3, BatchEvaluated
<1>. QED BY <1>1, <1>2, <1>3

LEMMA RollbackBegins ==
    ASSUME ReconfigurationIInv, NEW s \in Sessions, BeginRollback(s)
    PROVE  ReconfigurationIInv'
<1>1. PICK r \in Rollbacks :
          /\ pc[s] = "idle"
          /\ call' = [call EXCEPT ![s] = r]
          /\ pc' = [pc EXCEPT ![s] = "rollback"]
          /\ UNCHANGED <<log, mine, outcomes, event, decisions, routes>>
    BY DEF BeginRollback
<1>2. Shape /\ MineInv(s) /\ mine[s] = {} /\ decisions[s] = <<>>
    BY <1>1, Free
<1>4. /\ call'[s] = r /\ pc'[s] = "rollback" /\ mine' = mine
      /\ UNCHANGED log /\ decisions'[s] = <<>>
    BY <1>1, <1>2 DEF Shape
<1>5. Shape' /\ \A t \in Sessions \ {s} :
          /\ mine'[t] = mine[t] /\ pc'[t] = pc[t] /\ call'[t] = call[t]
          /\ outcomes'[t] = outcomes[t] /\ event'[t] = event[t]
          /\ decisions'[t] = decisions[t] /\ routes'[t] = routes[t]
    BY <1>1, <1>2 DEF Shape
<1>6. MineInv(s)'
    BY <1>2, <1>4 DEF MineInv, Visible
<1>7. CallInv(s)' /\ ProgressInv(s)'
    BY <1>2, <1>4 DEF CallInv, ProgressInv
<1>9. DecisionInv(s)' /\ AppendingInv(s)'
  <2>1. DOMAIN decisions'[s] = {}
      BY <1>4
  <2>. QED BY <1>4, <2>1 DEF DecisionInv, AppendingInv
<1>10. SessionInv(s)'
    BY <1>6, <1>7, <1>9 DEF SessionInv
<1>. QED BY <1>4, <1>5, <1>10, OneActs

(* A request that is answered has claims of the code's types: the authority  *)
(* that the envelope brings was validated with it.                           *)
LEMMA PublicClaims ==
    ASSUME NEW models \in Requests, evaluate_and_route(models) = "evaluated"
    PROVE  LET items == [i \in DOMAIN models |-> IF models[i].item.ready
                            THEN to_ready_item(models[i]) ELSE models[i].item]
           IN  /\ DOMAIN models = 1 .. Len(models) /\ Len(models) \in Nat /\ Len(models) >= 1
               /\ \A i \in DOMAIN models : items[i] \in PredictiveEvaluationItem
<1>. DEFINE Item(i) == IF models[i].item.ready THEN to_ready_item(models[i]) ELSE models[i].item
<1>1. to_internal_request(models)
    BY DEF evaluate_and_route
<1>2. DOMAIN models = 1 .. Len(models) /\ Len(models) \in Nat
    BY ReconfigurationAssumption
<1>3. Len(models) >= 1
    BY <1>1, <1>2, LimitsAssumption DEF to_internal_request
<1>4. ASSUME NEW i \in DOMAIN models PROVE Item(i) \in PredictiveEvaluationItem
  <2>1. models[i].item \in PredictiveEvaluationItem
      BY ReconfigurationAssumption
  <2>2. CASE ~ models[i].item.ready
      BY <2>1, <2>2
  <2>3. CASE models[i].item.ready
    <3>1. deserialize_piap_envelope(models[i].transport)
        BY <1>1, <2>3 DEF to_internal_request
    <3>2. models[i].transport.envelope.authority \in AuthorityContext
        BY <3>1 DEF deserialize_piap_envelope, PiapEnvelope
    <3>3. Item(i) = [models[i].item EXCEPT !.authority = models[i].transport.envelope.authority]
        BY <2>3 DEF to_ready_item
    <3>. HIDE DEF Item
    <3>. QED BY <2>1, <3>2, <3>3 DEF PredictiveEvaluationItem
  <2>. QED BY <2>2, <2>3
<1>. QED BY <1>2, <1>3, <1>4

(* Nothing is promoted where no gate decided. *)
LEMMA NothingPromoted ==
    ASSUME NEW n \in Nat
    PROVE  LET none == [i \in 1 .. n |-> Outcome("not_applicable", None, None)]
           IN  /\ none \in Seq(Decisions) /\ Len(none) = n
               /\ [i \in DOMAIN none |-> none[i].decision = "promoted"] = [i \in 1 .. n |-> FALSE]
<1>. DEFINE none == [i \in 1 .. n |-> Outcome("not_applicable", None, None)]
<1>1. Outcome("not_applicable", None, None) \in Decisions
    BY PlainDecision
<1>2. none \in Seq(Decisions) /\ Len(none) = n
  <2>. HIDE DEF Decisions
  <2>. QED BY <1>1
<1>3. \A i \in 1 .. n : (none[i].decision = "promoted") = FALSE
    BY DEF Outcome
<1>4. DOMAIN none = 1 .. n
    OBVIOUS
<1>. HIDE DEF none
<1>5. [i \in DOMAIN none |-> none[i].decision = "promoted"] = [i \in 1 .. n |-> FALSE]
    BY <1>3, <1>4
<1>. QED BY <1>2, <1>5 DEF none

LEMMA PublicAnswers ==
    ASSUME ReconfigurationIInv, NEW s \in Sessions, predictive_evaluations(s)
    PROVE  ReconfigurationIInv'
<1>1. PICK models \in Requests :
          LET answer == evaluate_and_route(models)
              items  == [i \in DOMAIN models |-> IF models[i].item.ready
                            THEN to_ready_item(models[i]) ELSE models[i].item]
              alone  == [i \in DOMAIN models |-> predictive_evaluate_item(items[i])]
          IN  /\ pc[s] = "idle"
              /\ IF answer # "evaluated"
                 THEN /\ pc' = [pc EXCEPT ![s] = answer]
                      /\ UNCHANGED <<call, outcomes, decisions, routes>>
                 ELSE /\ pc' = [pc EXCEPT ![s] = "answered"]
                      /\ call' = [call EXCEPT ![s] = [kind |-> "public", items |-> items,
                                                      at |-> items[1].at]]
                      /\ outcomes' = [outcomes EXCEPT ![s] = alone]
                      /\ decisions' = [decisions EXCEPT ![s] =
                             [i \in DOMAIN models |-> Outcome("not_applicable", None, None)]]
                      /\ routes' = [routes EXCEPT ![s] = predictive_route_batch(items, alone,
                             [i \in DOMAIN models |-> FALSE], items[1].at)]
              /\ UNCHANGED <<log, mine, event>>
    BY DEF predictive_evaluations
<1>. DEFINE answer == evaluate_and_route(models)
            items  == [i \in DOMAIN models |-> IF models[i].item.ready
                          THEN to_ready_item(models[i]) ELSE models[i].item]
            alone  == [i \in DOMAIN models |-> predictive_evaluate_item(items[i])]
            none   == [i \in DOMAIN models |-> Outcome("not_applicable", None, None)]
            unmoved == [i \in DOMAIN models |-> FALSE]
            c      == [kind |-> "public", items |-> items, at |-> items[1].at]
            routed == predictive_route_batch(items, alone, unmoved, items[1].at)
<1>2. /\ pc[s] = "idle" /\ UNCHANGED <<log, mine, event>>
      /\ answer # "evaluated" =>
            pc' = [pc EXCEPT ![s] = answer] /\ UNCHANGED <<call, outcomes, decisions, routes>>
      /\ answer = "evaluated" =>
            /\ pc' = [pc EXCEPT ![s] = "answered"] /\ call' = [call EXCEPT ![s] = c]
            /\ outcomes' = [outcomes EXCEPT ![s] = alone]
            /\ decisions' = [decisions EXCEPT ![s] = none]
            /\ routes' = [routes EXCEPT ![s] = routed]
    BY <1>1
<1>3. Shape /\ MineInv(s) /\ mine[s] = {} /\ decisions[s] = <<>> /\ call[s] = None
    BY <1>2, Free
<1>4. mine' = mine /\ UNCHANGED log /\ mine'[s] = {}
    BY <1>2, <1>3
<1>5. MineInv(s)'
    BY <1>3, <1>4 DEF MineInv, Visible
<1>6. CASE answer # "evaluated"
  <2>1. answer \in {"refused", "raised"}
      BY <1>6 DEF evaluate_and_route
  <2>. HIDE DEF answer
  <2>. QED BY <1>2, <1>6, <2>1, Refusing
<1>7. CASE answer = "evaluated"
  <2>1. /\ DOMAIN models = 1 .. Len(models) /\ Len(models) \in Nat /\ Len(models) >= 1
        /\ \A i \in DOMAIN models : items[i] \in PredictiveEvaluationItem
      BY <1>7, PublicClaims
  <2>2. /\ DOMAIN items = 1 .. Len(models) /\ Len(items) = Len(models)
        /\ \A i \in DOMAIN items : alone[i] = predictive_evaluate_item(items[i])
    <3>1. DOMAIN items = 1 .. Len(models) /\ Len(items) = Len(models)
        BY <2>1
    <3>. HIDE DEF items
    <3>. QED BY <2>1, <3>1
  <2>3. /\ none \in Seq(Decisions) /\ Len(none) = Len(models) /\ DOMAIN none = 1 .. Len(models)
        /\ [i \in DOMAIN none |-> none[i].decision = "promoted"] = unmoved
    <3>1. none = [i \in 1 .. Len(models) |-> Outcome("not_applicable", None, None)]
          /\ unmoved = [i \in 1 .. Len(models) |-> FALSE]
        BY <2>1
    <3>. HIDE DEF none, unmoved, Decisions
    <3>2. DOMAIN none = 1 .. Len(models)
        BY <3>1
    <3>. QED BY <2>1, <3>1, <3>2, NothingPromoted
  <2>4. \A i \in DOMAIN none : none[i].decision = "not_applicable"
      BY DEF Outcome
  <2>. HIDE DEF items, alone, none, unmoved, routed, answer
  <2>5. Claims(c, alone) /\ Public(c) /\ c \notin Rollbacks /\ c \notin Batches
    <3>1. items[1].at \in Nat
        BY <2>1, <2>2 DEF PredictiveEvaluationItem
    <3>2. Claims(c, alone)
        BY <2>1, <2>2, <3>1 DEF Claims
    <3>3. c.kind = "public"
        OBVIOUS
    <3>. HIDE DEF c
    <3>. QED BY <3>2, <3>3, BatchForm, RollbackForm DEF Public
  <2>6. routed = predictive_route_batch(c.items, alone,
                     [i \in DOMAIN none |-> none[i].decision = "promoted"], c.at)
      BY <2>3 DEF routed
  <2>7. Len(none) = Len(c.items)
      BY <2>2, <2>3
  <2>. HIDE DEF c
  <2>8. /\ pc'[s] = "answered" /\ call'[s] = c /\ outcomes'[s] = alone /\ decisions'[s] = none
        /\ routes'[s] = routed
      BY <1>2, <1>3, <1>7 DEF Shape
  <2>9. Shape' /\ \A t \in Sessions \ {s} :
            /\ mine'[t] = mine[t] /\ pc'[t] = pc[t] /\ call'[t] = call[t]
            /\ outcomes'[t] = outcomes[t] /\ event'[t] = event[t]
            /\ decisions'[t] = decisions[t] /\ routes'[t] = routes[t]
      BY <1>2, <1>3, <1>7 DEF Shape
  <2>10. CallInv(s)'
      BY <1>4, <2>5, <2>8 DEF CallInv
  <2>11. ProgressInv(s)'
      BY <2>3, <2>5, <2>6, <2>7, <2>8 DEF ProgressInv
  <2>12. DecisionInv(s)' /\ AppendingInv(s)'
      BY <2>4, <2>8 DEF DecisionInv, Told, AppendingInv
  <2>13. SessionInv(s)'
      BY <1>5, <2>10, <2>11, <2>12 DEF SessionInv
  <2>. QED BY <1>4, <2>9, <2>13, OneActs
<1>. QED BY <1>6, <1>7

LEMMA RoutingKeeps ==
    ASSUME ReconfigurationIInv, NEW s \in Sessions, predictive_route(s)
    PROVE  ReconfigurationIInv'
<1>. DEFINE routed == predictive_route_batch(call[s].items, outcomes[s],
                          [i \in DOMAIN decisions[s] |-> decisions[s][i].decision = "promoted"],
                          call[s].at)
<1>13. \/ Abort(s)
       \/ /\ pc[s] = "gate" /\ Position(s) > Len(call[s].items)
          /\ routes' = [routes EXCEPT ![s] = routed]
          /\ pc' = [pc EXCEPT ![s] = "commit"]
          /\ UNCHANGED <<log, mine, call, outcomes, event, decisions>>
    BY DEF predictive_route
<1>14. CASE Abort(s)
    BY <1>14, Aborting
<1>. SUFFICES ASSUME ~ Abort(s) PROVE ReconfigurationIInv'
    BY <1>14
<1>1. /\ pc[s] = "gate" /\ Position(s) > Len(call[s].items)
      /\ routes' = [routes EXCEPT ![s] = routed]
      /\ pc' = [pc EXCEPT ![s] = "commit"]
      /\ UNCHANGED <<log, mine, call, outcomes, event, decisions>>
    BY <1>13
<1>2. Shape /\ MineInv(s) /\ CallInv(s) /\ ProgressInv(s) /\ DecisionInv(s)
    BY DEF ReconfigurationIInv, SessionInv
<1>3. call[s] \in Batches /\ call[s] \notin Rollbacks /\ Len(call[s].items) \in Nat
    BY <1>1, <1>2, BatchForm DEF CallInv
<1>4. Len(decisions[s]) = Len(call[s].items)
  <2>1. Len(decisions[s]) \in Nat /\ Len(decisions[s]) <= Len(call[s].items)
      BY <1>1, <1>2, <1>3, LenProperties DEF ProgressInv
  <2>. QED BY <1>1, <1>3, <2>1 DEF Position
<1>. HIDE DEF routed
<1>5. /\ pc'[s] = "commit" /\ routes'[s] = routed /\ mine' = mine /\ call' = call
      /\ outcomes' = outcomes /\ decisions' = decisions /\ UNCHANGED log
    BY <1>1, <1>2 DEF Shape
<1>6. Shape' /\ \A t \in Sessions \ {s} :
          /\ mine'[t] = mine[t] /\ pc'[t] = pc[t] /\ call'[t] = call[t]
          /\ outcomes'[t] = outcomes[t] /\ event'[t] = event[t]
          /\ decisions'[t] = decisions[t] /\ routes'[t] = routes[t]
    BY <1>1, <1>2 DEF Shape
<1>7. MineInv(s)'
    BY <1>2, <1>5 DEF MineInv, Visible
<1>8. CallInv(s)'
  <2>1. Claims(call'[s], outcomes'[s])
      BY <1>1, <1>2, <1>3, <1>5 DEF CallInv
  <2>. QED BY <1>3, <1>5, <2>1 DEF CallInv
<1>9. ProgressInv(s)'
  <2>1. decisions'[s] \in Seq(Decisions)
      BY <1>2, <1>5 DEF ProgressInv
  <2>. QED BY <1>3, <1>4, <1>5, <2>1 DEF ProgressInv, routed
<1>10. DecisionInv(s)'
  <2>1. \A i : Asked(s, i)' = Asked(s, i)
      BY <1>5 DEF Asked
  <2>2. \A i, f : Promotes(f, s, i)' <=> Promotes(f, s, i)
      BY <1>5 DEF Promotes
  <2>3. Visible(s)' = Visible(s)
      BY <1>5 DEF Visible
  <2>. QED BY <1>2, <1>5, <2>1, <2>2, <2>3 DEF DecisionInv, Told
<1>11. AppendingInv(s)'
    BY <1>5 DEF AppendingInv
<1>12. SessionInv(s)'
    BY <1>7, <1>8, <1>9, <1>10, <1>11 DEF SessionInv
<1>. QED BY <1>5, <1>6, <1>12, OneActs

(* What is committed becomes visible to all and was free for all. *)
LEMMA CommitKeeps ==
    ASSUME ReconfigurationIInv, NEW s \in Sessions, Commit(s)
    PROVE  ReconfigurationIInv'
<1>1. Shape /\ LogInv /\ MineInv(s) /\ CallInv(s) /\ ProgressInv(s) /\ DecisionInv(s)
    BY DEF ReconfigurationIInv, SessionInv
<1>2. /\ pc[s] = "commit" /\ pc'[s] = "answered" /\ log' = log \cup mine[s] /\ mine'[s] = {}
      /\ call' = call /\ outcomes' = outcomes /\ decisions' = decisions /\ routes' = routes
      /\ event' = event
    BY <1>1 DEF Commit, Shape
<1>3. Shape' /\ \A t \in Sessions \ {s} : mine'[t] = mine[t] /\ pc'[t] = pc[t]
    BY <1>1 DEF Commit, Shape
<1>4. log' = Visible(s) /\ Visible(s)' = Visible(s)
    BY <1>2 DEF Visible
<1>5. LogInv'
  <2>1. log' \subseteq PredictiveReconfigurationEvent /\ Bounded(log')
      BY <1>1, <1>4, Seen
  <2>2. \A e \in log' : Grounded(e, log')
    <3>1. log \subseteq log'
        BY <1>2
    <3>. QED BY <1>1, <1>2, <1>4, <3>1, GroundedStays DEF LogInv, MineInv
  <2>3. ASSUME NEW e \in log', NEW f \in log', SameRow(e, f) PROVE e = f
    <3>1. SameRow(f, e)
        BY <2>3 DEF SameRow
    <3>. QED BY <1>1, <1>2, <2>3, <3>1 DEF LogInv, MineInv
  <2>. QED BY <2>1, <2>2, <2>3 DEF LogInv
<1>6. MineInv(s)'
  <2>1. Bounded({})
      BY DEF Bounded
  <2>. QED BY <1>2, <2>1 DEF MineInv
<1>7. CallInv(s)' /\ AppendingInv(s)'
  <2>1. call[s] \in Batches \cup Rollbacks
      BY <1>1, <1>2 DEF CallInv
  <2>2. call[s] \notin Rollbacks => Claims(call[s], outcomes[s])
      BY <1>1, <1>2 DEF CallInv
  <2>3. Claims(call'[s], outcomes'[s]) <=> Claims(call[s], outcomes[s])
      BY <1>2
  <2>. QED BY <1>2, <2>1, <2>2, <2>3 DEF CallInv, AppendingInv
<1>8. ProgressInv(s)'
    BY <1>1, <1>2 DEF ProgressInv
<1>9. DecisionInv(s)'
  <2>1. \A i : Asked(s, i)' = Asked(s, i)
      BY <1>2 DEF Asked
  <2>2. \A i, f : Promotes(f, s, i)' <=> Promotes(f, s, i)
      BY <1>2 DEF Promotes
  <2>. QED BY <1>1, <1>2, <1>4, <2>1, <2>2 DEF DecisionInv, Told
<1>10. SessionInv(s)'
    BY <1>6, <1>7, <1>8, <1>9 DEF SessionInv
<1>11. ASSUME NEW u \in Sessions \ {s} PROVE SessionInv(u)'
  <2>1. SessionInv(u) /\ MineInv(u)
      BY DEF ReconfigurationIInv, SessionInv
  <2>2. /\ mine'[u] = mine[u] /\ pc'[u] = pc[u] /\ call'[u] = call[u]
        /\ outcomes'[u] = outcomes[u] /\ event'[u] = event[u]
        /\ decisions'[u] = decisions[u] /\ routes'[u] = routes[u] /\ log \subseteq log'
      BY <1>2, <1>3
  <2>3. \A e \in mine[u], f \in log' : ~ SameRow(e, f)
      BY <1>2, <2>1 DEF MineInv
  <2>4. \A t \in Sessions \ {u} : \A e \in mine[u], f \in mine'[t] : ~ SameRow(e, f)
    <3>1. \A t \in Sessions : mine'[t] \subseteq mine[t]
        BY <1>2, <1>3
    <3>. QED BY <2>1, <3>1 DEF MineInv
  <2>. QED BY <2>1, <2>2, <2>3, <2>4, OthersStand
<1>. QED BY <1>3, <1>5, <1>10, <1>11 DEF ReconfigurationIInv

LEMMA ReconfigurationStarts ==
    ASSUME ReconfigurationInit
    PROVE  ReconfigurationIInv
<1>1. Shape /\ LogInv
    BY DEF ReconfigurationInit, Shape, LogInv, Bounded
<1>2. ASSUME NEW s \in Sessions PROVE SessionInv(s)
  <2>1. log = {} /\ mine[s] = {} /\ pc[s] = "idle" /\ call[s] = None /\ decisions[s] = <<>>
      BY DEF ReconfigurationInit
  <2>2. MineInv(s)
      BY <2>1 DEF MineInv, Bounded
  <2>3. CallInv(s) /\ ProgressInv(s) /\ AppendingInv(s)
      BY <2>1 DEF CallInv, ProgressInv, AppendingInv
  <2>4. DecisionInv(s)
    <3>1. DOMAIN decisions[s] = {}
        BY <2>1
    <3>. QED BY <3>1 DEF DecisionInv
  <2>. QED BY <2>2, <2>3, <2>4 DEF SessionInv
<1>. QED BY <1>1, <1>2 DEF ReconfigurationIInv

LEMMA ReconfigurationStep ==
    ASSUME ReconfigurationIInv, [ReconfigurationNext]_reconfigurationVars
    PROVE  ReconfigurationIInv'
<1>1. CASE UNCHANGED reconfigurationVars
  <2>1. /\ log' = log /\ mine' = mine /\ pc' = pc /\ call' = call /\ outcomes' = outcomes
        /\ event' = event /\ decisions' = decisions /\ routes' = routes
      BY <1>1 DEF reconfigurationVars
  <2>2. LogInv' /\ Shape'
      BY <2>1 DEF ReconfigurationIInv, LogInv, Shape
  <2>3. ASSUME NEW u \in Sessions PROVE SessionInv(u)'
    <3>1. SessionInv(u) /\ MineInv(u)
        BY DEF ReconfigurationIInv, SessionInv
    <3>. QED BY <2>1, <3>1, OthersStand DEF MineInv
  <2>. QED BY <2>2, <2>3 DEF ReconfigurationIInv
<1>2. CASE ReconfigurationNext
  <2>1. PICK s \in Sessions :
            \/ predictive_evaluate_batch(s) \/ BeginRollback(s) \/ predictive_evaluations(s)
            \/ predictive_reconfiguration_gate(s) \/ predictive_rollback_gate(s)
            \/ append(s) \/ DeadlockVictim(s) \/ predictive_route(s)
            \/ Commit(s) \/ CommitFails(s) \/ NextCall(s)
      BY <1>2 DEF ReconfigurationNext
  <2>2. CASE predictive_evaluate_batch(s)
      BY <2>2, BatchBegins
  <2>3. CASE BeginRollback(s)
      BY <2>3, RollbackBegins
  <2>4. CASE predictive_evaluations(s)
      BY <2>4, PublicAnswers
  <2>5. CASE predictive_reconfiguration_gate(s)
      BY <2>5, GateKeeps
  <2>6. CASE predictive_rollback_gate(s)
      BY <2>6, RollbackKeeps
  <2>7. CASE append(s)
      BY <2>7, AppendKeeps
  <2>8. CASE DeadlockVictim(s)
      BY <2>8, Aborting DEF DeadlockVictim
  <2>9. CASE predictive_route(s)
      BY <2>9, RoutingKeeps
  <2>10. CASE Commit(s)
      BY <2>10, CommitKeeps
  <2>11. CASE CommitFails(s)
      BY <2>11, Aborting DEF CommitFails
  <2>12. CASE NextCall(s)
      BY <2>12, Leaving
  <2>. QED BY <2>1, <2>2, <2>3, <2>4, <2>5, <2>6, <2>7, <2>8, <2>9, <2>10, <2>11, <2>12
<1>. QED BY <1>1, <1>2

LEMMA ReconfigurationHolds == ReconfigurationSpec => []ReconfigurationIInv
<1>. QED BY ReconfigurationStarts, ReconfigurationStep, PTL DEF ReconfigurationSpec

-----------------------------------------------------------------------------
(* The routes. *)

(* What is known of an item that was evaluated. *)
LEMMA EvaluatedItem ==
    ASSUME NEW item \in PredictiveEvaluationItem, Evaluated(predictive_evaluate_item(item))
    PROVE  /\ predictive_evaluate_item(item).state \in PredictiveEpistemicState
           /\ predictive_evaluate_item(item).approval = predictive_approval_validation(item)
<1>1. item.ready /\ predictive_availability(item)
    BY DEF Evaluated, predictive_evaluate_item
<1>2. predictive_classify_epistemic_state(item.evidence) \in PredictiveEpistemicState
    BY DEF predictive_classify_epistemic_state, PredictiveEpistemicState
<1>. QED BY <1>1, <1>2 DEF predictive_evaluate_item

(* An approval that an evaluation found valid was in time for its claim. *)
LEMMA ApprovedInTime ==
    ASSUME NEW item \in PredictiveEvaluationItem, predictive_approval_validation(item) = "valid"
    PROVE  /\ item.authority.approval \in ApprovalBinding
           /\ item.authority.approval.expiry # None => item.at < item.authority.approval.expiry
<1>1. item.authority \in AuthorityContext /\ item.at \in Nat
    BY DEF PredictiveEvaluationItem
<1>2. validate_approval(item.authority, item.at, item.expected_version, item.required_scope,
                        item.expected_jurisdiction, item.authority.approval.bound_to) = "valid"
    BY DEF predictive_approval_validation
<1>. QED BY <1>1, <1>2, ApprovalValidates

(* A branch that is accepted rests on an authority within the approval, and  *)
(* excludes no other that is; where protection is complete, every branch     *)
(* whose effect is material was accepted.                                    *)
LEMMA ProtectionSound ==
    ASSUME NEW governed \in GovernedInputs, NEW outcome,
           NEW approval \in ApprovalBinding \cup {None}, NEW conflict \in BOOLEAN, NEW at \in Nat
    PROVE  LET protection == predictive_protection_set(governed, outcome, approval, conflict, at)
           IN  /\ \A c \in protection.accepted :
                     /\ c.incompatible_with \cap {d.identifier : d \in protection.accepted} = {}
                     /\ Approved(outcome) /\ approval # None
                     /\ governed.materiality_required_scope \subseteq approval.scope
                     /\ approval.expiry # None => at < approval.expiry
               /\ protection.complete =>
                     /\ governed.required_identifiers
                           \subseteq {c.identifier : c \in governed.candidates}
                     /\ \A c \in governed.candidates :
                           c.material_effect_claimed => c \in protection.accepted
<1>. DEFINE Status(c) == classificar(c, governed, outcome, approval, conflict, at)
            Of(status) == {c \in governed.candidates : Status(c) = status}
            clash == Incompatible(Of("supported"))
            protection == predictive_protection_set(governed, outcome, approval, conflict, at)
<1>1. /\ protection.accepted = Of("supported") \ clash
      /\ protection.complete <=> Of("unresolved") \cup clash = {} /\ Coverage(governed)
    BY DEF predictive_protection_set
<1>2. \A c \in governed.candidates :
          /\ Status(c) = "supported" =>
                MaterialityAuthority(c.authority, outcome, approval, at,
                                     governed.materiality_required_scope)
          /\ c.material_effect_claimed => Status(c) \in {"supported", "unresolved"}
    BY DEF classificar
<1>3. \A c \in Of("supported") : \A d \in Of("supported") :
          d.identifier \in c.incompatible_with => c \in clash
    BY DEF Incompatible
<1>. HIDE DEF protection, clash, Status
<1>4. ASSUME NEW c \in protection.accepted
      PROVE  /\ c.incompatible_with \cap {d.identifier : d \in protection.accepted} = {}
             /\ Approved(outcome) /\ approval # None
             /\ governed.materiality_required_scope \subseteq approval.scope
             /\ approval.expiry # None => at < approval.expiry
  <2>1. c \in governed.candidates /\ Status(c) = "supported" /\ c \notin clash
      BY <1>1
  <2>2. MaterialityAuthority(c.authority, outcome, approval, at,
                             governed.materiality_required_scope)
      BY <1>2, <2>1
  <2>3. /\ Approved(outcome) /\ approval # None /\ c.authority # None
        /\ c.authority.scope \subseteq approval.scope
        /\ governed.materiality_required_scope \subseteq c.authority.scope
        /\ c.authority.valid_from # None /\ c.authority.valid_until # None
        /\ at < c.authority.valid_until
        /\ approval.expiry # None => c.authority.valid_until <= approval.expiry
      BY <2>2 DEF MaterialityAuthority, Within
  <2>4. c \in PredictiveProtectionCandidateInput
      BY <2>1 DEF GovernedInputs
  <2>5. c.authority.valid_until \in Nat
    <3>1. c.authority \in PredictiveMaterialityAuthority
        BY <2>3, <2>4 DEF PredictiveProtectionCandidateInput
    <3>. QED BY <2>3, <3>1 DEF PredictiveMaterialityAuthority
  <2>6. approval.expiry # None => at < approval.expiry
    <3>1. approval.expiry \in Nat \cup {None}
        BY <2>3 DEF ApprovalBinding
    <3>. QED BY <2>3, <2>5, <3>1
  <2>7. c.incompatible_with \cap {d.identifier : d \in protection.accepted} = {}
    <3>. SUFFICES ASSUME NEW d \in protection.accepted, d.identifier \in c.incompatible_with
                  PROVE  FALSE
        OBVIOUS
    <3>1. d \in Of("supported") /\ c \in Of("supported")
        BY <1>1
    <3>. QED BY <1>3, <2>1, <3>1
  <2>. QED BY <2>3, <2>6, <2>7
<1>5. ASSUME protection.complete
      PROVE  /\ governed.required_identifiers
                   \subseteq {c.identifier : c \in governed.candidates}
             /\ \A c \in governed.candidates :
                   c.material_effect_claimed => c \in protection.accepted
    BY <1>1, <1>2, <1>5 DEF Coverage
<1>. QED BY <1>4, <1>5 DEF protection

(* The four routes, none of them None, in the order of their caution. *)
LEMMA RoutesDiffer ==
    /\ None \notin PredictiveRoute
    /\ \A route \in PredictiveRoute : _CONSERVADORISMO[route] \in 0 .. 3
BY RoutingAssumption DEF PredictiveRoute, _CONSERVADORISMO

(* No route where claims contradict each other; a reconfiguration only after *)
(* a promotion; and where protection is needed, an approval and no branch    *)
(* left open.                                                                *)
LEMMA RouteSound ==
    ASSUME NEW outcome, NEW conflict \in BOOLEAN, NEW promoted \in BOOLEAN, NEW protection
    PROVE  LET route == Route(outcome, conflict, promoted, protection)
           IN  /\ route \in PredictiveRoute \cup {None}
               /\ conflict => route = None
               /\ route = "reconfigure" => promoted
               /\ route \in {"robust", "reconfigure"} => Approved(outcome) /\ protection.complete
BY RoutingAssumption DEF Route, FollowsPromotion, PredictiveRoute

(* Revalidating never makes a route bolder. *)
LEMMA NeverBolder ==
    ASSUME NEW outcome, outcome.state \in PredictiveEpistemicState, NEW conflict \in BOOLEAN,
           NEW route \in PredictiveRoute
    PROVE  _CONSERVADORISMO[route]
               <= _CONSERVADORISMO[Revalidated(route, next_governed_route(outcome, conflict))]
<1>. DEFINE next == next_governed_route(outcome, conflict)
<1>1. next \in PredictiveRoute
    BY DEF next_governed_route, rotas, PredictiveRoute, PredictiveEpistemicState
<1>. HIDE DEF next
<1>2. /\ _CONSERVADORISMO[route] \in Int /\ _CONSERVADORISMO[next] \in Int /\ route # None
    BY <1>1, RoutesDiffer
<1>3. _CONSERVADORISMO[route] <= _CONSERVADORISMO[Revalidated(route, next)]
    BY <1>2 DEF Revalidated
<1>. QED BY <1>3 DEF next

(* The answer about one claim. *)
LEMMA RouteOfItem ==
    ASSUME NEW batch, NEW evaluated, NEW i \in DOMAIN batch, NEW promoted \in BOOLEAN,
           NEW at \in Nat, batch[i] \in PredictiveEvaluationItem,
           evaluated[i] = predictive_evaluate_item(batch[i])
    PROVE  LET item     == batch[i]
               answer   == predictive_route_item(batch, evaluated, i, promoted, at)
               approval == item.authority.approval
           IN  /\ answer.route \in PredictiveRoute \cup {None}
               /\ real_conflict(batch, evaluated, i) => answer.route = None
               /\ answer.route = "reconfigure" => promoted
               /\ answer.route \in {"robust", "reconfigure"} =>
                     /\ evaluated[i].approval = "valid"
                     /\ item.governed.required_identifiers
                           \subseteq {c.identifier : c \in item.governed.candidates}
                     /\ \A c \in item.governed.candidates :
                           c.material_effect_claimed => c \in answer.accepted
               /\ \A c \in answer.accepted :
                     /\ c.incompatible_with \cap {d.identifier : d \in answer.accepted} = {}
                     /\ item.governed.materiality_required_scope \subseteq approval.scope
                     /\ approval.expiry # None => item.at < approval.expiry /\ at < approval.expiry
               /\ answer.alternative # None => answer.route # None
               /\ answer.route # None =>
                     _CONSERVADORISMO[answer.route] <= _CONSERVADORISMO[answer.revalidated]
<1>. DEFINE item == batch[i]
            answer == predictive_route_item(batch, evaluated, i, promoted, at)
            outcome == evaluated[i]
            governed == item.governed
            approval == item.authority.approval
            conflict == real_conflict(batch, evaluated, i)
            protection == predictive_protection_set(governed, outcome, approval, conflict, at)
            route == Route(outcome, conflict, promoted, protection)
<1>1. CASE ~ Evaluated(outcome)
  <2>1. answer = NoRoute
      BY <1>1 DEF predictive_route_item
  <2>2. /\ answer.route = None /\ answer.alternative = None /\ answer.accepted = {}
      BY <2>1 DEF NoRoute
  <2>. HIDE DEF answer
  <2>. QED BY <2>2, RoutingAssumption DEF answer
<1>2. CASE Evaluated(outcome)
  <2>1. /\ answer.route = route /\ answer.accepted = protection.accepted
        /\ answer.revalidated = Revalidated(route, next_governed_route(outcome, conflict))
        /\ answer.alternative # None => route # None
      BY <1>2 DEF predictive_route_item
  <2>2. conflict \in BOOLEAN
      BY DEF real_conflict
  <2>3. governed \in GovernedInputs /\ approval \in ApprovalBinding \cup {None} /\ item.at \in Nat
      BY DEF PredictiveEvaluationItem, AuthorityContext
  <2>4. /\ outcome.state \in PredictiveEpistemicState
        /\ Approved(outcome) => predictive_approval_validation(item) = "valid"
      BY <1>2, EvaluatedItem DEF Approved
  <2>5. Approved(outcome) /\ approval # None /\ approval.expiry # None => item.at < approval.expiry
      BY <2>4, ApprovedInTime
  <2>. HIDE DEF answer, outcome, governed, approval, conflict, item
  <2>6. /\ \A c \in protection.accepted :
              /\ c.incompatible_with \cap {d.identifier : d \in protection.accepted} = {}
              /\ Approved(outcome) /\ approval # None
              /\ governed.materiality_required_scope \subseteq approval.scope
              /\ approval.expiry # None => at < approval.expiry
        /\ protection.complete =>
              /\ governed.required_identifiers
                    \subseteq {c.identifier : c \in governed.candidates}
              /\ \A c \in governed.candidates :
                    c.material_effect_claimed => c \in protection.accepted
      BY <2>2, <2>3, ProtectionSound
  <2>. HIDE DEF protection
  <2>7. /\ route \in PredictiveRoute \cup {None}
        /\ conflict => route = None
        /\ route = "reconfigure" => promoted
        /\ route \in {"robust", "reconfigure"} => Approved(outcome) /\ protection.complete
      BY <2>2, RouteSound
  <2>. HIDE DEF route
  <2>8. route # None => _CONSERVADORISMO[route]
            <= _CONSERVADORISMO[Revalidated(route, next_governed_route(outcome, conflict))]
      BY <2>2, <2>4, <2>7, NeverBolder
  <2>9. answer.route \in {"robust", "reconfigure"} =>
            /\ outcome.approval = "valid"
            /\ governed.required_identifiers \subseteq {c.identifier : c \in governed.candidates}
            /\ \A c \in governed.candidates : c.material_effect_claimed => c \in answer.accepted
      BY <2>1, <2>6, <2>7 DEF Approved
  <2>10. \A c \in answer.accepted :
            /\ c.incompatible_with \cap {d.identifier : d \in answer.accepted} = {}
            /\ governed.materiality_required_scope \subseteq approval.scope
            /\ approval.expiry # None => item.at < approval.expiry /\ at < approval.expiry
      BY <2>1, <2>5, <2>6
  <2>11. /\ answer.route \in PredictiveRoute \cup {None}
         /\ conflict => answer.route = None
         /\ answer.route = "reconfigure" => promoted
         /\ answer.alternative # None => answer.route # None
         /\ answer.route # None =>
               _CONSERVADORISMO[answer.route] <= _CONSERVADORISMO[answer.revalidated]
      BY <2>1, <2>7, <2>8
  <2>. QED BY <2>9, <2>10, <2>11 DEF answer, outcome, governed, approval, conflict, item
<1>. QED BY <1>1, <1>2

(* The routes of an answered batch are those of its claims, one for each.    *)
LEMMA RoutesOfBatch ==
    ASSUME ReconfigurationIInv, NEW s \in Sessions, pc[s] \in {"commit", "answered"},
           IsBatch(call[s])
    PROVE  /\ call[s] \notin Rollbacks /\ Claims(call[s], outcomes[s])
           /\ Len(decisions[s]) = Len(call[s].items)
           /\ DOMAIN decisions[s] = DOMAIN call[s].items
           /\ DOMAIN routes[s] = DOMAIN call[s].items
           /\ \A i \in DOMAIN call[s].items :
                 routes[s][i] = predictive_route_item(call[s].items, outcomes[s], i,
                                    decisions[s][i].decision = "promoted", call[s].at)
<1>1. CallInv(s) /\ ProgressInv(s)
    BY DEF ReconfigurationIInv, SessionInv
<1>2. call[s] \notin Rollbacks
    BY RollbackForm
<1>3. Claims(call[s], outcomes[s])
    BY <1>1, <1>2 DEF CallInv
<1>4. DOMAIN call[s].items = 1 .. Len(call[s].items) /\ Len(call[s].items) \in Nat
    BY <1>3 DEF Claims
<1>5. /\ decisions[s] \in Seq(Decisions) /\ Len(decisions[s]) = Len(call[s].items)
      /\ routes[s] = predictive_route_batch(call[s].items, outcomes[s],
             [i \in DOMAIN decisions[s] |-> decisions[s][i].decision = "promoted"], call[s].at)
    BY <1>1, <1>2 DEF ProgressInv
<1>6. DOMAIN decisions[s] = DOMAIN call[s].items
  <2>. HIDE DEF Decisions
  <2>. QED BY <1>4, <1>5, LenProperties
<1>7. \A i \in DOMAIN call[s].items :
          routes[s][i] = predictive_route_item(call[s].items, outcomes[s], i,
                             decisions[s][i].decision = "promoted", call[s].at)
    BY <1>5, <1>6 DEF predictive_route_batch
<1>8. DOMAIN routes[s] = DOMAIN call[s].items
    BY <1>5 DEF predictive_route_batch
<1>. QED BY <1>2, <1>3, <1>5, <1>6, <1>7, <1>8

(* Every variable holds a value of its type in every state: what a session   *)
(* appends is an event, and an answered batch has a decision and a route for *)
(* each of its claims, whatever was replayed, lost or refused among them     *)
(* (predictive_evaluate_batch, append).                                      *)
THEOREM ReconfigurationTypes == ReconfigurationSpec => []ReconfigurationTypeOK
<1>1. ASSUME ReconfigurationIInv PROVE ReconfigurationTypeOK
  <2>1. log \subseteq PredictiveReconfigurationEvent
      BY <1>1 DEF ReconfigurationIInv, LogInv
  <2>2. ASSUME NEW s \in Sessions
        PROVE  /\ mine[s] \subseteq PredictiveReconfigurationEvent
               /\ pc[s] \in {"idle", "gate", "rollback", "append", "commit", "answered",
                             "refused", "raised"}
               /\ pc[s] \in {"idle", "refused", "raised"} => call[s] = None /\ mine[s] = {}
               /\ pc[s] \in {"gate", "rollback", "append", "commit"} =>
                     call[s] \in Batches \cup Rollbacks
               /\ pc[s] = "append" => event[s] \in PredictiveReconfigurationEvent
      BY <1>1 DEF ReconfigurationIInv, SessionInv, MineInv, CallInv, AppendingInv
  <2>3. ASSUME NEW s \in Sessions, NEW i \in DOMAIN decisions[s]
        PROVE  decisions[s][i].decision \in PredictiveReconfigurationDecision
    <3>1. decisions[s] \in Seq(Decisions)
        BY <1>1 DEF ReconfigurationIInv, SessionInv, ProgressInv
    <3>2. decisions[s][i] \in Decisions
      <4>. HIDE DEF Decisions
      <4>. QED BY <3>1, LenProperties, ElementOfSeq
    <3>. QED BY <3>2 DEF Decisions
  <2>4. ASSUME NEW s \in Sessions, pc[s] \in {"commit", "answered"}
        PROVE  IF IsBatch(call[s])
               THEN /\ Len(decisions[s]) = Len(call[s].items)
                    /\ DOMAIN routes[s] = DOMAIN decisions[s]
                    /\ \A i \in DOMAIN routes[s] :
                          routes[s][i].route \in PredictiveRoute \cup {None}
               ELSE Len(decisions[s]) = 1
    <3>1. CASE IsBatch(call[s])
      <4>1. /\ Claims(call[s], outcomes[s]) /\ Len(decisions[s]) = Len(call[s].items)
            /\ DOMAIN routes[s] = DOMAIN decisions[s] /\ DOMAIN routes[s] = DOMAIN call[s].items
            /\ \A i \in DOMAIN call[s].items :
                  routes[s][i] = predictive_route_item(call[s].items, outcomes[s], i,
                                     decisions[s][i].decision = "promoted", call[s].at)
          BY <1>1, <2>4, <3>1, RoutesOfBatch
      <4>2. ASSUME NEW i \in DOMAIN routes[s]
            PROVE  routes[s][i].route \in PredictiveRoute \cup {None}
        <5>1. /\ i \in DOMAIN call[s].items /\ call[s].at \in Nat
              /\ call[s].items[i] \in PredictiveEvaluationItem
              /\ outcomes[s][i] = predictive_evaluate_item(call[s].items[i])
            BY <4>1 DEF Claims
        <5>. DEFINE promoted == decisions[s][i].decision = "promoted"
        <5>2. promoted \in BOOLEAN
            OBVIOUS
        <5>3. routes[s][i] = predictive_route_item(call[s].items, outcomes[s], i, promoted,
                                 call[s].at)
            BY <4>1, <5>1
        <5>. HIDE DEF promoted
        <5>4. predictive_route_item(call[s].items, outcomes[s], i, promoted, call[s].at).route
                  \in PredictiveRoute \cup {None}
            BY <5>1, <5>2, RouteOfItem
        <5>. QED BY <5>3, <5>4
      <4>. QED BY <3>1, <4>1, <4>2
    <3>2. CASE ~ IsBatch(call[s])
      <4>1. CallInv(s) /\ ProgressInv(s)
          BY <1>1 DEF ReconfigurationIInv, SessionInv
      <4>2. call[s] \in Batches \cup Rollbacks \/ Public(call[s])
          BY <2>4, <4>1 DEF CallInv
      <4>3. call[s] \in Rollbacks
          BY <3>2, <4>2, BatchOrRollback
      <4>. QED BY <2>4, <3>2, <4>1, <4>3 DEF ProgressInv
    <3>. QED BY <3>1, <3>2
  <2>. QED BY <2>1, <2>2, <2>3, <2>4 DEF ReconfigurationTypeOK
<1>. QED BY <1>1, ReconfigurationHolds, PTL

(* What an answered session sees is committed. *)
LEMMA AnsweredSeesLog ==
    ASSUME ReconfigurationIInv, NEW s \in Sessions, pc[s] = "answered"
    PROVE  Visible(s) = log /\ DecisionInv(s)
<1>1. mine[s] = {}
    BY DEF ReconfigurationIInv, SessionInv, CallInv
<1>. QED BY <1>1 DEF ReconfigurationIInv, SessionInv, Visible

(* The log of every subject is whole, whoever changed it was allowed to, and *)
(* what was answered about it is so, however sessions race, wait for each    *)
(* other and roll back (append, _reconcile, the two gates): the version that *)
(* was expected, the unique index and the wait for a rival add up.           *)
THEOREM HistoryIsSound == ReconfigurationSpec => []HistorySound
<1>1. ASSUME ReconfigurationIInv PROVE HistorySound
  <2>1. LogInv
      BY <1>1 DEF ReconfigurationIInv
  <2>2. LogWhole
      BY <2>1 DEF LogWhole, LogInv, SameRow, Grounded
  <2>3. EventsAuthorized
      BY <2>1 DEF EventsAuthorized, LogInv, Grounded
  <2>4. ASSUME NEW s \in Sessions, pc[s] = "answered", NEW i \in DOMAIN decisions[s]
        PROVE  LET d == decisions[s][i]
               IN  /\ d.decision \in {"promoted", "replayed"} =>
                         /\ d.version = Asked(s, i)
                         /\ \E e \in log : e.event_id = d.event_id /\ e.to_version = d.version
                   /\ d.decision = "lost_concurrent_race" /\ d.event_id # None =>
                         \E e \in log : e.event_id = d.event_id /\ e.to_version = d.version
    <3>1. Told(decisions[s][i], s, i) /\ Visible(s) = log
        BY <1>1, <2>4, AnsweredSeesLog DEF DecisionInv
    <3>. QED BY <3>1 DEF Told
  <2>5. AnswersHold
      BY <2>4 DEF AnswersHold
  <2>. QED BY <2>2, <2>3, <2>5 DEF HistorySound
<1>. QED BY <1>1, ReconfigurationHolds, PTL

(* What is recommended rests on what was decided and on an approval that     *)
(* covers it now, and never grows bolder: contradicting claims are silent, a *)
(* reconfiguration follows the committed event of this very claim, and where *)
(* protection is needed no branch is left open (predictive_route_batch).     *)
THEOREM RoutesAreSound == ReconfigurationSpec => []RoutesSound
<1>1. ASSUME ReconfigurationIInv PROVE RoutesSound
  <2>. SUFFICES ASSUME NEW s \in Sessions, pc[s] = "answered", IsBatch(call[s]),
                       NEW i \in DOMAIN routes[s]
       PROVE LET item     == call[s].items[i]
                 answer   == routes[s][i]
                 approval == item.authority.approval
             IN  /\ \A j \in DOMAIN routes[s] :
                       /\ Evaluated(outcomes[s][i]) /\ Evaluated(outcomes[s][j])
                       /\ item.governed.key = call[s].items[j].governed.key
                       /\ item.governed.conclusion # call[s].items[j].governed.conclusion
                       => answer.route = None
                 /\ answer.route = "reconfigure" =>
                       \E e \in log : /\ e.event_id = call[s].instructions[i].event_id
                                      /\ e.candidate = approval.bound_to.ref
                                      /\ e.subject = item.subject
                 /\ answer.route \in {"robust", "reconfigure"} =>
                       /\ outcomes[s][i].approval = "valid"
                       /\ item.governed.required_identifiers
                             \subseteq {c.identifier : c \in item.governed.candidates}
                       /\ \A c \in item.governed.candidates :
                             c.material_effect_claimed => c \in answer.accepted
                 /\ \A c \in answer.accepted :
                       /\ c.incompatible_with \cap {d.identifier : d \in answer.accepted} = {}
                       /\ item.governed.materiality_required_scope \subseteq approval.scope
                       /\ approval.expiry # None =>
                             item.at < approval.expiry /\ call[s].at < approval.expiry
                 /\ answer.alternative # None => answer.route # None
                 /\ answer.route # None =>
                       _CONSERVADORISMO[answer.route] <= _CONSERVADORISMO[answer.revalidated]
      BY DEF RoutesSound
  <2>. DEFINE item == call[s].items[i]
              answer == routes[s][i]
              approval == item.authority.approval
              promoted == decisions[s][i].decision = "promoted"
  <2>1. /\ call[s] \notin Rollbacks /\ Claims(call[s], outcomes[s])
        /\ DOMAIN decisions[s] = DOMAIN call[s].items /\ DOMAIN routes[s] = DOMAIN call[s].items
        /\ answer = predictive_route_item(call[s].items, outcomes[s], i, promoted, call[s].at)
      BY <1>1, RoutesOfBatch
  <2>2. /\ i \in DOMAIN call[s].items /\ call[s].at \in Nat
        /\ call[s].items[i] \in PredictiveEvaluationItem
        /\ outcomes[s][i] = predictive_evaluate_item(call[s].items[i])
      BY <2>1 DEF Claims
  <2>3. promoted \in BOOLEAN
      OBVIOUS
  <2>. HIDE DEF promoted, answer
  <2>4. /\ real_conflict(call[s].items, outcomes[s], i) => answer.route = None
        /\ answer.route = "reconfigure" => promoted
        /\ answer.route \in {"robust", "reconfigure"} =>
              /\ outcomes[s][i].approval = "valid"
              /\ item.governed.required_identifiers
                    \subseteq {c.identifier : c \in item.governed.candidates}
              /\ \A c \in item.governed.candidates :
                    c.material_effect_claimed => c \in answer.accepted
        /\ \A c \in answer.accepted :
              /\ c.incompatible_with \cap {d.identifier : d \in answer.accepted} = {}
              /\ item.governed.materiality_required_scope \subseteq approval.scope
              /\ approval.expiry # None =>
                    item.at < approval.expiry /\ call[s].at < approval.expiry
        /\ answer.alternative # None => answer.route # None
        /\ answer.route # None =>
              _CONSERVADORISMO[answer.route] <= _CONSERVADORISMO[answer.revalidated]
      BY <2>1, <2>2, <2>3, RouteOfItem
  <2>5. ASSUME NEW j \in DOMAIN routes[s], Evaluated(outcomes[s][i]), Evaluated(outcomes[s][j]),
               item.governed.key = call[s].items[j].governed.key,
               item.governed.conclusion # call[s].items[j].governed.conclusion
        PROVE  answer.route = None
    <3>1. real_conflict(call[s].items, outcomes[s], i)
        BY <2>1, <2>5 DEF real_conflict
    <3>. QED BY <2>4, <3>1
  <2>6. ASSUME answer.route = "reconfigure"
        PROVE  \E e \in log : /\ e.event_id = call[s].instructions[i].event_id
                              /\ e.candidate = approval.bound_to.ref
                              /\ e.subject = item.subject
    <3>1. decisions[s][i].decision = "promoted"
        BY <2>4, <2>6 DEF promoted
    <3>2. Told(decisions[s][i], s, i) /\ Visible(s) = log
        BY <1>1, <2>1, <2>2, AnsweredSeesLog DEF DecisionInv
    <3>3. PICK e \in log : Promotes(e, s, i)
        BY <3>1, <3>2 DEF Told
    <3>. QED BY <2>1, <3>3 DEF Promotes
  <2>. QED BY <2>4, <2>5, <2>6 DEF answer
<1>. QED BY <1>1, ReconfigurationHolds, PTL
=============================================================================
