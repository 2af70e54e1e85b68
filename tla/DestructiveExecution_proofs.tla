-------------------- MODULE DestructiveExecution_proofs --------------------
(***************************************************************************)
(* Proofs about DestructiveExecution, for any number of executors,         *)
(* revokers, approvals and targets, and any batch length; and, in the      *)
(* second half, about MemoryContinuity, for any number of sessions,        *)
(* objects, entries and consolidations.  The two components share neither  *)
(* constants nor variables.                                                *)
(***************************************************************************)
EXTENDS DestructiveExecution, MemoryContinuity, FiniteSetTheorems, TLAPS

(* A call that began has a request. *)
RequestInv ==
    \A p \in Processes : pc[p] # "idle" => request[p] \in Requests

(* Where a call is tells how far its batch has got. *)
BatchInv ==
    \A x \in Processes :
        /\ InPhaseC(x) => x \in Executors
        /\ pc[x] = "resolve" =>
               /\ x \in Executors
               /\ Len(frescos[x]) < Len(request[x].references)
               /\ desfechos[x] = <<>>
        /\ x \in Executors /\ pc[x] \in {"update", "stamp", "lock", "commit"} =>
               /\ Len(frescos[x]) = Len(request[x].references)
               /\ desfechos[x] = <<>>
        /\ InPhaseC(x) =>
               /\ Len(frescos[x]) = Len(request[x].references)
               /\ Len(desfechos[x]) < Len(frescos[x])
        /\ pc[x] = "idle" => frescos[x] = <<>> /\ desfechos[x] = <<>>

(* The row lock is held exactly by the calls that are about to commit, and   *)
(* the row they hold is still ACTIVE.                                        *)
LockInv ==
    \A p \in Processes :
        /\ pc[p] = "commit" => lock[Id(p)] = p /\ state[Id(p)] = "ACTIVE"
        /\ \A a \in Approvals : lock[a] = p => pc[p] = "commit" /\ Id(p) = a

(* Phase C of an approval belongs to one call, whose consumption is durable. *)
OwnerInv ==
    \A x \in Processes :
        InPhaseC(x) =>
            /\ state[Id(x)] = "CONSUMED"
            /\ \A y \in Processes : InPhaseC(y) /\ Id(y) = Id(x) => y = x

(* The positions the owner has not reached were not attempted. *)
EffectInv ==
    /\ \A a \in Approvals : state[a] # "CONSUMED" => \A i \in Positions : effects[a][i] = 0
    /\ \A x \in Processes : \A i \in Positions :
           /\ pc[x] = "effect" /\ Posicao(x) <= i => effects[Id(x)][i] = 0
           /\ pc[x] = "receipt" /\ Posicao(x) < i => effects[Id(x)][i] = 0
    /\ AtMostOneEffect

IInv == TypeOK /\ RequestInv /\ BatchInv /\ LockInv /\ OwnerInv /\ EffectInv

(* What a call resolved is what its envelope approves, position by position, *)
(* and what the WHERE of its UPDATE saw still holds until it commits.        *)
AuthInv ==
    /\ \A x \in Executors :
           /\ pc[x] \in {"resolve", "update", "stamp", "lock", "commit", "effect", "receipt"} =>
                  /\ Len(request[x].references) = Len(request[x].envelope.targets)
                  /\ \A i \in 1 .. Len(frescos[x]) :
                         frescos[x][i] = request[x].envelope.targets[i]
           /\ pc[x] \in {"stamp", "lock", "commit", "effect", "receipt"} =>
                  agora[x] < request[x].envelope.expires_at
           /\ pc[x] = "stamp" => agora[x] <= clock
           /\ pc[x] \in {"lock", "commit"} => agora[x] <= carimbo[x]
           /\ pc[x] \in {"effect", "receipt"} =>
                  state[Id(x)] = "CONSUMED" /\ agora[x] <= consumed_at[Id(x)]
    /\ \A p \in Processes :
           pc[p] \in {"stamp", "lock", "commit", "effect", "receipt"} =>
               envelope[Id(p)] = request[p].envelope /\ state[Id(p)] # "ABSENT"

(* A call that reached phase C, finished or not, spent its approval alone.   *)
Spent(x) == InPhaseC(x) \/ desfechos[x] # <<>>

(* Along the batch, effects and receipts agree up to the position the owner  *)
(* has reached, and there is no receipt from there on.                       *)
AccountInv ==
    /\ \A a \in Approvals : state[a] # "CONSUMED" => \A i \in Positions : recibos[a][i] = 0
    /\ \A x \in Executors :
           /\ Len(desfechos[x]) <= MaxLote
           /\ Spent(x) => state[Id(x)] = "CONSUMED"
           /\ \A y \in Executors : Spent(x) /\ InPhaseC(y) /\ Id(y) = Id(x) => y = x
           /\ InPhaseC(x) => \A i \in Positions :
                  /\ i < Posicao(x) => effects[Id(x)][i] = recibos[Id(x)][i]
                  /\ i >= Posicao(x) => recibos[Id(x)][i] = 0
           /\ pc[x] = "receipt" => effects[Id(x)][Posicao(x)] = 1
    /\ EffectsAccounted

-----------------------------------------------------------------------------
LEMMA RequestFacts ==
    ASSUME NEW r \in Requests
    PROVE  /\ r.envelope \in Envelopes
           /\ r.envelope.id \in Approvals
           /\ Len(r.references) \in Nat
           /\ Len(r.references) >= 1
           /\ Len(r.references) <= MaxLote
           /\ \A i \in 1 .. Len(r.references) : r.references[i].subject \in Subjects
BY RequestAssumption, BoundAssumption DEF Envelopes, Approvals, Positions

LEMMA RevocationFacts ==
    ASSUME NEW e \in Envelopes
    PROVE  Revocation(e) \in Requests /\ Revocation(e).envelope = e
BY DEF Envelopes, Revocation

(* What Goto and Return do to the control state is well typed. *)
ControlTyped ==
    /\ pc \in [Processes -> Labels]
    /\ result \in [Processes -> Results]
    /\ agora \in [Processes -> 0 .. MaxClock]
    /\ carimbo \in [Processes -> 0 .. MaxClock]

LEMMA GotoTyped ==
    ASSUME ControlTyped, NEW p, NEW l \in Labels, Goto(p, l)
    PROVE  ControlTyped'
BY DEF ControlTyped, Goto

LEMMA ReturnTyped ==
    ASSUME ControlTyped, NEW p, NEW res \in Results, Return(p, res)
    PROVE  ControlTyped'
<1>1. 0 \in 0 .. MaxClock
  BY BoundAssumption
<1>2. "done" \in Labels
  BY DEF Labels
<1> QED BY <1>1, <1>2 DEF ControlTyped, Return

LEMMA NoRowTyped ==
    ASSUME ControlTyped, NEW p, NoRow(p)
    PROVE  ControlTyped'
<1>1. 0 \in 0 .. MaxClock
  BY BoundAssumption
<1>2. "diagnose" \in Labels
  BY DEF Labels
<1> QED BY <1>1, <1>2 DEF ControlTyped, NoRow

LEMMA InitIInv == Init => IInv
<1> SUFFICES ASSUME Init PROVE IInv
  OBVIOUS
<1>1. TypeOK
  <2>3. /\ frescos \in [Processes -> Seq(Snapshots)]
        /\ desfechos \in [Processes -> Seq({"ATTEMPTED", "NOT_ATTEMPTED"})]
    BY DEF Init
  <2>4. result \in [Processes -> Results]
    BY DEF Init, Results
  <2>5. /\ effects \in [Approvals -> [Positions -> Nat]]
        /\ recibos \in [Approvals -> [Positions -> Nat]]
    BY DEF Init
  <2>6. /\ clock \in 0 .. MaxClock
        /\ agora \in [Processes -> 0 .. MaxClock]
        /\ carimbo \in [Processes -> 0 .. MaxClock]
    BY BoundAssumption DEF Init
  <2>7. /\ envelope \in [Approvals -> Envelopes \cup {None}]
        /\ state \in [Approvals -> {"ABSENT", "ACTIVE", "CONSUMED", "REVOKED"}]
        /\ consumed_at \in [Approvals -> Nat \cup {None}]
        /\ \A a \in Approvals : consumed_at[a] = None <=> state[a] # "CONSUMED"
        /\ lock \in [Approvals -> Processes \cup {None}]
        /\ pc \in [Processes -> Labels]
        /\ request \in [Processes -> Requests \cup {None}]
    BY DEF Init, Labels
  <2> QED BY <2>3, <2>4, <2>5, <2>6, <2>7 DEF TypeOK
<1>2. RequestInv /\ BatchInv /\ LockInv /\ OwnerInv /\ EffectInv
  BY ProcessAssumption DEF Init, RequestInv, BatchInv, LockInv, OwnerInv, EffectInv,
     AtMostOneEffect, InPhaseC
<1> QED BY <1>1, <1>2 DEF IInv

-----------------------------------------------------------------------------
(* Every step preserves TypeOK. *)
LEMMA NextTypeOK == IInv /\ [Next]_vars => TypeOK'
<1> SUFFICES ASSUME IInv, [Next]_vars PROVE TypeOK'
  OBVIOUS
<1> USE DEF IInv
<1> ControlTyped
  BY DEF TypeOK, ControlTyped
<1>0. ASSUME UNCHANGED vars PROVE TypeOK'
  BY <1>0 DEF TypeOK, vars
<1>1. ASSUME Tick PROVE TypeOK'
  BY <1>1, BoundAssumption DEF TypeOK, Tick, rowVars, localVars, outVars
<1>3. ASSUME NEW e \in Envelopes, append_approved(e) PROVE TypeOK'
  BY <1>3 DEF TypeOK, append_approved, rowVars, localVars, outVars, Approvals
<1>4. ASSUME NEW x \in Executors, NEW r \in Requests, execute(x, r) PROVE TypeOK'
  <2>1. ValidarLote(r) # "OK" => ValidarLote(r) \in Results
    BY DEF ValidarLote, Results
  <2>2. ControlTyped'
    <3>1. CASE Goto(x, "resolve")
      BY <3>1, GotoTyped DEF Labels
    <3>2. CASE ValidarLote(r) # "OK" /\ Return(x, ValidarLote(r))
      BY <3>2, <2>1, ReturnTyped
    <3> QED BY <1>4, <3>1, <3>2 DEF execute
  <2> QED BY <1>4, <2>2 DEF TypeOK, ControlTyped, execute, rowVars, outVars, Processes
<1>5. ASSUME NEW v \in Revokers, NEW e \in Envelopes, revoke_once(v, e) PROVE TypeOK'
  BY <1>5, RevocationFacts DEF TypeOK, revoke_once, Goto, rowVars, outVars, Labels, Processes
<1>6. ASSUME NEW x \in Executors, resolve_target(x) PROVE TypeOK'
  <2> x \in Processes BY DEF Processes
  <2>1. request[x] \in Requests
    BY <1>6 DEF resolve_target, RequestInv
  <2>3. frescos' \in [Processes -> Seq(Snapshots)]
    <3>1. CASE UNCHANGED frescos
      BY <3>1 DEF TypeOK
    <3>2. CASE ~ UNCHANGED frescos
      <4>1. PICK f \in Snapshots : frescos' = [frescos EXCEPT ![x] = Append(@, f)]
        BY <1>6, <3>2 DEF resolve_target
      <4>2. Append(frescos[x], f) \in Seq(Snapshots)
        BY <4>1 DEF TypeOK
      <4> QED BY <4>1, <4>2 DEF TypeOK
    <3> QED BY <3>1, <3>2
  <2>4. ControlTyped'
    <3>1. ASSUME NEW l \in {"update", "resolve"}, Goto(x, l) PROVE ControlTyped'
      BY <3>1, GotoTyped DEF Labels
    <3>2. ASSUME NEW res \in {"TARGET_RESOLUTION_REFUSED", "FRESH_SNAPSHOT_DIVERGED"},
                 Return(x, res)
          PROVE  ControlTyped'
      BY <3>2, ReturnTyped DEF Results
    <3> QED BY <1>6, <3>1, <3>2 DEF resolve_target
  <2> QED BY <1>6, <2>3, <2>4 DEF TypeOK, ControlTyped, resolve_target, rowVars, outVars
<1>7. ASSUME NEW p \in Processes, Transition(p) PROVE TypeOK'
  <2>1. pc[p] # "idle" /\ pc[p] # "done"
    BY <1>7 DEF Transition, Transicionar, EvaluateSet, LockRow, Commit, CommitFails,
       diagnosticar, consultar_vencida
  <2>2. request[p] \in Requests /\ Id(p) \in Approvals
    BY <2>1, RequestFacts DEF RequestInv, Id
  <2>3. CASE Transicionar(p) \/ EvaluateSet(p)
    <3>1. ControlTyped'
      <4>1. CASE NoRow(p)
        BY <4>1, NoRowTyped
      <4>2. CASE ~ NoRow(p)
        BY <2>3, <4>2 DEF TypeOK, ControlTyped, Transicionar, EvaluateSet, Labels
      <4> QED BY <4>1, <4>2
    <3>2. UNCHANGED <<rowVars, lock, clock, localVars, outVars>>
      BY <2>3 DEF Transicionar, EvaluateSet
    <3> QED BY <3>1, <3>2 DEF TypeOK, ControlTyped, rowVars, localVars, outVars
  <2>4. CASE LockRow(p)
    <3>1. ControlTyped'
      <4>1. CASE NoRow(p)
        BY <4>1, NoRowTyped
      <4>2. CASE Goto(p, "commit")
        BY <4>2, GotoTyped DEF Labels
      <4> QED BY <2>4, <4>1, <4>2 DEF LockRow
    <3>2. lock' \in [Approvals -> Processes \cup {None}]
      BY <2>2, <2>4 DEF TypeOK, LockRow
    <3>3. UNCHANGED <<rowVars, clock, localVars, outVars>>
      BY <2>4 DEF LockRow
    <3> QED BY <3>1, <3>2, <3>3 DEF TypeOK, ControlTyped, rowVars, localVars, outVars
  <2>5. CASE Commit(p) \/ CommitFails(p)
    <3>1. /\ state' \in [Approvals -> {"ABSENT", "ACTIVE", "CONSUMED", "REVOKED"}]
          /\ consumed_at' \in [Approvals -> Nat \cup {None}]
          /\ \A a \in Approvals : consumed_at'[a] = None <=> state'[a] # "CONSUMED"
      <4>1. CASE WriteRow(p)
        <5>1. pc[p] = "commit"
          BY <2>5 DEF Commit, CommitFails
        <5>2. state[Id(p)] = "ACTIVE" /\ consumed_at[Id(p)] = None
          BY <2>2, <5>1 DEF LockInv, TypeOK
        <5>3. carimbo[p] \in Nat /\ carimbo[p] # None
          BY ProcessAssumption, BoundAssumption DEF TypeOK
        <5> QED BY <2>2, <4>1, <5>2, <5>3 DEF WriteRow, destino, TypeOK
      <4>2. CASE UNCHANGED <<state, consumed_at>>
        BY <4>2 DEF TypeOK
      <4> QED BY <2>5, <4>1, <4>2 DEF Commit, CommitFails
    <3>2. ControlTyped'
      <4>1. CASE Goto(p, "effect")
        BY <4>1, GotoTyped DEF Labels
      <4>2. ASSUME NEW res \in {"REVOKED", "TRANSACTION_ERROR"}, Return(p, res)
            PROVE  ControlTyped'
        BY <4>2, ReturnTyped DEF Results
      <4> QED BY <2>5, <4>1, <4>2 DEF Commit, CommitFails
    <3>3. lock' \in [Approvals -> Processes \cup {None}]
      BY <2>5 DEF TypeOK, Commit, CommitFails
    <3> QED BY <2>5, <3>1, <3>2, <3>3 DEF TypeOK, ControlTyped, Commit, CommitFails, localVars, outVars
  <2>6. CASE diagnosticar(p) \/ consultar_vencida(p)
    <3>1. ASSUME NEW res \in {"NOT_FOUND", "ALREADY_CONSUMED", "APPROVAL_REVOKED", "EXPIRED",
                             "BINDING_MISMATCH"},
                 Return(p, res)
          PROVE  ControlTyped'
      <4>1. res \in Results
        BY DEF Results
      <4> QED BY <3>1, <4>1, ReturnTyped
    <3>2. ASSUME Goto(p, "expired") PROVE ControlTyped'
      <4>1. "expired" \in Labels
        BY DEF Labels
      <4> QED BY <3>2, <4>1, GotoTyped
    <3>3. ControlTyped'
      BY <2>6, <3>1, <3>2 DEF diagnosticar, consultar_vencida
    <3>4. UNCHANGED <<rowVars, lock, clock, localVars, outVars>>
      BY <2>6 DEF diagnosticar, consultar_vencida
    <3> QED BY <3>3, <3>4 DEF TypeOK, ControlTyped, rowVars, localVars, outVars
  <2> QED BY <1>7, <2>3, <2>4, <2>5, <2>6 DEF Transition
<1>8. ASSUME NEW x \in Executors, PhaseC(x) PROVE TypeOK'
  <2> x \in Processes BY DEF Processes
  <2>1. InPhaseC(x)
    BY <1>8 DEF PhaseC, EffectObserved, EffectNotStarted, EffectUnknown, registrar_recibo,
       ReceiptCommitFails, ReceiptFlushFails, InPhaseC
  <2>2. request[x] \in Requests /\ Id(x) \in Approvals
    BY <2>1, RequestFacts DEF RequestInv, Id, InPhaseC
  <2>3. Posicao(x) \in Positions
    <3>1. /\ Len(desfechos[x]) < Len(request[x].references)
          /\ Len(desfechos[x]) \in Nat
      BY <2>1 DEF BatchInv, TypeOK
    <3>2. Len(request[x].references) \in Nat /\ Len(request[x].references) <= MaxLote
      BY <2>2, RequestFacts
    <3> QED BY <3>1, <3>2, BoundAssumption DEF Posicao, Positions
  <2>4. /\ effects' \in [Approvals -> [Positions -> Nat]]
        /\ recibos' \in [Approvals -> [Positions -> Nat]]
    <3>1. effects' \in [Approvals -> [Positions -> Nat]]
      <4>1. CASE UNCHANGED effects
        BY <4>1 DEF TypeOK
      <4>2. CASE MaterialAttempt(x)
        BY <2>2, <2>3, <4>2 DEF MaterialAttempt, TypeOK
      <4> QED BY <1>8, <4>1, <4>2 DEF PhaseC, EffectObserved, EffectNotStarted, EffectUnknown,
              registrar_recibo, ReceiptCommitFails, ReceiptFlushFails, outVars
    <3>2. recibos' \in [Approvals -> [Positions -> Nat]]
      <4>1. CASE UNCHANGED recibos
        BY <4>1 DEF TypeOK
      <4>2. CASE StoreReceipt(x)
        BY <2>2, <2>3, <4>2 DEF StoreReceipt, TypeOK
      <4> QED BY <1>8, <4>1, <4>2 DEF PhaseC, EffectObserved, EffectNotStarted, EffectUnknown,
              registrar_recibo, ReceiptCommitFails, ReceiptFlushFails, outVars
    <3> QED BY <3>1, <3>2
  <2>5. desfechos' \in [Processes -> Seq({"ATTEMPTED", "NOT_ATTEMPTED"})]
    <3>1. CASE UNCHANGED desfechos
      BY <3>1 DEF TypeOK
    <3>2. ASSUME NEW d \in {"ATTEMPTED", "NOT_ATTEMPTED"}, AppendDesfecho(x, d)
          PROVE  desfechos' \in [Processes -> Seq({"ATTEMPTED", "NOT_ATTEMPTED"})]
      <4>1. Append(desfechos[x], d) \in Seq({"ATTEMPTED", "NOT_ATTEMPTED"})
        BY DEF TypeOK
      <4> QED BY <3>2, <4>1 DEF AppendDesfecho, TypeOK
    <3> QED BY <1>8, <3>1, <3>2 DEF PhaseC, EffectObserved, EffectNotStarted, EffectUnknown,
            registrar_recibo, ReceiptCommitFails, ReceiptFlushFails, localVars
  <2>6. ControlTyped'
    <3>1. ASSUME NEW l \in {"effect", "receipt"}, Goto(x, l) PROVE ControlTyped'
      BY <3>1, GotoTyped DEF Labels
    <3>2. ASSUME NEW res \in {"REPORT", "UNKNOWN_MATERIAL_STATE", "ADAPTER_CONTRACT_VIOLATION",
                              "ERASURE_RECEIPT_NOT_PERSISTED", "PERSISTENCE_ERROR"},
                 Return(x, res)
          PROVE  ControlTyped'
      BY <3>2, ReturnTyped DEF Results
    <3> QED BY <1>8, <3>1, <3>2 DEF PhaseC, EffectObserved, EffectNotStarted, EffectUnknown,
            registrar_recibo, ReceiptCommitFails, ReceiptFlushFails, AppendDesfecho
  <2>7. UNCHANGED <<envelope, state, consumed_at, lock, clock, request, frescos>>
    BY <1>8 DEF PhaseC, EffectObserved, EffectNotStarted, EffectUnknown, registrar_recibo,
       ReceiptCommitFails, ReceiptFlushFails, rowVars, localVars
  <2> QED BY <2>4, <2>5, <2>6, <2>7 DEF TypeOK, ControlTyped
<1>9. ASSUME NEW p \in Processes, Crash(p) PROVE TypeOK'
  BY <1>9, BoundAssumption DEF TypeOK, Crash, Return, rowVars, localVars, outVars, Labels, Results
<1>10. ASSUME NEW p \in Processes, NextCall(p) PROVE TypeOK'
  <2>1. <<>> \in Seq(Snapshots) /\ <<>> \in Seq({"ATTEMPTED", "NOT_ATTEMPTED"})
    OBVIOUS
  <2> QED BY <1>10, <2>1 DEF TypeOK, NextCall, rowVars, outVars, Labels, Results
<1> QED BY <1>0, <1>1, <1>3, <1>4, <1>5, <1>6, <1>7, <1>8, <1>9, <1>10 DEF Next

-----------------------------------------------------------------------------
(* Every step preserves the parts of the inductive invariant. *)
LEMMA NextRequestInv == IInv /\ [Next]_vars => RequestInv'
<1> SUFFICES ASSUME IInv, [Next]_vars PROVE RequestInv'
  OBVIOUS
<1> USE DEF IInv, RequestInv, TypeOK
<1>0. CASE UNCHANGED vars
  BY <1>0 DEF vars
<1>1. CASE Tick
  BY <1>1 DEF Tick, localVars
<1>3. ASSUME NEW e \in Envelopes, append_approved(e) PROVE RequestInv'
  BY <1>3 DEF append_approved, localVars
<1>4. ASSUME NEW x \in Executors, NEW r \in Requests, execute(x, r) PROVE RequestInv'
  BY <1>4 DEF execute, Goto, Return, Processes
<1>5. ASSUME NEW v \in Revokers, NEW e \in Envelopes, revoke_once(v, e) PROVE RequestInv'
  BY <1>5, RevocationFacts DEF revoke_once, Goto, Processes
<1>6. ASSUME NEW x \in Executors, resolve_target(x) PROVE RequestInv'
  BY <1>6 DEF resolve_target, Goto, Return, Processes
<1>7. ASSUME NEW p \in Processes, Transition(p) PROVE RequestInv'
  BY <1>7 DEF Transition, Transicionar,
     EvaluateSet, NoRow, LockRow, Commit, CommitFails, diagnosticar, consultar_vencida, Goto, Return, localVars
<1>8. ASSUME NEW x \in Executors, PhaseC(x) PROVE RequestInv'
  BY <1>8 DEF PhaseC, EffectObserved, EffectNotStarted, EffectUnknown,
     registrar_recibo, ReceiptCommitFails, ReceiptFlushFails, AppendDesfecho,
     Goto, Return, Processes, localVars
<1>9. ASSUME NEW p \in Processes, Crash(p) PROVE RequestInv'
  BY <1>9 DEF Crash, Return, localVars
<1>10. ASSUME NEW p \in Processes, NextCall(p) PROVE RequestInv'
  BY <1>10 DEF NextCall
<1> QED BY <1>0, <1>1, <1>3, <1>4, <1>5, <1>6, <1>7, <1>8, <1>9, <1>10 DEF Next

(* What one iteration of the resolution loop leaves alone, and what it moves. *)
LEMMA ResolveFacts ==
    ASSUME TypeOK, NEW x \in Executors, resolve_target(x)
    PROVE  /\ pc[x] = "resolve"
           /\ UNCHANGED <<request, desfechos, lock, state>>
           /\ \A q \in Processes : q # x => pc'[q] = pc[q] /\ frescos'[q] = frescos[q]
           /\ \/ pc'[x] = "done"
              \/ /\ Len(frescos'[x]) = Len(frescos[x]) + 1
                 /\ pc'[x] = IF Len(frescos[x]) + 1 = Len(request[x].references)
                             THEN "update" ELSE "resolve"
<1> x \in Processes BY DEF Processes
<1>1. pc[x] = "resolve" /\ UNCHANGED <<request, desfechos, lock, state>>
  BY DEF resolve_target, rowVars
<1>2. \/ UNCHANGED frescos /\ \E r : Return(x, r)
      \/ /\ \E f : frescos' = [frescos EXCEPT ![x] = Append(@, f)]
         /\ Goto(x, IF Len(frescos[x]) + 1 = Len(request[x].references)
                    THEN "update" ELSE "resolve")
  BY DEF resolve_target
<1>3. CASE UNCHANGED frescos /\ \E r : Return(x, r)
  BY <1>1, <1>3 DEF Return, TypeOK
<1>4. ASSUME NEW f, frescos' = [frescos EXCEPT ![x] = Append(@, f)],
             NEW l, Goto(x, l)
      PROVE  /\ Len(frescos'[x]) = Len(frescos[x]) + 1 /\ pc'[x] = l
             /\ \A q \in Processes : q # x => pc'[q] = pc[q] /\ frescos'[q] = frescos[q]
  <2>1. frescos'[x] = Append(frescos[x], f)
    BY <1>4 DEF TypeOK
  <2>2. Len(frescos'[x]) = Len(frescos[x]) + 1
    BY <2>1 DEF TypeOK
  <2> QED BY <1>4, <2>2 DEF Goto, TypeOK
<1> QED BY <1>1, <1>2, <1>3, <1>4

LEMMA NextBatchInv == IInv /\ [Next]_vars => BatchInv'
<1> SUFFICES ASSUME IInv, [Next]_vars PROVE BatchInv'
  OBVIOUS
<1> USE DEF IInv, BatchInv, TypeOK, InPhaseC
<1>0. CASE UNCHANGED vars
  BY <1>0 DEF vars
<1>1. CASE Tick
  BY <1>1 DEF Tick, localVars
<1>3. ASSUME NEW e \in Envelopes, append_approved(e) PROVE BatchInv'
  BY <1>3 DEF append_approved, localVars
<1>4. ASSUME NEW x \in Executors, NEW r \in Requests, execute(x, r) PROVE BatchInv'
  BY <1>4, RequestFacts DEF execute, Goto, Return, Processes
<1>5. ASSUME NEW v \in Revokers, NEW e \in Envelopes, revoke_once(v, e) PROVE BatchInv'
  BY <1>5, ProcessAssumption, RevocationFacts DEF revoke_once, Goto, Processes
<1>6. ASSUME NEW x \in Executors, resolve_target(x) PROVE BatchInv'
  <2> x \in Processes BY DEF Processes
  <2>1. Len(frescos[x]) < Len(request[x].references) /\ desfechos[x] = <<>>
    BY <1>6, ResolveFacts
  <2>2. Len(frescos[x]) \in Nat /\ Len(request[x].references) \in Nat
    BY <1>6, ResolveFacts, RequestFacts DEF RequestInv
  <2>3. /\ request' = request /\ desfechos' = desfechos
        /\ \/ pc'[x] = "done"
           \/ /\ Len(frescos'[x]) = Len(frescos[x]) + 1
              /\ pc'[x] = IF Len(frescos[x]) + 1 = Len(request[x].references)
                          THEN "update" ELSE "resolve"
    BY <1>6, ResolveFacts
  <2>4. ASSUME NEW q \in Processes, q # x PROVE
            /\ pc'[q] = pc[q] /\ request'[q] = request[q]
            /\ frescos'[q] = frescos[q] /\ desfechos'[q] = desfechos[q]
    BY <1>6, ResolveFacts, <2>4
  <2> QED BY <2>1, <2>2, <2>3, <2>4
<1>7. ASSUME NEW p \in Processes, Transition(p) PROVE BatchInv'
  <2>1. /\ UNCHANGED <<request, frescos, desfechos>>
        /\ \A q \in Processes : q # p => pc'[q] = pc[q]
    BY <1>7 DEF Transition, Transicionar,
     EvaluateSet, NoRow, LockRow, Commit, CommitFails, diagnosticar, consultar_vencida,
       Goto, Return, localVars
  <2>2. /\ pc[p] \in {"update", "stamp", "lock", "commit", "diagnose", "expired"}
        /\ \/ pc'[p] \in {"stamp", "lock", "diagnose", "expired", "done"}
           \/ pc'[p] = "commit" /\ pc[p] = "lock"
           \/ pc'[p] = "effect" /\ pc[p] = "commit" /\ p \in Executors
    BY <1>7 DEF Transition, Transicionar,
     EvaluateSet, NoRow, LockRow, Commit, CommitFails, diagnosticar, consultar_vencida,
       Goto, Return
  <2>3. /\ pc'[p] = "stamp" => pc[p] = "update"
        /\ pc'[p] = "lock" => pc[p] = "stamp"
    BY <1>7 DEF Transition, Transicionar,
     EvaluateSet, NoRow, LockRow, Commit, CommitFails, diagnosticar, consultar_vencida,
       Goto, Return
  <2>4. Len(request[p].references) >= 1 \/ pc[p] \notin {"update", "stamp", "lock", "commit"}
    BY RequestFacts DEF RequestInv
  <2> QED BY <2>1, <2>2, <2>3, <2>4
<1>8. ASSUME NEW x \in Executors, PhaseC(x) PROVE BatchInv'
  BY <1>8 DEF PhaseC, EffectObserved, EffectNotStarted, EffectUnknown,
     registrar_recibo, ReceiptCommitFails, ReceiptFlushFails, AppendDesfecho,
     Goto, Return, Processes, localVars, Posicao
<1>9. ASSUME NEW p \in Processes, Crash(p) PROVE BatchInv'
  BY <1>9 DEF Crash, Return, localVars
<1>10. ASSUME NEW p \in Processes, NextCall(p) PROVE BatchInv'
  BY <1>10 DEF NextCall
<1> QED BY <1>0, <1>1, <1>3, <1>4, <1>5, <1>6, <1>7, <1>8, <1>9, <1>10 DEF Next

LEMMA NextLockInv == IInv /\ [Next]_vars => LockInv'
<1> SUFFICES ASSUME IInv, [Next]_vars PROVE LockInv'
  OBVIOUS
<1> USE DEF IInv, LockInv, TypeOK, Id
<1>0. CASE UNCHANGED vars
  BY <1>0 DEF vars
<1>1. CASE Tick
  BY <1>1 DEF Tick, localVars, rowVars
<1>3. ASSUME NEW e \in Envelopes, append_approved(e) PROVE LockInv'
  BY <1>3 DEF append_approved, localVars
<1>4. ASSUME NEW x \in Executors, NEW r \in Requests, execute(x, r) PROVE LockInv'
  BY <1>4 DEF execute, Goto, Return, Processes, rowVars
<1>5. ASSUME NEW v \in Revokers, NEW e \in Envelopes, revoke_once(v, e) PROVE LockInv'
  BY <1>5, RevocationFacts DEF revoke_once, Goto, Processes, rowVars
<1>6. ASSUME NEW x \in Executors, resolve_target(x) PROVE LockInv'
  <2>1. /\ UNCHANGED <<request, lock, state>>
        /\ \A q \in Processes : q # x => pc'[q] = pc[q]
    BY <1>6, ResolveFacts
  <2>2. pc[x] # "commit"
    BY <1>6, ResolveFacts
  <2>3. pc'[x] \in {"done", "update", "resolve"}
    BY <1>6, ResolveFacts
  <2> QED BY <2>1, <2>2, <2>3
<1>7. ASSUME NEW p \in Processes, Transition(p) PROVE LockInv'
  <2>1. request[p] \in Requests /\ Id(p) \in Approvals
    BY <1>7, RequestFacts DEF RequestInv, Transition, Transicionar,
     EvaluateSet, NoRow, LockRow, Commit, CommitFails, diagnosticar, consultar_vencida
  <2>a. \A q \in Processes : pc[q] = "commit" => request[q] \in Requests /\ Id(q) \in Approvals
    BY RequestFacts DEF RequestInv
  <2>2. CASE Transicionar(p) \/ EvaluateSet(p) \/ diagnosticar(p) \/ consultar_vencida(p)
    <3>1. UNCHANGED <<state, lock, request>>
      BY <2>2 DEF Transicionar, EvaluateSet, diagnosticar, consultar_vencida, rowVars, localVars
    <3>2. \A q \in Processes : pc'[q] = "commit" <=> pc[q] = "commit"
      BY <2>2 DEF Transicionar, EvaluateSet, NoRow, diagnosticar, consultar_vencida, Goto, Return
    <3> QED BY <3>1, <3>2
  <2>3. CASE LockRow(p)
    <3>1. UNCHANGED <<state, request>>
      BY <2>3 DEF LockRow, rowVars, localVars
    <3>2. CASE state[Id(p)] = "ACTIVE"
      <4>1. /\ lock' = [lock EXCEPT ![Id(p)] = p]
            /\ pc' = [pc EXCEPT ![p] = "commit"]
            /\ lock[Id(p)] = None
        BY <2>3, <3>2 DEF LockRow, Goto
      <4>2. \A q \in Processes : pc[q] = "commit" => Id(q) # Id(p)
        BY <4>1, ProcessAssumption
      <4> QED BY <2>1, <2>a, <3>1, <3>2, <4>1, <4>2
    <3>3. CASE state[Id(p)] # "ACTIVE"
      <4>1. /\ lock' = lock
            /\ \A q \in Processes : pc'[q] = "commit" <=> pc[q] = "commit"
        BY <2>3, <3>3 DEF LockRow, NoRow
      <4> QED BY <3>1, <4>1
    <3> QED BY <3>2, <3>3
  <2>4. CASE Commit(p) \/ CommitFails(p)
    <3>1. /\ request' = request
          /\ lock' = [lock EXCEPT ![Id(p)] = None]
          /\ pc[p] = "commit"
          /\ \A q \in Processes : pc'[q] = "commit" <=> pc[q] = "commit" /\ q # p
      BY <2>4 DEF Commit, CommitFails, Goto, Return, localVars
    <3>2. \A a \in Approvals : a # Id(p) => state'[a] = state[a]
      BY <2>1, <2>4 DEF Commit, CommitFails, WriteRow
    <3>3. lock[Id(p)] = p
      BY <3>1
    <3>4. \A q \in Processes : pc'[q] = "commit" => Id(q) \in Approvals /\ Id(q) # Id(p)
      BY <2>a, <3>1, <3>3
    <3> QED BY <2>1, <2>a, <3>1, <3>2, <3>3, <3>4, ProcessAssumption
  <2> QED BY <1>7, <2>2, <2>3, <2>4 DEF Transition
<1>8. ASSUME NEW x \in Executors, PhaseC(x) PROVE LockInv'
  <2>1. UNCHANGED <<rowVars, lock, request>> /\ InPhaseC(x)
    BY <1>8 DEF PhaseC, EffectObserved, EffectNotStarted, EffectUnknown, InPhaseC,
       registrar_recibo, ReceiptCommitFails, ReceiptFlushFails, localVars
  <2>2. /\ \A q \in Processes \ {x} : pc'[q] = pc[q]
        /\ pc'[x] # "commit"
    BY <1>8 DEF PhaseC, EffectObserved, EffectNotStarted, EffectUnknown,
       registrar_recibo, ReceiptCommitFails, ReceiptFlushFails, AppendDesfecho,
       Goto, Return, Processes
  <2>3. \A q \in Processes : Id(q)' = Id(q) /\ (pc'[q] = "commit" <=> pc[q] = "commit")
    BY <2>1, <2>2 DEF InPhaseC
  <2>4. lock' = lock /\ state' = state
    BY <2>1 DEF rowVars
  <2> HIDE DEF Id, TypeOK
  <2> QED BY <2>3, <2>4
<1>9. ASSUME NEW p \in Processes, Crash(p) PROVE LockInv'
  BY <1>9, ProcessAssumption, RequestFacts DEF Crash, Return, localVars, rowVars, RequestInv
<1>10. ASSUME NEW p \in Processes, NextCall(p) PROVE LockInv'
  BY <1>10 DEF NextCall, rowVars
<1> QED BY <1>0, <1>1, <1>3, <1>4, <1>5, <1>6, <1>7, <1>8, <1>9, <1>10 DEF Next

(* A step that keeps requests, decisions and effects, and lets nobody enter  *)
(* phase C, preserves the ownership of phase C and what is known of effects. *)
LEMMA QuietStep ==
    ASSUME IInv, UNCHANGED effects,
           \A a \in Approvals : state'[a] = "CONSUMED" <=> state[a] = "CONSUMED",
           \A p \in Processes : InPhaseC(p)' => /\ pc'[p] = pc[p]
                                               /\ request'[p] = request[p]
                                               /\ desfechos'[p] = desfechos[p]
    PROVE  OwnerInv' /\ EffectInv'
<1>1. \A p \in Processes : InPhaseC(p) => Id(p) \in Approvals
  BY RequestFacts DEF IInv, RequestInv, Id, InPhaseC
<1>2. OwnerInv'
  BY <1>1 DEF IInv, OwnerInv, InPhaseC, Id
<1>3. EffectInv'
  BY DEF IInv, EffectInv, AtMostOneEffect, InPhaseC, Id, Posicao
<1> QED BY <1>2, <1>3

LEMMA NextOwnerEffectInv == IInv /\ [Next]_vars => OwnerInv' /\ EffectInv'
<1> SUFFICES ASSUME IInv, [Next]_vars PROVE OwnerInv' /\ EffectInv'
  OBVIOUS
<1> USE DEF IInv, TypeOK
<1>0. CASE UNCHANGED vars
  BY <1>0, QuietStep DEF vars, InPhaseC
<1>1. CASE Tick
  BY <1>1, QuietStep DEF Tick, localVars, rowVars, outVars, InPhaseC
<1>3. ASSUME NEW e \in Envelopes, append_approved(e) PROVE OwnerInv' /\ EffectInv'
  <2>1. e.id \in Approvals
    BY DEF Approvals
  <2>2. \A a \in Approvals : state'[a] = "CONSUMED" <=> state[a] = "CONSUMED"
    BY <1>3, <2>1 DEF append_approved
  <2> QED BY <1>3, <2>2, QuietStep DEF append_approved, localVars, outVars, InPhaseC
<1>4. ASSUME NEW x \in Executors, NEW r \in Requests, execute(x, r) PROVE OwnerInv' /\ EffectInv'
  BY <1>4, QuietStep DEF execute, Goto, Return, Processes, rowVars, outVars, InPhaseC
<1>5. ASSUME NEW v \in Revokers, NEW e \in Envelopes, revoke_once(v, e)
      PROVE  OwnerInv' /\ EffectInv'
  BY <1>5, QuietStep DEF revoke_once, Goto, Processes, rowVars, outVars, InPhaseC
<1>6. ASSUME NEW x \in Executors, resolve_target(x) PROVE OwnerInv' /\ EffectInv'
  BY <1>6, QuietStep DEF resolve_target, Goto, Return, Processes, rowVars, outVars, InPhaseC
<1>7. ASSUME NEW p \in Processes, Transition(p) PROVE OwnerInv' /\ EffectInv'
  <2>1. request[p] \in Requests /\ Id(p) \in Approvals
    BY <1>7, RequestFacts DEF RequestInv, Id, Transition, Transicionar,
     EvaluateSet, NoRow, LockRow, Commit, CommitFails, diagnosticar, consultar_vencida
  <2>2. CASE \/ Transicionar(p) \/ EvaluateSet(p) \/ LockRow(p)
             \/ diagnosticar(p) \/ consultar_vencida(p)
    BY <2>2, QuietStep DEF Transicionar, EvaluateSet, NoRow, LockRow, diagnosticar,
       consultar_vencida, Goto, Return, rowVars, localVars, outVars, InPhaseC
  <2>3. CASE Commit(p) \/ CommitFails(p)
    <3>1. /\ pc[p] = "commit"
          /\ UNCHANGED <<request, desfechos, effects>>
          /\ \A q \in Processes : q # p => pc'[q] = pc[q]
          /\ pc'[p] # "receipt"
      BY <2>3 DEF Commit, CommitFails, Goto, Return, localVars, outVars
    <3>2. \A a \in Approvals : a # Id(p) => state'[a] = state[a]
      BY <2>1, <2>3 DEF Commit, CommitFails, WriteRow
    <3>3. state[Id(p)] = "ACTIVE"
      BY <3>1 DEF LockInv
    <3>4. pc'[p] = "effect" => state'[Id(p)] = "CONSUMED"
      BY <2>1, <2>3 DEF Commit, CommitFails, WriteRow, destino, Goto, Return
    <3>5. \A q \in Processes : InPhaseC(q) => Id(q) # Id(p)
      BY <3>3 DEF OwnerInv
    <3>6. \A i \in Positions : effects[Id(p)][i] = 0
      BY <2>1, <3>3 DEF EffectInv
    <3>7. \A q \in Processes : InPhaseC(q) => Id(q) \in Approvals
      BY RequestFacts DEF RequestInv, Id, InPhaseC
    <3>8. OwnerInv'
      <4>1. \A q \in Processes : InPhaseC(q)' => q = p \/ InPhaseC(q)
        BY <3>1 DEF InPhaseC
      <4>2. InPhaseC(p)' => state'[Id(p)] = "CONSUMED"
        BY <3>1, <3>4 DEF InPhaseC
      <4>3. \A q \in Processes : InPhaseC(q) => state'[Id(q)] = "CONSUMED"
        BY <3>2, <3>5, <3>7 DEF OwnerInv
      <4>4. ASSUME NEW x \in Processes, InPhaseC(x)'
            PROVE  state'[request'[x].envelope.id] = "CONSUMED"
        BY <3>1, <4>1, <4>2, <4>3, <4>4 DEF Id
      <4>5. ASSUME NEW x \in Processes, NEW y \in Processes, InPhaseC(x)', InPhaseC(y)',
                   request'[y].envelope.id = request'[x].envelope.id
            PROVE  y = x
        <5>1. Id(y) = Id(x)
          BY <3>1, <4>5 DEF Id
        <5>2. (x = p \/ InPhaseC(x)) /\ (y = p \/ InPhaseC(y))
          BY <4>1, <4>5
        <5> QED BY <3>5, <5>1, <5>2 DEF OwnerInv
      <4> QED BY <4>4, <4>5 DEF OwnerInv, Id
    <3>9. EffectInv'
      <4>1. \A a \in Approvals : state'[a] # "CONSUMED" => \A i \in Positions : effects'[a][i] = 0
        BY <3>1, <3>2, <3>6 DEF EffectInv
      <4>2. ASSUME NEW q \in Processes, NEW i \in Positions
            PROVE  /\ pc'[q] = "effect" /\ Posicao(q)' <= i => effects'[Id(q)'][i] = 0
                   /\ pc'[q] = "receipt" /\ Posicao(q)' < i => effects'[Id(q)'][i] = 0
        <5>1. CASE q = p
          BY <3>1, <3>6, <5>1 DEF Id
        <5>2. CASE q # p
          BY <3>1, <5>2 DEF Id, Posicao, EffectInv
        <5> QED BY <5>1, <5>2
      <4> QED BY <3>1, <4>1, <4>2 DEF EffectInv, AtMostOneEffect
    <3> QED BY <3>8, <3>9
  <2> QED BY <1>7, <2>2, <2>3 DEF Transition
<1>8. ASSUME NEW x \in Executors, PhaseC(x) PROVE OwnerInv' /\ EffectInv'
  <2> x \in Processes BY DEF Processes
  <2>1. InPhaseC(x)
    BY <1>8 DEF PhaseC, EffectObserved, EffectNotStarted, EffectUnknown,
     registrar_recibo, ReceiptCommitFails, ReceiptFlushFails, InPhaseC
  <2>2. request[x] \in Requests /\ Id(x) \in Approvals
    BY <2>1, RequestFacts DEF RequestInv, Id, InPhaseC
  <2>3. /\ UNCHANGED <<state, request>>
        /\ \A q \in Processes : q # x => pc'[q] = pc[q] /\ desfechos'[q] = desfechos[q]
    BY <1>8 DEF PhaseC, EffectObserved, EffectNotStarted, EffectUnknown,
     registrar_recibo, ReceiptCommitFails, ReceiptFlushFails,
       AppendDesfecho, Goto, Return, rowVars, localVars
  <2>4. OwnerInv'
    BY <2>1, <2>3 DEF OwnerInv, InPhaseC, Id
  <2>5. \A q \in Processes : q # x /\ InPhaseC(q) => Id(q) # Id(x)
    BY <2>1 DEF OwnerInv
  <2>6. state[Id(x)] = "CONSUMED"
    BY <2>1 DEF OwnerInv
  <2>7. CASE UNCHANGED effects
    <3>1. /\ pc'[x] = "receipt" => FALSE
          /\ pc'[x] = "effect" => Len(desfechos'[x]) = Len(desfechos[x]) + 1
      <4>1. ~ (effects' = [effects EXCEPT ![Id(x)][Posicao(x)] = @ + 1])
        <5>1. Posicao(x) \in Positions
          <6>1. /\ Len(desfechos[x]) < Len(request[x].references)
                /\ Len(desfechos[x]) \in Nat
            BY <2>1 DEF BatchInv
          <6>2. Len(request[x].references) \in Nat /\ Len(request[x].references) <= MaxLote
            BY <2>2, RequestFacts
          <6> QED BY <6>1, <6>2, BoundAssumption DEF Posicao, Positions
        <5> QED BY <2>2, <2>7, <5>1
      <4>2. ~ EffectObserved(x)
        BY <4>1 DEF EffectObserved, MaterialAttempt
      <4>3. \A d \in {"ATTEMPTED", "NOT_ATTEMPTED"} :
               AppendDesfecho(x, d) =>
                   /\ pc'[x] # "receipt"
                   /\ Len(desfechos'[x]) = Len(desfechos[x]) + 1
        BY DEF AppendDesfecho, Goto, Return
      <4> QED BY <1>8, <4>2, <4>3 DEF PhaseC, EffectObserved, EffectNotStarted, EffectUnknown,
     registrar_recibo, ReceiptCommitFails, ReceiptFlushFails, Return
    <3>2. EffectInv'
      <4>1. \A i \in Positions : pc[x] \in {"effect", "receipt"} /\ Posicao(x) < i =>
               effects[Id(x)][i] = 0
        <5>1. Posicao(x) \in Nat /\ Positions \subseteq Nat
          BY BoundAssumption DEF Posicao, Positions
        <5>2. \A i \in Positions : Posicao(x) < i => Posicao(x) <= i
          BY <5>1
        <5> QED BY <5>2 DEF EffectInv
      <4>2. ASSUME NEW q \in Processes, NEW i \in Positions
            PROVE  /\ pc'[q] = "effect" /\ Posicao(q)' <= i => effects'[Id(q)'][i] = 0
                   /\ pc'[q] = "receipt" /\ Posicao(q)' < i => effects'[Id(q)'][i] = 0
        <5>1. CASE q = x
          BY <2>1, <2>3, <2>7, <3>1, <4>1, <5>1 DEF Id, Posicao, InPhaseC, Positions
        <5>2. CASE q # x
          <6>1. pc'[q] = pc[q] /\ Id(q)' = Id(q) /\ Posicao(q)' = Posicao(q)
            BY <2>3, <5>2 DEF Id, Posicao
          <6>2. /\ pc[q] = "effect" /\ Posicao(q) <= i => effects[Id(q)][i] = 0
                /\ pc[q] = "receipt" /\ Posicao(q) < i => effects[Id(q)][i] = 0
            BY DEF EffectInv
          <6> QED BY <2>7, <6>1, <6>2
        <5> QED BY <5>1, <5>2
      <4> QED BY <2>3, <2>7, <4>2 DEF EffectInv, AtMostOneEffect
    <3> QED BY <2>4, <3>2
  <2>8. CASE ~ UNCHANGED effects
    <3>1. pc[x] = "effect" /\ MaterialAttempt(x) /\ UNCHANGED desfechos /\ pc'[x] \in {"receipt", "done"}
      BY <1>8, <2>8 DEF PhaseC, EffectObserved, EffectNotStarted, EffectUnknown,
     registrar_recibo, ReceiptCommitFails, ReceiptFlushFails,
         Goto, Return, localVars, outVars
    <3>2. Posicao(x) \in Nat /\ Positions \subseteq Nat
      BY BoundAssumption DEF Posicao, Positions
    <3>3. effects[Id(x)][Posicao(x)] = 0 \/ Posicao(x) \notin Positions
      BY <3>1, <3>2 DEF EffectInv
    <3>4. \A a \in Approvals, i \in Positions :
              effects'[a][i] = IF a = Id(x) /\ i = Posicao(x) THEN effects[a][i] + 1
                                                            ELSE effects[a][i]
      BY <2>2, <3>1 DEF MaterialAttempt
    <3>5. AtMostOneEffect'
      <4>1. ASSUME NEW a \in Approvals, NEW i \in Positions PROVE effects'[a][i] <= 1
        <5>1. CASE a = Id(x) /\ i = Posicao(x)
          BY <3>3, <3>4, <5>1
        <5>2. CASE ~ (a = Id(x) /\ i = Posicao(x))
          BY <3>4, <5>2 DEF EffectInv, AtMostOneEffect
        <5> QED BY <5>1, <5>2
      <4> QED BY <4>1 DEF AtMostOneEffect
    <3>6. \A a \in Approvals : state'[a] # "CONSUMED" => \A i \in Positions : effects'[a][i] = 0
      <4>1. ASSUME NEW a \in Approvals, state'[a] # "CONSUMED", NEW i \in Positions
            PROVE  effects'[a][i] = 0
        <5>1. state[a] # "CONSUMED" /\ a # Id(x)
          BY <2>3, <2>6, <4>1
        <5>2. effects'[a][i] = effects[a][i]
          BY <3>4, <5>1
        <5>3. effects[a][i] = 0
          BY <5>1 DEF EffectInv
        <5> QED BY <5>2, <5>3
      <4> QED BY <4>1
    <3>7. ASSUME NEW q \in Processes, NEW i \in Positions
          PROVE  /\ pc'[q] = "effect" /\ Posicao(q)' <= i => effects'[Id(q)'][i] = 0
                 /\ pc'[q] = "receipt" /\ Posicao(q)' < i => effects'[Id(q)'][i] = 0
      <4>1. CASE q = x
        <5>1. Id(x)' = Id(x) /\ Posicao(x)' = Posicao(x) /\ pc'[x] # "effect"
          BY <2>3, <3>1 DEF Id, Posicao
        <5>2. Posicao(x) < i => effects[Id(x)][i] = 0 /\ i # Posicao(x)
          <6>1. Posicao(x) < i => Posicao(x) <= i /\ i # Posicao(x)
            BY <3>2
          <6> QED BY <3>1, <6>1 DEF EffectInv
        <5> QED BY <2>2, <3>4, <4>1, <5>1, <5>2
      <4>2. CASE q # x
        <5>1. InPhaseC(q) => Id(q) \in Approvals
          BY RequestFacts DEF RequestInv, Id, InPhaseC
        <5>2. pc'[q] = pc[q] /\ Id(q)' = Id(q) /\ Posicao(q)' = Posicao(q)
          BY <2>3, <4>2 DEF Id, Posicao
        <5>3. InPhaseC(q) => effects'[Id(q)][i] = effects[Id(q)][i]
          BY <2>5, <3>4, <4>2, <5>1
        <5> QED BY <5>2, <5>3 DEF EffectInv, InPhaseC
      <4> QED BY <4>1, <4>2
    <3> QED BY <2>4, <3>5, <3>6, <3>7 DEF EffectInv
  <2> QED BY <2>7, <2>8
<1>9. ASSUME NEW p \in Processes, Crash(p) PROVE OwnerInv' /\ EffectInv'
  BY <1>9, QuietStep DEF Crash, Return, localVars, rowVars, outVars, InPhaseC
<1>10. ASSUME NEW p \in Processes, NextCall(p) PROVE OwnerInv' /\ EffectInv'
  BY <1>10, QuietStep DEF NextCall, rowVars, outVars, InPhaseC
<1> QED BY <1>0, <1>1, <1>3, <1>4, <1>5, <1>6, <1>7, <1>8, <1>9, <1>10 DEF Next

LEMMA Inductive == Spec => []IInv
<1>1. IInv /\ [Next]_vars => IInv'
  BY NextTypeOK, NextRequestInv, NextBatchInv, NextLockInv, NextOwnerEffectInv DEF IInv
<1> QED BY <1>1, InitIInv, PTL DEF Spec

-----------------------------------------------------------------------------
(* Rows, control state and counters keep their types: in particular          *)
(* consumed_at is set exactly on CONSUMED rows.                              *)
THEOREM TypeCorrect == Spec => []TypeOK
BY Inductive, PTL DEF IInv

(* However many executors race, crash and retry with one approval, no target *)
(* of its batch is attempted twice.                                          *)
THEOREM SingleEffect == Spec => []AtMostOneEffect
BY Inductive, PTL DEF IInv, EffectInv

(* No target is attempted unless the consumption of its approval is durable. *)
THEOREM ConsumedFirst == Spec => []ConsumptionBeforeEffect
<1>1. IInv => ConsumptionBeforeEffect
  BY DEF IInv, EffectInv, ConsumptionBeforeEffect, TypeOK
<1> QED BY <1>1, Inductive, PTL

(* The winner of a dispute between consumptions and revocations stays.       *)
THEOREM FinalDecision == Spec => DecisionIsFinal
<1>1. ASSUME IInv, [Next]_vars, NEW a \in Approvals, state[a] \in {"CONSUMED", "REVOKED"}
      PROVE  state'[a] = state[a] /\ consumed_at'[a] = consumed_at[a]
  <2>1. ASSUME NEW e \in Envelopes, append_approved(e)
        PROVE  state'[a] = state[a] /\ consumed_at'[a] = consumed_at[a]
    BY <1>1, <2>1 DEF append_approved, IInv, TypeOK
  <2>2. ASSUME NEW p \in Processes, Commit(p) \/ CommitFails(p)
        PROVE  state'[a] = state[a] /\ consumed_at'[a] = consumed_at[a]
    <3>1. state[Id(p)] = "ACTIVE"
      BY <1>1, <2>2 DEF Commit, CommitFails, IInv, LockInv
    <3> QED BY <1>1, <2>2, <3>1 DEF Commit, CommitFails, WriteRow, IInv, TypeOK
  <2>3. CASE UNCHANGED rowVars
    BY <2>3 DEF rowVars
  <2>4. \/ UNCHANGED rowVars
        \/ \E e \in Envelopes : append_approved(e)
        \/ \E p \in Processes : Commit(p) \/ CommitFails(p)
    BY <1>1 DEF Next, vars, rowVars, Tick, execute, revoke_once, resolve_target,
       Transition, Transicionar,
   EvaluateSet, NoRow, LockRow, diagnosticar, consultar_vencida, PhaseC, EffectObserved, EffectNotStarted,
       EffectUnknown, registrar_recibo, ReceiptCommitFails, ReceiptFlushFails, Crash, NextCall
  <2> QED BY <2>1, <2>2, <2>3, <2>4
<1>2. IInv /\ [Next]_vars => KeepsDecisions
  BY <1>1 DEF KeepsDecisions
<1> QED BY <1>2, Inductive, PTL DEF Spec, DecisionIsFinal

-----------------------------------------------------------------------------
(* Only three kinds of steps are visible to the abstract grant. *)
LEMMA VisibleSteps ==
    ASSUME Next
    PROVE  \/ UNCHANGED <<state, effects>>
           \/ \E e \in Envelopes : append_approved(e)
           \/ \E p \in Processes : Commit(p) \/ CommitFails(p)
           \/ \E x \in Executors : PhaseC(x) /\ pc[x] = "effect" /\ MaterialAttempt(x)
                                  /\ UNCHANGED state
BY DEF Next, rowVars, outVars, Tick, execute, revoke_once, resolve_target,
   Transition, Transicionar,
   EvaluateSet, NoRow, LockRow, diagnosticar, consultar_vencida, Crash, NextCall,
   PhaseC, EffectObserved, EffectNotStarted, EffectUnknown,
       registrar_recibo, ReceiptCommitFails, ReceiptFlushFails

(* The pipeline implements the single-use grant. *)
THEOREM SingleUse == Spec => ImplementsSingleUse
<1>1. Init => Grant!Init
  BY DEF Init, Grant!Init, GrantStatus
<1>2. IInv /\ [Next]_vars => [Grant!Next]_(Grant!vars)
  <2> SUFFICES ASSUME IInv, [Next]_vars PROVE [Grant!Next]_(Grant!vars)
    OBVIOUS
  <2>1. CASE UNCHANGED <<state, effects>>
    BY <2>1 DEF Grant!vars
  <2>2. ASSUME NEW e \in Envelopes, append_approved(e) PROVE Grant!Next
    <3>1. e.id \in Approvals
      BY DEF Approvals
    <3>2. Grant!Offer(e.id)
      <4>1. /\ state[e.id] = "ABSENT" /\ state' = [state EXCEPT ![e.id] = "ACTIVE"]
            /\ UNCHANGED effects
        BY <2>2 DEF append_approved, outVars
      <4> QED BY <3>1, <4>1 DEF Grant!Offer, Grant!Decide, GrantStatus, IInv, TypeOK
    <3> QED BY <3>1, <3>2 DEF Grant!Next
  <2>3. ASSUME NEW p \in Processes, Commit(p) \/ CommitFails(p), ~ UNCHANGED <<state, effects>>
        PROVE  Grant!Next
    <3>1. pc[p] = "commit" /\ WriteRow(p) /\ UNCHANGED effects
      BY <2>3 DEF Commit, CommitFails, outVars
    <3>2. Id(p) \in Approvals /\ state[Id(p)] = "ACTIVE"
      BY <3>1, RequestFacts DEF IInv, RequestInv, LockInv, Id
    <3>3. CASE p \in Executors
      <4>1. state' = [state EXCEPT ![Id(p)] = "CONSUMED"]
        BY <3>1, <3>3 DEF WriteRow, destino
      <4>2. Grant!Spend(Id(p))
        BY <3>1, <3>2, <4>1 DEF Grant!Spend, Grant!Decide, GrantStatus, IInv, TypeOK
      <4> QED BY <3>2, <4>2 DEF Grant!Next
    <3>4. CASE p \notin Executors
      <4>1. state' = [state EXCEPT ![Id(p)] = "REVOKED"]
        BY <3>1, <3>4 DEF WriteRow, destino
      <4>2. Grant!Withdraw(Id(p))
        BY <3>1, <3>2, <4>1 DEF Grant!Withdraw, Grant!Decide, GrantStatus, IInv, TypeOK
      <4> QED BY <3>2, <4>2 DEF Grant!Next
    <3> QED BY <3>3, <3>4
  <2>4. ASSUME NEW x \in Executors, pc[x] = "effect", MaterialAttempt(x), UNCHANGED state
        PROVE  Grant!Next
    <3> x \in Processes BY DEF Processes
    <3>1. Id(x) \in Approvals /\ state[Id(x)] = "CONSUMED"
      BY <2>4, RequestFacts DEF IInv, RequestInv, OwnerInv, InPhaseC, Id
    <3>2. Posicao(x) \in Positions
      <4>1. /\ Len(desfechos[x]) < Len(request[x].references)
            /\ Len(desfechos[x]) \in Nat
        BY <2>4 DEF IInv, BatchInv, TypeOK, InPhaseC
      <4>2. Len(request[x].references) \in Nat /\ Len(request[x].references) <= MaxLote
        BY <2>4, RequestFacts DEF IInv, RequestInv
      <4> QED BY <4>1, <4>2, BoundAssumption DEF Posicao, Positions
    <3>3. effects[Id(x)][Posicao(x)] = 0
      <4>1. Posicao(x) <= Posicao(x)
        BY <3>2, BoundAssumption DEF Positions
      <4> QED BY <2>4, <3>2, <4>1 DEF IInv, EffectInv
    <3>4. effects' = [effects EXCEPT ![Id(x)][Posicao(x)] = 1]
      BY <2>4, <3>1, <3>2, <3>3 DEF MaterialAttempt, IInv, TypeOK
    <3>5. Grant!Attempt(Id(x), Posicao(x))
      BY <2>4, <3>1, <3>3, <3>4 DEF Grant!Attempt, GrantStatus
    <3> QED BY <3>1, <3>2, <3>5 DEF Grant!Next
  <2>5. CASE UNCHANGED vars
    BY <2>1, <2>5 DEF vars
  <2> QED BY <2>1, <2>2, <2>3, <2>4, <2>5, VisibleSteps
<1> QED BY <1>1, <1>2, Inductive, PTL DEF Spec, ImplementsSingleUse, Grant!Spec

-----------------------------------------------------------------------------
(* What a decision rests on. *)

LEMMA ValidBatch ==
    ASSUME NEW r \in Requests, ValidarLote(r) = "OK"
    PROVE  Len(r.references) = Len(r.envelope.targets)
BY DEF ValidarLote

LEMMA InitAuthInv == Init => AuthInv
BY DEF Init, AuthInv, Processes

(* A step that leaves rows, requests and descriptors alone, lets no call     *)
(* reach the UPDATE from nowhere and keeps the instants of those in it.      *)
LEMMA AuthFrame ==
    ASSUME IInv, AuthInv, UNCHANGED <<rowVars, clock, request, frescos>>,
           \A p \in Processes :
               \/ pc'[p] = pc[p] /\ agora'[p] = agora[p] /\ carimbo'[p] = carimbo[p]
               \/ pc'[p] \in {"idle", "done", "diagnose", "expired"}
               \/ pc[p] = "lock" /\ pc'[p] = "commit" /\ agora'[p] = agora[p]
                                                    /\ carimbo'[p] = carimbo[p]
               \/ /\ pc[p] \in {"effect", "receipt"} /\ pc'[p] \in {"effect", "receipt"}
                  /\ agora'[p] = agora[p]
    PROVE  AuthInv'
BY DEF AuthInv, Id, rowVars, Processes

LEMMA NextAuthInv == IInv /\ AuthInv /\ [Next]_vars => AuthInv'
<1> SUFFICES ASSUME IInv, AuthInv, [Next]_vars PROVE AuthInv'
  OBVIOUS
<1>0. ASSUME UNCHANGED vars PROVE AuthInv'
  BY <1>0, AuthFrame DEF vars, rowVars
<1>1. ASSUME Tick PROVE AuthInv'
  <2>1. \A x \in Executors : agora[x] \in Int /\ clock \in Int /\ clock' = clock + 1
    BY <1>1, BoundAssumption DEF Tick, IInv, TypeOK, Processes
  <2>2. \A x \in Executors : agora[x] <= clock => agora[x] <= clock'
    BY <2>1
  <2> QED BY <1>1, <2>2 DEF Tick, AuthInv, Id, rowVars, localVars
<1>3. ASSUME NEW e \in Envelopes, append_approved(e) PROVE AuthInv'
  <2>1. /\ e.id \in Approvals /\ state[e.id] = "ABSENT"
        /\ \A a \in Approvals \ {e.id} : state'[a] = state[a] /\ envelope'[a] = envelope[a]
        /\ state'[e.id] = "ACTIVE"
        /\ UNCHANGED <<consumed_at, clock, pc, request, frescos, agora, carimbo>>
    BY <1>3 DEF append_approved, localVars, IInv, TypeOK, Approvals
  <2>2. \A p \in Processes : pc[p] # "idle" => Id(p) \in Approvals
    BY RequestFacts DEF IInv, RequestInv, Id
  <2> QED BY <2>1, <2>2 DEF AuthInv, Id, Processes
<1>4. ASSUME NEW x \in Executors, NEW r \in Requests, execute(x, r) PROVE AuthInv'
  <2>1. /\ request' = [request EXCEPT ![x] = r]
        /\ \A p \in Processes \ {x} : /\ pc'[p] = pc[p] /\ agora'[p] = agora[p]
                                       /\ carimbo'[p] = carimbo[p]
        /\ pc'[x] = "done" \/ (pc'[x] = "resolve" /\ ValidarLote(r) = "OK")
        /\ UNCHANGED <<rowVars, clock, frescos>>
    BY <1>4 DEF execute, Goto, Return, IInv, TypeOK, Processes
  <2>2. frescos[x] = <<>>
    BY <1>4 DEF execute, IInv, BatchInv, Processes
  <2>3. request'[x] = r /\ \A p \in Processes \ {x} : request'[p] = request[p]
    BY <2>1 DEF IInv, TypeOK, Processes
  <2>4. pc'[x] = "resolve" => Len(r.references) = Len(r.envelope.targets)
    BY <2>1, ValidBatch
  <2> QED BY <2>1, <2>2, <2>3, <2>4 DEF AuthInv, Id, rowVars, Processes
<1>5. ASSUME NEW v \in Revokers, NEW e \in Envelopes, revoke_once(v, e) PROVE AuthInv'
  <2>1. /\ \A p \in Processes \ {v} : pc'[p] = pc[p] /\ request'[p] = request[p]
        /\ pc'[v] = "update" /\ v \notin Executors
        /\ UNCHANGED <<rowVars, clock, frescos, agora, carimbo>>
    BY <1>5, ProcessAssumption DEF revoke_once, Goto, IInv, TypeOK, Processes
  <2> QED BY <2>1 DEF AuthInv, Id, rowVars, Processes
<1>6. ASSUME NEW x \in Executors, resolve_target(x) PROVE AuthInv'
  <2>1. PICK fresco \in Snapshots \cup {Refused} :
            \/ UNCHANGED frescos /\ \E res : Return(x, res)
            \/ /\ fresco = request[x].envelope.targets[Len(frescos[x]) + 1]
               /\ frescos' = [frescos EXCEPT ![x] = Append(@, fresco)]
               /\ Goto(x, "update") \/ Goto(x, "resolve")
    BY <1>6 DEF resolve_target
  <2>2. pc[x] = "resolve" /\ UNCHANGED <<rowVars, clock, request>>
    BY <1>6 DEF resolve_target
  <2>3. CASE UNCHANGED frescos /\ \E res : Return(x, res)
    BY <2>2, <2>3, AuthFrame DEF Return, IInv, TypeOK, Processes
  <2>4. CASE ~ (UNCHANGED frescos /\ \E res : Return(x, res))
    <3>1. /\ fresco = request[x].envelope.targets[Len(frescos[x]) + 1]
          /\ frescos' = [frescos EXCEPT ![x] = Append(@, fresco)]
          /\ pc'[x] \in {"update", "resolve"}
          /\ \A p \in Processes \ {x} : pc'[p] = pc[p]
          /\ UNCHANGED <<agora, carimbo>>
      BY <2>1, <2>4 DEF Goto, IInv, TypeOK, Processes
    <3>2. x \in Processes /\ frescos[x] \in Seq(Snapshots)
      BY DEF IInv, TypeOK, Processes
    <3>3. frescos'[x] = Append(frescos[x], fresco) /\ \A p \in Processes \ {x} : frescos'[p] = frescos[p]
      BY <3>1, <3>2 DEF IInv, TypeOK
    <3>4. \A i \in 1 .. Len(frescos'[x]) : frescos'[x][i] = request[x].envelope.targets[i]
      BY <2>2, <3>1, <3>2, <3>3 DEF AuthInv
    <3> QED BY <2>2, <3>1, <3>3, <3>4 DEF AuthInv, Id, rowVars, Processes
  <2> QED BY <2>3, <2>4
<1>7. ASSUME NEW p \in Processes, Transition(p) PROVE AuthInv'
  <2>1. CASE Transicionar(p)
    <3>1. UNCHANGED <<rowVars, clock, request, frescos>> /\ pc[p] = "update"
      BY <2>1 DEF Transicionar, localVars
    <3>2. CASE NoRow(p)
      BY <3>1, <3>2, AuthFrame DEF NoRow, IInv, TypeOK
    <3>3. CASE ~ NoRow(p)
      <4>1. /\ \A q \in Processes \ {p} : pc'[q] = pc[q] /\ agora'[q] = agora[q]
            /\ carimbo' = carimbo
            /\ pc'[p] = "stamp" /\ Condicoes(p)
            /\ p \in Executors => agora'[p] = clock
        BY <2>1, <3>3 DEF Transicionar, IInv, TypeOK
      <4>2. clock \in Int
        BY BoundAssumption DEF IInv, TypeOK
      <4>3. /\ p \in Executors => agora'[p] < request[p].envelope.expires_at /\ agora'[p] <= clock
            /\ envelope[Id(p)] = request[p].envelope /\ state[Id(p)] # "ABSENT"
        <5>1. p \in Executors => clock < request[p].envelope.expires_at
          <6>1. request[p] \in Requests
            BY <3>1 DEF IInv, RequestInv
          <6>2. request[p].envelope.expires_at \in Nat
            BY <6>1, RequestAssumption
          <6> QED BY <4>1, <4>2, <6>2 DEF Condicoes
        <5> QED BY <4>1, <4>2, <5>1 DEF Condicoes
      <4> QED BY <3>1, <4>1, <4>3 DEF AuthInv, Id, rowVars, Processes
    <3> QED BY <3>2, <3>3
  <2>2. CASE EvaluateSet(p)
    <3>1. /\ UNCHANGED <<rowVars, clock, request, frescos, agora>> /\ pc[p] = "stamp"
          /\ \A q \in Processes \ {p} : pc'[q] = pc[q] /\ carimbo'[q] = carimbo[q]
          /\ pc'[p] = "lock"
          /\ p \in Executors => carimbo'[p] = clock
      BY <2>2 DEF EvaluateSet, localVars, IInv, TypeOK
    <3> QED BY <3>1 DEF AuthInv, Id, rowVars, Processes
  <2>3. CASE LockRow(p)
    <3>1. UNCHANGED <<rowVars, clock, request, frescos>> /\ pc[p] = "lock"
      BY <2>3 DEF LockRow, localVars
    <3>2. NoRow(p) \/ Goto(p, "commit")
      BY <2>3 DEF LockRow
    <3> QED BY <3>1, <3>2, AuthFrame DEF NoRow, Goto, IInv, TypeOK
  <2>4. CASE diagnosticar(p) \/ consultar_vencida(p)
    <3>1. UNCHANGED <<rowVars, clock, request, frescos>>
      BY <2>4 DEF diagnosticar, consultar_vencida, localVars
    <3>2. Goto(p, "expired") \/ \E res : Return(p, res)
      BY <2>4 DEF diagnosticar, consultar_vencida
    <3> QED BY <3>1, <3>2, AuthFrame DEF Return, Goto, IInv, TypeOK
  <2>5. CASE Commit(p) \/ CommitFails(p)
    <3>1. /\ \A q \in Processes \ {p} : /\ pc'[q] = pc[q] /\ agora'[q] = agora[q]
                                         /\ carimbo'[q] = carimbo[q]
          /\ UNCHANGED <<envelope, clock, request, frescos>>
          /\ pc[p] = "commit"
          /\ WriteRow(p) \/ UNCHANGED <<state, consumed_at>>
          /\ \/ pc'[p] = "done"
             \/ pc'[p] = "effect" /\ WriteRow(p) /\ p \in Executors /\ agora'[p] = agora[p]
      BY <2>5 DEF Commit, CommitFails, Goto, Return, localVars, IInv, TypeOK
    <3>2. CASE UNCHANGED <<state, consumed_at>> /\ pc'[p] = "done"
      BY <3>1, <3>2, AuthFrame DEF rowVars
    <3>3. CASE WriteRow(p)
      <4>1. Id(p) \in Approvals /\ state[Id(p)] = "ACTIVE"
        BY <3>1, RequestFacts DEF IInv, RequestInv, LockInv, Id
      <4>2. /\ \A a \in Approvals : a # Id(p) => state'[a] = state[a] /\ consumed_at'[a] = consumed_at[a]
            /\ state'[Id(p)] = destino(p)
            /\ p \in Executors => consumed_at'[Id(p)] = carimbo[p]
        BY <3>3, <4>1 DEF WriteRow, IInv, TypeOK
      <4>3. \A q \in Processes : pc[q] # "idle" => Id(q) \in Approvals
        BY RequestFacts DEF IInv, RequestInv, Id
      <4>4. \A q \in Processes : Id(q)' = Id(q)
        BY <3>1 DEF Id
      <4>5. destino(p) # "ABSENT" /\ (p \in Executors => destino(p) = "CONSUMED")
        BY DEF destino
      <4>6. ASSUME NEW x \in Executors, pc'[x] \in {"effect", "receipt"}
            PROVE  state'[Id(x)] = "CONSUMED" /\ agora'[x] <= consumed_at'[Id(x)]
        <5>1. CASE x = p
          BY <3>1, <4>2, <4>5, <4>6, <5>1 DEF AuthInv
        <5>2. CASE x # p
          <6>1. x \in Processes /\ pc[x] = pc'[x] /\ agora'[x] = agora[x]
            BY <3>1, <5>2 DEF Processes
          <6>2. state[Id(x)] = "CONSUMED" /\ agora[x] <= consumed_at[Id(x)]
            BY <4>6, <6>1 DEF AuthInv
          <6>3. Id(x) # Id(p) /\ Id(x) \in Approvals
            BY <4>1, <4>3, <4>6, <6>1, <6>2
          <6> QED BY <4>2, <6>1, <6>2, <6>3
        <5> QED BY <5>1, <5>2
      <4>7. ASSUME NEW q \in Processes,
                   pc'[q] \in {"stamp", "lock", "commit", "effect", "receipt"}
            PROVE  envelope'[Id(q)] = request'[q].envelope /\ state'[Id(q)] # "ABSENT"
        <5>1. pc[q] \in {"stamp", "lock", "commit", "effect", "receipt"}
          BY <3>1, <4>7
        <5> QED BY <3>1, <4>2, <4>3, <4>5, <5>1 DEF AuthInv
      <4> HIDE DEF Id
      <4> QED BY <3>1, <4>4, <4>6, <4>7 DEF AuthInv, Processes
    <3> QED BY <3>1, <3>2, <3>3
  <2> QED BY <1>7, <2>1, <2>2, <2>3, <2>4, <2>5 DEF Transition
<1>8. ASSUME NEW x \in Executors, PhaseC(x) PROVE AuthInv'
  <2>1. /\ UNCHANGED <<rowVars, clock, request, frescos>>
        /\ \A q \in Processes \ {x} : /\ pc'[q] = pc[q] /\ agora'[q] = agora[q]
                                       /\ carimbo'[q] = carimbo[q]
        /\ pc[x] \in {"effect", "receipt"}
        /\ \/ pc'[x] \in {"effect", "receipt"} /\ agora'[x] = agora[x]
           \/ pc'[x] = "done"
    BY <1>8 DEF PhaseC, EffectObserved, EffectNotStarted, EffectUnknown, registrar_recibo,
       ReceiptCommitFails, ReceiptFlushFails, AppendDesfecho, Goto, Return, localVars,
       IInv, TypeOK, Processes
  <2> QED BY <2>1, AuthFrame
<1>9. ASSUME NEW p \in Processes, Crash(p) PROVE AuthInv'
  BY <1>9, AuthFrame DEF Crash, Return, localVars, IInv, TypeOK
<1>10. ASSUME NEW p \in Processes, NextCall(p) PROVE AuthInv'
  <2>1. /\ \A q \in Processes \ {p} : pc'[q] = pc[q] /\ request'[q] = request[q] /\ frescos'[q] = frescos[q]
        /\ pc'[p] = "idle"
        /\ UNCHANGED <<rowVars, clock, agora, carimbo>>
    BY <1>10 DEF NextCall, IInv, TypeOK
  <2> QED BY <2>1 DEF AuthInv, Id, rowVars, Processes
<1> QED BY <1>0, <1>1, <1>3, <1>4, <1>5, <1>6, <1>7, <1>8, <1>9, <1>10 DEF Next

LEMMA Authorised == Spec => [](IInv /\ AuthInv)
<1>1. Spec => []AuthInv
  BY InitAuthInv, NextAuthInv, Inductive, PTL DEF Spec
<1> QED BY <1>1, Inductive, PTL

(* A call acts only on a consumption whose comparison found the approval of  *)
(* the row unexpired, however long its UPDATE waited since; consumed_at is   *)
(* a later reading, and may lie past the expiry.                             *)
THEOREM ExpiryHeld == Spec => []ComparedBeforeExpiry
<1>1. IInv /\ AuthInv => ComparedBeforeExpiry
  BY DEF AuthInv, ComparedBeforeExpiry, InPhaseC, Processes
<1> QED BY <1>1, Authorised, PTL

(* What phase C hands to the effect port are the targets of the persisted    *)
(* approval, in its order.                                                   *)
THEOREM ApprovedTargetsOnly == Spec => []EffectsOnApprovedTargets
<1>1. ASSUME IInv, AuthInv, NEW x \in Executors, InPhaseC(x)
      PROVE  frescos[x] = envelope[Id(x)].targets
  <2>1. x \in Processes /\ request[x] \in Requests
    BY <1>1 DEF IInv, RequestInv, InPhaseC, Processes
  <2>2. request[x].envelope.targets \in Seq(Snapshots) /\ frescos[x] \in Seq(Snapshots)
    <3>1. request[x].envelope.targets \in Seq(Snapshots)
      BY <2>1, RequestAssumption
    <3>2. frescos[x] \in Seq(Snapshots)
      BY <1>1, <2>1 DEF IInv, TypeOK
    <3> QED BY <3>1, <3>2
  <2>3. /\ Len(frescos[x]) = Len(request[x].envelope.targets)
        /\ \A i \in 1 .. Len(frescos[x]) : frescos[x][i] = request[x].envelope.targets[i]
        /\ envelope[Id(x)] = request[x].envelope
    BY <1>1, <2>1 DEF AuthInv, IInv, BatchInv, InPhaseC
  <2> QED BY <2>2, <2>3
<1>2. IInv /\ AuthInv => EffectsOnApprovedTargets
  BY <1>1 DEF EffectsOnApprovedTargets
<1> QED BY <1>2, Authorised, PTL

(* Every effect has the authority of a row: its targets, compared in time.   *)
THEOREM AuthorityHeld == Spec => []EffectsAuthorised
BY ExpiryHeld, ApprovedTargetsOnly, PTL DEF EffectsAuthorised

(* Whoever waits for a row lock waits for a call that is about to commit.    *)
THEOREM LocksHeldByRunners == Spec => []LockHoldersCommit
<1>1. IInv => LockHoldersCommit
  BY DEF IInv, TypeOK, LockInv, LockHoldersCommit
<1> QED BY <1>1, Inductive, PTL

-----------------------------------------------------------------------------
(* Effects and receipts along a batch. *)

LEMMA InitAccountInv == Init => AccountInv
BY BoundAssumption DEF Init, AccountInv, EffectsAccounted, StopAtFirstImpediment,
   OutcomesAreReceipts, Spent, InPhaseC, Processes

LEMMA AccountFrame ==
    ASSUME IInv, AccountInv, UNCHANGED <<outVars, request, desfechos>>,
           \A a \in Approvals : state[a] = "CONSUMED" => state'[a] = "CONSUMED",
           \A x \in Executors : pc'[x] = pc[x] \/ ~ InPhaseC(x)'
    PROVE  AccountInv'
<1>1. \A x \in Executors : Spent(x)' => Spent(x) /\ Id(x)' = Id(x)
  BY DEF Spent, InPhaseC, Id
<1>2. \A x \in Executors : InPhaseC(x)' => InPhaseC(x) /\ Posicao(x)' = Posicao(x)
  BY DEF InPhaseC, Posicao
<1>3. \A x \in Executors : Spent(x) => Id(x) \in Approvals
  BY RequestFacts DEF Spent, Id, IInv, RequestInv, BatchInv, InPhaseC, Processes
<1>4. EffectsAccounted'
  BY DEF AccountInv, EffectsAccounted, StopAtFirstImpediment, OutcomesAreReceipts, Id, outVars
<1> QED BY <1>1, <1>2, <1>3, <1>4 DEF AccountInv, Id, outVars, InPhaseC

(* What holds of the call x in phase C: its position, and that no other call *)
(* spent its approval.                                                       *)
LEMMA PhaseCFacts ==
    ASSUME IInv, AccountInv, NEW x \in Executors, InPhaseC(x)
    PROVE  /\ x \in Processes /\ Id(x) \in Approvals
           /\ Posicao(x) \in Positions /\ Posicao(x) \in Nat
           /\ desfechos[x] \in Seq({"ATTEMPTED", "NOT_ATTEMPTED"})
           /\ Len(desfechos[x]) \in Nat
           /\ effects \in [Approvals -> [Positions -> Nat]]
           /\ recibos \in [Approvals -> [Positions -> Nat]]
           /\ \A z \in Executors \ {x} : Spent(z) => Id(z) # Id(x)
<1>1. x \in Processes /\ request[x] \in Requests
  BY DEF InPhaseC, IInv, RequestInv, Processes
<1>2. desfechos[x] \in Seq({"ATTEMPTED", "NOT_ATTEMPTED"})
  BY <1>1 DEF IInv, TypeOK
<1>3. Len(desfechos[x]) \in Nat /\ Len(desfechos[x]) + 1 <= Len(request[x].references)
  <2>1. frescos[x] \in Seq(Snapshots)
    BY <1>1 DEF IInv, TypeOK
  <2>2. Len(frescos[x]) = Len(request[x].references) /\ Len(desfechos[x]) < Len(frescos[x])
    BY <1>1 DEF IInv, BatchInv
  <2> QED BY <1>2, <2>1, <2>2
<1>4. Posicao(x) \in Positions
  BY <1>1, <1>3, RequestFacts, BoundAssumption DEF Posicao, Positions
<1>5. Id(x) \in Approvals
  BY <1>1, RequestFacts DEF Id
<1>6. \A z \in Executors \ {x} : Spent(z) => Id(z) # Id(x)
  BY DEF AccountInv
<1> QED BY <1>1, <1>2, <1>3, <1>4, <1>5, <1>6 DEF IInv, TypeOK, Posicao

(* One step of phase C touches one position of one batch.                    *)
LEMMA PhaseCAccount ==
    ASSUME IInv, AccountInv, NEW x \in Executors, InPhaseC(x), NEW e \in Nat, NEW r \in Nat,
           UNCHANGED <<state, request>>,
           \A z \in Executors \ {x} : pc'[z] = pc[z] /\ desfechos'[z] = desfechos[z],
           effects' = [effects EXCEPT ![Id(x)][Posicao(x)] = e],
           recibos' = [recibos EXCEPT ![Id(x)][Posicao(x)] = r],
           \/ pc'[x] = "done" /\ desfechos'[x] = desfechos[x]
           \/ pc'[x] = "receipt" /\ desfechos'[x] = desfechos[x] /\ e = 1 /\ r = 0
           \/ /\ pc'[x] \in {"effect", "done"}
              /\ \E d \in {"ATTEMPTED", "NOT_ATTEMPTED"} :
                     /\ desfechos'[x] = Append(desfechos[x], d)
                     /\ e = r /\ r = IF d = "ATTEMPTED" THEN 1 ELSE 0
    PROVE  AccountInv'
<1> DEFINE a == Id(x)
           k == Posicao(x)
<1>1. /\ x \in Processes /\ a \in Approvals
      /\ k \in Positions /\ k \in Nat
      /\ desfechos[x] \in Seq({"ATTEMPTED", "NOT_ATTEMPTED"})
      /\ Len(desfechos[x]) \in Nat /\ k = Len(desfechos[x]) + 1
      /\ \A z \in Executors \ {x} : Spent(z) => Id(z) # a
  BY PhaseCFacts DEF Posicao
<1>2. /\ \A b \in Approvals \ {a} : effects'[b] = effects[b] /\ recibos'[b] = recibos[b]
      /\ \A i \in Positions \ {k} : effects'[a][i] = effects[a][i] /\ recibos'[a][i] = recibos[a][i]
      /\ effects'[a][k] = e /\ recibos'[a][k] = r
  BY <1>1, PhaseCFacts
<1>3. /\ \A z \in Executors : Id(z)' = Id(z)
      /\ \A z \in Executors \ {x} : /\ Spent(z)' <=> Spent(z)
                                    /\ InPhaseC(z)' <=> InPhaseC(z)
                                    /\ Posicao(z)' = Posicao(z)
      /\ Spent(x) /\ \A z \in Executors : Spent(z)' => Spent(z)
  BY DEF Id, Spent, InPhaseC, Posicao
<1>4. \A z \in Executors : Spent(z) => Id(z) \in Approvals
  BY RequestFacts DEF Spent, Id, IInv, RequestInv, BatchInv, InPhaseC, Processes
<1>5. /\ state[a] = "CONSUMED"
      /\ \A i \in Positions : /\ i < k => effects[a][i] = recibos[a][i]
                              /\ i >= k => recibos[a][i] = 0
                              /\ i > k => effects[a][i] = 0
  <2>1. \A i \in Positions : i > k => effects[a][i] = 0
    BY <1>1 DEF IInv, EffectInv, InPhaseC, Positions
  <2> QED BY <1>1, <1>3, <2>1 DEF AccountInv
<1>6. StopAtFirstImpediment'
  <2> SUFFICES ASSUME NEW b \in Approvals, NEW i \in Positions, NEW j \in Positions,
                      j < i, effects'[b][i] > 0
               PROVE  effects'[b][j] = recibos'[b][j]
    BY DEF StopAtFirstImpediment
  <2>1. CASE b # a
    BY <1>2, <2>1 DEF AccountInv, EffectsAccounted, StopAtFirstImpediment
  <2>2. CASE b = a
    <3>1. i <= k
      BY <1>1, <1>2, <1>5, <2>2 DEF Positions
    <3>2. j < k
      BY <3>1, <1>1 DEF Positions
    <3> QED BY <1>1, <1>2, <1>5, <2>2, <3>2 DEF Positions
  <2> QED BY <2>1, <2>2
<1> HIDE DEF a, k
<1>7. /\ Len(desfechos'[x]) \in Nat
      /\ Len(desfechos'[x]) <= k
      /\ \A i \in 1 .. Len(desfechos'[x]) : i < k => desfechos'[x][i] = desfechos[x][i]
      /\ Len(desfechos'[x]) = k => r = IF desfechos'[x][k] = "ATTEMPTED" THEN 1 ELSE 0
  BY <1>1
<1>8. OutcomesAreReceipts'
  <2> SUFFICES ASSUME NEW z \in Executors, NEW i \in 1 .. Len(desfechos'[z])
               PROVE  recibos'[Id(z)][i] = IF desfechos'[z][i] = "ATTEMPTED" THEN 1 ELSE 0
    BY <1>3 DEF OutcomesAreReceipts
  <2>1. CASE z # x
    <3>1. desfechos[z] # <<>> /\ desfechos'[z] = desfechos[z]
      BY <2>1
    <3>2. Id(z) \in Approvals \ {a}
      BY <1>1, <1>4, <2>1, <3>1 DEF Spent
    <3> QED BY <1>2, <3>1, <3>2 DEF AccountInv, EffectsAccounted, OutcomesAreReceipts
  <2>2. CASE z = x
    <3>1. CASE i < k
      <4>0. i \in Nat /\ i >= 1 /\ i \in 1 .. Len(desfechos'[x])
        BY <1>7, <2>2
      <4>1. i \in 1 .. Len(desfechos[x]) /\ i \in Positions \ {k}
        BY <1>1, <3>1, <4>0, BoundAssumption DEF Positions
      <4>2. recibos'[a][i] = recibos[a][i]
        BY <1>2, <4>1
      <4>3. desfechos'[x][i] = desfechos[x][i]
        BY <1>7, <3>1, <4>0
      <4> QED BY <2>2, <4>1, <4>2, <4>3 DEF AccountInv, EffectsAccounted, OutcomesAreReceipts, a
    <3>2. CASE i = k
      BY <1>2, <1>7, <2>2, <3>2, <1>1 DEF a
    <3> QED BY <1>1, <1>7, <2>2, <3>1, <3>2
  <2> QED BY <2>1, <2>2
<1>9. \A b \in Approvals : state'[b] # "CONSUMED" => \A i \in Positions : recibos'[b][i] = 0
  BY <1>2, <1>5 DEF AccountInv
<1>10. ASSUME NEW z \in Executors, z # x
       PROVE  /\ Len(desfechos'[z]) <= MaxLote
              /\ Spent(z)' => state'[Id(z)'] = "CONSUMED"
              /\ InPhaseC(z)' => \A i \in Positions :
                    /\ i < Posicao(z)' => effects'[Id(z)'][i] = recibos'[Id(z)'][i]
                    /\ i >= Posicao(z)' => recibos'[Id(z)'][i] = 0
              /\ pc'[z] = "receipt" => effects'[Id(z)'][Posicao(z)'] = 1
  <2>1. Spent(z) => Id(z) \in Approvals \ {a}
    BY <1>1, <1>4, <1>10
  <2> QED BY <1>2, <1>3, <1>10, <2>1 DEF AccountInv, Spent, InPhaseC
<1>11. /\ Len(desfechos'[x]) <= MaxLote
       /\ Spent(x)' => state'[Id(x)'] = "CONSUMED"
       /\ InPhaseC(x)' => \A i \in Positions :
             /\ i < Posicao(x)' => effects'[Id(x)'][i] = recibos'[Id(x)'][i]
             /\ i >= Posicao(x)' => recibos'[Id(x)'][i] = 0
       /\ pc'[x] = "receipt" => effects'[Id(x)'][Posicao(x)'] = 1
  <2>1. Len(desfechos'[x]) <= MaxLote
    BY <1>1, <1>7, BoundAssumption DEF Positions
  <2>2. Posicao(x)' = Len(desfechos'[x]) + 1
    BY DEF Posicao
  <2>3. pc'[x] = "receipt" => Posicao(x)' = k /\ e = 1 /\ r = 0
    BY <1>1, <2>2
  <2>4. pc'[x] = "effect" => Posicao(x)' = k + 1 /\ e = r
    BY <1>1, <2>2
  <2>5. Id(x)' = a
    BY <1>3 DEF a
  <2>6. CASE pc'[x] = "receipt"
    <3>1. \A i \in Positions : /\ i < k => effects'[a][i] = recibos'[a][i]
                               /\ i >= k => recibos'[a][i] = 0
      BY <1>1, <1>2, <1>5, <2>3, <2>6 DEF Positions
    <3> QED BY <1>1, <1>2, <1>5, <2>1, <2>3, <2>5, <2>6, <3>1
  <2>7. CASE pc'[x] = "effect"
    <3>1. \A i \in Positions : /\ i < k + 1 => effects'[a][i] = recibos'[a][i]
                               /\ i >= k + 1 => recibos'[a][i] = 0
      BY <1>1, <1>2, <1>5, <2>4, <2>7 DEF Positions
    <3> QED BY <1>5, <2>1, <2>4, <2>5, <2>7, <3>1
  <2>8. CASE ~ InPhaseC(x)'
    BY <1>5, <2>1, <2>5, <2>8 DEF InPhaseC
  <2> QED BY <2>6, <2>7, <2>8 DEF InPhaseC
<1>12. \A y, z \in Executors : Spent(z)' /\ InPhaseC(y)' /\ Id(y)' = Id(z)' => y = z
  BY <1>1, <1>3 DEF AccountInv, a
<1> QED BY <1>6, <1>8, <1>9, <1>10, <1>11, <1>12 DEF AccountInv, EffectsAccounted

(* A call of x alone, outside phase C and with no outcome yet.               *)
LEMMA AccountRest ==
    ASSUME AccountInv, NEW x \in Executors,
           \A z \in Executors \ {x} : /\ pc'[z] = pc[z] /\ request'[z] = request[z]
                                      /\ desfechos'[z] = desfechos[z],
           ~ InPhaseC(x)', desfechos'[x] = <<>>,
           UNCHANGED <<state, effects, recibos>>
    PROVE  AccountInv'
<1>1. ~ Spent(x)'
  BY DEF Spent
<1>2. \A z \in Executors \ {x} : /\ Spent(z)' <=> Spent(z)
                                 /\ InPhaseC(z)' <=> InPhaseC(z)
                                 /\ Posicao(z)' = Posicao(z)
                                 /\ Id(z)' = Id(z)
  BY DEF Spent, InPhaseC, Posicao, Id
<1>3. \A y \in Executors : InPhaseC(y)' => y # x
  OBVIOUS
<1>4. EffectsAccounted'
  BY DEF AccountInv, EffectsAccounted, StopAtFirstImpediment, OutcomesAreReceipts, Id
<1>5. Len(desfechos'[x]) <= MaxLote /\ pc'[x] # "receipt"
  BY BoundAssumption DEF InPhaseC
<1> QED BY <1>1, <1>2, <1>3, <1>4, <1>5 DEF AccountInv

LEMMA NextAccountInv == IInv /\ AccountInv /\ [Next]_vars => AccountInv'
<1> SUFFICES ASSUME IInv, AccountInv, [Next]_vars PROVE AccountInv'
  OBVIOUS
<1>0. ASSUME UNCHANGED vars PROVE AccountInv'
  BY <1>0, AccountFrame DEF vars, outVars
<1>1. ASSUME Tick PROVE AccountInv'
  BY <1>1, AccountFrame DEF Tick, localVars, rowVars
<1>3. ASSUME NEW e \in Envelopes, append_approved(e) PROVE AccountInv'
  <2>1. \A a \in Approvals : state[a] = "CONSUMED" => state'[a] = "CONSUMED"
    BY <1>3 DEF append_approved, IInv, TypeOK
  <2> QED BY <1>3, <2>1, AccountFrame DEF append_approved, localVars
<1>4. ASSUME NEW x \in Executors, NEW r \in Requests, execute(x, r) PROVE AccountInv'
  <2>1. /\ \A z \in Executors \ {x} : pc'[z] = pc[z] /\ request'[z] = request[z]
        /\ ~ InPhaseC(x)' /\ desfechos[x] = <<>>
        /\ UNCHANGED <<state, desfechos, effects, recibos>>
    BY <1>4 DEF execute, Goto, Return, InPhaseC, IInv, TypeOK, BatchInv, Processes, rowVars, outVars
  <2>2. ~ Spent(x)'
    BY <2>1 DEF Spent
  <2> QED BY <2>1, <2>2, AccountRest
<1>5. ASSUME NEW v \in Revokers, NEW e \in Envelopes, revoke_once(v, e) PROVE AccountInv'
  <2>1. /\ \A z \in Executors : pc'[z] = pc[z] /\ request'[z] = request[z]
        /\ UNCHANGED <<state, desfechos, effects, recibos>>
    BY <1>5, ProcessAssumption DEF revoke_once, Goto, IInv, TypeOK, Processes, rowVars, outVars
  <2> QED BY <2>1 DEF AccountInv, Spent, InPhaseC, Posicao, Id, EffectsAccounted,
         StopAtFirstImpediment, OutcomesAreReceipts
<1>6. ASSUME NEW x \in Executors, resolve_target(x) PROVE AccountInv'
  <2>1. /\ \A z \in Executors \ {x} : pc'[z] = pc[z]
        /\ ~ InPhaseC(x)'
    BY <1>6 DEF resolve_target, Goto, Return, InPhaseC, IInv, TypeOK, Processes
  <2> QED BY <1>6, <2>1, AccountFrame DEF resolve_target, rowVars
<1>7. ASSUME NEW p \in Processes, Transition(p) PROVE AccountInv'
  <2>1. CASE \/ Transicionar(p) \/ EvaluateSet(p) \/ LockRow(p)
             \/ diagnosticar(p) \/ consultar_vencida(p)
    <3>1. /\ \A z \in Executors : pc'[z] = pc[z] \/ ~ InPhaseC(z)'
          /\ UNCHANGED <<state, request, desfechos, outVars>>
      BY <2>1 DEF Transicionar, EvaluateSet, NoRow, LockRow, diagnosticar, consultar_vencida,
         Goto, Return, InPhaseC, IInv, TypeOK, Processes, rowVars, localVars
    <3> QED BY <3>1, AccountFrame
  <2>2. CASE Commit(p) \/ CommitFails(p)
    <3>1. /\ pc[p] = "commit" /\ pc'[p] \in {"done", "effect"}
          /\ pc'[p] = "effect" => p \in Executors /\ WriteRow(p)
          /\ WriteRow(p) \/ UNCHANGED state
          /\ \A z \in Executors \ {p} : pc'[z] = pc[z]
          /\ UNCHANGED <<request, desfechos, outVars>>
      BY <2>2 DEF Commit, CommitFails, Goto, Return, IInv, TypeOK, Processes, localVars
    <3>2. Id(p) \in Approvals /\ state[Id(p)] = "ACTIVE"
      BY <3>1, RequestFacts DEF IInv, RequestInv, LockInv, Id
    <3>3. \A a \in Approvals : state[a] = "CONSUMED" => state'[a] = "CONSUMED"
      BY <3>1, <3>2 DEF WriteRow, IInv, TypeOK
    <3>4. CASE pc'[p] = "done"
      BY <3>1, <3>3, <3>4, AccountFrame DEF InPhaseC
    <3>5. CASE pc'[p] = "effect"
      <4>1. p \in Executors /\ desfechos[p] = <<>> /\ state'[Id(p)] = "CONSUMED"
        BY <3>1, <3>2, <3>5 DEF WriteRow, destino, IInv, TypeOK, BatchInv
      <4>2. \A z \in Executors : Spent(z) => Id(z) # Id(p)
        BY <3>2 DEF AccountInv
      <4>3. \A z \in Executors : Spent(z) => Id(z) \in Approvals
        BY RequestFacts DEF Spent, Id, IInv, RequestInv, BatchInv, InPhaseC, Processes
      <4>4. Posicao(p)' = 1 /\ Id(p)' = Id(p)
        BY <3>1, <4>1 DEF Posicao, Id
      <4>5. /\ \A i \in Positions : recibos[Id(p)][i] = 0
            /\ \A i \in Positions : ~ (i < 1)
        BY <3>2 DEF AccountInv, Positions
      <4>6. /\ \A z \in Executors \ {p} : /\ Spent(z)' <=> Spent(z)
                                          /\ InPhaseC(z)' <=> InPhaseC(z)
                                          /\ Posicao(z)' = Posicao(z)
            /\ \A z \in Executors : Id(z)' = Id(z)
        BY <3>1 DEF Spent, InPhaseC, Posicao, Id
      <4>7. EffectsAccounted'
        BY <3>1 DEF AccountInv, EffectsAccounted, StopAtFirstImpediment, OutcomesAreReceipts, Id, outVars
      <4>8. \A b \in Approvals : state'[b] # "CONSUMED" => \A i \in Positions : recibos'[b][i] = 0
        BY <3>1, <3>3 DEF AccountInv, outVars
      <4>9. ASSUME NEW z \in Executors, z # p
            PROVE  /\ Spent(z)' => state'[Id(z)'] = "CONSUMED"
                   /\ InPhaseC(z)' => \A i \in Positions :
                         /\ i < Posicao(z)' => effects'[Id(z)'][i] = recibos'[Id(z)'][i]
                         /\ i >= Posicao(z)' => recibos'[Id(z)'][i] = 0
                   /\ pc'[z] = "receipt" => effects'[Id(z)'][Posicao(z)'] = 1
        BY <3>1, <3>3, <4>3, <4>6, <4>9 DEF AccountInv, outVars
      <4>10. \A y, z \in Executors : Spent(z)' /\ InPhaseC(y)' /\ Id(y)' = Id(z)' => y = z
        <5>1. \A z \in Executors : Spent(z)' => Spent(z) \/ z = p
          BY <4>6
        <5>2. \A y \in Executors : InPhaseC(y)' => Spent(y) \/ y = p
          BY <4>6 DEF Spent
        <5>3. \A y, z \in Executors : /\ Spent(z) /\ y = p => Id(y) # Id(z)
                                      /\ Spent(y) /\ z = p => Id(y) # Id(z)
          BY <4>2
        <5>4. \A y, z \in Executors : Spent(z) /\ InPhaseC(y) /\ Id(y) = Id(z) => y = z
          BY DEF AccountInv
        <5>5. \A y \in Executors : InPhaseC(y)' => InPhaseC(y) \/ y = p
          BY <4>6
        <5> QED BY <4>6, <5>1, <5>2, <5>3, <5>4, <5>5
      <4>11. /\ \A z \in Executors : Len(desfechos'[z]) <= MaxLote
             /\ pc'[p] # "receipt"
        BY <3>1, <3>5 DEF AccountInv
      <4>12. InPhaseC(p)' => \A i \in Positions :
                         /\ i < Posicao(p)' => effects'[Id(p)'][i] = recibos'[Id(p)'][i]
                         /\ i >= Posicao(p)' => recibos'[Id(p)'][i] = 0
        BY <3>1, <4>4, <4>5 DEF outVars
      <4>13. state'[Id(p)'] = "CONSUMED"
        BY <4>1, <4>4
      <4> QED BY <4>7, <4>8, <4>9, <4>10, <4>11, <4>12, <4>13 DEF AccountInv
    <3> QED BY <3>1, <3>4, <3>5
  <2> QED BY <1>7, <2>1, <2>2 DEF Transition
<1>8. ASSUME NEW x \in Executors, PhaseC(x) PROVE AccountInv'
  <2> DEFINE a == Id(x)
             k == Posicao(x)
  <2>1. /\ InPhaseC(x) /\ UNCHANGED <<state, request>>
        /\ \A z \in Executors \ {x} : pc'[z] = pc[z] /\ desfechos'[z] = desfechos[z]
    BY <1>8 DEF PhaseC, EffectObserved, EffectNotStarted, EffectUnknown, registrar_recibo,
       ReceiptCommitFails, ReceiptFlushFails, AppendDesfecho, Goto, Return, InPhaseC,
       IInv, TypeOK, rowVars, localVars, Processes
  <2>2. /\ x \in Processes /\ a \in Approvals /\ k \in Positions /\ k \in Nat
        /\ effects \in [Approvals -> [Positions -> Nat]]
        /\ recibos \in [Approvals -> [Positions -> Nat]]
        /\ effects[a][k] \in Nat /\ recibos[a][k] = 0
        /\ pc[x] = "effect" => effects[a][k] = 0
        /\ pc[x] = "receipt" => effects[a][k] = 1
    <3>1. x \in Processes /\ a \in Approvals /\ k \in Positions /\ k \in Nat
      BY <2>1, PhaseCFacts
    <3>2. recibos[a][k] = 0 /\ (pc[x] = "receipt" => effects[a][k] = 1)
      BY <2>1, <3>1 DEF AccountInv
    <3>3. pc[x] = "effect" => effects[a][k] = 0
      BY <3>1 DEF IInv, EffectInv
    <3> QED BY <2>1, <3>1, <3>2, <3>3, PhaseCFacts
  <2>3. pc \in [Processes -> Labels] /\ desfechos \in [Processes -> Seq({"ATTEMPTED", "NOT_ATTEMPTED"})]
    BY DEF IInv, TypeOK
  <2>4. /\ effects = [effects EXCEPT ![a][k] = effects[a][k]]
        /\ recibos = [recibos EXCEPT ![a][k] = recibos[a][k]]
    BY <2>2
  <2> HIDE DEF a, k
  <2>5. CASE EffectObserved(x)
    <3>1. /\ effects' = [effects EXCEPT ![a][k] = 1]
          /\ recibos' = [recibos EXCEPT ![a][k] = 0]
      <4>1. effects' = [effects EXCEPT ![a][k] = 1] /\ recibos' = recibos
        <5>1. recibos' = recibos
          BY <2>5 DEF EffectObserved
        <5>2. effects' = [effects EXCEPT ![a][k] = @ + 1]
          BY <2>5 DEF EffectObserved, MaterialAttempt, a, k
        <5>3. effects[a][k] = 0
          BY <2>2, <2>5 DEF EffectObserved
        <5>4. effects[a][k] + 1 = 1
          BY <5>3
        <5> QED BY <5>1, <5>2, <5>4
      <4>2. recibos' = [recibos EXCEPT ![a][k] = 0]
        BY <2>2, <2>4, <4>1
      <4> QED BY <4>1, <4>2
    <3>2. pc'[x] = "receipt" /\ desfechos'[x] = desfechos[x]
      BY <2>2, <2>3, <2>5 DEF EffectObserved, Goto, localVars
    <3> QED BY <2>1, <3>1, <3>2, PhaseCAccount DEF a, k
  <2>6. CASE EffectNotStarted(x)
    <3>1. /\ effects' = [effects EXCEPT ![a][k] = 0]
          /\ recibos' = [recibos EXCEPT ![a][k] = 0]
      BY <2>2, <2>4, <2>6 DEF EffectNotStarted, outVars
    <3>2. pc'[x] \in {"effect", "done"} /\ desfechos'[x] = Append(desfechos[x], "NOT_ATTEMPTED")
      BY <2>2, <2>3, <2>6 DEF EffectNotStarted, AppendDesfecho, Goto, Return
    <3> QED BY <2>1, <3>1, <3>2, PhaseCAccount DEF a, k
  <2>7. CASE EffectUnknown(x) \/ ReceiptCommitFails(x) \/ ReceiptFlushFails(x)
    <3>1. \E e, r \in Nat : /\ effects' = [effects EXCEPT ![a][k] = e]
                            /\ recibos' = [recibos EXCEPT ![a][k] = r]
      <4>1. \E e \in Nat : effects' = [effects EXCEPT ![a][k] = e]
        <5>1. effects' = [effects EXCEPT ![a][k] = effects[a][k] + 1] \/ effects' = effects
          BY <2>7 DEF EffectUnknown, ReceiptCommitFails, ReceiptFlushFails, MaterialAttempt, outVars, a, k
        <5> QED BY <2>2, <2>4, <5>1
      <4>2. \E r \in Nat : recibos' = [recibos EXCEPT ![a][k] = r]
        <5>1. recibos' = [recibos EXCEPT ![a][k] = recibos[a][k] + 1] \/ recibos' = recibos
          BY <2>7 DEF EffectUnknown, ReceiptCommitFails, ReceiptFlushFails, StoreReceipt, outVars, a, k
        <5> QED BY <2>2, <2>4, <5>1
      <4> QED BY <4>1, <4>2
    <3>2. pc'[x] = "done" /\ desfechos'[x] = desfechos[x]
      <4>1. Return(x, "UNKNOWN_MATERIAL_STATE") \/ Return(x, "ADAPTER_CONTRACT_VIOLATION")
              \/ Return(x, "ERASURE_RECEIPT_NOT_PERSISTED") \/ Return(x, "PERSISTENCE_ERROR")
        BY <2>7 DEF EffectUnknown, ReceiptCommitFails, ReceiptFlushFails
      <4>2. pc'[x] = "done"
        BY <2>2, <2>3, <4>1 DEF Return
      <4> QED BY <2>7, <4>2 DEF EffectUnknown, ReceiptCommitFails, ReceiptFlushFails, localVars
    <3>3. PICK e \in Nat, r \in Nat : /\ effects' = [effects EXCEPT ![a][k] = e]
                                      /\ recibos' = [recibos EXCEPT ![a][k] = r]
      BY <3>1
    <3> QED BY <2>1, <3>2, <3>3, PhaseCAccount DEF a, k
  <2>8. CASE registrar_recibo(x)
    <3>1. /\ effects' = [effects EXCEPT ![a][k] = 1]
          /\ recibos' = [recibos EXCEPT ![a][k] = 1]
      BY <2>2, <2>4, <2>8 DEF registrar_recibo, StoreReceipt, a, k
    <3>2. pc'[x] \in {"effect", "done"} /\ desfechos'[x] = Append(desfechos[x], "ATTEMPTED")
      BY <2>2, <2>3, <2>8 DEF registrar_recibo, AppendDesfecho, Goto, Return
    <3> QED BY <2>1, <3>1, <3>2, PhaseCAccount DEF a, k
  <2> QED BY <1>8, <2>5, <2>6, <2>7, <2>8 DEF PhaseC
<1>9. ASSUME NEW p \in Processes, Crash(p) PROVE AccountInv'
  <2>1. \A z \in Executors : pc'[z] = pc[z] \/ ~ InPhaseC(z)'
    BY <1>9 DEF Crash, Return, InPhaseC, IInv, TypeOK, Processes
  <2> QED BY <1>9, <2>1, AccountFrame DEF Crash, localVars, rowVars
<1>10. ASSUME NEW p \in Processes, NextCall(p) PROVE AccountInv'
  <2>1. /\ \A z \in Executors \ {p} : /\ pc'[z] = pc[z] /\ request'[z] = request[z]
                                      /\ desfechos'[z] = desfechos[z]
        /\ ~ InPhaseC(p)' /\ desfechos'[p] = <<>>
        /\ UNCHANGED <<state, effects, recibos>>
    BY <1>10 DEF NextCall, InPhaseC, IInv, TypeOK, Processes, rowVars, outVars
  <2>2. CASE p \in Executors
    BY <2>1, <2>2, AccountRest DEF Spent
  <2>3. CASE p \notin Executors
    BY <2>1, <2>3 DEF AccountInv, Spent, InPhaseC, Posicao, Id, EffectsAccounted,
       StopAtFirstImpediment, OutcomesAreReceipts
  <2> QED BY <2>2, <2>3
<1> QED BY <1>0, <1>1, <1>3, <1>4, <1>5, <1>6, <1>7, <1>8, <1>9, <1>10 DEF Next

LEMMA Accounted == Spec => []AccountInv
BY InitAccountInv, NextAccountInv, Inductive, PTL DEF Spec

(* A target is attempted only when every earlier attempt of its batch has    *)
(* its committed receipt, and what a call lists as attempted is exactly what *)
(* has one, through crashes, lost commits and retries.                       *)
THEOREM AccountsHold == Spec => []EffectsAccounted
BY Accounted, PTL DEF AccountInv

-----------------------------------------------------------------------------
(* MemoryContinuity: the inductive invariant.                                *)

(* Rows and where they are. *)
KnownIn(rows) == {o.coid : o \in rows.objects}

\* what is committed and what the sessions have written
AllRows(committed, written) ==
    [table \in Tables |-> committed[table] \cup UNION {written[t][table] : t \in Sessions}]
Everywhere == AllRows(db, own)

(* Keys hold even between rows nobody has committed yet. *)
UniqueRows(rows) ==
    /\ \A o, p \in rows.objects : o.coid = p.coid => o = p
    /\ Keyed(rows.edges) /\ Keyed(rows.records) /\ Keyed(rows.events) /\ Keyed(rows.experiences)
    /\ \A e, f \in rows.edges : e.parent = f.parent /\ e.child = f.child => e = f
    /\ \A h, g \in rows.histories : h.subject = g.subject => h = g

\* rows are named after what they are about; an experience is one that was appended
TypedRows(rows) ==
    /\ rows.objects \subseteq CognitiveObject
    /\ rows.edges \subseteq LineageEdge /\ \A e \in rows.edges : e.id[1] = e.child
    /\ rows.records \subseteq TransformationRecord
    /\ \A r \in rows.records : r.output_refs = {r.id}
    /\ rows.histories \subseteq CausalHistory
    /\ rows.events \subseteq CausalHistoryEvent /\ \A e \in rows.events : e.id[1] = e.subject
    /\ \A x \in rows.experiences :
           /\ FitsColumn(x)
           /\ \E e \in Entries : ValidatedExperienceAppend(e) /\ x = Materializar(e)

(* What rows refer to is seen with them, and the object an edge or a record  *)
(* is about was written with it.                                             *)
RefersTo(rows, seen) ==
    /\ \A e \in rows.edges :
           e.parent # e.child /\ e.parent \in KnownIn(seen) /\ e.child \in KnownIn(rows)
    /\ \A r \in rows.records : r.id \in KnownIn(rows)
    /\ \A h \in rows.histories : h.subject \in KnownIn(seen)
    /\ \A e \in rows.events :
           /\ \E h \in seen.histories : h.subject = e.subject
           /\ e.predecessor # Null =>
                  e.predecessor # e.id /\ \E p \in seen.events : p.id = e.predecessor

(* What a session is about to write still is not there: it is at a place,    *)
(* busy with a request, and sees more than what is its own.                  *)
PendingInv(at, busy, mine, seen) ==
    /\ at = "history" =>
           /\ busy.subject \in KnownIn(seen)
           /\ busy.predecessor \in {e.id : e \in seen.events} \cup {Null}
           /\ HistoriesOf(mine, busy.subject) = {}
    /\ at = "insert" =>
           /\ busy \in Entries /\ ValidatedExperienceAppend(busy)
           /\ RowsOf(mine.experiences, busy.experience_id) = {}
    /\ at = "conflict" =>
           \E row \in RowsOf(seen.experiences, busy.experience_id) : row # Materializar(busy)

(* What was answered is on record. *)
Borne(rows, answers) ==
    /\ \A x \in answers.results : Whole(rows, x)
    /\ \A e \in answers.entries : e \in Entries /\ Materializar(e) \in rows.experiences

SessionInv(committed, mine, at, busy, answers) ==
    /\ DOMAIN mine = Tables /\ DOMAIN answers = {"results", "entries"}
    /\ RefersTo(mine, Joined(committed, mine))
    /\ Borne(Joined(committed, mine), answers)
    /\ PendingInv(at, busy, mine, Joined(committed, mine))

SessionRows(t) == SessionInv(db, own[t], place[t], pedido[t], given[t])

\* nobody writes about what another has written and not committed
Apart(a, b) == KnownIn(a) \cap KnownIn(b) = {}
HistoriesApart(a, b) == \A h \in a.histories, g \in b.histories : h.subject # g.subject

ApartInv ==
    \A t \in Sessions :
        /\ Apart(db, own[t])
        /\ \A u \in Others(t) : Apart(own[t], own[u]) /\ HistoriesApart(own[t], own[u])

ContinuityShape ==
    /\ DOMAIN db = Tables /\ DOMAIN own = Sessions
    /\ DOMAIN pedido = Sessions /\ DOMAIN given = Sessions /\ DOMAIN kept = {"results", "entries"}
    /\ place \in [Sessions -> {"open", "insert", "history", "conflict"}]

ContinuityIInv ==
    /\ ContinuityShape
    /\ TypedRows(Everywhere) /\ UniqueRows(Everywhere)
    /\ RefersTo(db, db) /\ Borne(db, kept)
    /\ ApartInv
    /\ \A t \in Sessions : SessionRows(t)

-----------------------------------------------------------------------------
(* Sequences and what `sorted` makes of a request. *)

(* The elements of a sequence are as many as its length when none repeats. *)
LEMMA Counted ==
    ASSUME NEW n \in Nat, NEW S, NEW s \in [1 .. n -> S]
    PROVE  /\ Len(s) = n
           /\ Cardinality({s[k] : k \in 1 .. n}) = n <=>
                  \A j, k \in 1 .. n : s[j] = s[k] => j = k
<1>. DEFINE T == {s[k] : k \in 1 .. n}
<1>1. IsFiniteSet(1 .. n) /\ Cardinality(1 .. n) = n
    BY FS_Interval
<1>2. s \in Surjection(1 .. n, T)
    BY DEF Surjection
<1>3. Cardinality(T) = n <=> s \in Injection(1 .. n, T)
  <2>. HIDE DEF T
  <2>. QED BY <1>1, <1>2, FS_Surjection
<1>4. s \in Injection(1 .. n, T) <=> \A j, k \in 1 .. n : s[j] = s[k] => j = k
    BY DEF Injection, IsInjective
<1>5. Len(s) = n
    OBVIOUS
<1>. QED BY <1>3, <1>4, <1>5

LEMMA SequenceElements ==
    ASSUME NEW n \in Nat, NEW S, NEW s \in [1 .. n -> S]
    PROVE  /\ Len(s) = n /\ DOMAIN s = 1 .. n
           /\ ToSet(s) = {s[k] : k \in 1 .. n}
<1>1. Len(s) = n /\ DOMAIN s = 1 .. n
    BY Counted
<1>. QED BY <1>1 DEF ToSet

LEMMA DistinctElements ==
    ASSUME NEW n \in Nat, NEW S, NEW s \in [1 .. n -> S]
    PROVE  Distinct(s) <=> \A j, k \in 1 .. n : s[j] = s[k] => j = k
<1>1. Len(s) = n /\ DOMAIN s = 1 .. n /\ ToSet(s) = {s[k] : k \in 1 .. n}
    BY SequenceElements
<1>2. Distinct(s) <=> Cardinality({s[k] : k \in 1 .. n}) = n
    BY <1>1 DEF Distinct
<1>3. Cardinality({s[k] : k \in 1 .. n}) = n <=> \A j, k \in 1 .. n : s[j] = s[k] => j = k
    BY Counted
<1>. QED BY <1>2, <1>3

LEMMA OnceEach ==
    ASSUME NEW n \in Nat, NEW S, NEW s \in [1 .. n -> S], \A j, k \in 1 .. n : s[j] = s[k] => j = k
    PROVE  /\ Cardinality({s[k] : k \in 1 .. n}) = n
           /\ Len(s) = n /\ DOMAIN s = 1 .. n /\ Distinct(s)
<1>1. Cardinality({s[k] : k \in 1 .. n}) = n
    BY Counted
<1>2. Len(s) = n /\ DOMAIN s = 1 .. n /\ ToSet(s) = {s[k] : k \in 1 .. n}
    BY SequenceElements
<1>. QED BY <1>1, <1>2 DEF Distinct

LEMMA BoundedLengths ==
    ASSUME NEW S, NEW m \in Nat, NEW s \in BoundedSeq(S, m)
    PROVE  \E n \in 0 .. m : s \in [1 .. n -> S]
BY DEF BoundedSeq, SeqOf

(* Two or three distinct numbers have an order. *)
LEMMA SourcesInOrder ==
    ASSUME NEW n \in 2 .. 3, NEW s \in [1 .. n -> Coids], Distinct(s)
    PROVE  /\ Sorted(s, <) \in [1 .. n -> Coids]
           /\ ToSet(Sorted(s, <)) = ToSet(s)
           /\ \A j, k \in 1 .. n : j < k => Sorted(s, <)[j] < Sorted(s, <)[k]
<1>. n \in Nat
    OBVIOUS
<1>1. /\ DOMAIN s = 1 .. n /\ ToSet(s) = {s[k] : k \in 1 .. n}
      /\ \A j, k \in 1 .. n : s[j] = s[k] => j = k
  <2>1. DOMAIN s = 1 .. n /\ ToSet(s) = {s[k] : k \in 1 .. n}
      BY SequenceElements
  <2>2. Distinct(s) <=> \A j, k \in 1 .. n : s[j] = s[k] => j = k
      BY DistinctElements
  <2>. QED BY <2>1, <2>2
<1>2. \A k \in 1 .. n : s[k] \in Int
    BY DEF Coids
<1>3. \E r \in [1 .. n -> ToSet(s)] :
          ToSet(r) = ToSet(s) /\ \A j, k \in 1 .. n : j < k => r[j] < r[k]
  <2>1. CASE n = 2
    <3>1. ToSet(s) = {s[1], s[2]} /\ s[1] # s[2] /\ s[1] \in Int /\ s[2] \in Int
        BY <1>1, <1>2, <2>1
    <3>2. PICK x \in Int, y \in Int : x < y /\ {x, y} = {s[1], s[2]}
        BY <3>1
    <3>. DEFINE r == [k \in 1 .. 2 |-> IF k = 1 THEN x ELSE y]
    <3>3. r \in [1 .. n -> ToSet(s)] /\ r[1] = x /\ r[2] = y
        BY <2>1, <3>1, <3>2
    <3>4. ToSet(r) = {x, y}
        BY <2>1, <3>3 DEF ToSet
    <3>5. \A j, k \in 1 .. n : j < k => r[j] < r[k]
        BY <2>1, <3>2, <3>3
    <3>. HIDE DEF r
    <3>. QED BY <3>1, <3>2, <3>3, <3>4, <3>5
  <2>2. CASE n = 3
    <3>1. /\ ToSet(s) = {s[1], s[2], s[3]} /\ s[1] # s[2] /\ s[1] # s[3] /\ s[2] # s[3]
          /\ s[1] \in Int /\ s[2] \in Int /\ s[3] \in Int
        BY <1>1, <1>2, <2>2
    <3>2. PICK x \in Int, y \in Int, z \in Int :
              x < y /\ y < z /\ {x, y, z} = {s[1], s[2], s[3]}
      <4>. DEFINE a == s[1]
                  b == s[2]
                  c == s[3]
      <4>1. a \in Int /\ b \in Int /\ c \in Int /\ a # b /\ a # c /\ b # c
          BY <3>1
      <4>. HIDE DEF a, b, c
      <4>2. \/ (a < b /\ b < c) \/ (a < c /\ c < b) \/ (b < a /\ a < c)
            \/ (b < c /\ c < a) \/ (c < a /\ a < b) \/ (c < b /\ b < a)
          BY <4>1
      <4>3. \E x \in Int, y \in Int, z \in Int : x < y /\ y < z /\ {x, y, z} = {a, b, c}
        <5>1. CASE a < b /\ b < c
            BY <4>1, <5>1
        <5>2. CASE a < c /\ c < b
            BY <4>1, <5>2
        <5>3. CASE b < a /\ a < c
            BY <4>1, <5>3
        <5>4. CASE b < c /\ c < a
            BY <4>1, <5>4
        <5>5. CASE c < a /\ a < b
            BY <4>1, <5>5
        <5>6. CASE c < b /\ b < a
            BY <4>1, <5>6
        <5>. QED BY <4>2, <5>1, <5>2, <5>3, <5>4, <5>5, <5>6
      <4>. QED BY <4>3 DEF a, b, c
    <3>. DEFINE r == [k \in 1 .. 3 |-> IF k = 1 THEN x ELSE IF k = 2 THEN y ELSE z]
    <3>3. r \in [1 .. n -> ToSet(s)] /\ r[1] = x /\ r[2] = y /\ r[3] = z
        BY <2>2, <3>1, <3>2
    <3>4. ToSet(r) = {x, y, z}
        BY <2>2, <3>3 DEF ToSet
    <3>5. \A j, k \in 1 .. n : j < k => r[j] < r[k]
        BY <2>2, <3>2, <3>3
    <3>. HIDE DEF r
    <3>. QED BY <3>1, <3>2, <3>3, <3>4, <3>5
  <2>. QED BY <2>1, <2>2
<1>4. /\ Sorted(s, <) \in [1 .. n -> ToSet(s)]
      /\ ToSet(Sorted(s, <)) = ToSet(s)
      /\ \A j, k \in 1 .. n : j < k => Sorted(s, <)[j] < Sorted(s, <)[k]
    BY <1>1, <1>3 DEF Sorted
<1>6. ToSet(s) \subseteq Coids
    BY <1>1
<1>. QED BY <1>4, <1>6

(* At most two distinct events have an order. *)
LEMMA PredecessorsInOrder ==
    ASSUME NEW n \in 0 .. 2, NEW s \in [1 .. n -> EventIds], Distinct(s)
    PROVE  /\ Sorted(s, Before) \in [1 .. n -> EventIds]
           /\ ToSet(Sorted(s, Before)) = ToSet(s)
           /\ \A j, k \in 1 .. n : Sorted(s, Before)[j] = Sorted(s, Before)[k] => j = k
<1>. n \in Nat
    OBVIOUS
<1>1. /\ DOMAIN s = 1 .. n /\ ToSet(s) = {s[k] : k \in 1 .. n}
      /\ \A j, k \in 1 .. n : s[j] = s[k] => j = k
  <2>1. DOMAIN s = 1 .. n /\ ToSet(s) = {s[k] : k \in 1 .. n}
      BY SequenceElements
  <2>2. Distinct(s) <=> \A j, k \in 1 .. n : s[j] = s[k] => j = k
      BY DistinctElements
  <2>. QED BY <2>1, <2>2
<1>2. \A e, f \in EventIds : e # f => Before(e, f) \/ Before(f, e)
    BY DEF EventIds, Before, Coids, Ordinals
<1>3. \E r \in [1 .. n -> ToSet(s)] :
          ToSet(r) = ToSet(s) /\ \A j, k \in 1 .. n : j < k => Before(r[j], r[k])
  <2>1. CASE n \in 0 .. 1
    <3>1. s \in [1 .. n -> ToSet(s)]
        BY <1>1
    <3>2. \A j, k \in 1 .. n : ~ (j < k)
        BY <2>1
    <3>. QED BY <3>1, <3>2
  <2>2. CASE n = 2 /\ Before(s[1], s[2])
    <3>1. s \in [1 .. n -> ToSet(s)]
        BY <1>1
    <3>2. \A j, k \in 1 .. n : j < k => Before(s[j], s[k])
        BY <2>2
    <3>. QED BY <3>1, <3>2
  <2>3. CASE n = 2 /\ ~ Before(s[1], s[2])
    <3>1. ToSet(s) = {s[1], s[2]} /\ s[1] # s[2] /\ s[1] \in EventIds /\ s[2] \in EventIds
        BY <1>1, <2>3
    <3>2. Before(s[2], s[1])
        BY <1>2, <2>3, <3>1
    <3>. DEFINE r == [k \in 1 .. 2 |-> IF k = 1 THEN s[2] ELSE s[1]]
    <3>3. r \in [1 .. n -> ToSet(s)] /\ r[1] = s[2] /\ r[2] = s[1]
        BY <2>3, <3>1
    <3>4. ToSet(r) = {s[2], s[1]}
        BY <2>3, <3>3 DEF ToSet
    <3>5. \A j, k \in 1 .. n : j < k => Before(r[j], r[k])
        BY <2>3, <3>2, <3>3
    <3>. HIDE DEF r
    <3>. QED BY <3>1, <3>3, <3>4, <3>5
  <2>. QED BY <2>1, <2>2, <2>3
<1>4. /\ Sorted(s, Before) \in [1 .. n -> ToSet(s)]
      /\ ToSet(Sorted(s, Before)) = ToSet(s)
      /\ \A j, k \in 1 .. n : j < k => Before(Sorted(s, Before)[j], Sorted(s, Before)[k])
    BY <1>1, <1>3 DEF Sorted
<1>5. ToSet(s) \subseteq EventIds
    BY <1>1
<1>6. \A e \in EventIds : ~ Before(e, e)
    BY DEF EventIds, Before, Coids, Ordinals
<1>. DEFINE r == Sorted(s, Before)
<1>7. r \in [1 .. n -> EventIds] /\ \A j, k \in 1 .. n : j < k => Before(r[j], r[k])
    BY <1>4, <1>5
<1>. HIDE DEF r
<1>8. \A j, k \in 1 .. n : r[j] = r[k] => ~ (j < k)
    BY <1>6, <1>7
<1>9. \A j, k \in 1 .. n : r[j] = r[k] => j = k
    BY <1>8
<1>. QED BY <1>4, <1>7, <1>9 DEF r

(* What is asked, in canonical order: two or three sources, which rise, and  *)
(* at most two predecessors, none twice.                                     *)
CanonicalFor(q, asked) ==
    /\ q = [source_coids |-> q.source_coids, predecessors |-> q.predecessors]
    /\ \E n \in 2 .. 3 : q.source_coids \in [1 .. n -> Coids]
    /\ ToSet(q.source_coids) = ToSet(asked.source_coids)
    /\ \A j, k \in DOMAIN q.source_coids : j < k => q.source_coids[j] < q.source_coids[k]
    /\ \E n \in 0 .. 2 : q.predecessors \in [1 .. n -> EventIds]
    /\ ToSet(q.predecessors) = ToSet(asked.predecessors)
    /\ \A j, k \in DOMAIN q.predecessors : q.predecessors[j] = q.predecessors[k] => j = k

LEMMA IsCanonical ==
    ASSUME NEW asked \in ConsolidationRequest, Preflight(asked)
    PROVE  CanonicalFor(Canonical(asked), asked)
<1>. DEFINE s == asked.source_coids
            p == asked.predecessors
<1>1. PICK n \in 0 .. 3 : s \in [1 .. n -> Coids]
    BY BoundedLengths DEF ConsolidationRequest
<1>2. PICK m \in 0 .. 2 : p \in [1 .. m -> EventIds]
    BY BoundedLengths DEF ConsolidationRequest
<1>3. Distinct(s) /\ Distinct(p) /\ Len(s) >= 2
    BY DEF Preflight, validar_fontes
<1>. HIDE DEF s, p
<1>. n \in Nat
    OBVIOUS
<1>8. Len(s) = n
    BY <1>1, SequenceElements
<1>9. n \in 2 .. 3
    BY <1>3, <1>8
<1>4. /\ Sorted(s, <) \in [1 .. n -> Coids]
      /\ ToSet(Sorted(s, <)) = ToSet(s)
      /\ \A j, k \in 1 .. n : j < k => Sorted(s, <)[j] < Sorted(s, <)[k]
    BY <1>1, <1>3, <1>9, SourcesInOrder
<1>5. /\ Sorted(p, Before) \in [1 .. m -> EventIds]
      /\ ToSet(Sorted(p, Before)) = ToSet(p)
      /\ \A j, k \in 1 .. m : Sorted(p, Before)[j] = Sorted(p, Before)[k] => j = k
    BY <1>2, <1>3, PredecessorsInOrder
<1>. DEFINE rising == Sorted(s, <)
            once   == Sorted(p, Before)
            q      == [source_coids |-> rising, predecessors |-> once]
<1>6. Canonical(asked) = q
    BY DEF Canonical, s, p
<1>7. /\ q = [source_coids |-> q.source_coids, predecessors |-> q.predecessors]
      /\ q.source_coids = rising /\ q.predecessors = once
    OBVIOUS
<1>10. /\ rising \in [1 .. n -> Coids] /\ DOMAIN rising = 1 .. n
       /\ once \in [1 .. m -> EventIds] /\ DOMAIN once = 1 .. m
    BY <1>4, <1>5
<1>. HIDE DEF q
<1>11. /\ \E k \in 2 .. 3 : q.source_coids \in [1 .. k -> Coids]
       /\ ToSet(q.source_coids) = ToSet(s)
       /\ \A j, k \in DOMAIN q.source_coids : j < k => q.source_coids[j] < q.source_coids[k]
    BY <1>4, <1>7, <1>9, <1>10
<1>12. /\ \E k \in 0 .. 2 : q.predecessors \in [1 .. k -> EventIds]
       /\ ToSet(q.predecessors) = ToSet(p)
       /\ \A j, k \in DOMAIN q.predecessors : q.predecessors[j] = q.predecessors[k] => j = k
    BY <1>5, <1>7, <1>10
<1>13. CanonicalFor(q, asked)
    BY <1>7, <1>11, <1>12 DEF CanonicalFor, s, p
<1>. QED BY <1>6, <1>13

-----------------------------------------------------------------------------
(* What an assessment says of an object, kind by kind. *)
RowsAbout(rows, coid) == {o \in rows.objects : o.coid = coid}
RowOf(rows, coid)     == CHOOSE o \in RowsAbout(rows, coid) : TRUE

ClidEvidence(rows, coid) ==
    IF RowOf(rows, coid).clid = Null THEN {}
    ELSE {Evidence("clid", RowOf(rows, coid).clid, Null, Null)}

EvidenceAsInput(rows, coid) ==
    {Evidence("transformation_input", r.id, Null, Null) : r \in {r \in rows.records : coid \in r.input_refs}}

EvidenceAsOutput(rows, coid) ==
    {Evidence("transformation_output", r.id, Null, Null) : r \in {r \in rows.records : coid \in r.output_refs}}

AllEvidence(rows, coid) ==
    ClidEvidence(rows, coid) \cup lineage_as_child(rows, coid) \cup lineage_as_parent(rows, coid)
        \cup (EvidenceAsInput(rows, coid) \cup EvidenceAsOutput(rows, coid)) \cup causal_events(rows, coid)

LEMMA EvidenceFields ==
    ASSUME NEW kind, NEW reference, NEW related, NEW qualifier
    PROVE  /\ Evidence(kind, reference, related, qualifier).kind = kind
           /\ Evidence(kind, reference, related, qualifier).reference = reference
           /\ Evidence(kind, reference, related, qualifier).related_coid = related
           /\ Evidence(kind, reference, related, qualifier).qualifier = qualifier
BY DEF Evidence

LEMMA KindsOfEvidence ==
    ASSUME NEW rows, NEW coid
    PROVE  /\ \A e \in ClidEvidence(rows, coid) : e.kind = "clid"
           /\ \A e \in lineage_as_child(rows, coid) : e.kind = "lineage_parent"
           /\ \A e \in lineage_as_parent(rows, coid) : e.kind = "lineage_child"
           /\ \A e \in EvidenceAsInput(rows, coid) : e.kind = "transformation_input"
           /\ \A e \in EvidenceAsOutput(rows, coid) : e.kind = "transformation_output"
           /\ \A e \in causal_events(rows, coid) : e.kind = "causal_event"
<1>1. \A e \in ClidEvidence(rows, coid) : e.kind = "clid"
    BY EvidenceFields DEF ClidEvidence
<1>2. \A e \in lineage_as_child(rows, coid) : e.kind = "lineage_parent"
    BY EvidenceFields DEF lineage_as_child
<1>3. \A e \in lineage_as_parent(rows, coid) : e.kind = "lineage_child"
    BY EvidenceFields DEF lineage_as_parent
<1>4. \A e \in EvidenceAsInput(rows, coid) : e.kind = "transformation_input"
    BY EvidenceFields DEF EvidenceAsInput
<1>5. \A e \in EvidenceAsOutput(rows, coid) : e.kind = "transformation_output"
    BY EvidenceFields DEF EvidenceAsOutput
<1>6. \A e \in causal_events(rows, coid) : e.kind = "causal_event"
    BY EvidenceFields DEF causal_events
<1>. QED BY <1>1, <1>2, <1>3, <1>4, <1>5, <1>6

LEMMA Assessed ==
    ASSUME NEW rows, NEW coid, RowsAbout(rows, coid) # {}
    PROVE  /\ assess(rows, coid).coid = coid
           /\ assess(rows, coid).evidence = AllEvidence(rows, coid)
           /\ assess(rows, coid).clid = RowOf(rows, coid).clid
           /\ assess(rows, coid).subject_deleted = RowOf(rows, coid).deleted
           /\ assess(rows, coid).outcome = IF AllEvidence(rows, coid) = {} THEN "no_recorded_continuity_evidence"
                                           ELSE "recorded_continuity_evidence"
           /\ evidence_of(assess(rows, coid), "clid") = ClidEvidence(rows, coid)
           /\ evidence_of(assess(rows, coid), "lineage_parent") = lineage_as_child(rows, coid)
           /\ evidence_of(assess(rows, coid), "transformation_output") = EvidenceAsOutput(rows, coid)
           /\ evidence_of(assess(rows, coid), "causal_event") = causal_events(rows, coid)
<1>1. assess(rows, coid) =
          [coid |-> coid, evidence |-> AllEvidence(rows, coid), clid |-> RowOf(rows, coid).clid,
           subject_deleted |-> RowOf(rows, coid).deleted,
           outcome |-> IF AllEvidence(rows, coid) = {} THEN "no_recorded_continuity_evidence"
                       ELSE "recorded_continuity_evidence"]
    BY DEF assess, AllEvidence, ClidEvidence, EvidenceAsInput, EvidenceAsOutput, transformations_citing,
           RowsAbout, RowOf
<1>2. /\ assess(rows, coid).coid = coid
      /\ assess(rows, coid).evidence = AllEvidence(rows, coid)
      /\ assess(rows, coid).clid = RowOf(rows, coid).clid
      /\ assess(rows, coid).subject_deleted = RowOf(rows, coid).deleted
      /\ assess(rows, coid).outcome = IF AllEvidence(rows, coid) = {} THEN "no_recorded_continuity_evidence"
                                      ELSE "recorded_continuity_evidence"
    BY <1>1
<1>3. \A kind : evidence_of(assess(rows, coid), kind) = {e \in AllEvidence(rows, coid) : e.kind = kind}
    BY <1>2 DEF evidence_of
<1>4. {e \in AllEvidence(rows, coid) : e.kind = "clid"} = ClidEvidence(rows, coid)
    BY KindsOfEvidence DEF AllEvidence
<1>5. {e \in AllEvidence(rows, coid) : e.kind = "lineage_parent"} = lineage_as_child(rows, coid)
    BY KindsOfEvidence DEF AllEvidence
<1>6. {e \in AllEvidence(rows, coid) : e.kind = "transformation_output"} = EvidenceAsOutput(rows, coid)
    BY KindsOfEvidence DEF AllEvidence
<1>7. {e \in AllEvidence(rows, coid) : e.kind = "causal_event"} = causal_events(rows, coid)
    BY KindsOfEvidence DEF AllEvidence
<1>. QED BY <1>2, <1>3, <1>4, <1>5, <1>6, <1>7

(* A receipt that passes describes the consolidation that was asked for. *)
LEMMA VerifiedIsWhole ==
    ASSUME NEW rows, rows.edges \subseteq LineageEdge, NEW q, NEW asked, CanonicalFor(q, asked), NEW receipt,
           DOMAIN receipt.lineage_edge_ids = DOMAIN q.source_coids,
           Verified(rows, q, receipt)
    PROVE  Whole(rows, [request |-> asked, receipt |-> receipt])
<1>. DEFINE target == receipt.target_coid
            src == receipt.source_coids
            ids == receipt.lineage_edge_ids
            x == [request |-> asked, receipt |-> receipt]
<1>1. src = q.source_coids /\ receipt.predecessor_event_ids = q.predecessors
    BY DEF Verified, verificar_fidelidade
<1>2. PICK n \in 2 .. 3 : src \in [1 .. n -> Coids]
    BY <1>1 DEF CanonicalFor
<1>3. /\ DOMAIN src = 1 .. n /\ DOMAIN ids = 1 .. n
      /\ \A j, k \in 1 .. n : j < k => src[j] < src[k]
      /\ ToSet(src) = ToSet(asked.source_coids)
      /\ ToSet(receipt.predecessor_event_ids) = ToSet(asked.predecessors)
    BY <1>1, <1>2 DEF CanonicalFor
<1>4. ToSet(src) = {src[k] : k \in 1 .. n} /\ ToSet(ids) = {ids[k] : k \in 1 .. n}
    BY <1>3 DEF ToSet
<1>5. verificar_coerencia_consolidacao(receipt, assess(rows, target))
    BY DEF Verified
<1>6. RowsAbout(rows, target) # {}
    BY <1>5 DEF verificar_coerencia_consolidacao, assess, RowsAbout
<1>7. /\ {e.reference : e \in lineage_as_child(rows, target)} = ToSet(ids)
      /\ Pairing(receipt, lineage_as_child(rows, target))
      /\ \A e \in lineage_as_child(rows, target) : e.qualifier = "merge"
      /\ {e.reference : e \in EvidenceAsOutput(rows, target)} = {receipt.transformation_id}
      /\ {e.reference : e \in causal_events(rows, target)} = ToSet(receipt.causal_event_ids)
      /\ \A e \in causal_events(rows, target) : e.qualifier = "TRANSFORMED"
      /\ RowOf(rows, target).clid = receipt.target_clid /\ ~ RowOf(rows, target).deleted
    BY <1>5, <1>6, Assessed DEF verificar_coerencia_consolidacao
<1>. HIDE DEF target, src, ids
<1>8. \A j, k \in 1 .. n : src[j] = src[k] => j = k
  <2>1. \A k \in 1 .. n : src[k] \in Int
      BY <1>2 DEF Coids
  <2>. QED BY <1>3, <2>1
<1>9. \A k \in 1 .. n : lineage_edge_for(receipt, src[k]) = ids[k]
  <2>. TAKE k \in 1 .. n
  <2>1. k = CHOOSE j \in DOMAIN src : src[j] = src[k]
      BY <1>3, <1>8
  <2>. QED BY <2>1 DEF lineage_edge_for, src, ids
<1>10. \A e \in rows.edges : e.child = target =>
           \E k \in 1 .. n : e.id = ids[k] /\ e.parent = src[k] /\ e.relation_type = "merge"
  <2>. SUFFICES ASSUME NEW e \in rows.edges, e.child = target
                PROVE  \E k \in 1 .. n : e.id = ids[k] /\ e.parent = src[k] /\ e.relation_type = "merge"
      OBVIOUS
  <2>. DEFINE said == Evidence("lineage_parent", e.id, e.parent, e.relation_type)
  <2>1. said \in lineage_as_child(rows, target)
      BY DEF lineage_as_child
  <2>2. said.reference = e.id /\ said.related_coid = e.parent /\ said.qualifier = e.relation_type
      BY EvidenceFields
  <2>. HIDE DEF said
  <2>3. PICK k \in 1 .. n : e.id = ids[k]
      BY <1>4, <1>7, <2>1, <2>2
  <2>4. k \in DOMAIN src \cap DOMAIN ids
      BY <1>3
  <2>5. said.related_coid = src[k]
      BY <1>7, <2>1, <2>2, <2>3, <2>4 DEF Pairing, src, ids
  <2>. QED BY <1>7, <2>1, <2>2, <2>3, <2>5
<1>11. \A k \in 1 .. n : \E e \in rows.edges : e.child = target /\ e.id = ids[k] /\ e.parent = src[k]
  <2>. TAKE k \in 1 .. n
  <2>1. ids[k] \in {e.reference : e \in lineage_as_child(rows, target)}
      BY <1>4, <1>7
  <2>2. PICK e \in rows.edges : e.child = target /\ ids[k] = e.id
      BY <2>1, EvidenceFields DEF lineage_as_child
  <2>. DEFINE said == Evidence("lineage_parent", e.id, e.parent, e.relation_type)
  <2>3. said \in lineage_as_child(rows, target)
      BY <2>2 DEF lineage_as_child
  <2>4. said.reference = ids[k] /\ said.related_coid = e.parent
      BY <2>2, EvidenceFields
  <2>. HIDE DEF said
  <2>5. said.related_coid = src[k]
      BY <1>3, <1>7, <2>3, <2>4 DEF Pairing, src, ids
  <2>. QED BY <2>2, <2>4, <2>5
<1>. DEFINE Merge(s) == [id |-> lineage_edge_for(receipt, s), parent |-> s, child |-> target,
                         relation_type |-> "merge"]
<1>12. {e \in rows.edges : e.child = target} = {Merge(s) : s \in ToSet(src)}
  <2>1. \A k \in 1 .. n : Merge(src[k]) = [id |-> ids[k], parent |-> src[k], child |-> target,
                                         relation_type |-> "merge"]
      BY <1>9
  <2>. HIDE DEF Merge
  <2>2. ASSUME NEW e \in rows.edges, NEW k \in 1 .. n, e.child = target, e.id = ids[k], e.parent = src[k],
               e.relation_type = "merge"
        PROVE  e = Merge(src[k])
    <3>1. e = [id |-> e.id, parent |-> e.parent, child |-> e.child, relation_type |-> e.relation_type]
        BY DEF LineageEdge
    <3>. QED BY <2>1, <2>2, <3>1
  <2>3. \A e \in rows.edges : e.child = target => \E k \in 1 .. n : e = Merge(src[k])
      BY <1>10, <2>2
  <2>4. \A k \in 1 .. n : \E e \in rows.edges : e.child = target /\ e = Merge(src[k])
    <3>. TAKE k \in 1 .. n
    <3>1. PICK e \in rows.edges : e.child = target /\ e.id = ids[k] /\ e.parent = src[k]
        BY <1>11
    <3>2. e.relation_type = "merge"
        BY <1>10, <3>1
    <3>. QED BY <2>2, <3>1, <3>2
  <2>. QED BY <1>4, <2>3, <2>4
<1>13. {r.id : r \in {r \in rows.records : target \in r.output_refs}} = {receipt.transformation_id}
  <2>1. {e.reference : e \in EvidenceAsOutput(rows, target)} =
            {r.id : r \in {r \in rows.records : target \in r.output_refs}}
    <3>. DEFINE Said(r) == Evidence("transformation_output", r.id, Null, Null)
                making == {r \in rows.records : target \in r.output_refs}
    <3>1. EvidenceAsOutput(rows, target) = {Said(r) : r \in making}
        BY DEF EvidenceAsOutput
    <3>2. \A r : Said(r).reference = r.id
        BY EvidenceFields
    <3>. HIDE DEF Said, making
    <3>3. {e.reference : e \in EvidenceAsOutput(rows, target)} = {r.id : r \in making}
        BY <3>1, <3>2
    <3>. QED BY <3>3 DEF making
  <2>. QED BY <1>7, <2>1
<1>14. \A id \in ToSet(receipt.causal_event_ids) :
           \E e \in rows.events : e.id = id /\ e.subject = target /\ e.event_type = "TRANSFORMED"
  <2>. TAKE id \in ToSet(receipt.causal_event_ids)
  <2>1. PICK said \in causal_events(rows, target) : said.reference = id
      BY <1>7
  <2>2. PICK e \in rows.events : e.subject = target /\ said = Evidence("causal_event", e.id, Null, e.event_type)
      BY <2>1 DEF causal_events
  <2>3. said.qualifier = "TRANSFORMED"
      BY <1>7
  <2>. QED BY <2>1, <2>2, <2>3, EvidenceFields
<1>15. \E o \in rows.objects : o.coid = target /\ o.clid = receipt.target_clid /\ ~ o.deleted
  <2>1. RowOf(rows, target) \in RowsAbout(rows, target)
      BY <1>6 DEF RowOf
  <2>. QED BY <1>7, <2>1 DEF RowsAbout
<1>16. x.receipt = receipt /\ x.request = asked
    OBVIOUS
<1>. HIDE DEF x
<1>17. Whole(rows, x)
    BY <1>3, <1>12, <1>13, <1>14, <1>15, <1>16 DEF Whole, target, src
<1>. QED BY <1>17 DEF x

-----------------------------------------------------------------------------
(* The rows a port may answer with: all are about a new object. *)
ObjectsOfTarget(X, target) == \E o \in CognitiveObject : o.coid = target /\ X = {o}

EdgesOfTarget(X, target, seen) ==
    /\ X \subseteq LineageEdge /\ Keyed(X)
    /\ \A e \in X : e.id[1] = target /\ e.child = target /\ e.parent \in KnownIn(seen)
    /\ \A e, f \in X : e.parent = f.parent => e = f

RecordsOfTarget(X, target) ==
    /\ X \subseteq TransformationRecord
    /\ \A r \in X : r.id = target /\ r.output_refs = {target}
    /\ \A r, s \in X : r = s

HistoriesOfTarget(X, target) == \E h \in CausalHistory : h.subject = target /\ X = {h}

EventsOfTarget(X, target, seen) ==
    /\ X \subseteq CausalHistoryEvent /\ Keyed(X)
    /\ \A e \in X : /\ e.id[1] = target /\ e.subject = target
                    /\ e.predecessor # Null => \E p \in seen.events : p.id = e.predecessor

RowsOfTarget(R, target, seen) ==
    /\ DOMAIN NoRows \subseteq DOMAIN R
    /\ ObjectsOfTarget(R.objects, target) /\ EdgesOfTarget(R.edges, target, seen)
    /\ RecordsOfTarget(R.records, target) /\ HistoriesOfTarget(R.histories, target)
    /\ EventsOfTarget(R.events, target, seen)

\* the parts of what derive_many answers
MergeEdge(q, target, k) ==
    [id |-> <<target, k>>, parent |-> q.source_coids[k], child |-> target, relation_type |-> "merge"]
EventCount(q) == IF q.predecessors = <<>> THEN 1 ELSE Len(q.predecessors)
MergeEvent(q, target, k) ==
    [id |-> <<target, k>>, subject |-> target, event_type |-> "TRANSFORMED",
     predecessor |-> IF q.predecessors = <<>> THEN Null ELSE q.predecessors[k]]
ClidOfTarget(seen, q) == resolver_clid_do_alvo(seen, ToSet(q.source_coids))

LEMMA EventsInNumber ==
    ASSUME NEW q, NEW asked, CanonicalFor(q, asked)
    PROVE  /\ EventCount(q) \in 1 .. 2
           /\ q.predecessors # <<>> =>
                  EventCount(q) = Len(q.predecessors) /\ DOMAIN q.predecessors = 1 .. EventCount(q)
<1>1. PICK m \in 0 .. 2 : q.predecessors \in [1 .. m -> EventIds]
    BY DEF CanonicalFor
<1>2. Len(q.predecessors) = m /\ DOMAIN q.predecessors = 1 .. m
    BY <1>1
<1>3. m = 0 => q.predecessors = <<>>
    BY <1>1
<1>. QED BY <1>1, <1>2, <1>3 DEF EventCount

IsDerived(d, seen, q, target) ==
    /\ DOMAIN d = {"rows", "receipt"} /\ DOMAIN d.rows = DOMAIN NoRows
    /\ d.rows.objects = {[coid |-> target, clid |-> ClidOfTarget(seen, q), deleted |-> FALSE]}
    /\ d.rows.edges = {MergeEdge(q, target, k) : k \in DOMAIN q.source_coids}
    /\ d.rows.records = {[id |-> target, input_refs |-> ToSet(q.source_coids), output_refs |-> {target}]}
    /\ d.rows.histories = {[id |-> <<target, 1>>, subject |-> target]}
    /\ d.rows.events = {MergeEvent(q, target, k) : k \in 1 .. EventCount(q)}
    /\ DOMAIN d.receipt = {"source_coids", "target_coid", "target_clid", "transformation_id",
                           "lineage_edge_ids", "causal_event_ids", "predecessor_event_ids"}
    /\ d.receipt.source_coids = q.source_coids /\ d.receipt.predecessor_event_ids = q.predecessors
    /\ d.receipt.target_coid = target /\ d.receipt.target_clid = ClidOfTarget(seen, q)
    /\ d.receipt.transformation_id = target
    /\ d.receipt.lineage_edge_ids = [k \in DOMAIN q.source_coids |-> <<target, k>>]
    /\ d.receipt.causal_event_ids = [k \in 1 .. EventCount(q) |-> <<target, k>>]

LEMMA Derivation ==
    ASSUME NEW seen, NEW q, NEW target,
           NEW d, d = derive_many(seen, q, target), EventCount(q) \in 1 .. 2
    PROVE  IsDerived(d, seen, q, target)
<1>. DEFINE events == [k \in 1 .. EventCount(q) |-> MergeEvent(q, target, k)]
            edges == [k \in DOMAIN q.source_coids |-> MergeEdge(q, target, k)]
<1>1. registrar_causalidade(target, q.predecessors) = events
    BY DEF registrar_causalidade, EventCount, MergeEvent
<1>2. d = [rows |-> [objects   |-> {[coid |-> target, clid |-> ClidOfTarget(seen, q), deleted |-> FALSE]},
                     edges     |-> ToSet(edges),
                     records   |-> {[id |-> target, input_refs |-> ToSet(q.source_coids),
                                     output_refs |-> {target}]},
                     histories |-> {[id |-> events[1].id, subject |-> target]},
                     events    |-> ToSet(events)],
           receipt |-> [source_coids |-> q.source_coids, target_coid |-> target,
                        target_clid |-> ClidOfTarget(seen, q), transformation_id |-> target,
                        lineage_edge_ids |-> [k \in DOMAIN edges |-> edges[k].id],
                        causal_event_ids |-> [k \in DOMAIN events |-> events[k].id],
                        predecessor_event_ids |-> q.predecessors]]
    BY <1>1 DEF derive_many, ClidOfTarget, MergeEdge
<1>3. /\ DOMAIN events = 1 .. EventCount(q) /\ DOMAIN edges = DOMAIN q.source_coids
      /\ \A k \in 1 .. EventCount(q) : events[k] = MergeEvent(q, target, k)
      /\ \A k \in DOMAIN q.source_coids : edges[k] = MergeEdge(q, target, k)
    OBVIOUS
<1>4. \A k : MergeEvent(q, target, k).id = <<target, k>> /\ MergeEdge(q, target, k).id = <<target, k>>
    BY DEF MergeEvent, MergeEdge
<1>. HIDE DEF events, edges
<1>5. /\ ToSet(edges) = {MergeEdge(q, target, k) : k \in DOMAIN q.source_coids}
      /\ ToSet(events) = {MergeEvent(q, target, k) : k \in 1 .. EventCount(q)}
    BY <1>3 DEF ToSet
<1>6. events[1].id = <<target, 1>>
    BY <1>3, <1>4
<1>7. /\ [k \in DOMAIN edges |-> edges[k].id] = [k \in DOMAIN q.source_coids |-> <<target, k>>]
      /\ [k \in DOMAIN events |-> events[k].id] = [k \in 1 .. EventCount(q) |-> <<target, k>>]
    BY <1>3, <1>4
<1>8. DOMAIN NoRows = {"objects", "edges", "records", "histories", "events"}
    BY DEF NoRows
<1>. DEFINE rows == [objects   |-> {[coid |-> target, clid |-> ClidOfTarget(seen, q), deleted |-> FALSE]},
                     edges     |-> {MergeEdge(q, target, k) : k \in DOMAIN q.source_coids},
                     records   |-> {[id |-> target, input_refs |-> ToSet(q.source_coids),
                                     output_refs |-> {target}]},
                     histories |-> {[id |-> <<target, 1>>, subject |-> target]},
                     events    |-> {MergeEvent(q, target, k) : k \in 1 .. EventCount(q)}]
            receipt == [source_coids |-> q.source_coids, target_coid |-> target,
                        target_clid |-> ClidOfTarget(seen, q), transformation_id |-> target,
                        lineage_edge_ids |-> [k \in DOMAIN q.source_coids |-> <<target, k>>],
                        causal_event_ids |-> [k \in 1 .. EventCount(q) |-> <<target, k>>],
                        predecessor_event_ids |-> q.predecessors]
<1>9. d = [rows |-> rows, receipt |-> receipt]
    BY <1>2, <1>5, <1>6, <1>7
<1>10. /\ DOMAIN rows = DOMAIN NoRows
       /\ rows.objects = {[coid |-> target, clid |-> ClidOfTarget(seen, q), deleted |-> FALSE]}
       /\ rows.edges = {MergeEdge(q, target, k) : k \in DOMAIN q.source_coids}
       /\ rows.records = {[id |-> target, input_refs |-> ToSet(q.source_coids), output_refs |-> {target}]}
       /\ rows.histories = {[id |-> <<target, 1>>, subject |-> target]}
       /\ rows.events = {MergeEvent(q, target, k) : k \in 1 .. EventCount(q)}
    BY <1>8
<1>11. /\ DOMAIN receipt = {"source_coids", "target_coid", "target_clid", "transformation_id",
                            "lineage_edge_ids", "causal_event_ids", "predecessor_event_ids"}
       /\ receipt.source_coids = q.source_coids /\ receipt.predecessor_event_ids = q.predecessors
       /\ receipt.target_coid = target /\ receipt.target_clid = ClidOfTarget(seen, q)
       /\ receipt.transformation_id = target
       /\ receipt.lineage_edge_ids = [k \in DOMAIN q.source_coids |-> <<target, k>>]
       /\ receipt.causal_event_ids = [k \in 1 .. EventCount(q) |-> <<target, k>>]
    OBVIOUS
<1>. HIDE DEF rows, receipt
<1>12. DOMAIN d = {"rows", "receipt"} /\ d.rows = rows /\ d.receipt = receipt
    BY <1>9
<1>. QED BY <1>10, <1>11, <1>12 DEF IsDerived

(* The rows a session sees, as far as a consolidation depends on them. *)
SeenByPort(seen) ==
    /\ seen.objects \subseteq CognitiveObject
    /\ \A e \in seen.events : e.id \in EventIds /\ e.id[1] \in KnownIn(seen)

LEMMA ClidTyped ==
    ASSUME NEW seen, NEW q, seen.objects \subseteq CognitiveObject
    PROVE  ClidOfTarget(seen, q) \in Clids \cup {Null}
<1>. DEFINE clids == {o.clid : o \in {o \in seen.objects : o.coid \in ToSet(q.source_coids)}}
<1>1. clids \subseteq Clids \cup {Null}
    BY DEF CognitiveObject
<1>2. Cardinality(clids) = 1 => clids # {}
    BY FS_EmptySet
<1>. HIDE DEF clids
<1>3. (IF Cardinality(clids) = 1 THEN CHOOSE c \in clids : TRUE ELSE Null) \in Clids \cup {Null}
    BY <1>1, <1>2
<1>. QED BY <1>3 DEF ClidOfTarget, resolver_clid_do_alvo, clids

LEMMA DerivedRows ==
    ASSUME NEW seen, SeenByPort(seen), NEW q, NEW asked, CanonicalFor(q, asked),
           carregar_fontes(seen, asked), carregar_predecessores(seen, asked),
           NEW target \in Coids, target \notin KnownIn(seen)
    PROVE  RowsOfTarget(derive_many(seen, q, target).rows, target, seen)
<1>0. PICK d : d = derive_many(seen, q, target)
    OBVIOUS
<1>1. EventCount(q) \in 1 .. 2
    BY EventsInNumber
<1>2. /\ DOMAIN d.rows = DOMAIN NoRows
      /\ d.rows.objects = {[coid |-> target, clid |-> ClidOfTarget(seen, q), deleted |-> FALSE]}
      /\ d.rows.edges = {MergeEdge(q, target, k) : k \in DOMAIN q.source_coids}
      /\ d.rows.records = {[id |-> target, input_refs |-> ToSet(q.source_coids), output_refs |-> {target}]}
      /\ d.rows.histories = {[id |-> <<target, 1>>, subject |-> target]}
      /\ d.rows.events = {MergeEvent(q, target, k) : k \in 1 .. EventCount(q)}
  <2>1. IsDerived(d, seen, q, target)
      BY <1>0, <1>1, Derivation
  <2>. QED BY <2>1 DEF IsDerived
<1>3. PICK n \in 2 .. 3 : q.source_coids \in [1 .. n -> Coids]
    BY DEF CanonicalFor
<1>4. /\ DOMAIN q.source_coids = 1 .. n
      /\ \A k \in 1 .. n : q.source_coids[k] \in KnownIn(seen)
      /\ \A j, k \in 1 .. n : q.source_coids[j] = q.source_coids[k] => j = k
      /\ ToSet(q.source_coids) \subseteq Coids
  <2>1. \A k \in 1 .. n : q.source_coids[k] \in ToSet(q.source_coids)
      BY <1>3 DEF ToSet
  <2>2. ToSet(q.source_coids) \subseteq KnownIn(seen)
      BY DEF CanonicalFor, carregar_fontes, KnownIn
  <2>3. \A j, k \in 1 .. n : j < k => q.source_coids[j] < q.source_coids[k]
      BY <1>3 DEF CanonicalFor
  <2>4. \A k \in 1 .. n : q.source_coids[k] \in Int
      BY <1>3 DEF Coids
  <2>5. KnownIn(seen) \subseteq Coids
      BY DEF KnownIn, SeenByPort, CognitiveObject
  <2>. QED BY <1>3, <2>1, <2>2, <2>3, <2>4, <2>5
<1>5. ObjectsOfTarget(d.rows.objects, target)
  <2>1. ClidOfTarget(seen, q) \in Clids \cup {Null}
      BY ClidTyped DEF SeenByPort
  <2>2. [coid |-> target, clid |-> ClidOfTarget(seen, q), deleted |-> FALSE] \in CognitiveObject
      BY <2>1 DEF CognitiveObject
  <2>. QED BY <1>2, <2>2 DEF ObjectsOfTarget
<1>6. EdgesOfTarget(d.rows.edges, target, seen)
  <2>1. \A k \in 1 .. n : <<target, k>> \in EdgeIds
      BY DEF EdgeIds, Ordinals
  <2>2. \A k \in 1 .. n : /\ MergeEdge(q, target, k) \in LineageEdge
                          /\ MergeEdge(q, target, k).id = <<target, k>>
                          /\ MergeEdge(q, target, k).child = target
                          /\ MergeEdge(q, target, k).parent = q.source_coids[k]
      BY <1>3, <2>1 DEF MergeEdge, LineageEdge, LineageRelation
  <2>3. \A e \in d.rows.edges : \E k \in 1 .. n : e = MergeEdge(q, target, k)
      BY <1>2, <1>4
  <2>4. \A e, f \in d.rows.edges : e.id = f.id => e = f
      BY <2>2, <2>3
  <2>5. \A e, f \in d.rows.edges : e.parent = f.parent => e = f
      BY <1>4, <2>2, <2>3
  <2>6. \A e \in d.rows.edges : e \in LineageEdge /\ e.id[1] = target /\ e.child = target /\ e.parent \in KnownIn(seen)
      BY <1>4, <2>2, <2>3
  <2>. QED BY <2>4, <2>5, <2>6 DEF EdgesOfTarget, Keyed
<1>7. RecordsOfTarget(d.rows.records, target)
    BY <1>2, <1>4 DEF RecordsOfTarget, TransformationRecord
<1>8. HistoriesOfTarget(d.rows.histories, target)
  <2>1. [id |-> <<target, 1>>, subject |-> target] \in CausalHistory
      BY DEF CausalHistory, EventIds, Ordinals
  <2>. QED BY <1>2, <2>1 DEF HistoriesOfTarget
<1>9. EventsOfTarget(d.rows.events, target, seen)
  <2>1. \A k \in 1 .. EventCount(q) : <<target, k>> \in EventIds
      BY <1>1 DEF EventIds, Ordinals
  <2>2. \A k \in 1 .. EventCount(q) : q.predecessors # <<>> =>
            /\ q.predecessors[k] \in EventIds
            /\ \E p \in seen.events : p.id = q.predecessors[k]
    <3>1. SUFFICES ASSUME NEW k \in 1 .. EventCount(q), q.predecessors # <<>>
                   PROVE  q.predecessors[k] \in EventIds /\ \E p \in seen.events : p.id = q.predecessors[k]
        OBVIOUS
    <3>2. q.predecessors[k] \in ToSet(q.predecessors)
        BY <3>1, EventsInNumber DEF ToSet
    <3>3. \E p \in seen.events : p.id = q.predecessors[k]
        BY <3>2 DEF CanonicalFor, carregar_predecessores
    <3>. QED BY <3>3 DEF SeenByPort
  <2>3. \A k \in 1 .. EventCount(q) :
            /\ MergeEvent(q, target, k).id = <<target, k>>
            /\ MergeEvent(q, target, k).subject = target
            /\ MergeEvent(q, target, k).predecessor = IF q.predecessors = <<>> THEN Null ELSE q.predecessors[k]
      BY DEF MergeEvent
  <2>4. \A k \in 1 .. EventCount(q) : MergeEvent(q, target, k) \in CausalHistoryEvent
    <3>. TAKE k \in 1 .. EventCount(q)
    <3>1. (IF q.predecessors = <<>> THEN Null ELSE q.predecessors[k]) \in EventIds \cup {Null}
        BY <2>2
    <3>. QED BY <2>1, <3>1 DEF MergeEvent, CausalHistoryEvent, CausalEventType
  <2>5. \A e \in d.rows.events : \E k \in 1 .. EventCount(q) : e = MergeEvent(q, target, k)
      BY <1>2
  <2>6. Keyed(d.rows.events)
      BY <2>3, <2>5 DEF Keyed
  <2>7. \A e \in d.rows.events : /\ e \in CausalHistoryEvent /\ e.id[1] = target /\ e.subject = target
                                 /\ e.predecessor # Null => \E p \in seen.events : p.id = e.predecessor
    <3>. TAKE e \in d.rows.events
    <3>1. PICK k \in 1 .. EventCount(q) : e = MergeEvent(q, target, k)
        BY <2>5
    <3>. QED BY <2>2, <2>3, <2>4, <3>1
  <2>. QED BY <2>6, <2>7 DEF EventsOfTarget
<1>10. RowsOfTarget(d.rows, target, seen)
    BY <1>2, <1>5, <1>6, <1>7, <1>8, <1>9 DEF RowsOfTarget
<1>. QED BY <1>0, <1>10

(* Whatever the port answers, either the rows are about the new object or    *)
(* the receipt is not about what was asked.                                  *)
LEMMA EdgesChanged ==
    ASSUME NEW X, NEW target, NEW seen, EdgesOfTarget(X, target, seen), NEW edge \in X
    PROVE  /\ EdgesOfTarget(X \ {edge}, target, seen)
           /\ EdgesOfTarget((X \ {edge}) \cup {[edge EXCEPT !.relation_type = "branch"]}, target, seen)
<1>. DEFINE changed == [edge EXCEPT !.relation_type = "branch"]
            Y == (X \ {edge}) \cup {changed}
<1>1. /\ changed \in LineageEdge /\ changed.id = edge.id
      /\ changed.parent = edge.parent /\ changed.child = edge.child
    BY DEF EdgesOfTarget, LineageEdge, LineageRelation
<1>. HIDE DEF changed
<1>2. \A e \in Y : \/ e = changed
                   \/ e \in X /\ e # edge
    OBVIOUS
<1>. HIDE DEF Y
<1>3. Y \subseteq LineageEdge /\ Keyed(Y)
    BY <1>1, <1>2 DEF EdgesOfTarget, Keyed
<1>4. \A e \in Y : e.id[1] = target /\ e.child = target /\ e.parent \in KnownIn(seen)
    BY <1>1, <1>2 DEF EdgesOfTarget
<1>5. \A e, f \in Y : e.parent = f.parent => e = f
    BY <1>1, <1>2 DEF EdgesOfTarget
<1>6. EdgesOfTarget(Y, target, seen)
    BY <1>3, <1>4, <1>5 DEF EdgesOfTarget
<1>7. EdgesOfTarget(X \ {edge}, target, seen)
    BY DEF EdgesOfTarget, Keyed
<1>. QED BY <1>6, <1>7 DEF Y, changed

LEMMA EventsChanged ==
    ASSUME NEW X, NEW target \in Coids, NEW seen, EventsOfTarget(X, target, seen), NEW event \in X,
           \A e \in X : e.id # <<target, 4>>
    PROVE  /\ EventsOfTarget((X \ {event}) \cup {[event EXCEPT !.event_type = "COMPARED"]}, target, seen)
           /\ EventsOfTarget(X \cup {[event EXCEPT !.id = <<target, 4>>]}, target, seen)
<1>. DEFINE changed == [event EXCEPT !.event_type = "COMPARED"]
            Y == (X \ {event}) \cup {changed}
            added == [event EXCEPT !.id = <<target, 4>>]
            Z == X \cup {added}
<1>1. /\ changed \in CausalHistoryEvent /\ changed.id = event.id
      /\ changed.subject = event.subject /\ changed.predecessor = event.predecessor
    BY DEF EventsOfTarget, CausalHistoryEvent, CausalEventType
<1>0. <<target, 4>> \in EventIds /\ <<target, 4>>[1] = target
    BY DEF EventIds, Ordinals
<1>2. /\ added \in CausalHistoryEvent /\ added.id = <<target, 4>>
      /\ added.subject = event.subject /\ added.predecessor = event.predecessor
    BY <1>0 DEF EventsOfTarget, CausalHistoryEvent
<1>. HIDE DEF changed, added
<1>3. /\ \A e \in Y : \/ e = changed
                      \/ e \in X /\ e # event
      /\ \A e \in Z : e = added \/ e \in X
    OBVIOUS
<1>. HIDE DEF Y, Z
<1>4. Y \subseteq CausalHistoryEvent /\ Keyed(Y)
    BY <1>1, <1>3 DEF EventsOfTarget, Keyed
<1>5. \A e \in Y : /\ e.id[1] = target /\ e.subject = target
                   /\ e.predecessor # Null => \E p \in seen.events : p.id = e.predecessor
    BY <1>1, <1>3 DEF EventsOfTarget
<1>6. Z \subseteq CausalHistoryEvent /\ Keyed(Z)
    BY <1>2, <1>3 DEF EventsOfTarget, Keyed
<1>7. \A e \in Z : /\ e.id[1] = target /\ e.subject = target
                   /\ e.predecessor # Null => \E p \in seen.events : p.id = e.predecessor
    BY <1>0, <1>2, <1>3 DEF EventsOfTarget
<1>8. EventsOfTarget(Y, target, seen) /\ EventsOfTarget(Z, target, seen)
    BY <1>4, <1>5, <1>6, <1>7 DEF EventsOfTarget
<1>. QED BY <1>8 DEF Y, Z, changed, added

LEMMA ObjectsDeleted ==
    ASSUME NEW X, NEW target, ObjectsOfTarget(X, target)
    PROVE  ObjectsOfTarget({[o EXCEPT !.deleted = TRUE] : o \in X}, target)
<1>1. PICK o \in CognitiveObject : o.coid = target /\ X = {o}
    BY DEF ObjectsOfTarget
<1>2. {[x EXCEPT !.deleted = TRUE] : x \in X} = {[o EXCEPT !.deleted = TRUE]}
    BY <1>1
<1>3. [o EXCEPT !.deleted = TRUE] \in CognitiveObject /\ [o EXCEPT !.deleted = TRUE].coid = target
    BY <1>1 DEF CognitiveObject
<1>. QED BY <1>2, <1>3 DEF ObjectsOfTarget

Described(answer, q, target, seen) ==
    /\ RowsOfTarget(answer.rows, target, seen)
    /\ DOMAIN answer.receipt.lineage_edge_ids = DOMAIN q.source_coids

\* one table of an answer is another
LEMMA TableChanged ==
    ASSUME NEW d, DOMAIN d = {"rows", "receipt"}, DOMAIN d.rows = DOMAIN NoRows, NEW X
    PROVE  /\ [d EXCEPT !.rows.edges = X].receipt = d.receipt
           /\ [d EXCEPT !.rows.edges = X].rows = [d.rows EXCEPT !.edges = X]
           /\ [d EXCEPT !.rows.events = X].receipt = d.receipt
           /\ [d EXCEPT !.rows.events = X].rows = [d.rows EXCEPT !.events = X]
           /\ [d EXCEPT !.rows.records = X].receipt = d.receipt
           /\ [d EXCEPT !.rows.records = X].rows = [d.rows EXCEPT !.records = X]
           /\ [d EXCEPT !.rows.objects = X].receipt = d.receipt
           /\ [d EXCEPT !.rows.objects = X].rows = [d.rows EXCEPT !.objects = X]
OBVIOUS

LEMMA RowsChanged ==
    ASSUME NEW R, NEW target, NEW seen, RowsOfTarget(R, target, seen), NEW X
    PROVE  /\ EdgesOfTarget(X, target, seen) => RowsOfTarget([R EXCEPT !.edges = X], target, seen)
           /\ EventsOfTarget(X, target, seen) => RowsOfTarget([R EXCEPT !.events = X], target, seen)
           /\ RecordsOfTarget(X, target) => RowsOfTarget([R EXCEPT !.records = X], target, seen)
           /\ ObjectsOfTarget(X, target) => RowsOfTarget([R EXCEPT !.objects = X], target, seen)
BY DEF RowsOfTarget, NoRows

\* one field of a receipt is another
LEMMA ReceiptChanged ==
    ASSUME NEW d, NEW seen, NEW q, NEW target, IsDerived(d, seen, q, target), NEW X
    PROVE  /\ [d EXCEPT !.receipt.lineage_edge_ids = X].rows = d.rows
           /\ [d EXCEPT !.receipt.lineage_edge_ids = X].receipt.lineage_edge_ids = X
           /\ [d EXCEPT !.receipt.target_clid = X].rows = d.rows
           /\ [d EXCEPT !.receipt.target_clid = X].receipt.lineage_edge_ids = d.receipt.lineage_edge_ids
           /\ [d EXCEPT !.receipt.target_coid = X].rows = d.rows
           /\ [d EXCEPT !.receipt.target_coid = X].receipt.lineage_edge_ids = d.receipt.lineage_edge_ids
<1>. DEFINE fields == {"source_coids", "target_coid", "target_clid", "transformation_id",
                       "lineage_edge_ids", "causal_event_ids", "predecessor_event_ids"}
<1>1. DOMAIN d = {"rows", "receipt"} /\ DOMAIN d.receipt = fields
    BY DEF IsDerived
<1>. QED BY <1>1

LEMMA AnswersDescribed ==
    ASSUME NEW seen, SeenByPort(seen), NEW q, NEW asked, CanonicalFor(q, asked),
           carregar_fontes(seen, asked), carregar_predecessores(seen, asked),
           NEW target \in Coids, target \notin KnownIn(seen),
           NEW answer \in PortAnswers(seen, q, target), verificar_fidelidade(q, answer.receipt)
    PROVE  Described(answer, q, target, seen)
<1>1. PICK d : d = derive_many(seen, q, target)
    OBVIOUS
<1>2. PICK edge : edge = CHOOSE e \in d.rows.edges : TRUE
    OBVIOUS
<1>3. PICK event : event = CHOOSE e \in d.rows.events : TRUE
    OBVIOUS
<1>4. PICK other : other = CHOOSE o \in seen.objects : o.coid \notin ToSet(q.source_coids)
    OBVIOUS
<1>. DEFINE Clid(c) == IF c = Null THEN 1 ELSE Null
<1>5. \/ answer = d
      \/ answer = [d EXCEPT !.rows.edges =
             (d.rows.edges \ {edge}) \cup {[edge EXCEPT !.relation_type = "branch"]}]
      \/ answer = [d EXCEPT !.rows.edges = d.rows.edges \ {edge}]
      \/ answer = [d EXCEPT !.receipt.lineage_edge_ids = Reverse(d.receipt.lineage_edge_ids)]
      \/ answer = [d EXCEPT !.rows.events =
             (d.rows.events \ {event}) \cup {[event EXCEPT !.event_type = "COMPARED"]}]
      \/ answer = [d EXCEPT !.rows.events = d.rows.events \cup {[event EXCEPT !.id = <<target, 4>>]}]
      \/ answer = [d EXCEPT !.rows.records = {}]
      \/ answer = [d EXCEPT !.receipt.target_clid = Clid(d.receipt.target_clid)]
      \/ answer = [d EXCEPT !.rows.objects = {[o EXCEPT !.deleted = TRUE] : o \in d.rows.objects}]
      \/ answer = [d EXCEPT !.receipt.target_coid = other.coid]
      \/ answer = derive_many(seen, [q EXCEPT !.source_coids[1] = other.coid], target)
      \/ answer = derive_many(seen, [q EXCEPT !.predecessors = <<>>], target)
    BY <1>1, <1>2, <1>3, <1>4, ZenonT(60) DEF PortAnswers
<1>. HIDE DEF Clid
<1>6. EventCount(q) \in 1 .. 2
    BY EventsInNumber
<1>7. IsDerived(d, seen, q, target)
    BY <1>1, <1>6, Derivation
<1>8. RowsOfTarget(d.rows, target, seen)
    BY <1>1, DerivedRows
<1>9. /\ DOMAIN d = {"rows", "receipt"} /\ DOMAIN d.rows = DOMAIN NoRows
      /\ d.receipt.lineage_edge_ids = [k \in DOMAIN q.source_coids |-> <<target, k>>]
    BY <1>7 DEF IsDerived
<1>10. DOMAIN d.receipt.lineage_edge_ids = DOMAIN q.source_coids
    BY <1>9
<1>11. PICK n \in 2 .. 3 : q.source_coids \in [1 .. n -> Coids] /\ DOMAIN q.source_coids = 1 .. n
    BY DEF CanonicalFor
<1>12. edge \in d.rows.edges
  <2>1. d.rows.edges = {MergeEdge(q, target, k) : k \in DOMAIN q.source_coids}
      BY <1>7 DEF IsDerived
  <2>2. MergeEdge(q, target, 1) \in d.rows.edges
      BY <1>11, <2>1
  <2>. QED BY <1>2, <2>2
<1>13. event \in d.rows.events /\ \A e \in d.rows.events : e.id # <<target, 4>>
  <2>1. d.rows.events = {MergeEvent(q, target, k) : k \in 1 .. EventCount(q)}
      BY <1>7 DEF IsDerived
  <2>2. MergeEvent(q, target, 1) \in d.rows.events
      BY <1>6, <2>1
  <2>3. \A k \in 1 .. EventCount(q) : MergeEvent(q, target, k).id # <<target, 4>>
      BY <1>6 DEF MergeEvent
  <2>. QED BY <1>3, <2>1, <2>2, <2>3
<1>14. EdgesOfTarget(d.rows.edges, target, seen) /\ EventsOfTarget(d.rows.events, target, seen)
       /\ ObjectsOfTarget(d.rows.objects, target)
    BY <1>8 DEF RowsOfTarget
<1>15. CASE answer = d
    BY <1>8, <1>10, <1>15 DEF Described
<1>16. CASE answer = [d EXCEPT !.rows.edges =
                (d.rows.edges \ {edge}) \cup {[edge EXCEPT !.relation_type = "branch"]}]
  <2>1. PICK X : X = (d.rows.edges \ {edge}) \cup {[edge EXCEPT !.relation_type = "branch"]}
      OBVIOUS
  <2>2. EdgesOfTarget(X, target, seen)
      BY <1>12, <1>14, <2>1, EdgesChanged
  <2>3. answer.receipt = d.receipt /\ answer.rows = [d.rows EXCEPT !.edges = X]
      BY <1>9, <1>16, <2>1, TableChanged
  <2>4. RowsOfTarget(answer.rows, target, seen)
    <3>1. PICK R : R = d.rows
        OBVIOUS
    <3>2. RowsOfTarget(R, target, seen) /\ answer.rows = [R EXCEPT !.edges = X]
        BY <1>8, <2>3, <3>1
    <3>3. RowsOfTarget([R EXCEPT !.edges = X], target, seen)
        BY <2>2, <3>2, RowsChanged, Zenon
    <3>. QED BY <3>2, <3>3
  <2>. QED BY <1>10, <2>3, <2>4 DEF Described
<1>17. CASE answer = [d EXCEPT !.rows.edges = d.rows.edges \ {edge}]
  <2>1. PICK X : X = d.rows.edges \ {edge}
      OBVIOUS
  <2>2. EdgesOfTarget(X, target, seen)
      BY <1>12, <1>14, <2>1, EdgesChanged
  <2>3. answer.receipt = d.receipt /\ answer.rows = [d.rows EXCEPT !.edges = X]
      BY <1>9, <1>17, <2>1, TableChanged
  <2>4. RowsOfTarget(answer.rows, target, seen)
    <3>1. PICK R : R = d.rows
        OBVIOUS
    <3>2. RowsOfTarget(R, target, seen) /\ answer.rows = [R EXCEPT !.edges = X]
        BY <1>8, <2>3, <3>1
    <3>3. RowsOfTarget([R EXCEPT !.edges = X], target, seen)
        BY <2>2, <3>2, RowsChanged, Zenon
    <3>. QED BY <3>2, <3>3
  <2>. QED BY <1>10, <2>3, <2>4 DEF Described
<1>18. CASE answer = [d EXCEPT !.receipt.lineage_edge_ids = Reverse(d.receipt.lineage_edge_ids)]
  <2>0. PICK X : X = Reverse(d.receipt.lineage_edge_ids)
      OBVIOUS
  <2>5. answer = [d EXCEPT !.receipt.lineage_edge_ids = X]
      BY <1>18, <2>0
  <2>4. answer.rows = d.rows /\ answer.receipt.lineage_edge_ids = X
    <3>1. /\ [d EXCEPT !.receipt.lineage_edge_ids = X].rows = d.rows
          /\ [d EXCEPT !.receipt.lineage_edge_ids = X].receipt.lineage_edge_ids = X
        BY <1>7, ReceiptChanged
    <3>. QED BY <2>5, <3>1
  <2>1. answer.rows = d.rows /\ answer.receipt.lineage_edge_ids = Reverse(d.receipt.lineage_edge_ids)
      BY <2>0, <2>4
  <2>2. Len(d.receipt.lineage_edge_ids) = n
      BY <1>10, <1>11
  <2>3. DOMAIN Reverse(d.receipt.lineage_edge_ids) = 1 .. n
      BY <2>2 DEF Reverse
  <2>. QED BY <1>8, <1>11, <2>1, <2>3 DEF Described
<1>19. CASE answer = [d EXCEPT !.rows.events =
                (d.rows.events \ {event}) \cup {[event EXCEPT !.event_type = "COMPARED"]}]
  <2>1. PICK X : X = (d.rows.events \ {event}) \cup {[event EXCEPT !.event_type = "COMPARED"]}
      OBVIOUS
  <2>2. EventsOfTarget(X, target, seen)
      BY <1>13, <1>14, <2>1, EventsChanged
  <2>3. answer.receipt = d.receipt /\ answer.rows = [d.rows EXCEPT !.events = X]
      BY <1>9, <1>19, <2>1, TableChanged
  <2>4. RowsOfTarget(answer.rows, target, seen)
    <3>1. PICK R : R = d.rows
        OBVIOUS
    <3>2. RowsOfTarget(R, target, seen) /\ answer.rows = [R EXCEPT !.events = X]
        BY <1>8, <2>3, <3>1
    <3>3. RowsOfTarget([R EXCEPT !.events = X], target, seen)
        BY <2>2, <3>2, RowsChanged, Zenon
    <3>. QED BY <3>2, <3>3
  <2>. QED BY <1>10, <2>3, <2>4 DEF Described
<1>20. CASE answer = [d EXCEPT !.rows.events = d.rows.events \cup {[event EXCEPT !.id = <<target, 4>>]}]
  <2>1. PICK X : X = d.rows.events \cup {[event EXCEPT !.id = <<target, 4>>]}
      OBVIOUS
  <2>2. EventsOfTarget(X, target, seen)
      BY <1>13, <1>14, <2>1, EventsChanged
  <2>3. answer.receipt = d.receipt /\ answer.rows = [d.rows EXCEPT !.events = X]
      BY <1>9, <1>20, <2>1, TableChanged
  <2>4. RowsOfTarget(answer.rows, target, seen)
    <3>1. PICK R : R = d.rows
        OBVIOUS
    <3>2. RowsOfTarget(R, target, seen) /\ answer.rows = [R EXCEPT !.events = X]
        BY <1>8, <2>3, <3>1
    <3>3. RowsOfTarget([R EXCEPT !.events = X], target, seen)
        BY <2>2, <3>2, RowsChanged, Zenon
    <3>. QED BY <3>2, <3>3
  <2>. QED BY <1>10, <2>3, <2>4 DEF Described
<1>21. CASE answer = [d EXCEPT !.rows.records = {}]
  <2>1. RecordsOfTarget({}, target)
      BY DEF RecordsOfTarget
  <2>2. answer.receipt = d.receipt /\ answer.rows = [d.rows EXCEPT !.records = {}]
      BY <1>9, <1>21, TableChanged
  <2>4. RowsOfTarget(answer.rows, target, seen)
    <3>1. PICK R : R = d.rows
        OBVIOUS
    <3>2. RowsOfTarget(R, target, seen) /\ answer.rows = [R EXCEPT !.records = {}]
        BY <1>8, <2>2, <3>1
    <3>3. RowsOfTarget([R EXCEPT !.records = {}], target, seen)
        BY <2>1, <3>2, RowsChanged, Zenon
    <3>. QED BY <3>2, <3>3
  <2>. QED BY <1>10, <2>2, <2>4 DEF Described
<1>22. CASE answer = [d EXCEPT !.receipt.target_clid = Clid(d.receipt.target_clid)]
  <2>1. answer.rows = d.rows /\ answer.receipt.lineage_edge_ids = d.receipt.lineage_edge_ids
      BY <1>7, <1>22, ReceiptChanged
  <2>. QED BY <1>8, <1>10, <2>1 DEF Described
<1>23. CASE answer = [d EXCEPT !.rows.objects = {[o EXCEPT !.deleted = TRUE] : o \in d.rows.objects}]
  <2>1. PICK X : X = {[o EXCEPT !.deleted = TRUE] : o \in d.rows.objects}
      OBVIOUS
  <2>2. ObjectsOfTarget(X, target)
      BY <1>14, <2>1, ObjectsDeleted
  <2>3. answer.receipt = d.receipt /\ answer.rows = [d.rows EXCEPT !.objects = X]
      BY <1>9, <1>23, <2>1, TableChanged
  <2>4. RowsOfTarget(answer.rows, target, seen)
    <3>1. PICK R : R = d.rows
        OBVIOUS
    <3>2. RowsOfTarget(R, target, seen) /\ answer.rows = [R EXCEPT !.objects = X]
        BY <1>8, <2>3, <3>1
    <3>3. RowsOfTarget([R EXCEPT !.objects = X], target, seen)
        BY <2>2, <3>2, RowsChanged, Zenon
    <3>. QED BY <3>2, <3>3
  <2>. QED BY <1>10, <2>3, <2>4 DEF Described
<1>24. CASE answer = [d EXCEPT !.receipt.target_coid = other.coid]
  <2>1. answer.rows = d.rows /\ answer.receipt.lineage_edge_ids = d.receipt.lineage_edge_ids
      BY <1>7, <1>24, ReceiptChanged
  <2>. QED BY <1>8, <1>10, <2>1 DEF Described
<1>25. q = [source_coids |-> q.source_coids, predecessors |-> q.predecessors]
    BY DEF CanonicalFor
<1>26. CASE answer = derive_many(seen, [q EXCEPT !.source_coids[1] = other.coid], target)
  <2>1. PICK p : p = [q EXCEPT !.source_coids[1] = other.coid]
      OBVIOUS
  <2>2. p.predecessors = q.predecessors /\ p = [source_coids |-> p.source_coids, predecessors |-> p.predecessors]
      BY <1>25, <2>1
  <2>3. EventCount(p) \in 1 .. 2
      BY <1>6, <2>2 DEF EventCount
  <2>4. IsDerived(answer, seen, p, target)
      BY <1>26, <2>1, <2>3, Derivation
  <2>5. p.source_coids = q.source_coids
      BY <2>4 DEF IsDerived, verificar_fidelidade
  <2>6. p = q
      BY <1>25, <2>2, <2>5
  <2>7. answer = d
      BY <1>1, <1>26, <2>1, <2>6
  <2>. QED BY <1>15, <2>7
<1>27. CASE answer = derive_many(seen, [q EXCEPT !.predecessors = <<>>], target)
  <2>1. PICK p : p = [q EXCEPT !.predecessors = <<>>]
      OBVIOUS
  <2>2. p.predecessors = <<>> /\ p.source_coids = q.source_coids /\ p = [source_coids |-> p.source_coids, predecessors |-> p.predecessors]
      BY <1>25, <2>1
  <2>3. EventCount(p) \in 1 .. 2
      BY <2>2 DEF EventCount
  <2>4. IsDerived(answer, seen, p, target)
      BY <1>27, <2>1, <2>3, Derivation
  <2>5. q.predecessors = <<>>
      BY <2>2, <2>4 DEF IsDerived, verificar_fidelidade
  <2>6. p = q
      BY <1>25, <2>2, <2>5
  <2>7. answer = d
      BY <1>1, <1>27, <2>1, <2>6
  <2>. QED BY <1>15, <2>7
<1>. QED BY <1>5, <1>15, <1>16, <1>17, <1>18, <1>19, <1>20, <1>21, <1>22, <1>23, <1>24, <1>26, <1>27

-----------------------------------------------------------------------------
(* The kernel's own answer is never refused. *)
TypedEvidence(rows) ==
    /\ rows.edges \subseteq LineageEdge /\ rows.records \subseteq TransformationRecord
    /\ rows.events \subseteq CausalHistoryEvent

LEMMA EvidenceTyped ==
    ASSUME NEW rows, TypedEvidence(rows), NEW coid, RowOf(rows, coid).clid \in Clids \cup {Null}
    PROVE  AllEvidence(rows, coid) \subseteq PersistenceEvidence
<1>1. \A e \in rows.edges : e.id \in EdgeIds /\ e.parent \in Coids /\ e.child \in Coids
                            /\ e.relation_type \in LineageRelation
    BY DEF TypedEvidence, LineageEdge
<1>2. \A r \in rows.records : r.id \in Coids
    BY DEF TypedEvidence, TransformationRecord
<1>3. \A e \in rows.events : e.id \in EventIds /\ e.event_type \in CausalEventType
    BY DEF TypedEvidence, CausalHistoryEvent
<1>4. \A x \in Clids : Evidence("clid", x, Null, Null) \in PersistenceEvidence
    BY DEF Evidence, PersistenceEvidence
<1>5. \A kind \in {"lineage_parent", "lineage_child"}, id \in EdgeIds, x \in Coids, l \in LineageRelation :
          Evidence(kind, id, x, l) \in PersistenceEvidence
    BY DEF Evidence, PersistenceEvidence
<1>6. \A kind \in {"transformation_input", "transformation_output"}, id \in Coids :
          Evidence(kind, id, Null, Null) \in PersistenceEvidence
    BY DEF Evidence, PersistenceEvidence
<1>7. \A id \in EventIds, c \in CausalEventType : Evidence("causal_event", id, Null, c) \in PersistenceEvidence
    BY DEF Evidence, PersistenceEvidence
<1>8. ClidEvidence(rows, coid) \subseteq PersistenceEvidence
    BY <1>4 DEF ClidEvidence
<1>9. lineage_as_child(rows, coid) \subseteq PersistenceEvidence
    BY <1>1, <1>5 DEF lineage_as_child
<1>10. lineage_as_parent(rows, coid) \subseteq PersistenceEvidence
    BY <1>1, <1>5 DEF lineage_as_parent
<1>11. EvidenceAsInput(rows, coid) \subseteq PersistenceEvidence
    BY <1>2, <1>6 DEF EvidenceAsInput
<1>12. EvidenceAsOutput(rows, coid) \subseteq PersistenceEvidence
    BY <1>2, <1>6 DEF EvidenceAsOutput
<1>13. causal_events(rows, coid) \subseteq PersistenceEvidence
    BY <1>3, <1>7 DEF causal_events
<1>. QED BY <1>8, <1>9, <1>10, <1>11, <1>12, <1>13 DEF AllEvidence

\* nothing seen is about an object that is not seen
NothingAbout(seen, target) ==
    /\ \A o \in seen.objects : o.coid # target
    /\ \A e \in seen.edges : e.child # target
    /\ \A r \in seen.records : target \notin r.output_refs
    /\ \A e \in seen.events : e.subject # target

LEMMA DerivedEvidence ==
    ASSUME NEW seen, NEW q, NEW target, NEW d, IsDerived(d, seen, q, target), NothingAbout(seen, target),
           NEW rows, \A table \in DOMAIN NoRows : rows[table] = d.rows[table] \cup seen[table]
    PROVE  /\ RowsAbout(rows, target) # {} /\ ~ RowOf(rows, target).deleted
           /\ RowOf(rows, target).clid = ClidOfTarget(seen, q)
           /\ lineage_as_child(rows, target) = {Evidence("lineage_parent", <<target, k>>, q.source_coids[k], "merge")
                                                   : k \in DOMAIN q.source_coids}
           /\ EvidenceAsOutput(rows, target) = {Evidence("transformation_output", target, Null, Null)}
           /\ causal_events(rows, target) = {Evidence("causal_event", <<target, k>>, Null, "TRANSFORMED")
                                                : k \in 1 .. EventCount(q)}
<1>1. /\ rows.objects = d.rows.objects \cup seen.objects /\ rows.edges = d.rows.edges \cup seen.edges
      /\ rows.records = d.rows.records \cup seen.records /\ rows.events = d.rows.events \cup seen.events
    BY DEF NoRows
<1>2. /\ d.rows.objects = {[coid |-> target, clid |-> ClidOfTarget(seen, q), deleted |-> FALSE]}
      /\ d.rows.edges = {MergeEdge(q, target, k) : k \in DOMAIN q.source_coids}
      /\ d.rows.records = {[id |-> target, input_refs |-> ToSet(q.source_coids), output_refs |-> {target}]}
      /\ d.rows.events = {MergeEvent(q, target, k) : k \in 1 .. EventCount(q)}
    BY DEF IsDerived
<1>3. PICK o : o = [coid |-> target, clid |-> ClidOfTarget(seen, q), deleted |-> FALSE]
    OBVIOUS
<1>4. RowsAbout(rows, target) = {o}
    BY <1>1, <1>2, <1>3 DEF RowsAbout, NothingAbout
<1>5. RowOf(rows, target) = o
    BY <1>4 DEF RowOf
<1>6. \A k : /\ MergeEdge(q, target, k).id = <<target, k>> /\ MergeEdge(q, target, k).child = target
             /\ MergeEdge(q, target, k).parent = q.source_coids[k]
             /\ MergeEdge(q, target, k).relation_type = "merge"
    BY DEF MergeEdge
<1>7. {e \in rows.edges : e.child = target} = d.rows.edges
    BY <1>1, <1>2, <1>6 DEF NothingAbout
<1>8. lineage_as_child(rows, target) = {Evidence("lineage_parent", <<target, k>>, q.source_coids[k], "merge")
                                           : k \in DOMAIN q.source_coids}
  <2>. DEFINE Said(e) == Evidence("lineage_parent", e.id, e.parent, e.relation_type)
  <2>1. lineage_as_child(rows, target) = {Said(e) : e \in d.rows.edges}
      BY <1>7 DEF lineage_as_child
  <2>2. \A k : Said(MergeEdge(q, target, k)) = Evidence("lineage_parent", <<target, k>>, q.source_coids[k], "merge")
      BY <1>6
  <2>. HIDE DEF Said
  <2>3. {Said(e) : e \in d.rows.edges} = {Said(MergeEdge(q, target, k)) : k \in DOMAIN q.source_coids}
      BY <1>2
  <2>. QED BY <2>1, <2>2, <2>3
<1>9. EvidenceAsOutput(rows, target) = {Evidence("transformation_output", target, Null, Null)}
  <2>. DEFINE Said(r) == Evidence("transformation_output", r.id, Null, Null)
  <2>1. PICK r : r = [id |-> target, input_refs |-> ToSet(q.source_coids), output_refs |-> {target}]
      OBVIOUS
  <2>2. r.id = target /\ target \in r.output_refs
      BY <2>1
  <2>3. {x \in rows.records : target \in x.output_refs} = {r}
      BY <1>1, <1>2, <2>1, <2>2 DEF NothingAbout
  <2>4. EvidenceAsOutput(rows, target) = {Said(x) : x \in {r}}
      BY <2>3 DEF EvidenceAsOutput
  <2>5. Said(r) = Evidence("transformation_output", target, Null, Null)
      BY <2>2
  <2>. HIDE DEF Said
  <2>. QED BY <2>4, <2>5
<1>10. \A k : /\ MergeEvent(q, target, k).id = <<target, k>> /\ MergeEvent(q, target, k).subject = target
              /\ MergeEvent(q, target, k).event_type = "TRANSFORMED"
    BY DEF MergeEvent
<1>11. {e \in rows.events : e.subject = target} = d.rows.events
    BY <1>1, <1>2, <1>10 DEF NothingAbout
<1>12. causal_events(rows, target) = {Evidence("causal_event", <<target, k>>, Null, "TRANSFORMED")
                                         : k \in 1 .. EventCount(q)}
  <2>. DEFINE Said(e) == Evidence("causal_event", e.id, Null, e.event_type)
  <2>1. causal_events(rows, target) = {Said(e) : e \in d.rows.events}
      BY <1>11 DEF causal_events
  <2>2. \A k : Said(MergeEvent(q, target, k)) = Evidence("causal_event", <<target, k>>, Null, "TRANSFORMED")
      BY <1>10
  <2>. HIDE DEF Said
  <2>3. {Said(e) : e \in d.rows.events} = {Said(MergeEvent(q, target, k)) : k \in 1 .. EventCount(q)}
      BY <1>2
  <2>. QED BY <2>1, <2>2, <2>3
<1>. QED BY <1>3, <1>4, <1>5, <1>8, <1>9, <1>12

LEMMA DeriveVerified ==
    ASSUME NEW seen, SeenByPort(seen), TypedEvidence(seen),
           NEW q, NEW asked, CanonicalFor(q, asked), carregar_fontes(seen, asked),
           carregar_predecessores(seen, asked),
           NEW target \in Coids, target \notin KnownIn(seen), NothingAbout(seen, target),
           NEW d, d = derive_many(seen, q, target),
           NEW rows, \A table \in DOMAIN NoRows : rows[table] = d.rows[table] \cup seen[table]
    PROVE  Verified(rows, q, d.receipt)
<1>. DEFINE a == assess(rows, target)
            lineage == lineage_as_child(rows, target)
            causal == causal_events(rows, target)
<1>1. EventCount(q) \in 1 .. 2
    BY EventsInNumber
<1>2. IsDerived(d, seen, q, target)
    BY <1>1, Derivation
<1>3. PICK n \in 2 .. 3 : q.source_coids \in [1 .. n -> Coids]
    BY DEF CanonicalFor
<1>4. PICK m \in 1 .. 2 : m = EventCount(q)
    BY <1>1
<1>5. /\ RowsAbout(rows, target) # {} /\ ~ RowOf(rows, target).deleted
      /\ RowOf(rows, target).clid = ClidOfTarget(seen, q)
      /\ lineage = {Evidence("lineage_parent", <<target, k>>, q.source_coids[k], "merge") : k \in 1 .. n}
      /\ EvidenceAsOutput(rows, target) = {Evidence("transformation_output", target, Null, Null)}
      /\ causal = {Evidence("causal_event", <<target, k>>, Null, "TRANSFORMED") : k \in 1 .. m}
  <2>1. DOMAIN q.source_coids = 1 .. n
      BY <1>3
  <2>2. /\ RowsAbout(rows, target) # {} /\ ~ RowOf(rows, target).deleted
        /\ RowOf(rows, target).clid = ClidOfTarget(seen, q)
        /\ lineage_as_child(rows, target) = {Evidence("lineage_parent", <<target, k>>, q.source_coids[k], "merge")
                                                : k \in DOMAIN q.source_coids}
        /\ EvidenceAsOutput(rows, target) = {Evidence("transformation_output", target, Null, Null)}
        /\ causal_events(rows, target) = {Evidence("causal_event", <<target, k>>, Null, "TRANSFORMED")
                                             : k \in 1 .. EventCount(q)}
      BY <1>2, DerivedEvidence
  <2>. QED BY <1>4, <2>1, <2>2
<1>6. /\ d.receipt.source_coids = q.source_coids /\ d.receipt.predecessor_event_ids = q.predecessors
      /\ d.receipt.target_coid = target /\ d.receipt.target_clid = ClidOfTarget(seen, q)
      /\ d.receipt.transformation_id = target
      /\ d.receipt.lineage_edge_ids = [k \in 1 .. n |-> <<target, k>>]
      /\ d.receipt.causal_event_ids = [k \in 1 .. m |-> <<target, k>>]
    BY <1>2, <1>3, <1>4 DEF IsDerived
<1>. HIDE DEF a, lineage, causal
<1>7. PICK r : r = d.receipt
    OBVIOUS
<1>8. PICK src : src = q.source_coids
    OBVIOUS
<1>9. /\ src \in [1 .. n -> Coids] /\ DOMAIN src = 1 .. n /\ Len(src) = n
      /\ ToSet(src) = {src[k] : k \in 1 .. n}
      /\ \A j, k \in 1 .. n : j < k => src[j] < src[k]
    BY <1>3, <1>8 DEF CanonicalFor, ToSet
<1>10. PICK ids : ids = [k \in 1 .. n |-> <<target, k>>]
    OBVIOUS
<1>11. PICK causes : causes = [k \in 1 .. m |-> <<target, k>>]
    OBVIOUS
<1>12. /\ r.source_coids = src /\ r.predecessor_event_ids = q.predecessors
       /\ r.target_coid = target /\ r.target_clid = ClidOfTarget(seen, q) /\ r.transformation_id = target
       /\ r.lineage_edge_ids = ids /\ r.causal_event_ids = causes
    BY <1>6, <1>7, <1>8, <1>10, <1>11
<1>. DEFINE Line(k) == Evidence("lineage_parent", <<target, k>>, src[k], "merge")
            Cause(k) == Evidence("causal_event", <<target, k>>, Null, "TRANSFORMED")
<1>13. lineage = {Line(k) : k \in 1 .. n} /\ causal = {Cause(k) : k \in 1 .. m}
    BY <1>5, <1>8
<1>14. /\ \A k : /\ Line(k).reference = <<target, k>> /\ Line(k).related_coid = src[k]
                 /\ Line(k).qualifier = "merge"
       /\ \A k : Cause(k).reference = <<target, k>> /\ Cause(k).qualifier = "TRANSFORMED"
    BY EvidenceFields
<1>. HIDE DEF Line, Cause
<1>15. Cardinality(lineage) = n
  <2>. DEFINE s == [k \in 1 .. n |-> Line(k)]
  <2>1. s \in [1 .. n -> lineage] /\ \A k \in 1 .. n : s[k] = Line(k)
      BY <1>13
  <2>. HIDE DEF s
  <2>2. \A j, k \in 1 .. n : s[j] = s[k] => j = k
    <3>. TAKE j, k \in 1 .. n
    <3>. HAVE s[j] = s[k]
    <3>1. <<target, j>> = <<target, k>>
        BY <1>14, <2>1
    <3>. QED BY <3>1
  <2>3. {s[k] : k \in 1 .. n} = lineage
      BY <1>13, <2>1
  <2>4. n \in Nat
      OBVIOUS
  <2>5. Cardinality({s[k] : k \in 1 .. n}) = n
      BY <2>1, <2>2, <2>4, OnceEach
  <2>. QED BY <2>3, <2>5
<1>16. Cardinality(causal) = m
  <2>. DEFINE s == [k \in 1 .. m |-> Cause(k)]
  <2>1. s \in [1 .. m -> causal] /\ \A k \in 1 .. m : s[k] = Cause(k)
      BY <1>13
  <2>. HIDE DEF s
  <2>2. \A j, k \in 1 .. m : s[j] = s[k] => j = k
    <3>. TAKE j, k \in 1 .. m
    <3>. HAVE s[j] = s[k]
    <3>1. <<target, j>> = <<target, k>>
        BY <1>14, <2>1
    <3>. QED BY <3>1
  <2>3. {s[k] : k \in 1 .. m} = causal
      BY <1>13, <2>1
  <2>4. m \in Nat
      OBVIOUS
  <2>5. Cardinality({s[k] : k \in 1 .. m}) = m
      BY <2>1, <2>2, <2>4, OnceEach
  <2>. QED BY <2>3, <2>5
<1>17. /\ Len(ids) = n /\ DOMAIN ids = 1 .. n /\ ToSet(ids) = {<<target, k>> : k \in 1 .. n} /\ Distinct(ids)
       /\ Len(causes) = m /\ ToSet(causes) = {<<target, k>> : k \in 1 .. m} /\ Distinct(causes)
  <2>1. n \in Nat /\ m \in Nat
      OBVIOUS
  <2>2. /\ ids \in [1 .. n -> EdgeIds] /\ \A k \in 1 .. n : ids[k] = <<target, k>>
        /\ causes \in [1 .. m -> EdgeIds] /\ \A k \in 1 .. m : causes[k] = <<target, k>>
      BY <1>10, <1>11 DEF EdgeIds, Ordinals
  <2>3. /\ \A j, k \in 1 .. n : ids[j] = ids[k] => j = k
        /\ \A j, k \in 1 .. m : causes[j] = causes[k] => j = k
      BY <2>2
  <2>4. Len(ids) = n /\ DOMAIN ids = 1 .. n /\ Distinct(ids)
      BY <2>1, <2>2, <2>3, OnceEach
  <2>5. Len(causes) = m /\ DOMAIN causes = 1 .. m /\ Distinct(causes)
      BY <2>1, <2>2, <2>3, OnceEach
  <2>6. ToSet(ids) = {<<target, k>> : k \in 1 .. n}
      BY <2>2, <2>4 DEF ToSet
  <2>7. ToSet(causes) = {<<target, k>> : k \in 1 .. m}
      BY <2>2, <2>5 DEF ToSet
  <2>. QED BY <2>4, <2>5, <2>6, <2>7
<1>18. /\ a.coid = target /\ a.evidence = AllEvidence(rows, target)
       /\ a.clid = RowOf(rows, target).clid /\ a.subject_deleted = RowOf(rows, target).deleted
       /\ a.outcome = IF AllEvidence(rows, target) = {} THEN "no_recorded_continuity_evidence"
                      ELSE "recorded_continuity_evidence"
       /\ evidence_of(a, "clid") = ClidEvidence(rows, target)
       /\ evidence_of(a, "lineage_parent") = lineage
       /\ evidence_of(a, "transformation_output") = EvidenceAsOutput(rows, target)
       /\ evidence_of(a, "causal_event") = causal
    BY <1>5, Assessed DEF a, lineage, causal
<1>19. AllEvidence(rows, target) # {}
  <2>1. Line(1) \in lineage
      BY <1>13
  <2>. QED BY <2>1 DEF AllEvidence, lineage
<1>20. validate_coherence(a)
  <2>1. TypedEvidence(rows)
    <3>1. RowsOfTarget(d.rows, target, seen)
        BY DerivedRows
    <3>2. /\ rows.edges = d.rows.edges \cup seen.edges /\ rows.records = d.rows.records \cup seen.records
          /\ rows.events = d.rows.events \cup seen.events
        BY DEF NoRows
    <3>. QED BY <3>1, <3>2 DEF RowsOfTarget, EdgesOfTarget, RecordsOfTarget, EventsOfTarget, TypedEvidence
  <2>2. RowOf(rows, target).clid \in Clids \cup {Null}
      BY <1>5, ClidTyped DEF SeenByPort
  <2>3. AllEvidence(rows, target) \subseteq PersistenceEvidence
      BY <2>1, <2>2, EvidenceTyped
  <2>. QED BY <1>18, <1>19, <2>3 DEF validate_coherence
<1>21. validate_clid_coherence(a)
  <2>1. \A x : Evidence("clid", x, Null, Null).reference = x
      BY EvidenceFields
  <2>. QED BY <1>18, <2>1 DEF validate_clid_coherence, ClidEvidence
<1>22. verificar_fidelidade(q, r)
    BY <1>8, <1>12 DEF verificar_fidelidade
<1>23. verificar_coerencia_consolidacao(r, a)
  <2>1. /\ a.outcome = "recorded_continuity_evidence" /\ ~ a.subject_deleted /\ a.clid = r.target_clid
      BY <1>5, <1>12, <1>18, <1>19
  <2>2. Cardinality(lineage) = Len(src) /\ Cardinality(causal) = Len(causes)
      BY <1>9, <1>15, <1>16, <1>17
  <2>3. /\ {e.related_coid : e \in lineage} = ToSet(src) /\ {e.reference : e \in lineage} = ToSet(ids)
        /\ \A e \in lineage : e.qualifier = "merge"
    <3>1. {e.related_coid : e \in lineage} = {src[k] : k \in 1 .. n}
        BY <1>13, <1>14
    <3>2. {e.reference : e \in lineage} = {<<target, k>> : k \in 1 .. n}
      <4>. DEFINE Name(k) == <<target, k>>
      <4>1. \A k : Line(k).reference = Name(k)
          BY <1>14
      <4>. HIDE DEF Name
      <4>2. {e.reference : e \in lineage} = {Name(k) : k \in 1 .. n}
          BY <1>13, <4>1
      <4>. QED BY <4>2 DEF Name
    <3>3. \A e \in lineage : e.qualifier = "merge"
        BY <1>13, <1>14
    <3>. QED BY <1>9, <1>17, <3>1, <3>2, <3>3
  <2>4. {e.reference : e \in causal} = ToSet(causes) /\ \A e \in causal : e.qualifier = "TRANSFORMED"
    <3>1. {e.reference : e \in causal} = {<<target, k>> : k \in 1 .. m}
      <4>. DEFINE Name(k) == <<target, k>>
      <4>1. \A k : Cause(k).reference = Name(k)
          BY <1>14
      <4>. HIDE DEF Name
      <4>2. {e.reference : e \in causal} = {Name(k) : k \in 1 .. m}
          BY <1>13, <4>1
      <4>. QED BY <4>2 DEF Name
    <3>2. \A e \in causal : e.qualifier = "TRANSFORMED"
        BY <1>13, <1>14
    <3>. QED BY <1>17, <3>1, <3>2
  <2>5. {e.reference : e \in EvidenceAsOutput(rows, target)} = {target}
      BY <1>5, EvidenceFields
  <2>6. Pairing(r, lineage)
    <3>1. SUFFICES ASSUME NEW k \in 1 .. n, NEW e \in lineage, e.reference = ids[k]
                   PROVE  e.related_coid = src[k]
        BY <1>9, <1>12, <1>17 DEF Pairing
    <3>2. PICK j \in 1 .. n : e = Line(j)
        BY <1>13
    <3>3. <<target, j>> = <<target, k>>
        BY <1>10, <1>14, <3>1, <3>2
    <3>4. j = k
        BY <3>3
    <3>. QED BY <1>14, <3>2, <3>4
  <2>. QED BY <1>12, <1>18, <2>1, <2>2, <2>3, <2>4, <2>5, <2>6 DEF verificar_coerencia_consolidacao
<1>24. validar_estrutura(r)
  <2>1. Distinct(src)
    <3>1. \A k \in 1 .. n : src[k] \in Int
        BY <1>9 DEF Coids
    <3>2. \A j, k \in 1 .. n : src[j] = src[k] => j = k
        BY <1>9, <3>1
    <3>3. n \in Nat
        OBVIOUS
    <3>. QED BY <1>9, <3>2, <3>3, SequenceElements, DistinctElements
  <2>2. target \notin ToSet(src)
      BY <1>8 DEF CanonicalFor, carregar_fontes, KnownIn
  <2>3. Distinct(q.predecessors)
    <3>1. PICK p \in 0 .. 2 : q.predecessors \in [1 .. p -> EventIds]
        BY DEF CanonicalFor
    <3>2. \A j, k \in 1 .. p : q.predecessors[j] = q.predecessors[k] => j = k
        BY <3>1 DEF CanonicalFor
    <3>3. p \in Nat
        OBVIOUS
    <3>. QED BY <3>1, <3>2, <3>3, SequenceElements, DistinctElements
  <2>4. causes # <<>>
      BY <1>17
  <2>5. Len(causes) = IF q.predecessors = <<>> THEN 1 ELSE Len(q.predecessors)
      BY <1>4, <1>17 DEF EventCount
  <2>. QED BY <1>9, <1>12, <1>17, <2>1, <2>2, <2>3, <2>4, <2>5 DEF validar_estrutura
<1>. QED BY <1>7, <1>12, <1>20, <1>21, <1>22, <1>23, <1>24 DEF Verified, a

-----------------------------------------------------------------------------
(* What the constructors let through the tables accept. *)
LEMMA KindsInOrder ==
    /\ EvidenceKind = {"causal_event", "cognitive_object", "provenance_record", "transformation_record"}
    /\ Rank("causal_event") = 1 /\ Rank("cognitive_object") = 2
    /\ Rank("provenance_record") = 3 /\ Rank("transformation_record") = 4
<1>1. /\ DOMAIN EvidenceKindOrder = 1 .. 4
      /\ EvidenceKindOrder[1] = "causal_event" /\ EvidenceKindOrder[2] = "cognitive_object"
      /\ EvidenceKindOrder[3] = "provenance_record" /\ EvidenceKindOrder[4] = "transformation_record"
    BY DEF EvidenceKindOrder
<1>2. EvidenceKind = {"causal_event", "cognitive_object", "provenance_record", "transformation_record"}
    BY <1>1 DEF EvidenceKind
<1>3. \A k \in 1 .. 4 : k = 1 \/ k = 2 \/ k = 3 \/ k = 4
    OBVIOUS
<1>4. Rank("causal_event") = 1
    BY <1>1, <1>3 DEF Rank
<1>5. Rank("cognitive_object") = 2
    BY <1>1, <1>3 DEF Rank
<1>6. Rank("provenance_record") = 3
    BY <1>1, <1>3 DEF Rank
<1>7. Rank("transformation_record") = 4
    BY <1>1, <1>3 DEF Rank
<1>. QED BY <1>2, <1>4, <1>5, <1>6, <1>7

LEMMA EvidenceOrdered ==
    ASSUME NEW e \in EvidenceReference, NEW f \in EvidenceReference, e # f, ~ Precedes(f, e)
    PROVE  Precedes(e, f)
<1>1. e.kind \in EvidenceKind /\ f.kind \in EvidenceKind /\ e.ref \in Nat /\ f.ref \in Nat
    BY ValidatedExperienceAssumption DEF EvidenceReference, ValidatedExperienceAssumption
<1>2. CASE e.kind = f.kind
  <2>1. e.ref # f.ref
      BY <1>2 DEF EvidenceReference
  <2>. QED BY <1>1, <1>2, <2>1 DEF Precedes
<1>3. CASE e.kind # f.kind
  <2>1. Rank(e.kind) \in Int /\ Rank(f.kind) \in Int /\ Rank(e.kind) # Rank(f.kind)
      BY <1>1, <1>3, KindsInOrder
  <2>. QED BY <2>1 DEF Precedes
<1>. QED BY <1>2, <1>3

LEMMA CanonicalEvidence ==
    ASSUME NEW refs \in Seq([kind : STRING, ref : Nat]), canonizar(refs),
           NEW primary, ListsEvidence(refs, primary)
    PROVE  evidence_is_canonical(refs, primary)
<1>1. PICK n \in Nat : n = Len(refs)
    OBVIOUS
<1>2. refs \in [1 .. n -> [kind : STRING, ref : Nat]] /\ DOMAIN refs = 1 .. n
  <2>1. PICK S : S = [kind : STRING, ref : Nat]
      OBVIOUS
  <2>2. refs \in Seq(S)
      BY <2>1
  <2>3. refs \in [1 .. Len(refs) -> S] /\ DOMAIN refs = 1 .. Len(refs)
      BY <2>2
  <2>. QED BY <1>1, <2>1, <2>3
<1>3. /\ refs # <<>> /\ \A k \in 1 .. n : refs[k] \in EvidenceReference
      /\ Cardinality({refs[k] : k \in 1 .. n}) = n
      /\ \A j, k \in 1 .. n : j < k => ~ Precedes(refs[k], refs[j])
    BY <1>1, <1>2 DEF canonizar
<1>4. \A j, k \in 1 .. n : refs[j] = refs[k] => j = k
  <2>1. PICK S : refs \in [1 .. n -> S]
      BY <1>2
  <2>2. Cardinality({refs[k] : k \in 1 .. n}) = n <=> \A j, k \in 1 .. n : refs[j] = refs[k] => j = k
      BY <2>1, Counted
  <2>. QED BY <1>3, <2>2
<1>5. \A k \in 2 .. n : Precedes(refs[k - 1], refs[k])
  <2>. TAKE k \in 2 .. n
  <2>1. k \in 1 .. n /\ k - 1 \in 1 .. n /\ k - 1 < k /\ k - 1 # k
      OBVIOUS
  <2>2. refs[k - 1] # refs[k] /\ ~ Precedes(refs[k], refs[k - 1])
      BY <1>3, <1>4, <2>1
  <2>. QED BY <1>3, <2>1, <2>2, EvidenceOrdered
<1>. QED BY <1>1, <1>2, <1>3, <1>5 DEF evidence_is_canonical

LEMMA RowAccepted ==
    ASSUME NEW e \in Entries, ValidatedExperienceAppend(e), NEW r, r = Materializar(e), FitsColumn(r)
    PROVE  /\ r.subject_kind \in ExperienceSubjectKind
           /\ r.primary_evidence_kind \in EvidenceKind
           /\ r.validator_kind \in ValidatorKind
           /\ r.criterion_origin \in CriterionOriginKind
           /\ {r.validator_ref, r.criterion_key, r.outcome_token} \cap BlankTexts = {}
           /\ r.criterion_version \in 1 .. MaxInteger
           /\ r.observed_at <= r.validated_at
           /\ evidence_is_canonical(r.evidence_refs,
                                    [kind |-> r.primary_evidence_kind,
                                     ref |-> r.primary_evidence_ref])
<1>1. /\ r.subject_kind = e.subject_ref.kind
      /\ r.outcome_token = e.outcome_observed.outcome_token
      /\ r.observed_at = e.outcome_observed.observed_at
      /\ r.primary_evidence_kind = e.outcome_observed.primary_evidence_ref.kind
      /\ r.primary_evidence_ref = e.outcome_observed.primary_evidence_ref.ref
      /\ r.validator_kind = e.validated_by.validator_kind
      /\ r.validator_ref = e.validated_by.validator_ref
      /\ r.criterion_key = e.criterion_ref.criterion_key
      /\ r.criterion_version = e.criterion_ref.criterion_version
      /\ r.criterion_origin = e.criterion_ref.criterion_origin
      /\ r.evidence_refs = e.evidence_refs /\ r.validated_at = e.validated_at
    BY DEF Materializar
<1>2. e.subject_ref.kind \in ExperienceSubjectKind
    BY DEF ValidatedExperienceAppend, ExperienceSubjectRef
<1>3. /\ e.outcome_observed.outcome_token \in Tokens
      /\ e.outcome_observed.primary_evidence_ref \in EvidenceReference
    BY DEF ValidatedExperienceAppend, ObservedOutcome
<1>4. e.validated_by.validator_kind \in ValidatorKind /\ e.validated_by.validator_ref \in Texts \ BlankTexts
    BY DEF ValidatedExperienceAppend, AttributedValidator
<1>5. /\ e.criterion_ref.criterion_key \in Texts \ BlankTexts
      /\ e.criterion_ref.criterion_version \in Nat \ {0}
      /\ e.criterion_ref.criterion_origin \in CriterionOriginKind
    BY DEF ValidatedExperienceAppend, CriterionReference
<1>6. PICK primary \in EvidenceReference : primary = e.outcome_observed.primary_evidence_ref
    BY <1>3
<1>7. primary.kind \in EvidenceKind /\ [kind |-> primary.kind, ref |-> primary.ref] = primary
    BY DEF EvidenceReference
<1>8. evidence_is_canonical(e.evidence_refs, primary)
  <2>1. e.evidence_refs \in Seq([kind : STRING, ref : Nat])
      BY ContinuityAssumption DEF ContinuityAssumption
  <2>2. canonizar(e.evidence_refs) /\ ListsEvidence(e.evidence_refs, primary)
      BY <1>6 DEF ValidatedExperienceAppend
  <2>. QED BY <2>1, <2>2, CanonicalEvidence
<1>9. e.outcome_observed.observed_at <= e.validated_at
    BY DEF ValidatedExperienceAppend
<1>10. Tokens \cap BlankTexts = {}
    BY ValidatedExperienceAssumption DEF ValidatedExperienceAssumption
<1>11. {r.validator_ref, r.criterion_key, r.outcome_token} \cap BlankTexts = {}
    BY <1>1, <1>3, <1>4, <1>5, <1>10
<1>12. r.criterion_version \in 1 .. MaxInteger
  <2>1. r.criterion_version \in Nat \ {0} /\ r.criterion_version <= MaxInteger
      BY <1>1, <1>5 DEF FitsColumn
  <2>2. MaxInteger \in Nat
      BY ValidatedExperienceAssumption DEF ValidatedExperienceAssumption
  <2>. QED BY <2>1, <2>2
<1>. QED BY <1>1, <1>2, <1>4, <1>5, <1>6, <1>7, <1>8, <1>9, <1>11, <1>12

LEMMA RowsAccepted ==
    ASSUME NEW rows, TypedRows(rows), UniqueRows(rows), RefersTo(rows, rows)
    PROVE  Committable(rows)
<1>1. ExperienceTableAccepts(rows.experiences)
  <2>1. \A r, s \in rows.experiences : r.id = s.id => r = s
      BY DEF UniqueRows, Keyed
  <2>2. \A r \in rows.experiences :
            FitsColumn(r) /\ \E e \in Entries : ValidatedExperienceAppend(e) /\ r = Materializar(e)
      BY DEF TypedRows
  <2>. QED BY <2>1, <2>2, RowAccepted DEF ExperienceTableAccepts
<1>2. \A o, p \in rows.objects : o.coid = p.coid => o = p
    BY DEF UniqueRows
<1>3. Keyed(rows.edges) /\ Keyed(rows.records) /\ Keyed(rows.events)
    BY DEF UniqueRows
<1>4. \A e \in rows.edges : e.parent # e.child /\ {e.parent, e.child} \subseteq {o.coid : o \in rows.objects}
    BY DEF RefersTo, KnownIn
<1>5. \A e, f \in rows.edges : [e EXCEPT !.id = Null] = [f EXCEPT !.id = Null] => e = f
  <2>. TAKE e, f \in rows.edges
  <2>. HAVE [e EXCEPT !.id = Null] = [f EXCEPT !.id = Null]
  <2>1. e \in LineageEdge /\ f \in LineageEdge
      BY DEF TypedRows
  <2>2. /\ [e EXCEPT !.id = Null].parent = e.parent /\ [f EXCEPT !.id = Null].parent = f.parent
        /\ [e EXCEPT !.id = Null].child = e.child /\ [f EXCEPT !.id = Null].child = f.child
      BY <2>1 DEF LineageEdge
  <2>3. e.parent = f.parent /\ e.child = f.child
      BY <2>2
  <2>. QED BY <2>3 DEF UniqueRows
<1>6. \A h \in rows.histories : h.subject \in {o.coid : o \in rows.objects}
    BY DEF RefersTo, KnownIn
<1>7. \A h, g \in rows.histories : h.subject = g.subject => h = g
    BY DEF UniqueRows
<1>8. \A e \in rows.events :
          /\ \E h \in rows.histories : h.subject = e.subject
          /\ e.predecessor # Null =>
                 e.predecessor # e.id /\ \E p \in rows.events : p.id = e.predecessor
    BY DEF RefersTo
<1>9. TablesAccept(rows)
    BY <1>2, <1>3, <1>4, <1>5, <1>6, <1>7, <1>8 DEF TablesAccept
<1>. QED BY <1>1, <1>9 DEF Committable

-----------------------------------------------------------------------------
(* Rows put together. *)
Within(a, b)   == \A table \in Tables : a[table] \subseteq b[table]
Added(rows, R) == [table \in Tables |-> rows[table] \cup R[table]]

LEMMA TablesAre ==
    /\ Tables = {"objects", "edges", "records", "histories", "events", "experiences"}
    /\ DOMAIN NoRows = {"objects", "edges", "records", "histories", "events"}
    /\ DOMAIN Empty = Tables /\ \A table \in Tables : Empty[table] = {}
<1>1. DOMAIN NoRows = {"objects", "edges", "records", "histories", "events"}
    BY DEF NoRows
<1>2. Tables = {"objects", "edges", "records", "histories", "events", "experiences"}
    BY <1>1 DEF Tables
<1>3. DOMAIN Empty = Tables /\ \A table \in Tables : Empty[table] = {}
    BY DEF Empty
<1>. QED BY <1>1, <1>2, <1>3

LEMMA WithinTables ==
    ASSUME NEW a, NEW b, Within(a, b)
    PROVE  /\ a.objects \subseteq b.objects /\ a.edges \subseteq b.edges /\ a.records \subseteq b.records
           /\ a.histories \subseteq b.histories /\ a.events \subseteq b.events
           /\ a.experiences \subseteq b.experiences
           /\ KnownIn(a) \subseteq KnownIn(b)
<1>1. /\ a.objects \subseteq b.objects /\ a.edges \subseteq b.edges /\ a.records \subseteq b.records
      /\ a.histories \subseteq b.histories /\ a.events \subseteq b.events
      /\ a.experiences \subseteq b.experiences
    BY TablesAre DEF Within
<1>. QED BY <1>1 DEF KnownIn

LEMMA WithinInherits ==
    ASSUME NEW a, NEW b, Within(a, b), TypedRows(b), UniqueRows(b)
    PROVE  TypedRows(a) /\ UniqueRows(a)
<1>1. /\ a.objects \subseteq b.objects /\ a.edges \subseteq b.edges /\ a.records \subseteq b.records
      /\ a.histories \subseteq b.histories /\ a.events \subseteq b.events
      /\ a.experiences \subseteq b.experiences
    BY WithinTables
<1>2. TypedRows(a)
    BY <1>1 DEF TypedRows
<1>3. UniqueRows(a)
    BY <1>1 DEF UniqueRows, Keyed
<1>. QED BY <1>2, <1>3

LEMMA AddedTables ==
    ASSUME NEW a, NEW b
    PROVE  /\ DOMAIN Added(a, b) = Tables /\ Within(a, Added(a, b)) /\ Within(b, Added(a, b))
           /\ Added(a, b).objects = a.objects \cup b.objects /\ Added(a, b).edges = a.edges \cup b.edges
           /\ Added(a, b).records = a.records \cup b.records
           /\ Added(a, b).histories = a.histories \cup b.histories
           /\ Added(a, b).events = a.events \cup b.events
           /\ Added(a, b).experiences = a.experiences \cup b.experiences
           /\ KnownIn(Added(a, b)) = KnownIn(a) \cup KnownIn(b)
<1>1. DOMAIN Added(a, b) = Tables /\ Within(a, Added(a, b)) /\ Within(b, Added(a, b))
    BY DEF Added, Within
<1>2. /\ Added(a, b).objects = a.objects \cup b.objects /\ Added(a, b).edges = a.edges \cup b.edges
      /\ Added(a, b).records = a.records \cup b.records
      /\ Added(a, b).histories = a.histories \cup b.histories
      /\ Added(a, b).events = a.events \cup b.events
      /\ Added(a, b).experiences = a.experiences \cup b.experiences
    BY TablesAre DEF Added
<1>3. KnownIn(Added(a, b)) = KnownIn(a) \cup KnownIn(b)
    BY <1>2 DEF KnownIn
<1>. QED BY <1>1, <1>2, <1>3

\* what a session sees are the committed rows and its own
LEMMA JoinedIsAdded ==
    ASSUME NEW committed, DOMAIN committed = Tables, NEW mine
    PROVE  Joined(committed, mine) = Added(committed, mine)
BY DEF Joined, Added

LEMMA RefersKept ==
    ASSUME NEW rows, NEW seen, NEW more, RefersTo(rows, seen), Within(seen, more)
    PROVE  RefersTo(rows, more)
<1>1. /\ KnownIn(seen) \subseteq KnownIn(more) /\ seen.histories \subseteq more.histories
      /\ seen.events \subseteq more.events
    BY WithinTables
<1>. QED BY <1>1 DEF RefersTo

LEMMA RefersTogether ==
    ASSUME NEW a, NEW b, NEW seen, RefersTo(a, seen), RefersTo(b, seen)
    PROVE  RefersTo(Added(a, b), seen)
<1>. DEFINE c == Added(a, b)
<1>1. /\ c.edges = a.edges \cup b.edges /\ c.records = a.records \cup b.records
      /\ c.histories = a.histories \cup b.histories /\ c.events = a.events \cup b.events
      /\ KnownIn(c) = KnownIn(a) \cup KnownIn(b)
    BY AddedTables
<1>. HIDE DEF c
<1>2. \A e \in c.edges : e.parent # e.child /\ e.parent \in KnownIn(seen) /\ e.child \in KnownIn(c)
    BY <1>1 DEF RefersTo
<1>3. \A r \in c.records : r.id \in KnownIn(c)
    BY <1>1 DEF RefersTo
<1>4. \A h \in c.histories : h.subject \in KnownIn(seen)
    BY <1>1 DEF RefersTo
<1>5. \A e \in c.events :
          /\ \E h \in seen.histories : h.subject = e.subject
          /\ e.predecessor # Null =>
                 e.predecessor # e.id /\ \E p \in seen.events : p.id = e.predecessor
    BY <1>1 DEF RefersTo
<1>6. RefersTo(c, seen)
    BY <1>2, <1>3, <1>4, <1>5 DEF RefersTo
<1>. QED BY <1>6 DEF c

(* Rows grow without a new edge or record about what they already hold. *)
Extends(rows, more) ==
    /\ Within(rows, more)
    /\ \A e \in more.edges : e \in rows.edges \/ e.child \notin KnownIn(rows)
    /\ \A r \in more.records : r \in rows.records \/ r.output_refs \cap KnownIn(rows) = {}

LEMMA WholeKept ==
    ASSUME NEW rows, NEW more, Extends(rows, more), NEW x, Whole(rows, x)
    PROVE  Whole(more, x)
<1>. DEFINE target == x.receipt.target_coid
<1>1. /\ rows.objects \subseteq more.objects /\ rows.edges \subseteq more.edges
      /\ rows.records \subseteq more.records /\ rows.events \subseteq more.events
    BY WithinTables DEF Extends
<1>2. target \in KnownIn(rows)
    BY DEF Whole, KnownIn
<1>3. {e \in more.edges : e.child = target} = {e \in rows.edges : e.child = target}
    BY <1>1, <1>2 DEF Extends
<1>4. {r \in more.records : target \in r.output_refs} = {r \in rows.records : target \in r.output_refs}
    BY <1>1, <1>2 DEF Extends
<1>5. \A id \in ToSet(x.receipt.causal_event_ids) :
          \E e \in more.events : e.id = id /\ e.subject = target /\ e.event_type = "TRANSFORMED"
    BY <1>1 DEF Whole
<1>6. \E o \in more.objects : o.coid = target /\ o.clid = x.receipt.target_clid /\ ~ o.deleted
    BY <1>1 DEF Whole
<1>. QED BY <1>3, <1>4, <1>5, <1>6 DEF Whole

LEMMA BorneKept ==
    ASSUME NEW rows, NEW more, Extends(rows, more), NEW answers, Borne(rows, answers)
    PROVE  Borne(more, answers)
<1>1. rows.experiences \subseteq more.experiences
    BY WithinTables DEF Extends
<1>2. \A x \in answers.results : Whole(more, x)
    BY WholeKept DEF Borne
<1>. QED BY <1>1, <1>2 DEF Borne

LEMMA PendingKept ==
    ASSUME NEW at, NEW busy, NEW mine, NEW seen, NEW more, PendingInv(at, busy, mine, seen), Within(seen, more)
    PROVE  PendingInv(at, busy, mine, more)
<1>1. /\ KnownIn(seen) \subseteq KnownIn(more) /\ seen.events \subseteq more.events
      /\ seen.experiences \subseteq more.experiences
    BY WithinTables
<1>2. RowsOf(seen.experiences, busy.experience_id) \subseteq RowsOf(more.experiences, busy.experience_id)
    BY <1>1 DEF RowsOf
<1>. QED BY <1>1, <1>2 DEF PendingInv

(* Others commit what is not about one's own rows. *)
LEMMA SessionKept ==
    ASSUME NEW committed, NEW more, DOMAIN committed = Tables, DOMAIN more = Tables,
           NEW mine, NEW at, NEW busy, NEW answers, SessionInv(committed, mine, at, busy, answers),
           Extends(Joined(committed, mine), Joined(more, mine))
    PROVE  SessionInv(more, mine, at, busy, answers)
<1>1. Within(Joined(committed, mine), Joined(more, mine))
    BY DEF Extends
<1>2. RefersTo(mine, Joined(more, mine))
    BY <1>1, RefersKept DEF SessionInv
<1>3. Borne(Joined(more, mine), answers)
    BY BorneKept DEF SessionInv
<1>4. PendingInv(at, busy, mine, Joined(more, mine))
    BY <1>1, PendingKept DEF SessionInv
<1>. QED BY <1>2, <1>3, <1>4 DEF SessionInv

-----------------------------------------------------------------------------
(* What the invariant says of the rows a session sees, and its consequences. *)
LEMMA RowsEverywhere ==
    ASSUME NEW committed, NEW written
    PROVE  /\ DOMAIN AllRows(committed, written) = Tables
           /\ Within(committed, AllRows(committed, written))
           /\ \A t \in Sessions : Within(written[t], AllRows(committed, written))
           /\ \A table \in Tables : \A x : x \in AllRows(committed, written)[table] <=>
                  x \in committed[table] \/ \E t \in Sessions : x \in written[t][table]
<1>1. DOMAIN AllRows(committed, written) = Tables
    BY DEF AllRows
<1>2. \A table \in Tables : \A x : x \in AllRows(committed, written)[table] <=>
          x \in committed[table] \/ \E t \in Sessions : x \in written[t][table]
    BY DEF AllRows
<1>3. Within(committed, AllRows(committed, written))
    BY <1>2 DEF Within
<1>4. \A t \in Sessions : Within(written[t], AllRows(committed, written))
    BY <1>2 DEF Within
<1>. QED BY <1>1, <1>2, <1>3, <1>4

LEMMA SeenRows ==
    ASSUME ContinuityIInv, NEW t \in Sessions
    PROVE  /\ Visible(t) = Added(db, own[t])
           /\ Within(db, Visible(t)) /\ Within(own[t], Visible(t)) /\ Within(Visible(t), Everywhere)
           /\ TypedRows(Visible(t)) /\ UniqueRows(Visible(t)) /\ RefersTo(Visible(t), Visible(t))
           /\ KnownIn(Visible(t)) = KnownIn(db) \cup KnownIn(own[t])
<1>1. Visible(t) = Added(db, own[t])
    BY JoinedIsAdded DEF Visible, ContinuityIInv, ContinuityShape
<1>2. Within(db, Visible(t)) /\ Within(own[t], Visible(t)) /\ KnownIn(Visible(t)) = KnownIn(db) \cup KnownIn(own[t])
    BY <1>1, AddedTables
<1>3. Within(Visible(t), Everywhere)
  <2>1. Within(db, Everywhere) /\ Within(own[t], Everywhere)
      BY RowsEverywhere DEF Everywhere
  <2>2. \A table \in Tables : Added(db, own[t])[table] = db[table] \cup own[t][table]
      BY DEF Added
  <2>. QED BY <1>1, <2>1, <2>2 DEF Within
<1>4. TypedRows(Visible(t)) /\ UniqueRows(Visible(t))
    BY <1>3, WithinInherits DEF ContinuityIInv
<1>5. RefersTo(db, Visible(t))
    BY <1>2, RefersKept DEF ContinuityIInv
<1>6. RefersTo(own[t], Visible(t))
    BY DEF ContinuityIInv, SessionRows, SessionInv, Visible
<1>7. RefersTo(Visible(t), Visible(t))
    BY <1>1, <1>5, <1>6, RefersTogether
<1>. QED BY <1>1, <1>2, <1>3, <1>4, <1>7

LEMMA CommittedRows ==
    ASSUME ContinuityIInv
    PROVE  TypedRows(db) /\ UniqueRows(db) /\ RefersTo(db, db) /\ Within(db, Everywhere)
<1>1. Within(db, Everywhere)
    BY RowsEverywhere DEF Everywhere
<1>. QED BY <1>1, WithinInherits DEF ContinuityIInv

\* everything on record is about an object that is on record
LEMMA AboutKnown ==
    ASSUME NEW rows, RefersTo(rows, rows), TypedRows(rows), NEW target, target \notin KnownIn(rows)
    PROVE  /\ NothingAbout(rows, target) /\ SeenByPort(rows) /\ TypedEvidence(rows)
           /\ \A h \in rows.histories : h.subject # target
           /\ \A e \in rows.events : e.subject \in KnownIn(rows)
<1>1. \A e \in rows.events : e.subject \in KnownIn(rows)
    BY DEF RefersTo
<1>2. NothingAbout(rows, target)
    BY <1>1 DEF NothingAbout, RefersTo, TypedRows, KnownIn
<1>3. SeenByPort(rows)
    BY <1>1 DEF SeenByPort, TypedRows, CausalHistoryEvent
<1>. QED BY <1>1, <1>2, <1>3 DEF TypedRows, TypedEvidence, RefersTo

LEMMA NewObjectIsNew ==
    ASSUME Unused # {}
    PROVE  /\ NewObject \in Coids /\ NewObject \notin KnownIn(Everywhere)
<1>1. NewObject \in Unused
    BY DEF NewObject
<1>2. Everywhere.objects = Anywhere("objects")
    BY TablesAre DEF Everywhere, AllRows, Anywhere
<1>. QED BY <1>1, <1>2 DEF Unused, KnownIn

LEMMA ContinuityTyped == ContinuityIInv => ContinuityTypeOK
<1>. SUFFICES ASSUME ContinuityIInv PROVE ContinuityTypeOK
    OBVIOUS
<1>1. \A t \in Sessions : Committable(Visible(t))
    BY SeenRows, RowsAccepted
<1>2. Committable(db)
    BY CommittedRows, RowsAccepted
<1>3. \A t \in Sessions : given[t].entries \subseteq Entries
    BY DEF ContinuityIInv, SessionRows, SessionInv, Borne
<1>4. \A t \in Sessions : \A u \in Others(t), h \in own[t].histories : HistoriesOf(own[u], h.subject) = {}
    BY DEF ContinuityIInv, ApartInv, HistoriesApart, HistoriesOf
<1>5. TypedRows(db)
    BY CommittedRows
<1>. QED BY <1>1, <1>2, <1>3, <1>4, <1>5 DEF ContinuityTypeOK, ContinuityIInv, ContinuityShape, TypedRows

LEMMA ExperiencesBorne == ContinuityIInv => ExperiencesAgree
BY DEF ContinuityIInv, SessionRows, SessionInv, Borne, PendingInv, ExperiencesAgree, Visible

LEMMA ConsolidationsBorne == ContinuityIInv => ConsolidationsWhole
<1>. SUFFICES ASSUME ContinuityIInv PROVE ConsolidationsWhole
    OBVIOUS
<1>1. \A x \in kept.results : Whole(db, x)
    BY DEF ContinuityIInv, Borne
<1>2. \A t \in Sessions : \A x \in given[t].results : Whole(Visible(t), x)
    BY DEF ContinuityIInv, SessionRows, SessionInv, Borne, Visible
<1>3. ASSUME NEW t \in Sessions, NEW asked \in ConsolidationRequests, Unused # {}, Acceptable(Visible(t), asked)
      PROVE  LET q == Canonical(asked)
                 d == derive_many(Visible(t), q, NewObject)
             IN  Verified(Joined(d.rows, Visible(t)), q, d.receipt)
  <2>1. PICK seen : seen = Visible(t)
      OBVIOUS
  <2>2. PICK q : q = Canonical(asked)
      OBVIOUS
  <2>3. PICK target : target = NewObject
      OBVIOUS
  <2>4. PICK d : d = derive_many(seen, q, target)
      OBVIOUS
  <2>5. /\ Within(seen, Everywhere) /\ TypedRows(seen) /\ RefersTo(seen, seen)
      BY <2>1, SeenRows
  <2>6. target \in Coids /\ target \notin KnownIn(seen)
      BY <1>3, <2>3, <2>5, NewObjectIsNew, WithinTables
  <2>7. SeenByPort(seen) /\ TypedEvidence(seen) /\ NothingAbout(seen, target)
      BY <2>5, <2>6, AboutKnown
  <2>8. /\ Preflight(asked) /\ carregar_fontes(seen, asked) /\ carregar_predecessores(seen, asked)
      BY <1>3, <2>1 DEF Acceptable
  <2>9. CanonicalFor(q, asked)
      BY <2>2, <2>8, IsCanonical, ContinuityAssumption DEF ContinuityAssumption
  <2>10. \A table \in DOMAIN NoRows : Joined(d.rows, seen)[table] = d.rows[table] \cup seen[table]
    <3>1. EventCount(q) \in 1 .. 2
        BY <2>9, EventsInNumber
    <3>2. DOMAIN d.rows = DOMAIN NoRows
      <4>1. IsDerived(d, seen, q, target)
          BY <2>4, <3>1, Derivation
      <4>. QED BY <4>1 DEF IsDerived
    <3>. QED BY <3>2 DEF Joined
  <2>11. Verified(Joined(d.rows, seen), q, d.receipt)
      BY <2>4, <2>6, <2>7, <2>8, <2>9, <2>10, DeriveVerified
  <2>. QED BY <2>1, <2>2, <2>3, <2>4, <2>11
<1>. QED BY <1>1, <1>2, <1>3 DEF ConsolidationsWhole

-----------------------------------------------------------------------------
(* The invariant holds at first. *)
LEMMA EmptyRefers == ASSUME NEW seen PROVE RefersTo(Empty, seen)
<1>1. Empty.edges = {} /\ Empty.records = {} /\ Empty.histories = {} /\ Empty.events = {}
    BY TablesAre
<1>. QED BY <1>1 DEF RefersTo

LEMMA EmptySession ==
    ASSUME NEW committed, NEW busy
    PROVE  SessionInv(committed, Empty, "open", busy, Nothing)
<1>1. DOMAIN Empty = Tables /\ RefersTo(Empty, Joined(committed, Empty))
    BY TablesAre, EmptyRefers
<1>2. DOMAIN Nothing = {"results", "entries"} /\ Nothing.results = {} /\ Nothing.entries = {}
    BY DEF Nothing
<1>. QED BY <1>1, <1>2 DEF SessionInv, Borne, PendingInv

LEMMA EmptyApart ==
    ASSUME NEW rows
    PROVE  /\ Apart(rows, Empty) /\ Apart(Empty, rows)
           /\ HistoriesApart(rows, Empty) /\ HistoriesApart(Empty, rows)
<1>1. Empty.objects = {} /\ Empty.histories = {}
    BY TablesAre
<1>. QED BY <1>1 DEF Apart, HistoriesApart, KnownIn

LEMMA ContinuityStarts == ContinuityInit => ContinuityIInv
<1>. SUFFICES ASSUME ContinuityInit PROVE ContinuityIInv
    OBVIOUS
<1>1. /\ DOMAIN db = Tables /\ db.objects = Sources /\ db.edges = {} /\ db.records = {}
      /\ db.histories = {} /\ db.events = {} /\ db.experiences = {}
  <2>1. db = [Empty EXCEPT !.objects = Sources]
      BY DEF ContinuityInit
  <2>. QED BY <2>1, TablesAre
<1>2. /\ DOMAIN own = Sessions /\ DOMAIN pedido = Sessions /\ DOMAIN given = Sessions
      /\ kept = Nothing
      /\ \A t \in Sessions : own[t] = Empty /\ place[t] = "open" /\ given[t] = Nothing
      /\ place \in [Sessions -> {"open", "insert", "history", "conflict"}]
    BY DEF ContinuityInit
<1>3. \A table \in Tables : Everywhere[table] = db[table]
  <2>1. \A t \in Sessions, table \in Tables : own[t][table] = {}
      BY <1>2, TablesAre
  <2>. QED BY <2>1 DEF Everywhere, AllRows
<1>4. TypedRows(db) /\ UniqueRows(db)
    BY <1>1, ContinuityAssumption DEF ContinuityAssumption, TypedRows, UniqueRows, Keyed
<1>5. Within(Everywhere, db)
    BY <1>3 DEF Within
<1>6. RefersTo(db, db)
    BY <1>1 DEF RefersTo
<1>7. DOMAIN kept = {"results", "entries"} /\ Borne(db, kept)
    BY <1>2 DEF Nothing, Borne
<1>8. ApartInv
    BY <1>2, EmptyApart DEF ApartInv, Others
<1>9. \A t \in Sessions : SessionRows(t)
    BY <1>2, EmptySession DEF SessionRows
<1>. QED BY <1>1, <1>2, <1>4, <1>5, <1>6, <1>7, <1>8, <1>9, WithinInherits DEF ContinuityIInv, ContinuityShape

-----------------------------------------------------------------------------
(* The steps.  A unit of work ends without a commit. *)
LEMMA EndShape ==
    ASSUME ContinuityShape, NEW t \in Sessions, End(t)
    PROVE  /\ DOMAIN own' = Sessions /\ DOMAIN pedido' = Sessions /\ DOMAIN given' = Sessions
           /\ place' \in [Sessions -> {"open", "insert", "history", "conflict"}]
           /\ own'[t] = Empty /\ place'[t] = "open" /\ given'[t] = Nothing
           /\ \A u \in Others(t) : /\ own'[u] = own[u] /\ place'[u] = place[u]
                                   /\ pedido'[u] = pedido[u] /\ given'[u] = given[u]
BY DEF ContinuityShape, End, MoveTo, Others

LEMMA ApartAfterEnd ==
    ASSUME ContinuityIInv, NEW t \in Sessions, End(t)
    PROVE  \A u \in Sessions : /\ Apart(db, own'[u])
                               /\ \A v \in Others(u) : Apart(own'[u], own'[v]) /\ HistoriesApart(own'[u], own'[v])
<1>1. own'[t] = Empty /\ \A u \in Others(t) : own'[u] = own[u]
    BY EndShape DEF ContinuityIInv
<1>2. TAKE u \in Sessions
<1>3. Apart(db, own'[u])
    BY <1>1, EmptyApart DEF ContinuityIInv, ApartInv, Others
<1>4. ASSUME NEW v \in Others(u)
      PROVE  Apart(own'[u], own'[v]) /\ HistoriesApart(own'[u], own'[v])
  <2>1. CASE u = t \/ v = t
      BY <1>1, <2>1, EmptyApart
  <2>2. CASE u # t /\ v # t
    <3>1. own'[u] = own[u] /\ own'[v] = own[v]
        BY <1>1, <2>2 DEF Others
    <3>. QED BY <3>1 DEF ContinuityIInv, ApartInv
  <2>. QED BY <2>1, <2>2
<1>. QED BY <1>3, <1>4

LEMMA EndKeeps ==
    ASSUME ContinuityIInv, NEW t \in Sessions, End(t), UNCHANGED <<db, kept>>
    PROVE  ContinuityIInv'
<1>1. ContinuityShape
    BY DEF ContinuityIInv
<1>2. /\ own'[t] = Empty /\ place'[t] = "open" /\ given'[t] = Nothing
      /\ \A u \in Others(t) : /\ own'[u] = own[u] /\ place'[u] = place[u]
                              /\ pedido'[u] = pedido[u] /\ given'[u] = given[u]
    BY <1>1, EndShape
<1>3. ContinuityShape'
    BY <1>1, EndShape DEF ContinuityShape
<1>4. TypedRows(Everywhere') /\ UniqueRows(Everywhere')
  <2>1. \A u \in Sessions : \A table \in Tables : own'[u][table] \subseteq own[u][table]
      BY <1>2, TablesAre DEF Others
  <2>2. Within(AllRows(db', own'), AllRows(db, own))
      BY <2>1 DEF Within, AllRows
  <2>3. TypedRows(AllRows(db, own)) /\ UniqueRows(AllRows(db, own))
      BY DEF ContinuityIInv, Everywhere
  <2>4. TypedRows(AllRows(db', own')) /\ UniqueRows(AllRows(db', own'))
      BY <2>2, <2>3, WithinInherits
  <2>. QED BY <2>4 DEF Everywhere
<1>5. RefersTo(db', db') /\ Borne(db', kept')
    BY DEF ContinuityIInv
<1>6. ApartInv'
    BY ApartAfterEnd DEF ApartInv, Others
<1>7. \A u \in Sessions : SessionRows(u)'
  <2>. TAKE u \in Sessions
  <2>1. CASE u = t
    <3>1. SessionInv(db', own'[u], place'[u], pedido'[u], given'[u])
        BY <1>2, <2>1, EmptySession
    <3>. QED BY <3>1 DEF SessionRows
  <2>2. CASE u # t
    <3>1. /\ own'[u] = own[u] /\ place'[u] = place[u] /\ pedido'[u] = pedido[u] /\ given'[u] = given[u]
          /\ db' = db
        BY <1>2, <2>2 DEF Others
    <3>2. SessionInv(db, own[u], place[u], pedido[u], given[u])
        BY DEF ContinuityIInv, SessionRows
    <3>. QED BY <3>1, <3>2 DEF SessionRows
  <2>. QED BY <2>1, <2>2
<1>. QED BY <1>3, <1>4, <1>5, <1>6, <1>7 DEF ContinuityIInv

(* A unit of work commits: what the others see grows by rows about objects   *)
(* they have nothing of.                                                     *)
LEMMA CommittedExtends ==
    ASSUME ContinuityIInv, NEW t \in Sessions, NEW mine, Apart(own[t], mine)
    PROVE  Extends(Joined(db, mine), Joined(Visible(t), mine))
<1>1. DOMAIN db = Tables /\ Visible(t) = Added(db, own[t]) /\ DOMAIN Visible(t) = Tables
    BY SeenRows, AddedTables DEF ContinuityIInv, ContinuityShape
<1>2. PICK rows : rows = Added(db, mine)
    OBVIOUS
<1>3. PICK more : more = Added(Visible(t), mine)
    OBVIOUS
<1>4. Joined(db, mine) = rows /\ Joined(Visible(t), mine) = more
    BY <1>1, <1>2, <1>3, JoinedIsAdded
<1>5. \A table \in Tables : rows[table] = db[table] \cup mine[table] /\ more[table] = rows[table] \cup own[t][table]
    BY <1>1, <1>2, <1>3 DEF Added
<1>6. Within(rows, more)
    BY <1>5 DEF Within
<1>7. KnownIn(rows) = KnownIn(db) \cup KnownIn(mine) /\ KnownIn(own[t]) \cap KnownIn(rows) = {}
  <2>1. KnownIn(rows) = KnownIn(db) \cup KnownIn(mine)
      BY <1>2, AddedTables
  <2>. QED BY <2>1 DEF ContinuityIInv, ApartInv, Apart
<1>8. more.edges = rows.edges \cup own[t].edges /\ more.records = rows.records \cup own[t].records
    BY <1>5, TablesAre
<1>9. RefersTo(own[t], Visible(t))
    BY DEF ContinuityIInv, SessionRows, SessionInv, Visible
<1>10. \A e \in own[t].edges : e.child \notin KnownIn(rows)
    BY <1>7, <1>9 DEF RefersTo
<1>11. \A r \in own[t].records : r.output_refs \cap KnownIn(rows) = {}
  <2>1. own[t].records \subseteq Visible(t).records /\ TypedRows(Visible(t))
      BY SeenRows, WithinTables
  <2>. QED BY <1>7, <1>9, <2>1 DEF RefersTo, TypedRows
<1>12. Extends(rows, more)
    BY <1>6, <1>8, <1>10, <1>11 DEF Extends
<1>. QED BY <1>4, <1>12

LEMMA CommitKeeps ==
    ASSUME ContinuityIInv, NEW t \in Sessions, commit(t)
    PROVE  ContinuityIInv'
<1>1. db' = Visible(t) /\ kept' = Joined(kept, given[t]) /\ End(t)
    BY DEF commit
<1>2. ContinuityShape
    BY DEF ContinuityIInv
<1>3. /\ own'[t] = Empty /\ place'[t] = "open" /\ given'[t] = Nothing
      /\ \A u \in Others(t) : /\ own'[u] = own[u] /\ place'[u] = place[u]
                              /\ pedido'[u] = pedido[u] /\ given'[u] = given[u]
    BY <1>1, <1>2, EndShape
<1>4. db' = Added(db, own[t]) /\ DOMAIN db' = Tables /\ KnownIn(db') = KnownIn(db) \cup KnownIn(own[t])
    BY <1>1, SeenRows, AddedTables
<1>5. ContinuityShape'
  <2>1. DOMAIN kept' = {"results", "entries"}
      BY <1>1 DEF Joined, ContinuityIInv, ContinuityShape
  <2>2. /\ DOMAIN own' = Sessions /\ DOMAIN pedido' = Sessions /\ DOMAIN given' = Sessions
        /\ place' \in [Sessions -> {"open", "insert", "history", "conflict"}]
      BY <1>1, <1>2, EndShape
  <2>. QED BY <1>4, <2>1, <2>2 DEF ContinuityShape
<1>6. TypedRows(Everywhere') /\ UniqueRows(Everywhere')
  <2>1. \A table \in Tables : db'[table] = db[table] \cup own[t][table]
      BY <1>4 DEF Added
  <2>2. \A u \in Sessions : \A table \in Tables : own'[u][table] \subseteq own[u][table]
      BY <1>3, TablesAre DEF Others
  <2>3. Within(AllRows(db', own'), AllRows(db, own))
      BY <2>1, <2>2 DEF Within, AllRows
  <2>4. TypedRows(AllRows(db, own)) /\ UniqueRows(AllRows(db, own))
      BY DEF ContinuityIInv, Everywhere
  <2>5. TypedRows(AllRows(db', own')) /\ UniqueRows(AllRows(db', own'))
      BY <2>3, <2>4, WithinInherits
  <2>. QED BY <2>5 DEF Everywhere
<1>7. RefersTo(db', db')
    BY <1>1, SeenRows
<1>8. Borne(db', kept')
  <2>1. Borne(Visible(t), given[t])
      BY DEF ContinuityIInv, SessionRows, SessionInv, Visible
  <2>2. Extends(db, Visible(t))
    <3>1. Extends(Joined(db, Empty), Joined(Visible(t), Empty))
        BY EmptyApart, CommittedExtends
    <3>2. \A table \in Tables : /\ Joined(db, Empty)[table] = db[table]
                                /\ Joined(Visible(t), Empty)[table] = Visible(t)[table]
        BY <1>1, <1>2, <1>4, TablesAre DEF Joined, ContinuityShape
    <3>3. /\ Joined(db, Empty).objects = db.objects
          /\ Joined(db, Empty).edges = db.edges /\ Joined(Visible(t), Empty).edges = Visible(t).edges
          /\ Joined(db, Empty).records = db.records /\ Joined(Visible(t), Empty).records = Visible(t).records
        BY <3>2, TablesAre
    <3>. QED BY <3>1, <3>2, <3>3 DEF Extends, Within, KnownIn
  <2>3. Borne(Visible(t), kept)
      BY <2>2, BorneKept DEF ContinuityIInv
  <2>4. kept'.results = kept.results \cup given[t].results /\ kept'.entries = kept.entries \cup given[t].entries
      BY <1>1, <1>2 DEF Joined, ContinuityShape
  <2>. QED BY <1>1, <2>1, <2>3, <2>4 DEF Borne
<1>9. ApartInv'
  <2>1. \A u \in Sessions : /\ Apart(db, own'[u])
                            /\ \A v \in Others(u) : Apart(own'[u], own'[v]) /\ HistoriesApart(own'[u], own'[v])
      BY <1>1, ApartAfterEnd
  <2>2. \A u \in Sessions : Apart(own[t], own'[u])
    <3>. TAKE u \in Sessions
    <3>1. CASE u = t
        BY <1>3, <3>1, EmptyApart
    <3>2. CASE u # t
        BY <1>3, <3>2 DEF ContinuityIInv, ApartInv, Others
    <3>. QED BY <3>1, <3>2
  <2>3. \A u \in Sessions : Apart(db', own'[u])
      BY <1>4, <2>1, <2>2 DEF Apart
  <2>. QED BY <2>1, <2>3 DEF ApartInv, Others
<1>10. \A u \in Sessions : SessionRows(u)'
  <2>. TAKE u \in Sessions
  <2>1. CASE u = t
    <3>1. SessionInv(db', own'[u], place'[u], pedido'[u], given'[u])
        BY <1>3, <2>1, EmptySession
    <3>. QED BY <3>1 DEF SessionRows
  <2>2. CASE u # t
    <3>1. own'[u] = own[u] /\ place'[u] = place[u] /\ pedido'[u] = pedido[u] /\ given'[u] = given[u]
        BY <1>3, <2>2 DEF Others
    <3>2. SessionInv(db, own[u], place[u], pedido[u], given[u])
        BY DEF ContinuityIInv, SessionRows
    <3>3. Apart(own[t], own[u])
        BY <2>2 DEF ContinuityIInv, ApartInv, Others
    <3>4. Extends(Joined(db, own[u]), Joined(db', own[u]))
        BY <1>1, <3>3, CommittedExtends
    <3>5. SessionInv(db', own[u], place[u], pedido[u], given[u])
        BY <1>2, <1>4, <3>2, <3>4, SessionKept DEF ContinuityShape
    <3>. QED BY <3>1, <3>5 DEF SessionRows
  <2>. QED BY <2>1, <2>2
<1>. QED BY <1>5, <1>6, <1>7, <1>8, <1>9, <1>10 DEF ContinuityIInv

(* A session goes on without writing. *)
LEMMA MovingKeeps ==
    ASSUME ContinuityIInv, NEW t \in Sessions, UNCHANGED <<db, own, kept>>,
           DOMAIN pedido' = Sessions, DOMAIN given' = Sessions,
           place' \in [Sessions -> {"open", "insert", "history", "conflict"}],
           \A u \in Others(t) : place'[u] = place[u] /\ pedido'[u] = pedido[u] /\ given'[u] = given[u],
           SessionInv(db, own[t], place'[t], pedido'[t], given'[t])
    PROVE  ContinuityIInv'
<1>1. ContinuityShape'
    BY DEF ContinuityIInv, ContinuityShape
<1>2. TypedRows(Everywhere') /\ UniqueRows(Everywhere')
    BY DEF ContinuityIInv, Everywhere
<1>3. RefersTo(db', db') /\ Borne(db', kept') /\ ApartInv'
    BY DEF ContinuityIInv, ApartInv, Others
<1>4. \A u \in Sessions : SessionRows(u)'
  <2>. TAKE u \in Sessions
  <2>1. CASE u = t
      BY <2>1 DEF SessionRows
  <2>2. CASE u # t
      BY <2>2 DEF ContinuityIInv, SessionRows, Others
  <2>. QED BY <2>1, <2>2
<1>. QED BY <1>1, <1>2, <1>3, <1>4 DEF ContinuityIInv

(* A session writes rows about what nobody else writes about. *)
LEMMA WritingKeeps ==
    ASSUME ContinuityIInv, NEW t \in Sessions, NEW R, UNCHANGED <<db, kept>>,
           DOMAIN own' = Sessions, own'[t] = Added(own[t], R),
           DOMAIN pedido' = Sessions, DOMAIN given' = Sessions,
           place' \in [Sessions -> {"open", "insert", "history", "conflict"}],
           \A u \in Others(t) : /\ own'[u] = own[u] /\ place'[u] = place[u]
                                /\ pedido'[u] = pedido[u] /\ given'[u] = given[u],
           TypedRows(R), UniqueRows(Added(Everywhere, R)),
           Apart(db, R), \A u \in Others(t) : Apart(own[u], R) /\ HistoriesApart(own[u], R),
           SessionInv(db, Added(own[t], R), place'[t], pedido'[t], given'[t])
    PROVE  ContinuityIInv'
<1>1. ContinuityShape'
    BY DEF ContinuityIInv, ContinuityShape
<1>2. TypedRows(Everywhere') /\ UniqueRows(Everywhere')
  <2>1. \A table \in Tables : own'[t][table] = own[t][table] \cup R[table]
      BY DEF Added
  <2>2. Within(AllRows(db', own'), Added(AllRows(db, own), R))
    <3>1. SUFFICES ASSUME NEW table \in Tables, NEW x, x \in AllRows(db', own')[table]
                   PROVE  x \in AllRows(db, own)[table] \/ x \in R[table]
        BY DEF Within, Added
    <3>2. CASE x \in db[table]
        BY <3>2, RowsEverywhere
    <3>3. ASSUME NEW u \in Sessions, x \in own'[u][table]
          PROVE  x \in AllRows(db, own)[table] \/ x \in R[table]
      <4>1. x \in own[u][table] \/ x \in R[table]
          BY <2>1, <3>3 DEF Others
      <4>. QED BY <4>1, RowsEverywhere
    <3>. QED BY <3>1, <3>2, <3>3, RowsEverywhere
  <2>3. TypedRows(Added(AllRows(db, own), R))
    <3>1. TypedRows(AllRows(db, own))
        BY DEF ContinuityIInv, Everywhere
    <3>. QED BY <3>1, AddedTables DEF TypedRows
  <2>4. UniqueRows(Added(AllRows(db, own), R))
      BY DEF Everywhere
  <2>5. TypedRows(AllRows(db', own')) /\ UniqueRows(AllRows(db', own'))
      BY <2>2, <2>3, <2>4, WithinInherits
  <2>. QED BY <2>5 DEF Everywhere
<1>3. RefersTo(db', db') /\ Borne(db', kept')
    BY DEF ContinuityIInv
<1>4. ApartInv'
  <2>1. /\ KnownIn(Added(own[t], R)) = KnownIn(own[t]) \cup KnownIn(R)
        /\ Added(own[t], R).histories = own[t].histories \cup R.histories
      BY AddedTables
  <2>2. Apart(db, own'[t])
      BY <2>1 DEF ContinuityIInv, ApartInv, Apart
  <2>3. \A u \in Others(t) : /\ Apart(own'[t], own'[u]) /\ Apart(own'[u], own'[t])
                             /\ HistoriesApart(own'[t], own'[u]) /\ HistoriesApart(own'[u], own'[t])
      BY <2>1 DEF ContinuityIInv, ApartInv, Apart, HistoriesApart, Others
  <2>4. ASSUME NEW u \in Sessions
        PROVE  /\ Apart(db, own'[u])
               /\ \A v \in Others(u) : Apart(own'[u], own'[v]) /\ HistoriesApart(own'[u], own'[v])
    <3>1. CASE u = t
        BY <2>2, <2>3, <3>1
    <3>2. CASE u # t
      <4>1. own'[u] = own[u] /\ t \in Others(u)
          BY <3>2 DEF Others
      <4>2. Apart(db, own'[u])
          BY <4>1 DEF ContinuityIInv, ApartInv
      <4>3. ASSUME NEW v \in Others(u) PROVE Apart(own'[u], own'[v]) /\ HistoriesApart(own'[u], own'[v])
        <5>1. CASE v = t
            BY <2>3, <3>2, <5>1 DEF Others
        <5>2. CASE v # t
          <6>1. own'[v] = own[v]
              BY <5>2 DEF Others
          <6>. QED BY <4>1, <6>1 DEF ContinuityIInv, ApartInv
        <5>. QED BY <5>1, <5>2
      <4>. QED BY <4>2, <4>3
    <3>. QED BY <3>1, <3>2
  <2>. QED BY <2>4 DEF ApartInv, Others
<1>5. \A u \in Sessions : SessionRows(u)'
  <2>. TAKE u \in Sessions
  <2>1. CASE u = t
      BY <2>1 DEF SessionRows
  <2>2. CASE u # t
      BY <2>2 DEF ContinuityIInv, SessionRows, Others
  <2>. QED BY <2>1, <2>2
<1>. QED BY <1>1, <1>2, <1>3, <1>4, <1>5 DEF ContinuityIInv

-----------------------------------------------------------------------------
(* A consolidation. *)
LEMMA EverywhereAbout ==
    ASSUME ContinuityIInv, NEW target, target \notin KnownIn(Everywhere)
    PROVE  /\ NothingAbout(Everywhere, target)
           /\ \A h \in Everywhere.histories : h.subject # target
<1>1. NothingAbout(db, target) /\ \A h \in db.histories : h.subject # target
    BY CommittedRows, WithinTables, AboutKnown
<1>2. \A t \in Sessions : NothingAbout(Visible(t), target) /\ \A h \in Visible(t).histories : h.subject # target
    BY SeenRows, WithinTables, AboutKnown
<1>3. \A t \in Sessions : /\ own[t].objects \subseteq Visible(t).objects /\ own[t].edges \subseteq Visible(t).edges
                          /\ own[t].records \subseteq Visible(t).records
                          /\ own[t].histories \subseteq Visible(t).histories
                          /\ own[t].events \subseteq Visible(t).events
    BY SeenRows, WithinTables
<1>4. \A table \in Tables : \A x : x \in Everywhere[table] <=>
          x \in db[table] \/ \E t \in Sessions : x \in own[t][table]
    BY RowsEverywhere DEF Everywhere
<1>5. /\ \A x \in Everywhere.objects : x \in db.objects \/ \E t \in Sessions : x \in own[t].objects
      /\ \A x \in Everywhere.edges : x \in db.edges \/ \E t \in Sessions : x \in own[t].edges
      /\ \A x \in Everywhere.records : x \in db.records \/ \E t \in Sessions : x \in own[t].records
      /\ \A x \in Everywhere.histories : x \in db.histories \/ \E t \in Sessions : x \in own[t].histories
      /\ \A x \in Everywhere.events : x \in db.events \/ \E t \in Sessions : x \in own[t].events
    BY <1>4, TablesAre
<1>. QED BY <1>1, <1>2, <1>3, <1>5 DEF NothingAbout

LEMMA TargetUnique ==
    ASSUME NEW rows, TypedRows(rows), UniqueRows(rows), NEW target, NothingAbout(rows, target),
           \A h \in rows.histories : h.subject # target,
           NEW R, NEW seen, RowsOfTarget(R, target, seen), R.experiences = {}
    PROVE  UniqueRows(Added(rows, R))
<1>. DEFINE all == Added(rows, R)
<1>1. /\ all.objects = rows.objects \cup R.objects /\ all.edges = rows.edges \cup R.edges
      /\ all.records = rows.records \cup R.records /\ all.histories = rows.histories \cup R.histories
      /\ all.events = rows.events \cup R.events /\ all.experiences = rows.experiences \cup R.experiences
    BY AddedTables, ZenonT(60)
<1>. HIDE DEF all
<1>2. \A o, p \in all.objects : o.coid = p.coid => o = p
    BY <1>1 DEF UniqueRows, NothingAbout, RowsOfTarget, ObjectsOfTarget
<1>3. Keyed(all.edges)
  <2>1. \A e \in rows.edges : e.id[1] # target
      BY DEF TypedRows, NothingAbout
  <2>2. \A e \in R.edges : e.id[1] = target
      BY DEF RowsOfTarget, EdgesOfTarget
  <2>3. Keyed(rows.edges) /\ Keyed(R.edges)
      BY DEF UniqueRows, RowsOfTarget, EdgesOfTarget
  <2>. QED BY <1>1, <2>1, <2>2, <2>3 DEF Keyed
<1>4. Keyed(all.records)
  <2>1. \A r \in rows.records : r.id # target
      BY DEF TypedRows, NothingAbout
  <2>2. \A r \in R.records : r.id = target /\ \A s \in R.records : r = s
      BY DEF RowsOfTarget, RecordsOfTarget
  <2>3. Keyed(rows.records)
      BY DEF UniqueRows
  <2>. QED BY <1>1, <2>1, <2>2, <2>3 DEF Keyed
<1>5. Keyed(all.events)
  <2>1. \A e \in rows.events : e.id[1] # target
      BY DEF TypedRows, NothingAbout
  <2>2. \A e \in R.events : e.id[1] = target
      BY DEF RowsOfTarget, EventsOfTarget
  <2>3. Keyed(rows.events) /\ Keyed(R.events)
      BY DEF UniqueRows, RowsOfTarget, EventsOfTarget
  <2>. QED BY <1>1, <2>1, <2>2, <2>3 DEF Keyed
<1>6. Keyed(all.experiences)
  <2>1. all.experiences = rows.experiences
      BY <1>1
  <2>. QED BY <2>1 DEF UniqueRows
<1>7. \A e, f \in all.edges : e.parent = f.parent /\ e.child = f.child => e = f
  <2>1. \A e \in rows.edges : e.child # target
      BY DEF NothingAbout
  <2>2. \A e \in R.edges : e.child = target
      BY DEF RowsOfTarget, EdgesOfTarget
  <2>3. \A e, f \in R.edges : e.parent = f.parent => e = f
      BY DEF RowsOfTarget, EdgesOfTarget
  <2>4. \A e, f \in rows.edges : e.parent = f.parent /\ e.child = f.child => e = f
      BY DEF UniqueRows
  <2>. QED BY <1>1, <2>1, <2>2, <2>3, <2>4
<1>8. \A h, g \in all.histories : h.subject = g.subject => h = g
    BY <1>1 DEF UniqueRows, RowsOfTarget, HistoriesOfTarget
<1>9. UniqueRows(all)
    BY <1>2, <1>3, <1>4, <1>5, <1>6, <1>7, <1>8 DEF UniqueRows
<1>. QED BY <1>9 DEF all

LEMMA TargetRows ==
    ASSUME NEW R, NEW target, NEW seen, RowsOfTarget(R, target, seen), R.experiences = {}
    PROVE  TypedRows(R) /\ KnownIn(R) = {target}
<1>1. KnownIn(R) = {target}
    BY DEF RowsOfTarget, ObjectsOfTarget, KnownIn
<1>2. R.objects \subseteq CognitiveObject
    BY DEF RowsOfTarget, ObjectsOfTarget
<1>3. R.edges \subseteq LineageEdge /\ \A e \in R.edges : e.id[1] = e.child
    BY DEF RowsOfTarget, EdgesOfTarget
<1>4. R.records \subseteq TransformationRecord /\ \A r \in R.records : r.output_refs = {r.id}
    BY DEF RowsOfTarget, RecordsOfTarget
<1>5. R.histories \subseteq CausalHistory
    BY DEF RowsOfTarget, HistoriesOfTarget
<1>6. R.events \subseteq CausalHistoryEvent /\ \A e \in R.events : e.id[1] = e.subject
    BY DEF RowsOfTarget, EventsOfTarget
<1>. QED BY <1>1, <1>2, <1>3, <1>4, <1>5, <1>6 DEF TypedRows

\* the rows of a new object refer to what the session sees with them
LEMMA TargetRefers ==
    ASSUME NEW seen, TypedRows(seen), RefersTo(seen, seen),
           NEW target, target \notin KnownIn(seen),
           NEW R, RowsOfTarget(R, target, seen), R.experiences = {},
           NEW more, Within(seen, more), Within(R, more)
    PROVE  RefersTo(R, more) /\ (more = Added(seen, R) => Extends(seen, more))
<1>1. /\ KnownIn(R) = {target} /\ KnownIn(seen) \subseteq KnownIn(more) /\ KnownIn(R) \subseteq KnownIn(more)
      /\ R.histories \subseteq more.histories /\ seen.events \subseteq more.events
    BY TargetRows, WithinTables
<1>2. \A e \in R.edges : e.parent # e.child /\ e.parent \in KnownIn(more) /\ e.child \in KnownIn(R)
    BY <1>1 DEF RowsOfTarget, EdgesOfTarget
<1>3. \A r \in R.records : r.id \in KnownIn(R)
    BY <1>1 DEF RowsOfTarget, RecordsOfTarget
<1>4. \E h \in more.histories : h.subject = target
    BY <1>1 DEF RowsOfTarget, HistoriesOfTarget
<1>5. \A h \in R.histories : h.subject \in KnownIn(more)
    BY <1>1 DEF RowsOfTarget, HistoriesOfTarget
<1>6. \A e \in R.events :
          /\ \E h \in more.histories : h.subject = e.subject
          /\ e.predecessor # Null =>
                 e.predecessor # e.id /\ \E p \in more.events : p.id = e.predecessor
  <2>. TAKE e \in R.events
  <2>1. e.id[1] = target /\ e.subject = target
      BY DEF RowsOfTarget, EventsOfTarget
  <2>2. ASSUME e.predecessor # Null
        PROVE  e.predecessor # e.id /\ \E p \in more.events : p.id = e.predecessor
    <3>1. PICK p \in seen.events : p.id = e.predecessor
        BY <2>2 DEF RowsOfTarget, EventsOfTarget
    <3>2. p.id[1] = p.subject /\ p.subject \in KnownIn(seen)
        BY <3>1, AboutKnown DEF TypedRows
    <3>. QED BY <1>1, <2>1, <3>1, <3>2
  <2>. QED BY <1>4, <2>1, <2>2
<1>7. RefersTo(R, more)
    BY <1>2, <1>3, <1>5, <1>6 DEF RefersTo
<1>8. ASSUME more = Added(seen, R)
      PROVE  Extends(seen, more)
  <2>1. more.edges = seen.edges \cup R.edges /\ more.records = seen.records \cup R.records
      BY <1>8, AddedTables
  <2>2. \A e \in R.edges : e.child \notin KnownIn(seen)
      BY DEF RowsOfTarget, EdgesOfTarget
  <2>3. \A r \in R.records : r.output_refs \cap KnownIn(seen) = {}
      BY DEF RowsOfTarget, RecordsOfTarget
  <2>. QED BY <2>1, <2>2, <2>3 DEF Extends
<1>. QED BY <1>7, <1>8

LEMMA ConsolidateKeeps ==
    ASSUME ContinuityIInv, NEW t \in Sessions, NEW asked \in ConsolidationRequests, consolidate(t, asked)
    PROVE  ContinuityIInv'
<1>1. place[t] = "open" /\ Unused # {} /\ UNCHANGED <<db, kept>>
    BY DEF consolidate
<1>2. CASE End(t)
    BY <1>1, <1>2, EndKeeps
<1>3. CASE ~ End(t)
  <2>1. PICK seen : seen = Visible(t)
      OBVIOUS
  <2>2. PICK target : target = NewObject
      OBVIOUS
  <2>3. PICK q : q = Canonical(asked)
      OBVIOUS
  <2>. DEFINE Written(answer) == [table \in Tables |->
                  own[t][table] \cup (IF table \in DOMAIN NoRows THEN answer.rows[table] ELSE {})]
              Answered(answer) ==
                  /\ Verified(Joined(db, Written(answer)), q, answer.receipt)
                  /\ own' = [own EXCEPT ![t] = Written(answer)]
                  /\ given' = [given EXCEPT ![t].results =
                         @ \cup {[request |-> asked, receipt |-> answer.receipt]}]
                  /\ UNCHANGED <<place, pedido>>
  <2>4. Acceptable(seen, asked) /\ \E answer \in PortAnswers(seen, q, target) : Answered(answer)
      BY <1>3, <2>1, <2>2, <2>3 DEF consolidate
  <2>5. PICK answer \in PortAnswers(seen, q, target) : Answered(answer)
      BY <2>4
  <2>. DEFINE R == [table \in Tables |-> IF table \in DOMAIN NoRows THEN answer.rows[table] ELSE {}]
  <2>6. Written(answer) = Added(own[t], R)
      BY DEF Added
  <2>7. PICK written : written = Added(own[t], R)
      OBVIOUS
  <2>8. PICK more : more = Joined(db, written)
      OBVIOUS
  <2>9. PICK x : x = [request |-> asked, receipt |-> answer.receipt]
      OBVIOUS
  <2>10. /\ Verified(more, q, answer.receipt)
         /\ own' = [own EXCEPT ![t] = written]
         /\ given' = [given EXCEPT ![t].results = @ \cup {x}]
         /\ place' = place /\ pedido' = pedido
      BY <2>5, <2>6, <2>7, <2>8, <2>9
  <2>. HIDE DEF Written, Answered
  <2>11. /\ R.objects = answer.rows.objects /\ R.edges = answer.rows.edges
         /\ R.records = answer.rows.records /\ R.histories = answer.rows.histories
         /\ R.events = answer.rows.events /\ R.experiences = {}
      BY TablesAre
  <2>. HIDE DEF R
  <2>12. /\ seen = Added(db, own[t]) /\ Within(seen, Everywhere) /\ TypedRows(seen) /\ UniqueRows(seen)
         /\ RefersTo(seen, seen)
      BY <2>1, SeenRows
  <2>13. target \in Coids /\ target \notin KnownIn(Everywhere) /\ target \notin KnownIn(seen)
      BY <1>1, <2>2, <2>12, NewObjectIsNew, WithinTables
  <2>14. Preflight(asked) /\ carregar_fontes(seen, asked) /\ carregar_predecessores(seen, asked)
      BY <2>4 DEF Acceptable
  <2>15. CanonicalFor(q, asked)
      BY <2>3, <2>14, IsCanonical, ContinuityAssumption DEF ContinuityAssumption
  <2>16. Described(answer, q, target, seen)
    <3>1. verificar_fidelidade(q, answer.receipt)
        BY <2>10 DEF Verified
    <3>2. SeenByPort(seen)
        BY <2>12, <2>13, AboutKnown
    <3>. QED BY <2>13, <2>14, <2>15, <3>1, <3>2, AnswersDescribed
  <2>17. DOMAIN answer.receipt.lineage_edge_ids = DOMAIN q.source_coids
      BY <2>16 DEF Described
  <2>18. RowsOfTarget(R, target, seen)
    <3>1. DOMAIN NoRows \subseteq DOMAIN R
        BY TablesAre DEF R
    <3>. QED BY <2>11, <2>16, <3>1 DEF Described, RowsOfTarget
  <2>19. TypedRows(R) /\ KnownIn(R) = {target}
      BY <2>11, <2>18, TargetRows
  <2>20. UniqueRows(Added(Everywhere, R))
    <3>1. TypedRows(Everywhere) /\ UniqueRows(Everywhere)
        BY DEF ContinuityIInv
    <3>2. NothingAbout(Everywhere, target) /\ \A h \in Everywhere.histories : h.subject # target
        BY <2>13, EverywhereAbout
    <3>. QED BY <2>11, <2>18, <3>1, <3>2, TargetUnique
  <2>21. Apart(db, R) /\ \A u \in Others(t) : Apart(own[u], R) /\ HistoriesApart(own[u], R)
    <3>1. KnownIn(db) \subseteq KnownIn(Everywhere) /\ \A u \in Sessions : KnownIn(own[u]) \subseteq KnownIn(Everywhere)
        BY RowsEverywhere, WithinTables DEF Everywhere
    <3>2. \A u \in Sessions : own[u].histories \subseteq Everywhere.histories
        BY RowsEverywhere, WithinTables DEF Everywhere
    <3>3. \A h \in Everywhere.histories : h.subject # target
        BY <2>13, EverywhereAbout
    <3>4. \A h \in R.histories : h.subject = target
        BY <2>18 DEF RowsOfTarget, HistoriesOfTarget
    <3>. QED BY <2>13, <2>19, <3>1, <3>2, <3>3, <3>4 DEF Apart, HistoriesApart, Others
  <2>22. DOMAIN db = Tables
      BY DEF ContinuityIInv, ContinuityShape
  <2>23. more = Added(seen, R)
    <3>1. more = Added(db, Added(own[t], R))
        BY <2>7, <2>8, <2>22, JoinedIsAdded
    <3>. QED BY <2>12, <3>1 DEF Added
  <2>24. Within(seen, more) /\ Within(R, more)
      BY <2>23, AddedTables
  <2>25. RefersTo(R, more) /\ Extends(seen, more)
      BY <2>11, <2>12, <2>13, <2>18, <2>23, <2>24, TargetRefers
  <2>26. RefersTo(written, more)
    <3>1. RefersTo(own[t], seen)
        BY <2>1 DEF ContinuityIInv, SessionRows, SessionInv, Visible
    <3>2. RefersTo(own[t], more)
        BY <2>24, <3>1, RefersKept
    <3>. QED BY <2>7, <2>25, <3>2, RefersTogether
  <2>27. /\ DOMAIN own = Sessions /\ DOMAIN given = Sessions /\ DOMAIN given[t] = {"results", "entries"}
         /\ Borne(seen, given[t])
      BY <2>1 DEF ContinuityIInv, ContinuityShape, SessionRows, SessionInv, Visible
  <2>28. /\ DOMAIN own' = Sessions /\ own'[t] = written /\ DOMAIN given' = Sessions
         /\ DOMAIN given'[t] = {"results", "entries"}
         /\ given'[t].results = given[t].results \cup {x} /\ given'[t].entries = given[t].entries
         /\ \A u \in Others(t) : own'[u] = own[u] /\ given'[u] = given[u]
      BY <2>10, <2>27 DEF Others
  <2>29. Whole(more, x)
    <3>1. more.edges \subseteq LineageEdge
      <4>1. more.edges = seen.edges \cup R.edges
          BY <2>23, AddedTables
      <4>. QED BY <2>12, <2>19, <4>1 DEF TypedRows
    <3>. QED BY <2>9, <2>10, <2>15, <2>17, <3>1, VerifiedIsWhole
  <2>30. Borne(more, given'[t])
    <3>1. Borne(more, given[t])
        BY <2>25, <2>27, BorneKept
    <3>. QED BY <2>28, <2>29, <3>1 DEF Borne
  <2>31. SessionInv(db, written, place'[t], pedido'[t], given'[t])
    <3>1. DOMAIN written = Tables
        BY <2>7, AddedTables
    <3>2. place'[t] = "open"
        BY <1>1, <2>10
    <3>3. PendingInv(place'[t], pedido'[t], written, more)
        BY <3>2 DEF PendingInv
    <3>. QED BY <2>8, <2>26, <2>28, <2>30, <3>1, <3>3 DEF SessionInv
  <2>32. /\ DOMAIN pedido' = Sessions /\ place' \in [Sessions -> {"open", "insert", "history", "conflict"}]
         /\ \A u \in Others(t) : place'[u] = place[u] /\ pedido'[u] = pedido[u]
      BY <2>10 DEF ContinuityIInv, ContinuityShape
  <2>. QED BY <1>1, <2>7, <2>19, <2>20, <2>21, <2>28, <2>31, <2>32, WritingKeeps
<1>. QED BY <1>2, <1>3

-----------------------------------------------------------------------------
(* Rows that are no objects: histories H, events E, experiences X. *)
SmallRows(H, E, X) ==
    [table \in Tables |-> IF table = "histories" THEN H
                          ELSE IF table = "events" THEN E
                          ELSE IF table = "experiences" THEN X ELSE {}]

LEMMA SmallTables ==
    ASSUME NEW H, NEW E, NEW X
    PROVE  /\ SmallRows(H, E, X).objects = {} /\ SmallRows(H, E, X).edges = {}
           /\ SmallRows(H, E, X).records = {} /\ SmallRows(H, E, X).histories = H
           /\ SmallRows(H, E, X).events = E /\ SmallRows(H, E, X).experiences = X
           /\ KnownIn(SmallRows(H, E, X)) = {}
<1>1. /\ SmallRows(H, E, X).objects = {} /\ SmallRows(H, E, X).edges = {}
      /\ SmallRows(H, E, X).records = {} /\ SmallRows(H, E, X).histories = H
      /\ SmallRows(H, E, X).events = E /\ SmallRows(H, E, X).experiences = X
    BY TablesAre DEF SmallRows
<1>. QED BY <1>1 DEF KnownIn

\* one history and one event at most, or one experience, none under a key there is
LEMMA SmallUnique ==
    ASSUME NEW rows, UniqueRows(rows), NEW H, NEW E, NEW X,
           \A h, g \in H : h = g, \A h \in H, g \in rows.histories : h.subject # g.subject,
           \A e, f \in E : e = f, \A e \in E, f \in rows.events : e.id # f.id,
           \A r, s \in X : r = s, \A r \in X, s \in rows.experiences : r.id # s.id
    PROVE  UniqueRows(Added(rows, SmallRows(H, E, X)))
<1>. DEFINE all == Added(rows, SmallRows(H, E, X))
<1>1. /\ all.objects = rows.objects /\ all.edges = rows.edges /\ all.records = rows.records
      /\ all.histories = rows.histories \cup H /\ all.events = rows.events \cup E
      /\ all.experiences = rows.experiences \cup X
  <2>1. PICK R : R = SmallRows(H, E, X)
      OBVIOUS
  <2>2. /\ Added(rows, R).objects = rows.objects \cup R.objects
        /\ Added(rows, R).edges = rows.edges \cup R.edges
        /\ Added(rows, R).records = rows.records \cup R.records
        /\ Added(rows, R).histories = rows.histories \cup R.histories
        /\ Added(rows, R).events = rows.events \cup R.events
        /\ Added(rows, R).experiences = rows.experiences \cup R.experiences
      BY AddedTables
  <2>3. /\ R.objects = {} /\ R.edges = {} /\ R.records = {} /\ R.histories = H /\ R.events = E
        /\ R.experiences = X
      BY <2>1, SmallTables
  <2>. QED BY <2>1, <2>2, <2>3
<1>. HIDE DEF all
<1>2. Keyed(all.events)
    BY <1>1 DEF UniqueRows, Keyed
<1>3. Keyed(all.experiences)
    BY <1>1 DEF UniqueRows, Keyed
<1>4. \A h, g \in all.histories : h.subject = g.subject => h = g
    BY <1>1 DEF UniqueRows
<1>5. UniqueRows(all)
    BY <1>1, <1>2, <1>3, <1>4 DEF UniqueRows
<1>. QED BY <1>5 DEF all

(* Such rows are written: the session sees more, and what it was answered    *)
(* stays on record.                                                          *)
SeenGrows(t, R, more) ==
    /\ more = Added(Visible(t), R) /\ Within(Visible(t), more) /\ Extends(Visible(t), more)
    /\ Borne(more, given[t]) /\ RefersTo(own[t], more)
    /\ KnownIn(more) = KnownIn(Visible(t))
    /\ more.histories = Visible(t).histories \cup R.histories
    /\ more.events = Visible(t).events \cup R.events
    /\ more.experiences = Visible(t).experiences \cup R.experiences
    /\ Apart(db, R) /\ \A u \in Others(t) : Apart(own[u], R)

LEMMA SmallWriteSeen ==
    ASSUME ContinuityIInv, NEW t \in Sessions, NEW H, NEW E, NEW X,
           NEW R, R = SmallRows(H, E, X), NEW more, more = Joined(db, Added(own[t], R))
    PROVE  SeenGrows(t, R, more)
<1>1. DOMAIN db = Tables /\ Visible(t) = Added(db, own[t])
    BY SeenRows DEF ContinuityIInv, ContinuityShape
<1>2. more = Added(Visible(t), R)
  <2>1. more = Added(db, Added(own[t], R))
      BY <1>1, JoinedIsAdded
  <2>. QED BY <1>1, <2>1 DEF Added
<1>3. /\ R.objects = {} /\ R.edges = {} /\ R.records = {} /\ R.histories = H /\ R.events = E
      /\ R.experiences = X /\ KnownIn(R) = {}
    BY SmallTables
<1>4. /\ Within(Visible(t), more) /\ KnownIn(more) = KnownIn(Visible(t)) \cup KnownIn(R)
      /\ more.edges = Visible(t).edges \cup R.edges /\ more.records = Visible(t).records \cup R.records
      /\ more.histories = Visible(t).histories \cup R.histories /\ more.events = Visible(t).events \cup R.events
      /\ more.experiences = Visible(t).experiences \cup R.experiences
    BY <1>2, AddedTables
<1>5. Extends(Visible(t), more)
    BY <1>3, <1>4 DEF Extends
<1>6. Borne(more, given[t]) /\ RefersTo(own[t], more)
  <2>1. Borne(Visible(t), given[t]) /\ RefersTo(own[t], Visible(t))
      BY DEF ContinuityIInv, SessionRows, SessionInv, Visible
  <2>. QED BY <1>4, <1>5, <2>1, BorneKept, RefersKept
<1>7. Apart(db, R) /\ \A u \in Others(t) : Apart(own[u], R)
    BY <1>3 DEF Apart
<1>. QED BY <1>2, <1>3, <1>4, <1>5, <1>6, <1>7 DEF SeenGrows

\* a new event is recorded under an identity there is nowhere
LEMMA NewEventIsNew ==
    ASSUME ContinuityIInv, NEW t \in Sessions, NEW subject \in KnownIn(Visible(t)), Unrecorded(subject) # {},
           NEW predecessor \in {e.id : e \in Visible(t).events} \cup {Null},
           NEW new, new = NewEvent(subject, predecessor)
    PROVE  /\ new \in CausalHistoryEvent /\ new.id[1] = subject /\ new.subject = subject
           /\ new.id \in EventIds /\ new.predecessor = predecessor
           /\ subject \in Coids
           /\ \A f \in Everywhere.events : new.id # f.id
           /\ predecessor # Null => /\ predecessor # new.id
                                    /\ \E p \in Visible(t).events : p.id = predecessor
<1>1. PICK k : k = CHOOSE x \in Unrecorded(subject) : TRUE
    OBVIOUS
<1>2. k \in Unrecorded(subject)
    BY <1>1
<1>3. k \in 1 .. MaxEvents /\ <<subject, k>> \notin {e.id : e \in Anywhere("events")}
    BY <1>2 DEF Unrecorded
<1>4. k \in Ordinals
    BY <1>3, ContinuityAssumption DEF ContinuityAssumption, Ordinals
<1>5. subject \in Coids
    BY SeenRows DEF TypedRows, KnownIn, CognitiveObject
<1>6. <<subject, k>> \in EventIds
    BY <1>4, <1>5 DEF EventIds
<1>7. predecessor \in EventIds \cup {Null}
    BY SeenRows DEF TypedRows, CausalHistoryEvent
<1>8. new = [id |-> <<subject, k>>, subject |-> subject, event_type |-> "ACCESSED", predecessor |-> predecessor]
    BY <1>1 DEF NewEvent
<1>9. new \in CausalHistoryEvent
    BY <1>5, <1>6, <1>7, <1>8 DEF CausalHistoryEvent, CausalEventType
<1>10. \A f \in Everywhere.events : new.id # f.id
  <2>1. Everywhere.events = Anywhere("events")
      BY TablesAre DEF Everywhere, AllRows, Anywhere
  <2>. QED BY <1>3, <1>8, <2>1
<1>11. predecessor # Null => predecessor # new.id /\ \E p \in Visible(t).events : p.id = predecessor
  <2>1. Visible(t).events \subseteq Everywhere.events
      BY SeenRows, WithinTables
  <2>. QED BY <1>10, <2>1
<1>. QED BY <1>5, <1>6, <1>8, <1>9, <1>10, <1>11

LEMMA SmallAddsBoth ==
    ASSUME NEW mine, DOMAIN mine = Tables, NEW H, NEW E
    PROVE  [mine EXCEPT !.histories = mine.histories \cup H, !.events = mine.events \cup E]
               = Added(mine, SmallRows(H, E, {}))
<1>1. "events" \in Tables /\ "histories" \in Tables
    BY TablesAre
<1>. QED BY <1>1 DEF Added, SmallRows

LEMMA SmallAdds ==
    ASSUME NEW mine, DOMAIN mine = Tables, NEW E, NEW X
    PROVE  /\ [mine EXCEPT !["events"] = mine["events"] \cup E] = Added(mine, SmallRows({}, E, {}))
           /\ [mine EXCEPT !["experiences"] = mine["experiences"] \cup X] = Added(mine, SmallRows({}, {}, X))
<1>1. /\ "events" \in Tables /\ "experiences" \in Tables
    BY TablesAre
<1>2. [mine EXCEPT !["events"] = mine["events"] \cup E] = Added(mine, SmallRows({}, E, {}))
    BY <1>1 DEF Added, SmallRows
<1>3. [mine EXCEPT !["experiences"] = mine["experiences"] \cup X] = Added(mine, SmallRows({}, {}, X))
    BY <1>1 DEF Added, SmallRows
<1>. QED BY <1>2, <1>3

\* what a session and its neighbours have before and after it moves
LEMMA SessionShape ==
    ASSUME ContinuityIInv, NEW t \in Sessions
    PROVE  /\ DOMAIN own = Sessions /\ DOMAIN pedido = Sessions /\ DOMAIN given = Sessions
           /\ place \in [Sessions -> {"open", "insert", "history", "conflict"}]
           /\ DOMAIN own[t] = Tables /\ DOMAIN given[t] = {"results", "entries"}
           /\ RefersTo(own[t], Visible(t)) /\ Borne(Visible(t), given[t])
           /\ PendingInv(place[t], pedido[t], own[t], Visible(t))
BY DEF ContinuityIInv, ContinuityShape, SessionRows, SessionInv, Visible

LEMMA RecordKeeps ==
    ASSUME ContinuityIInv, NEW t \in Sessions, NEW subject, NEW predecessor, record(t, subject, predecessor)
    PROVE  ContinuityIInv'
<1>1. /\ place[t] = "open" /\ subject \in KnownIn(Visible(t))
      /\ predecessor \in {e.id : e \in Visible(t).events} \cup {Null}
      /\ Unrecorded(subject) # {} /\ UNCHANGED <<db, given, kept>>
    BY DEF record, KnownIn
<1>2. PICK new : new = NewEvent(subject, predecessor)
    OBVIOUS
<1>3. /\ DOMAIN own = Sessions /\ DOMAIN pedido = Sessions /\ DOMAIN given = Sessions
      /\ place \in [Sessions -> {"open", "insert", "history", "conflict"}]
      /\ DOMAIN own[t] = Tables /\ DOMAIN given[t] = {"results", "entries"}
      /\ RefersTo(own[t], Visible(t)) /\ Borne(Visible(t), given[t])
    BY SessionShape
<1>4. CASE /\ HistoriesOf(Visible(t), subject) # {}
           /\ Write(t, "events", {new})
           /\ UNCHANGED <<place, pedido>>
  <2>1. PICK R : R = SmallRows({}, {new}, {})
      OBVIOUS
  <2>2. PICK more : more = Joined(db, Added(own[t], R))
      OBVIOUS
  <2>3. own' = [own EXCEPT ![t] = [own[t] EXCEPT !["events"] = own[t]["events"] \cup {new}]]
      BY <1>4 DEF Write
  <2>4. DOMAIN own' = Sessions /\ own'[t] = Added(own[t], R) /\ \A u \in Others(t) : own'[u] = own[u]
    <3>1. [own[t] EXCEPT !["events"] = own[t]["events"] \cup {new}] = Added(own[t], R)
      <4>1. PICK mine : mine = own[t]
          OBVIOUS
      <4>2. [mine EXCEPT !["events"] = mine["events"] \cup {new}] = Added(mine, SmallRows({}, {new}, {}))
          BY <1>3, <4>1, SmallAdds
      <4>. QED BY <2>1, <4>1, <4>2
    <3>. QED BY <1>3, <2>3, <3>1 DEF Others
  <2>7. /\ R.objects = {} /\ R.edges = {} /\ R.records = {} /\ R.histories = {} /\ R.events = {new}
        /\ R.experiences = {}
      BY <2>1, SmallTables
  <2>5. /\ Within(Visible(t), more) /\ Borne(more, given[t]) /\ RefersTo(own[t], more)
        /\ KnownIn(more) = KnownIn(Visible(t))
        /\ more.histories = Visible(t).histories /\ more.events = Visible(t).events \cup {new}
        /\ Apart(db, R) /\ \A u \in Others(t) : Apart(own[u], R)
    <3>1. SeenGrows(t, R, more)
        BY <2>1, <2>2, SmallWriteSeen
    <3>. QED BY <2>7, <3>1 DEF SeenGrows
  <2>6. /\ new \in CausalHistoryEvent /\ new.id[1] = subject /\ new.subject = subject
        /\ new.predecessor = predecessor /\ \A f \in Everywhere.events : new.id # f.id
        /\ predecessor # Null => predecessor # new.id /\ \E p \in Visible(t).events : p.id = predecessor
      BY <1>1, <1>2, NewEventIsNew
  <2>8. TypedRows(R)
      BY <2>6, <2>7 DEF TypedRows
  <2>9. UniqueRows(Added(Everywhere, R))
    <3>1. UniqueRows(Everywhere)
        BY DEF ContinuityIInv
    <3>. QED BY <2>1, <2>6, <3>1, SmallUnique
  <2>10. \A u \in Others(t) : HistoriesApart(own[u], R)
      BY <2>7 DEF HistoriesApart
  <2>11. RefersTo(R, more)
    <3>1. PICK h \in Visible(t).histories : h.subject = subject
        BY <1>4 DEF HistoriesOf
    <3>. QED BY <2>5, <2>6, <2>7, <3>1 DEF RefersTo
  <2>12. RefersTo(Added(own[t], R), more)
      BY <2>5, <2>11, RefersTogether
  <2>13. SessionInv(db, Added(own[t], R), place'[t], pedido'[t], given'[t])
    <3>1. DOMAIN Added(own[t], R) = Tables
        BY AddedTables
    <3>2. place'[t] = "open" /\ given'[t] = given[t]
        BY <1>1, <1>4
    <3>3. PendingInv(place'[t], pedido'[t], Added(own[t], R), more)
        BY <3>2 DEF PendingInv
    <3>. QED BY <1>3, <2>2, <2>5, <2>12, <3>1, <3>2, <3>3 DEF SessionInv
  <2>14. /\ DOMAIN pedido' = Sessions /\ DOMAIN given' = Sessions
         /\ place' \in [Sessions -> {"open", "insert", "history", "conflict"}]
         /\ \A u \in Others(t) : /\ own'[u] = own[u] /\ place'[u] = place[u]
                                 /\ pedido'[u] = pedido[u] /\ given'[u] = given[u]
      BY <1>1, <1>3, <1>4, <2>4
  <2>. QED BY <1>1, <2>4, <2>5, <2>8, <2>9, <2>10, <2>13, <2>14, WritingKeeps
<1>5. CASE /\ HistoriesOf(Visible(t), subject) = {}
           /\ MoveTo(t, "history")
           /\ pedido' = [pedido EXCEPT ![t] = [subject |-> subject, predecessor |-> predecessor]]
           /\ UNCHANGED own
  <2>1. PICK busy : busy = [subject |-> subject, predecessor |-> predecessor]
      OBVIOUS
  <2>2. busy.subject = subject /\ busy.predecessor = predecessor
      BY <2>1
  <2>3. /\ place' = [place EXCEPT ![t] = "history"] /\ pedido' = [pedido EXCEPT ![t] = busy]
      BY <1>5, <2>1 DEF MoveTo
  <2>4. /\ place' \in [Sessions -> {"open", "insert", "history", "conflict"}] /\ DOMAIN pedido' = Sessions
        /\ place'[t] = "history" /\ pedido'[t] = busy /\ given'[t] = given[t] /\ DOMAIN given' = Sessions
        /\ \A u \in Others(t) : place'[u] = place[u] /\ pedido'[u] = pedido[u] /\ given'[u] = given[u]
      BY <1>1, <1>3, <2>3 DEF Others
  <2>5. HistoriesOf(own[t], subject) = {}
    <3>1. own[t].histories \subseteq Visible(t).histories
        BY SeenRows, WithinTables
    <3>. QED BY <1>5, <3>1 DEF HistoriesOf
  <2>6. PendingInv("history", busy, own[t], Visible(t))
      BY <1>1, <2>2, <2>5 DEF PendingInv
  <2>7. SessionInv(db, own[t], place'[t], pedido'[t], given'[t])
      BY <1>3, <2>4, <2>6 DEF SessionInv, Visible
  <2>. QED BY <1>1, <1>5, <2>4, <2>7, MovingKeeps
<1>. QED BY <1>2, <1>4, <1>5 DEF record

LEMMA EnsureHistoryKeeps ==
    ASSUME ContinuityIInv, NEW t \in Sessions, ensure_history(t)
    PROVE  ContinuityIInv'
<1>1. /\ place[t] = "history" /\ UNCHANGED <<db, kept>>
      /\ \A u \in Others(t) : HistoriesOf(own[u], pedido[t].subject) = {}
    BY DEF ensure_history
<1>2. CASE End(t)
    BY <1>1, <1>2, EndKeeps
<1>3. CASE ~ End(t)
  <2>1. PICK subject : subject = pedido[t].subject
      OBVIOUS
  <2>2. PICK predecessor : predecessor = pedido[t].predecessor
      OBVIOUS
  <2>3. PICK new : new = NewEvent(subject, predecessor)
      OBVIOUS
  <2>4. PICK history : history = [id |-> new.id, subject |-> new.subject]
      OBVIOUS
  <2>5. /\ ~ SubjectTaken(subject) /\ Unrecorded(subject) # {}
        /\ own' = [own EXCEPT ![t].histories = @ \cup {history}, ![t].events = @ \cup {new}]
        /\ place' = [place EXCEPT ![t] = "open"] /\ pedido' = [pedido EXCEPT ![t] = Null]
        /\ given' = given
      BY <1>3, <2>1, <2>2, <2>3, <2>4 DEF ensure_history, MoveTo
  <2>6. /\ DOMAIN own = Sessions /\ DOMAIN pedido = Sessions /\ DOMAIN given = Sessions
        /\ place \in [Sessions -> {"open", "insert", "history", "conflict"}]
        /\ DOMAIN own[t] = Tables /\ DOMAIN given[t] = {"results", "entries"}
        /\ RefersTo(own[t], Visible(t)) /\ Borne(Visible(t), given[t])
        /\ PendingInv(place[t], pedido[t], own[t], Visible(t))
      BY SessionShape
  <2>7. /\ subject \in KnownIn(Visible(t)) /\ HistoriesOf(own[t], subject) = {}
        /\ predecessor \in {e.id : e \in Visible(t).events} \cup {Null}
      BY <1>1, <2>1, <2>2, <2>6 DEF PendingInv
  <2>8. PICK R : R = SmallRows({history}, {new}, {})
      OBVIOUS
  <2>9. PICK more : more = Joined(db, Added(own[t], R))
      OBVIOUS
  <2>10. DOMAIN own' = Sessions /\ own'[t] = Added(own[t], R) /\ \A u \in Others(t) : own'[u] = own[u]
    <3>1. PICK mine : mine = own[t]
        OBVIOUS
    <3>2. own' = [own EXCEPT ![t] = [mine EXCEPT !.histories = mine.histories \cup {history},
                                                 !.events = mine.events \cup {new}]]
      <4>1. "histories" \in DOMAIN own[t] /\ "events" \in DOMAIN own[t]
          BY <2>6, TablesAre
      <4>. QED BY <2>5, <2>6, <3>1, <4>1
    <3>3. [mine EXCEPT !.histories = mine.histories \cup {history}, !.events = mine.events \cup {new}]
              = Added(mine, SmallRows({history}, {new}, {}))
      <4>1. DOMAIN mine = Tables
          BY <2>6, <3>1
      <4>. QED BY <4>1, SmallAddsBoth
    <3>. QED BY <2>6, <2>8, <3>1, <3>2, <3>3 DEF Others
  <2>11. /\ new \in CausalHistoryEvent /\ new.id[1] = subject /\ new.subject = subject
         /\ new.id \in EventIds /\ subject \in Coids
         /\ new.predecessor = predecessor /\ \A f \in Everywhere.events : new.id # f.id
         /\ predecessor # Null => predecessor # new.id /\ \E p \in Visible(t).events : p.id = predecessor
      BY <2>3, <2>5, <2>7, NewEventIsNew
  <2>12. /\ R.objects = {} /\ R.edges = {} /\ R.records = {} /\ R.histories = {history} /\ R.events = {new}
         /\ R.experiences = {}
      BY <2>8, SmallTables
  <2>13. /\ Within(Visible(t), more) /\ Borne(more, given[t]) /\ RefersTo(own[t], more)
         /\ KnownIn(more) = KnownIn(Visible(t))
         /\ more.histories = Visible(t).histories \cup {history}
         /\ more.events = Visible(t).events \cup {new}
         /\ Apart(db, R) /\ \A u \in Others(t) : Apart(own[u], R)
    <3>1. SeenGrows(t, R, more)
        BY <2>8, <2>9, SmallWriteSeen
    <3>. QED BY <2>12, <3>1 DEF SeenGrows
  <2>14. history \in CausalHistory /\ history.subject = subject
      BY <2>4, <2>11 DEF CausalHistory
  <2>15. TypedRows(R)
      BY <2>11, <2>12, <2>14 DEF TypedRows
  <2>16. \A g \in Everywhere.histories : history.subject # g.subject
    <3>1. \A g \in db.histories : g.subject # subject
        BY <2>5 DEF SubjectTaken, HistoriesOf
    <3>2. \A u \in Sessions : \A g \in own[u].histories : g.subject # subject
        BY <1>1, <2>1, <2>7 DEF Others, HistoriesOf
    <3>3. \A g \in Everywhere.histories : g \in db.histories \/ \E u \in Sessions : g \in own[u].histories
      <4>1. \A table \in Tables : \A x : x \in Everywhere[table] <=>
                x \in db[table] \/ \E u \in Sessions : x \in own[u][table]
          BY RowsEverywhere DEF Everywhere
      <4>. QED BY <4>1, TablesAre
    <3>. QED BY <2>14, <3>1, <3>2, <3>3
  <2>17. UniqueRows(Added(Everywhere, R))
    <3>1. UniqueRows(Everywhere)
        BY DEF ContinuityIInv
    <3>2. /\ \A h, g \in {history} : h = g
          /\ \A h \in {history}, g \in Everywhere.histories : h.subject # g.subject
          /\ \A e, f \in {new} : e = f
          /\ \A e \in {new}, f \in Everywhere.events : e.id # f.id
        BY <2>11, <2>16
    <3>3. UniqueRows(Added(Everywhere, SmallRows({history}, {new}, {})))
        BY <3>1, <3>2, SmallUnique
    <3>. QED BY <2>8, <3>3
  <2>18. \A u \in Others(t) : HistoriesApart(own[u], R)
      BY <1>1, <2>1, <2>12, <2>14 DEF HistoriesApart, HistoriesOf
  <2>19. RefersTo(R, more)
      BY <2>7, <2>11, <2>12, <2>13, <2>14 DEF RefersTo
  <2>20. RefersTo(Added(own[t], R), more)
      BY <2>13, <2>19, RefersTogether
  <2>21. /\ DOMAIN pedido' = Sessions /\ DOMAIN given' = Sessions
         /\ place' \in [Sessions -> {"open", "insert", "history", "conflict"}]
         /\ place'[t] = "open" /\ given'[t] = given[t]
         /\ \A u \in Others(t) : place'[u] = place[u] /\ pedido'[u] = pedido[u] /\ given'[u] = given[u]
      BY <2>5, <2>6 DEF Others
  <2>22. SessionInv(db, Added(own[t], R), place'[t], pedido'[t], given'[t])
    <3>1. DOMAIN Added(own[t], R) = Tables
        BY AddedTables
    <3>2. PendingInv(place'[t], pedido'[t], Added(own[t], R), more)
        BY <2>21 DEF PendingInv
    <3>. QED BY <2>6, <2>9, <2>13, <2>20, <2>21, <3>1, <3>2 DEF SessionInv
  <2>. QED BY <1>1, <2>10, <2>13, <2>15, <2>17, <2>18, <2>21, <2>22, WritingKeeps
<1>. QED BY <1>2, <1>3

-----------------------------------------------------------------------------
(* An experience is appended. *)

(* A row that differs in no field says what the entry says: the fields are   *)
(* all there are besides the identity.                                       *)
LEMMA NothingDiverges ==
    ASSUME NEW f \in Entries, NEW row, row = Materializar(f), NEW e, row.id = e.experience_id,
           Divergentes(row, e) = {}
    PROVE  row = Materializar(e)
<1>1. PICK other : other = Materializar(e)
    OBVIOUS
<1>2. \A campo \in CAMPOS_CANONICOS : row[campo] = other[campo]
    BY <1>1 DEF Divergentes
<1>3. other.id = row.id
    BY <1>1 DEF Materializar
<1>. DEFINE fields == CAMPOS_CANONICOS \cup {"id"}
<1>4. row = [campo \in fields |-> row[campo]]
    BY DEF Materializar, CAMPOS_CANONICOS
<1>5. other = [campo \in fields |-> other[campo]]
    BY <1>1 DEF Materializar, CAMPOS_CANONICOS
<1>6. \A campo \in fields : row[campo] = other[campo]
    BY <1>2, <1>3
<1>. HIDE DEF fields
<1>7. row = other
    BY <1>4, <1>5, <1>6
<1>. QED BY <1>1, <1>7

LEMMA ReconciliarKeeps ==
    ASSUME ContinuityIInv, NEW t \in Sessions, NEW e \in Entries,
           NEW row \in RowsOf(Visible(t).experiences, e.experience_id), Reconciliar(t, row, e),
           UNCHANGED <<db, own, kept>>
    PROVE  ContinuityIInv'
<1>1. /\ DOMAIN own = Sessions /\ DOMAIN pedido = Sessions /\ DOMAIN given = Sessions
      /\ place \in [Sessions -> {"open", "insert", "history", "conflict"}]
      /\ DOMAIN own[t] = Tables /\ DOMAIN given[t] = {"results", "entries"}
      /\ RefersTo(own[t], Visible(t)) /\ Borne(Visible(t), given[t])
    BY SessionShape
<1>2. row \in Visible(t).experiences /\ row.id = e.experience_id
    BY DEF RowsOf
<1>3. CASE /\ Divergentes(row, e) = {}
           /\ given' = [given EXCEPT ![t].entries = @ \cup {e}]
           /\ MoveTo(t, "open")
           /\ pedido' = [pedido EXCEPT ![t] = Null]
  <2>1. PICK f \in Entries : row = Materializar(f)
      BY <1>2, SeenRows DEF TypedRows
  <2>2. Materializar(e) \in Visible(t).experiences
      BY <1>2, <1>3, <2>1, NothingDiverges
  <2>3. /\ DOMAIN given' = Sessions /\ DOMAIN given'[t] = {"results", "entries"}
        /\ given'[t].results = given[t].results /\ given'[t].entries = given[t].entries \cup {e}
        /\ \A u \in Others(t) : given'[u] = given[u]
      BY <1>1, <1>3 DEF Others
  <2>4. /\ place' \in [Sessions -> {"open", "insert", "history", "conflict"}] /\ place'[t] = "open"
        /\ DOMAIN pedido' = Sessions
        /\ \A u \in Others(t) : place'[u] = place[u] /\ pedido'[u] = pedido[u]
      BY <1>1, <1>3 DEF MoveTo, Others
  <2>5. Borne(Visible(t), given'[t])
      BY <1>1, <2>2, <2>3 DEF Borne
  <2>6. PendingInv(place'[t], pedido'[t], own[t], Visible(t))
      BY <2>4 DEF PendingInv
  <2>7. SessionInv(db, own[t], place'[t], pedido'[t], given'[t])
      BY <1>1, <2>3, <2>5, <2>6 DEF SessionInv, Visible
  <2>. QED BY <2>3, <2>4, <2>7, MovingKeeps
<1>4. CASE /\ Divergentes(row, e) # {}
           /\ MoveTo(t, "conflict")
           /\ pedido' = [pedido EXCEPT ![t] = e]
           /\ UNCHANGED given
  <2>1. row # Materializar(e)
      BY <1>4 DEF Divergentes
  <2>2. /\ place' \in [Sessions -> {"open", "insert", "history", "conflict"}] /\ place'[t] = "conflict"
        /\ DOMAIN pedido' = Sessions /\ pedido'[t] = e /\ DOMAIN given' = Sessions /\ given'[t] = given[t]
        /\ \A u \in Others(t) : place'[u] = place[u] /\ pedido'[u] = pedido[u] /\ given'[u] = given[u]
      BY <1>1, <1>4 DEF MoveTo, Others
  <2>3. PendingInv("conflict", e, own[t], Visible(t))
      BY <2>1 DEF PendingInv
  <2>4. SessionInv(db, own[t], place'[t], pedido'[t], given'[t])
      BY <1>1, <2>2, <2>3 DEF SessionInv, Visible
  <2>. QED BY <2>2, <2>4, MovingKeeps
<1>. QED BY <1>3, <1>4 DEF Reconciliar

LEMMA AppendKeeps ==
    ASSUME ContinuityIInv, NEW t \in Sessions, NEW e \in Entries, append(t, e)
    PROVE  ContinuityIInv'
<1>1. ValidatedExperienceAppend(e) /\ UNCHANGED <<db, own, kept>>
    BY DEF append
<1>2. ASSUME NEW row \in RowsOf(Visible(t).experiences, e.experience_id), Reconciliar(t, row, e)
      PROVE  ContinuityIInv'
    BY <1>1, <1>2, ReconciliarKeeps
<1>3. CASE /\ RowsOf(Visible(t).experiences, e.experience_id) = {}
           /\ MoveTo(t, "insert")
           /\ pedido' = [pedido EXCEPT ![t] = e]
           /\ UNCHANGED given
  <2>1. /\ DOMAIN pedido = Sessions /\ DOMAIN given = Sessions
        /\ place \in [Sessions -> {"open", "insert", "history", "conflict"}]
        /\ DOMAIN own[t] = Tables /\ DOMAIN given[t] = {"results", "entries"}
        /\ RefersTo(own[t], Visible(t)) /\ Borne(Visible(t), given[t])
      BY SessionShape
  <2>2. /\ place' \in [Sessions -> {"open", "insert", "history", "conflict"}] /\ place'[t] = "insert"
        /\ DOMAIN pedido' = Sessions /\ pedido'[t] = e /\ DOMAIN given' = Sessions /\ given'[t] = given[t]
        /\ \A u \in Others(t) : place'[u] = place[u] /\ pedido'[u] = pedido[u] /\ given'[u] = given[u]
      BY <1>3, <2>1 DEF MoveTo, Others
  <2>3. RowsOf(own[t].experiences, e.experience_id) = {}
    <3>1. own[t].experiences \subseteq Visible(t).experiences
        BY SeenRows, WithinTables
    <3>. QED BY <1>3, <3>1 DEF RowsOf
  <2>4. PendingInv("insert", e, own[t], Visible(t))
      BY <1>1, <2>3 DEF PendingInv
  <2>5. SessionInv(db, own[t], place'[t], pedido'[t], given'[t])
      BY <2>1, <2>2, <2>4 DEF SessionInv, Visible
  <2>. QED BY <1>1, <2>2, <2>5, MovingKeeps
<1>. QED BY <1>2, <1>3 DEF append

LEMMA InsertKeeps ==
    ASSUME ContinuityIInv, NEW t \in Sessions, insert(t)
    PROVE  ContinuityIInv'
<1>1. PICK e : e = pedido[t]
    OBVIOUS
<1>2. /\ DOMAIN own = Sessions /\ DOMAIN pedido = Sessions /\ DOMAIN given = Sessions
      /\ place \in [Sessions -> {"open", "insert", "history", "conflict"}]
      /\ DOMAIN own[t] = Tables /\ DOMAIN given[t] = {"results", "entries"}
      /\ RefersTo(own[t], Visible(t)) /\ Borne(Visible(t), given[t])
      /\ PendingInv(place[t], pedido[t], own[t], Visible(t))
    BY SessionShape
<1>3. /\ place[t] = "insert" /\ UNCHANGED <<db, kept>>
      /\ \A u \in Others(t) : RowsOf(own[u].experiences, e.experience_id) = {}
      /\ FitsColumn(Materializar(e))
    BY <1>1 DEF insert
<1>4. /\ e \in Entries /\ ValidatedExperienceAppend(e)
      /\ RowsOf(own[t].experiences, e.experience_id) = {}
    BY <1>1, <1>2, <1>3 DEF PendingInv
<1>5. ASSUME NEW row \in RowsOf(db.experiences, e.experience_id), Reconciliar(t, row, e), UNCHANGED own
      PROVE  ContinuityIInv'
  <2>1. db.experiences \subseteq Visible(t).experiences
      BY SeenRows, WithinTables
  <2>2. row \in RowsOf(Visible(t).experiences, e.experience_id)
      BY <1>5, <2>1 DEF RowsOf
  <2>. QED BY <1>3, <1>4, <1>5, <2>2, ReconciliarKeeps
<1>6. CASE /\ RowsOf(db.experiences, e.experience_id) = {}
           /\ Write(t, "experiences", {Materializar(e)})
           /\ given' = [given EXCEPT ![t].entries = @ \cup {e}]
           /\ MoveTo(t, "open")
           /\ pedido' = [pedido EXCEPT ![t] = Null]
  <2>1. PICK new : new = Materializar(e)
      OBVIOUS
  <2>2. PICK R : R = SmallRows({}, {}, {new})
      OBVIOUS
  <2>3. PICK more : more = Joined(db, Added(own[t], R))
      OBVIOUS
  <2>4. DOMAIN own' = Sessions /\ own'[t] = Added(own[t], R) /\ \A u \in Others(t) : own'[u] = own[u]
    <3>1. own' = [own EXCEPT ![t] = [own[t] EXCEPT !["experiences"] = own[t]["experiences"] \cup {new}]]
        BY <1>6, <2>1 DEF Write
    <3>2. [own[t] EXCEPT !["experiences"] = own[t]["experiences"] \cup {new}] = Added(own[t], R)
      <4>1. PICK mine : mine = own[t]
          OBVIOUS
      <4>2. [mine EXCEPT !["experiences"] = mine["experiences"] \cup {new}] = Added(mine, SmallRows({}, {}, {new}))
          BY <1>2, <4>1, SmallAdds
      <4>. QED BY <2>2, <4>1, <4>2
    <3>. QED BY <1>2, <3>1, <3>2 DEF Others
  <2>5. /\ R.objects = {} /\ R.edges = {} /\ R.records = {} /\ R.histories = {} /\ R.events = {}
        /\ R.experiences = {new}
      BY <2>2, SmallTables
  <2>6. /\ Within(Visible(t), more) /\ Borne(more, given[t]) /\ RefersTo(own[t], more)
        /\ more.experiences = Visible(t).experiences \cup {new}
        /\ Apart(db, R) /\ \A u \in Others(t) : Apart(own[u], R)
    <3>1. SeenGrows(t, R, more)
        BY <2>2, <2>3, SmallWriteSeen
    <3>. QED BY <2>5, <3>1 DEF SeenGrows
  <2>7. new.id = e.experience_id
      BY <2>1 DEF Materializar
  <2>8. TypedRows(R)
      BY <1>3, <1>4, <2>1, <2>5 DEF TypedRows
  <2>9. \A s \in Everywhere.experiences : new.id # s.id
    <3>1. \A s \in db.experiences : s.id # e.experience_id
        BY <1>6 DEF RowsOf
    <3>2. \A u \in Sessions : \A s \in own[u].experiences : s.id # e.experience_id
        BY <1>3, <1>4 DEF Others, RowsOf
    <3>3. \A s \in Everywhere.experiences :
              s \in db.experiences \/ \E u \in Sessions : s \in own[u].experiences
      <4>1. \A table \in Tables : \A x : x \in Everywhere[table] <=>
                x \in db[table] \/ \E u \in Sessions : x \in own[u][table]
          BY RowsEverywhere DEF Everywhere
      <4>. QED BY <4>1, TablesAre
    <3>. QED BY <2>7, <3>1, <3>2, <3>3
  <2>10. UniqueRows(Added(Everywhere, R))
    <3>1. UniqueRows(Everywhere)
        BY DEF ContinuityIInv
    <3>2. /\ \A r, s \in {new} : r = s
          /\ \A r \in {new}, s \in Everywhere.experiences : r.id # s.id
        BY <2>9
    <3>3. UniqueRows(Added(Everywhere, SmallRows({}, {}, {new})))
        BY <3>1, <3>2, SmallUnique
    <3>. QED BY <2>2, <3>3
  <2>11. \A u \in Others(t) : HistoriesApart(own[u], R)
      BY <2>5 DEF HistoriesApart
  <2>12. RefersTo(Added(own[t], R), more)
    <3>1. RefersTo(R, more)
        BY <2>5 DEF RefersTo
    <3>. QED BY <2>6, <3>1, RefersTogether
  <2>13. /\ DOMAIN given' = Sessions /\ DOMAIN given'[t] = {"results", "entries"}
         /\ given'[t].results = given[t].results /\ given'[t].entries = given[t].entries \cup {e}
         /\ \A u \in Others(t) : given'[u] = given[u]
      BY <1>2, <1>6 DEF Others
  <2>14. /\ place' \in [Sessions -> {"open", "insert", "history", "conflict"}] /\ place'[t] = "open"
         /\ DOMAIN pedido' = Sessions
         /\ \A u \in Others(t) : place'[u] = place[u] /\ pedido'[u] = pedido[u]
      BY <1>2, <1>6 DEF MoveTo, Others
  <2>15. SessionInv(db, Added(own[t], R), place'[t], pedido'[t], given'[t])
    <3>1. DOMAIN Added(own[t], R) = Tables
        BY AddedTables
    <3>2. Borne(more, given'[t])
        BY <1>4, <2>1, <2>6, <2>13 DEF Borne
    <3>3. PendingInv(place'[t], pedido'[t], Added(own[t], R), more)
        BY <2>14 DEF PendingInv
    <3>. QED BY <2>3, <2>12, <2>13, <3>1, <3>2, <3>3 DEF SessionInv
  <2>16. \A u \in Others(t) : /\ own'[u] = own[u] /\ place'[u] = place[u]
                              /\ pedido'[u] = pedido[u] /\ given'[u] = given[u]
      BY <2>4, <2>13, <2>14
  <2>. QED BY <1>3, <2>4, <2>6, <2>8, <2>10, <2>11, <2>13, <2>14, <2>15, <2>16, WritingKeeps
<1>. QED BY <1>1, <1>5, <1>6 DEF insert

-----------------------------------------------------------------------------
(* Every step of the program keeps the invariant. *)
LEMMA ContinuityMoves == ContinuityIInv /\ [ContinuityNext]_continuityVars => ContinuityIInv'
<1>. SUFFICES ASSUME ContinuityIInv, [ContinuityNext]_continuityVars PROVE ContinuityIInv'
    OBVIOUS
<1>1. ASSUME NEW t \in Sessions, NEW asked \in ConsolidationRequests, consolidate(t, asked)
      PROVE  ContinuityIInv'
    BY <1>1, ConsolidateKeeps
<1>2. ASSUME NEW t \in Sessions, NEW subject, NEW predecessor, record(t, subject, predecessor)
      PROVE  ContinuityIInv'
    BY <1>2, RecordKeeps
<1>3. ASSUME NEW t \in Sessions, ensure_history(t) PROVE ContinuityIInv'
    BY <1>3, EnsureHistoryKeeps
<1>4. ASSUME NEW t \in Sessions, NEW e \in Entries, append(t, e) PROVE ContinuityIInv'
    BY <1>4, AppendKeeps
<1>5. ASSUME NEW t \in Sessions, insert(t) \/ insert_refused(t) PROVE ContinuityIInv'
    BY <1>5, InsertKeeps, EndKeeps DEF insert_refused
<1>6. ASSUME NEW t \in Sessions, Deadlock(t) PROVE ContinuityIInv'
    BY <1>6, EndKeeps DEF Deadlock
<1>7. ASSUME NEW t \in Sessions, commit(t) PROVE ContinuityIInv'
    BY <1>7, CommitKeeps
<1>8. ASSUME NEW t \in Sessions, rollback(t) PROVE ContinuityIInv'
    BY <1>8, EndKeeps DEF rollback
<1>9. CASE UNCHANGED continuityVars
    BY <1>9 DEF continuityVars, ContinuityIInv, ContinuityShape, Everywhere, ApartInv, SessionRows
<1>. QED BY <1>1, <1>2, <1>3, <1>4, <1>5, <1>6, <1>7, <1>8, <1>9 DEF ContinuityNext

LEMMA ContinuityHolds == ContinuitySpec => []ContinuityIInv
<1>. QED BY ContinuityStarts, ContinuityMoves, PTL DEF ContinuitySpec

(* However the sessions interleave, what a session sees and what is          *)
(* committed are rows the tables accept: what the constructors let through   *)
(* no constraint refuses, and one subject gets one history.                  *)
(* (derive_many, CausalHistoryManager.record, ValidatedExperienceRepository) *)
THEOREM RowsStayCommittable == ContinuitySpec => []ContinuityTypeOK
<1>. QED BY ContinuityHolds, ContinuityTyped, PTL

(* Whatever the port answered, a result the manager gave stands for a whole  *)
(* consolidation, in its session and for everybody once committed, and the   *)
(* kernel's own answer is never refused.  (ConsolidationManager.consolidate) *)
THEOREM ResultsStayWhole == ContinuitySpec => []ConsolidationsWhole
<1>. QED BY ContinuityHolds, ConsolidationsBorne, PTL

(* An entry that was answered is on record as it was asked, for good once    *)
(* its unit of work commits, and an entry refused as a conflict really       *)
(* differs from the row there is.  (append, _reconciliar)                    *)
THEOREM ExperiencesStayAgreed == ContinuitySpec => []ExperiencesAgree
<1>. QED BY ContinuityHolds, ExperiencesBorne, PTL
=============================================================================
