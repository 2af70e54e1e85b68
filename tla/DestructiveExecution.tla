------------------------ MODULE DestructiveExecution ------------------------
(***************************************************************************)
(* The destructive pipeline of app/memory: a human approval persisted by   *)
(* ApprovalRecordRepository.append_approved, disputed by consume_once and  *)
(* revoke_once, and spent by DestructiveExecutionService.execute, which    *)
(* resolves the targets (phase A), consumes the approval in a transaction  *)
(* of its own (phase B) and only then attempts one material effect per     *)
(* target, each followed by one receipt (phase C).                         *)
(*                                                                         *)
(* One process is one call of execute or of revoke_once, each on its own   *)
(* database session.  The database is PostgreSQL at READ COMMITTED: an     *)
(* UPDATE evaluates its WHERE on the committed row, then its SET, waits    *)
(* for the row lock and evaluates them again only if the row changed.      *)
(* clock_timestamp() is volatile: WHERE and SET call it at two instants.   *)
(* A process may crash at any point, which rolls its open transaction      *)
(* back; a commit may fail either before or after it took effect.          *)
(***************************************************************************)
EXTENDS Integers, Sequences

CONSTANTS Executors,   \* callers of DestructiveExecutionService.execute
          Revokers,    \* callers of ApprovalRecordRepository.revoke_once
          Requests,    \* the requests callers can present
          Snapshots,   \* what the resolver may describe: SafeTargetSnapshot
          Refused,     \* TargetResolutionRefusal
          NoNamespace, \* ErasureTargetReference.expected_namespace = None
          None,        \* SQL NULL, an absent row, a free lock
          MaxLote,     \* bound of the number of targets of a batch
          MaxClock     \* bound of the database clock

Processes == Executors \cup Revokers
Envelopes == {r.envelope : r \in Requests}
Approvals == {e.id : e \in Envelopes}
Subjects  == {s.subject : s \in Snapshots}
Positions == 1 .. MaxLote

ASSUME ProcessAssumption ==
    Executors \cap Revokers = {} /\ None \notin Processes /\ None \notin Nat
ASSUME BoundAssumption == MaxClock \in Nat /\ MaxLote \in Nat
ASSUME SnapshotAssumption ==
    /\ Snapshots \subseteq [subject : Subjects, origin : STRING,
                            namespace : STRING, control_scope : STRING,
                            version_etag : Nat]
    /\ Refused \notin Snapshots
ASSUME RequestAssumption ==
    \A r \in Requests :
        /\ r.envelope.targets \in Seq(Snapshots)
        /\ Len(r.envelope.targets) \in Positions
        /\ r.envelope.expires_at \in Nat
        /\ r.envelope.provenance \in BOOLEAN
        /\ Len(r.references) \in Positions
        /\ \A i \in 1 .. Len(r.references) : r.references[i].subject \in Subjects

VARIABLES
    envelope,    \* approval_records binding columns, None while there is no row
    state,       \* approval_records.state, "ABSENT" while there is no row
    consumed_at, \* approval_records.consumed_at
    lock,        \* row lock of an approval record: its holder or None
    clock,       \* clock_timestamp() of the database
    pc,          \* where each process is
    request,     \* its request argument
    frescos,     \* descriptors resolved in phase A
    agora,       \* clock_timestamp() as the WHERE of its UPDATE compared it
    carimbo,     \* clock_timestamp() as the SET of its UPDATE evaluated it
    desfechos,   \* outcomes collected in phase C
    result,      \* what the call returned or raised
    effects,     \* material attempts made through the effect port, counted
    recibos      \* committed erasure records, counted

rowVars   == <<envelope, state, consumed_at>>
localVars == <<request, frescos, desfechos>>
outVars   == <<effects, recibos>>
vars == <<envelope, state, consumed_at, lock, clock, pc, request,
          frescos, agora, carimbo, desfechos, result, effects, recibos>>

Id(p)      == request[p].envelope.id
InPhaseC(p) == pc[p] \in {"effect", "receipt"}
Posicao(p) == Len(desfechos[p]) + 1

Init ==
    /\ envelope = [a \in Approvals |-> None]
    /\ state = [a \in Approvals |-> "ABSENT"]
    /\ consumed_at = [a \in Approvals |-> None]
    /\ lock = [a \in Approvals |-> None]
    /\ clock = 0
    /\ pc = [p \in Processes |-> "idle"]
    /\ request = [p \in Processes |-> None]
    /\ frescos = [p \in Processes |-> <<>>]
    /\ agora = [p \in Processes |-> 0]
    /\ carimbo = [p \in Processes |-> 0]
    /\ desfechos = [p \in Processes |-> <<>>]
    /\ result = [p \in Processes |-> "NONE"]
    /\ effects = [a \in Approvals |-> [i \in Positions |-> 0]]
    /\ recibos = [a \in Approvals |-> [i \in Positions |-> 0]]

(* The call of p ends: it returns or raises `res`.  Its local instants are   *)
(* dead from here on.                                                        *)
Return(p, res) ==
    /\ pc' = [pc EXCEPT ![p] = "done"]
    /\ result' = [result EXCEPT ![p] = res]
    /\ agora' = [agora EXCEPT ![p] = 0]
    /\ carimbo' = [carimbo EXCEPT ![p] = 0]

(* The UPDATE of p returns no row; its instants are dead. *)
NoRow(p) ==
    /\ pc' = [pc EXCEPT ![p] = "diagnose"]
    /\ agora' = [agora EXCEPT ![p] = 0]
    /\ carimbo' = [carimbo EXCEPT ![p] = 0]
    /\ UNCHANGED result

Goto(p, label) ==
    pc' = [pc EXCEPT ![p] = label] /\ UNCHANGED <<result, agora, carimbo>>

-----------------------------------------------------------------------------
(* Environment: time and the issuing of approvals. *)

Tick ==
    /\ clock < MaxClock
    /\ clock' = clock + 1
    /\ UNCHANGED <<rowVars, lock, pc, localVars, agora, carimbo, result, outVars>>

append_approved(e) ==
    /\ state[e.id] = "ABSENT"
    /\ envelope' = [envelope EXCEPT ![e.id] = e]
    /\ state' = [state EXCEPT ![e.id] = "ACTIVE"]
    /\ UNCHANGED <<consumed_at, lock, clock, pc, localVars, agora, carimbo, result, outVars>>

-----------------------------------------------------------------------------
(* Phase A: validation and fresh resolution, nothing written. *)

ReferenciaCorresponde(ref, aprovado) ==
    /\ ref.subject = aprovado.subject
    /\ ref.origin = aprovado.origin
    /\ ref.control_scope = aprovado.control_scope
    /\ ref.expected_namespace \in {NoNamespace, aprovado.namespace}

Duplicated(refs, i) == \E j \in 1 .. (i - 1) : refs[j].subject = refs[i].subject

(* The refusal _validar_lote returns, "OK" when it returns None.  The loop   *)
(* stops at the first offending position, a duplicate before a mismatch.     *)
ValidarLote(r) ==
    LET refs == r.references
        aprovados == r.envelope.targets
        offending == {i \in 1 .. Len(refs) :
                         \/ Duplicated(refs, i)
                         \/ ~ ReferenciaCorresponde(refs[i], aprovados[i])}
        First(i) == \A j \in offending : i <= j
    IN CASE Len(refs) # Len(aprovados) -> "BATCH_CARDINALITY_MISMATCH"
         [] Len(refs) = Len(aprovados) /\ offending # {} ->
                IF \E i \in offending : First(i) /\ Duplicated(refs, i)
                THEN "DUPLICATE_SUBJECT_IN_BATCH"
                ELSE "REFERENCE_DOES_NOT_MATCH_APPROVED_TARGET"
         [] OTHER -> IF r.envelope.provenance THEN "OK"
                     ELSE "GOVERNANCE_PROVENANCE_INCOMPLETE"

execute(x, r) ==
    /\ pc[x] = "idle"
    /\ request' = [request EXCEPT ![x] = r]
    /\ IF ValidarLote(r) = "OK" THEN Goto(x, "resolve") ELSE Return(x, ValidarLote(r))
    /\ UNCHANGED <<rowVars, lock, clock, frescos, desfechos, outVars>>

(* One iteration of the resolution loop, _comparar included: the resolver    *)
(* describes the target as it is now, or refuses, and what it answers for    *)
(* one position says nothing of another.                                     *)
resolve_target(x) ==
    LET posicao == Len(frescos[x]) + 1
        aprovado == request[x].envelope.targets[posicao]
        last == posicao = Len(request[x].references)
    IN /\ pc[x] = "resolve"
       /\ \E fresco \in Snapshots \cup {Refused} :
              \/ /\ fresco = Refused
                 /\ Return(x, "TARGET_RESOLUTION_REFUSED")
                 /\ UNCHANGED frescos
              \/ /\ fresco \notin {Refused, aprovado}
                 /\ Return(x, "FRESH_SNAPSHOT_DIVERGED")
                 /\ UNCHANGED frescos
              \/ /\ fresco # Refused
                 /\ fresco = aprovado
                 /\ frescos' = [frescos EXCEPT ![x] = Append(@, fresco)]
                 /\ Goto(x, IF last THEN "update" ELSE "resolve")
       /\ UNCHANGED <<rowVars, lock, clock, request, desfechos, outVars>>

-----------------------------------------------------------------------------
(* Phase B: ApprovalRecordRepository._transicionar and the commit. *)

\* a revocation presents the envelope alone: its references are not read
Revocation(e) == CHOOSE r \in Requests : r.envelope = e

revoke_once(v, e) ==
    /\ pc[v] = "idle"
    /\ request' = [request EXCEPT ![v] = Revocation(e)]
    /\ Goto(v, "update")
    /\ UNCHANGED <<rowVars, lock, clock, frescos, desfechos, outVars>>

destino(p) == IF p \in Executors THEN "CONSUMED" ELSE "REVOKED"

(* Mutant: the row is matched by its identifier only. *)
CondicoesById(p) ==
    /\ state[Id(p)] = "ACTIVE"
    /\ p \in Executors => request[p].envelope.expires_at > clock

(* The WHERE of the UPDATE: the whole binding, ACTIVE, and for a consumption *)
(* an approval that has not expired.                                         *)
Condicoes(p) ==
    /\ envelope[Id(p)] = request[p].envelope
    /\ state[Id(p)] = "ACTIVE"
    /\ p \in Executors => request[p].envelope.expires_at > clock

(* The UPDATE scans the row and evaluates its WHERE; a revocation compares   *)
(* no instant.                                                               *)
Transicionar(p) ==
    /\ pc[p] = "update"
    /\ IF Condicoes(p)
       THEN /\ pc' = [pc EXCEPT ![p] = "stamp"]
            /\ agora' = [agora EXCEPT ![p] = IF p \in Executors THEN clock ELSE @]
            /\ UNCHANGED <<result, carimbo>>
       ELSE NoRow(p)
    /\ UNCHANGED <<rowVars, lock, clock, localVars, outVars>>

(* Its SET calls clock_timestamp() again; only consumed_at is kept here.     *)
EvaluateSet(p) ==
    /\ pc[p] = "stamp"
    /\ pc' = [pc EXCEPT ![p] = "lock"]
    /\ carimbo' = [carimbo EXCEPT ![p] = IF p \in Executors THEN clock ELSE @]
    /\ UNCHANGED <<result, agora>>
    /\ UNCHANGED <<rowVars, lock, clock, localVars, outVars>>

(* Mutant: the row is not looked at again once the lock is held. *)
LockRowUnchecked(p) ==
    /\ pc[p] = "lock"
    /\ lock[Id(p)] = None
    /\ Goto(p, "commit")
    /\ lock' = [lock EXCEPT ![Id(p)] = p]
    /\ UNCHANGED <<rowVars, clock, localVars, outVars>>

(* It gets the row lock: if another transaction changed the row meanwhile,   *)
(* the WHERE no longer holds and no row is returned.                         *)
LockRow(p) ==
    /\ pc[p] = "lock"
    /\ lock[Id(p)] = None
    /\ IF state[Id(p)] = "ACTIVE"
       THEN Goto(p, "commit") /\ lock' = [lock EXCEPT ![Id(p)] = p]
       ELSE NoRow(p) /\ UNCHANGED lock
    /\ UNCHANGED <<rowVars, clock, localVars, outVars>>

(* Mutant: a revocation also stamps consumed_at. *)
WriteRowStamped(p) ==
    /\ state' = [state EXCEPT ![Id(p)] = destino(p)]
    /\ consumed_at' = [consumed_at EXCEPT ![Id(p)] = carimbo[p]]

(* The committed UPDATE of p. *)
WriteRow(p) ==
    /\ state' = [state EXCEPT ![Id(p)] = destino(p)]
    /\ consumed_at' = [consumed_at EXCEPT
                          ![Id(p)] = IF p \in Executors THEN carimbo[p] ELSE @]

Commit(p) ==
    /\ pc[p] = "commit"
    /\ WriteRow(p)
    /\ lock' = [lock EXCEPT ![Id(p)] = None]
    /\ IF p \in Executors THEN Goto(p, "effect") ELSE Return(p, "REVOKED")
    /\ UNCHANGED <<envelope, clock, localVars, outVars>>

(* Mutant: a failed commit keeps the row lock. *)
CommitFailsKeepingLock(p) ==
    /\ pc[p] = "commit"
    /\ Return(p, "TRANSACTION_ERROR")
    /\ UNCHANGED <<rowVars, lock, clock, localVars, outVars>>

(* UnitOfWork.commit raises TransactionError; whether the server committed   *)
(* before the connection was lost is unknown to the caller.                  *)
CommitFails(p) ==
    /\ pc[p] = "commit"
    /\ WriteRow(p) \/ UNCHANGED <<state, consumed_at>>
    /\ lock' = [lock EXCEPT ![Id(p)] = None]
    /\ Return(p, "TRANSACTION_ERROR")
    /\ UNCHANGED <<envelope, clock, localVars, outVars>>

(* _diagnosticar: further statements read the row to say why.  The first     *)
(* reads its state ...                                                       *)
diagnosticar(p) ==
    /\ pc[p] = "diagnose"
    /\ \/ state[Id(p)] = "ABSENT" /\ Return(p, "NOT_FOUND")
       \/ state[Id(p)] = "CONSUMED" /\ Return(p, "ALREADY_CONSUMED")
       \/ state[Id(p)] = "REVOKED" /\ Return(p, "APPROVAL_REVOKED")
       \/ state[Id(p)] = "ACTIVE" /\ Goto(p, "expired")
    /\ UNCHANGED <<rowVars, lock, clock, localVars, outVars>>

(* ... and of a row still ACTIVE the second asks whether it expired.         *)
consultar_vencida(p) ==
    LET vencida == envelope[Id(p)].expires_at <= clock
    IN /\ pc[p] = "expired"
       /\ Return(p, IF p \in Executors /\ vencida THEN "EXPIRED" ELSE "BINDING_MISMATCH")
       /\ UNCHANGED <<rowVars, lock, clock, localVars, outVars>>

-----------------------------------------------------------------------------
(* Phase C: effect, then receipt, target by target. *)

(* The iteration for one target ends with `desfecho`; the last one returns   *)
(* the DestructiveExecutionReport.                                           *)
AppendDesfecho(x, desfecho) ==
    /\ desfechos' = [desfechos EXCEPT ![x] = Append(@, desfecho)]
    /\ IF Posicao(x) = Len(frescos[x]) THEN Return(x, "REPORT") ELSE Goto(x, "effect")

MaterialAttempt(x) ==
    effects' = [effects EXCEPT ![Id(x)][Posicao(x)] = @ + 1]

(* attempt_effect returns an ObservedAttemptResult that matches the request. *)
EffectObserved(x) ==
    /\ pc[x] = "effect"
    /\ MaterialAttempt(x)
    /\ Goto(x, "receipt")
    /\ UNCHANGED <<rowVars, lock, clock, localVars, recibos>>

(* attempt_effect returns MaterialAttemptNotStarted: no receipt. *)
EffectNotStarted(x) ==
    /\ pc[x] = "effect"
    /\ AppendDesfecho(x, "NOT_ATTEMPTED")
    /\ UNCHANGED <<rowVars, lock, clock, request, frescos, outVars>>

(* attempt_effect raises, or returns a result about another approval,        *)
(* subject or class: whether the target was touched is unknown.              *)
EffectUnknown(x) ==
    /\ pc[x] = "effect"
    /\ MaterialAttempt(x) \/ UNCHANGED effects
    /\ \/ Return(x, "UNKNOWN_MATERIAL_STATE")
       \/ Return(x, "ADAPTER_CONTRACT_VIOLATION")
    /\ UNCHANGED <<rowVars, lock, clock, localVars, recibos>>

StoreReceipt(x) ==
    recibos' = [recibos EXCEPT ![Id(x)][Posicao(x)] = @ + 1]

registrar_recibo(x) ==
    /\ pc[x] = "receipt"
    /\ StoreReceipt(x)
    /\ AppendDesfecho(x, "ATTEMPTED")
    /\ UNCHANGED <<rowVars, lock, clock, request, frescos, effects>>

(* Mutant: the failed commit of a receipt is swallowed. *)
ReceiptCommitSwallowed(x) ==
    /\ pc[x] = "receipt"
    /\ StoreReceipt(x) \/ UNCHANGED recibos
    /\ AppendDesfecho(x, "ATTEMPTED")
    /\ UNCHANGED <<rowVars, lock, clock, request, frescos, effects>>

(* The receipt's commit raises TransactionError, applied or not. *)
ReceiptCommitFails(x) ==
    /\ pc[x] = "receipt"
    /\ StoreReceipt(x) \/ UNCHANGED recibos
    /\ Return(x, "ERASURE_RECEIPT_NOT_PERSISTED")
    /\ UNCHANGED <<rowVars, lock, clock, localVars, effects>>

(* The receipt's INSERT fails when it is flushed: BaseRepository.add raises  *)
(* PersistenceError, which execute does not catch.                           *)
ReceiptFlushFails(x) ==
    /\ pc[x] = "receipt"
    /\ Return(x, "PERSISTENCE_ERROR")
    /\ UNCHANGED <<rowVars, lock, clock, localVars, outVars>>

-----------------------------------------------------------------------------
(* The process dies; the database rolls its open transaction back. *)
Crash(p) ==
    /\ pc[p] \notin {"idle", "done"}
    /\ Return(p, "CRASHED")
    /\ lock' = [a \in Approvals |-> IF lock[a] = p THEN None ELSE lock[a]]
    /\ UNCHANGED <<rowVars, clock, localVars, outVars>>

(* The caller is free to call again, with the same request or another. *)
NextCall(p) ==
    /\ pc[p] = "done"
    /\ pc' = [pc EXCEPT ![p] = "idle"]
    /\ request' = [request EXCEPT ![p] = None]
    /\ frescos' = [frescos EXCEPT ![p] = <<>>]
    /\ desfechos' = [desfechos EXCEPT ![p] = <<>>]
    /\ result' = [result EXCEPT ![p] = "NONE"]
    /\ UNCHANGED <<rowVars, lock, clock, agora, carimbo, outVars>>

Transition(p) ==
    \/ Transicionar(p) \/ EvaluateSet(p) \/ LockRow(p) \/ Commit(p) \/ CommitFails(p)
    \/ diagnosticar(p) \/ consultar_vencida(p)

PhaseC(x) ==
    \/ EffectObserved(x) \/ EffectNotStarted(x) \/ EffectUnknown(x)
    \/ registrar_recibo(x) \/ ReceiptCommitFails(x) \/ ReceiptFlushFails(x)

Next ==
    \/ Tick
    \/ \E e \in Envelopes : append_approved(e)
    \/ \E x \in Executors, r \in Requests : execute(x, r)
    \/ \E v \in Revokers, e \in Envelopes : revoke_once(v, e)
    \/ \E x \in Executors : resolve_target(x) \/ PhaseC(x)
    \/ \E p \in Processes : Transition(p) \/ Crash(p) \/ NextCall(p)

Spec == Init /\ [][Next]_vars
-----------------------------------------------------------------------------
(* Properties. *)

Labels == {"idle", "resolve", "update", "stamp", "lock", "commit", "diagnose",
           "expired", "effect", "receipt", "done"}

Results ==
    {"NONE", "CRASHED", "TRANSACTION_ERROR", "REVOKED", "REPORT"}
    \cup {"BATCH_CARDINALITY_MISMATCH", "DUPLICATE_SUBJECT_IN_BATCH",
          "REFERENCE_DOES_NOT_MATCH_APPROVED_TARGET",
          "GOVERNANCE_PROVENANCE_INCOMPLETE",
          "TARGET_RESOLUTION_REFUSED", "FRESH_SNAPSHOT_DIVERGED"}
    \cup {"NOT_FOUND", "ALREADY_CONSUMED", "APPROVAL_REVOKED", "EXPIRED", "BINDING_MISMATCH"}
    \cup {"UNKNOWN_MATERIAL_STATE", "ADAPTER_CONTRACT_VIOLATION",
          "ERASURE_RECEIPT_NOT_PERSISTED", "PERSISTENCE_ERROR"}

TypeOK ==
    /\ envelope \in [Approvals -> Envelopes \cup {None}]
    /\ state \in [Approvals -> {"ABSENT", "ACTIVE", "CONSUMED", "REVOKED"}]
    /\ consumed_at \in [Approvals -> Nat \cup {None}]
    /\ \A a \in Approvals : consumed_at[a] = None <=> state[a] # "CONSUMED"
    /\ lock \in [Approvals -> Processes \cup {None}]
    /\ clock \in 0 .. MaxClock
    /\ pc \in [Processes -> Labels]
    /\ request \in [Processes -> Requests \cup {None}]
    /\ frescos \in [Processes -> Seq(Snapshots)]
    /\ agora \in [Processes -> 0 .. MaxClock]
    /\ carimbo \in [Processes -> 0 .. MaxClock]
    /\ desfechos \in [Processes -> Seq({"ATTEMPTED", "NOT_ATTEMPTED"})]
    /\ result \in [Processes -> Results]
    /\ effects \in [Approvals -> [Positions -> Nat]]
    /\ recibos \in [Approvals -> [Positions -> Nat]]

(* Whatever executors race, crash and retry with the same approval, a target *)
(* of its batch is materially attempted at most once: consume_once hands the *)
(* approval to one call of execute and never again.                          *)
AtMostOneEffect ==
    \A a \in Approvals, i \in Positions : effects[a][i] <= 1

(* execute never touches a target under an approval whose consumption is not *)
(* durable, so a revoked, expired or missing approval has no effect.         *)
ConsumptionBeforeEffect ==
    \A a \in Approvals, i \in Positions :
        effects[a][i] > 0 => state[a] = "CONSUMED"

(* A call acts on a consumption whose WHERE found the approval of the row    *)
(* unexpired, whatever it waited for since.  What the row keeps as           *)
(* consumed_at is no earlier than that comparison, and may lie at or after   *)
(* the expiry: it is a second evaluation of clock_timestamp().               *)
ComparedBeforeExpiry ==
    \A x \in Executors : InPhaseC(x) =>
        /\ agora[x] < envelope[Id(x)].expires_at
        /\ agora[x] <= consumed_at[Id(x)]

(* The descriptors phase C hands to the effect port are the targets of the   *)
(* persisted approval, in its order: phase A compared them with the caller's *)
(* envelope, and consume_once the caller's envelope with the row.            *)
EffectsOnApprovedTargets ==
    \A x \in Executors : InPhaseC(x) => frescos[x] = envelope[Id(x)].targets

(* An effect has the authority of the row: its targets, compared in time.    *)
EffectsAuthorised == ComparedBeforeExpiry /\ EffectsOnApprovedTargets

(* A target is attempted only if every earlier attempt of its batch has its  *)
(* committed receipt: the loop of phase C stops at the first unknown state.  *)
StopAtFirstImpediment ==
    \A a \in Approvals, i, j \in Positions :
        j < i /\ effects[a][i] > 0 => effects[a][j] = recibos[a][j]

(* What a call lists as attempted has a committed receipt, and what it lists *)
(* as not attempted has none (AGGREGATE_LISTS_ONLY_COMMITTED_RECEIPTS).      *)
OutcomesAreReceipts ==
    \A x \in Executors : \A i \in 1 .. Len(desfechos[x]) :
        recibos[Id(x)][i] = IF desfechos[x][i] = "ATTEMPTED" THEN 1 ELSE 0

(* Phase C as a whole: effects and receipts stay in step along the batch,    *)
(* and the report of a call says what is durable.                            *)
EffectsAccounted == StopAtFirstImpediment /\ OutcomesAreReceipts

KeepsDecisions ==
    \A a \in Approvals :
        state[a] \in {"CONSUMED", "REVOKED"} =>
            state'[a] = state[a] /\ consumed_at'[a] = consumed_at[a]

(* CONSUMED and REVOKED are final: neither a late UPDATE that waited for the *)
(* row lock nor a retry overwrites the winner of the dispute.                *)
DecisionIsFinal == [][KeepsDecisions]_vars

(* A row lock is held only by a call that is about to commit its UPDATE:     *)
(* whoever waits for it waits for a call that still runs, never for one that *)
(* returned, failed to commit or died.                                       *)
LockHoldersCommit ==
    \A a \in Approvals :
        lock[a] # None => pc[lock[a]] = "commit" /\ Id(lock[a]) = a

(* The approval lifecycle as an abstract single-use grant. *)
GrantStatus(st) ==
    CASE st = "ABSENT"   -> "absent"
      [] st = "ACTIVE"   -> "offered"
      [] st = "CONSUMED" -> "spent"
      [] st = "REVOKED"  -> "withdrawn"

Grant == INSTANCE SingleUseGrant WITH
    Grants <- Approvals, Items <- Positions,
    status <- [a \in Approvals |-> GrantStatus(state[a])],
    attempts <- effects

(* The pipeline implements the single-use grant: consumption and revocation  *)
(* have one winner, and execute attempts each target of a consumed approval  *)
(* at most once, after the consumption.                                      *)
ImplementsSingleUse == Grant!Spec
=============================================================================
