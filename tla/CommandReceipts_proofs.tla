----------------------- MODULE CommandReceipts_proofs -----------------------
(* Proofs about CommandReceipts for any sessions and requests: the types, the *)
(* once-only effect, the agreement of the answers, and the refinement of      *)
(* OnceOnly; and that a replay is never refused.  Then, about Synchronization *)
(* for any instances and objects, that no import leaves part of a lineage.    *)
EXTENDS CommandReceipts, Synchronization, FiniteSetTheorems, TLAPS

(* A session that claimed its key holds it and no receipt is committed yet;  *)
(* one that replays has the receipt of an equal request; one that has not    *)
(* answered yet has no answer.                                               *)
ClaimInv ==
    \A s \in Sessions :
        /\ pc[s] \notin {"effect", "commit", "done"} => ~ claimed[s]
        /\ pc[s] = "effect" => claimed[s]
        /\ pc[s] \in {"effect", "commit"} /\ claimed[s] =>
               claimer[request[s].key] = s /\ receipt[request[s].key] = None
        /\ pc[s] = "commit" /\ ~ claimed[s] =>
               /\ receipt[request[s].key] # None
               /\ receipt[request[s].key].fingerprint = request[s].fingerprint
        /\ pc[s] # "done" => answer[s] = None

IInv == TypeOK /\ ExactlyOnce /\ AnswersAgree /\ ClaimInv

(* A request names a key, a Schedule and a receipt of the model. *)
LEMMA RequestParts ==
    ASSUME NEW r \in Requests, NEW s \in Sessions
    PROVE  /\ r.key \in Keys
           /\ r.schedule \in Schedules
           /\ [fingerprint |-> r.fingerprint, outcome_ref |-> s] \in Receipts
BY DEF Keys, Schedules, Receipts

(* The initial state satisfies the inductive invariant. *)
LEMMA InitIInv == Init => IInv
BY NoneAssumption DEF Init, IInv, TypeOK, ExactlyOnce, AnswersAgree, ClaimInv, Labels, Key

(* Steps that neither write rows nor take or leave a key: the session s      *)
(* moves between labels that promise nothing, or ends with an error.         *)
LEMMA QuietStep ==
    ASSUME IInv, NEW s \in Sessions, pc[s] # "idle",
           UNCHANGED <<receipt, effects, open, request, claimed>>,
           claimer' \in [Keys -> Sessions \cup {None}],
           \A k \in Keys : claimer'[k] = claimer[k] \/ claimer[k] = s,
           locked' \in [Schedules -> Sessions \cup {None}],
           NEW l \in {"lock", "recheck", "preflight", "claim", "done"},
           pc' = [pc EXCEPT ![s] = l],
           l # "done" => pc[s] \in {"replay", "lock", "recheck", "preflight"},
           \/ l = "done" /\ \E e \in Errors : answer' = [answer EXCEPT ![s] = e]
           \/ l # "done" /\ UNCHANGED answer
    PROVE  IInv'
<1>. USE DEF IInv
<1>1. answer' \in [Sessions -> Sessions \cup Errors \cup {None}]
    BY DEF TypeOK
<1>2. TypeOK'
    BY <1>1 DEF TypeOK, Labels
<1>3. ExactlyOnce'
    BY DEF ExactlyOnce
<1>4. AnswersAgree'
    BY NoneAssumption DEF AnswersAgree, Key, TypeOK
<1>5. ClaimInv'
  <2> SUFFICES ASSUME NEW u \in Sessions
               PROVE  /\ pc'[u] \notin {"effect", "commit", "done"} => ~ claimed'[u]
                      /\ pc'[u] = "effect" => claimed'[u]
                      /\ pc'[u] \in {"effect", "commit"} /\ claimed'[u] =>
                             claimer'[request'[u].key] = u /\ receipt'[request'[u].key] = None
                      /\ pc'[u] = "commit" /\ ~ claimed'[u] =>
                             /\ receipt'[request'[u].key] # None
                             /\ receipt'[request'[u].key].fingerprint = request'[u].fingerprint
                      /\ pc'[u] # "done" => answer'[u] = None
      BY DEF ClaimInv
  <2>1. CASE u = s
      BY <2>1 DEF ClaimInv, TypeOK
  <2>2. CASE u # s
    <3>1. pc'[u] = pc[u] /\ answer'[u] = answer[u]
        BY <2>2 DEF TypeOK
    <3>2. pc[u] # "idle" => request[u].key \in Keys
        BY RequestParts DEF TypeOK
    <3>. QED BY <2>2, <3>1, <3>2 DEF ClaimInv
  <2>. QED BY <2>1, <2>2
<1>. QED BY <1>2, <1>3, <1>4, <1>5

(* What Release leaves of the locks. *)
LEMMA ReleaseFrame ==
    ASSUME TypeOK, NEW s \in Sessions, Release(s)
    PROVE  /\ claimer' \in [Keys -> Sessions \cup {None}]
           /\ \A k \in Keys : claimer'[k] = claimer[k] \/ claimer[k] = s
           /\ locked' \in [Schedules -> Sessions \cup {None}]
BY DEF Release, TypeOK

(* The step of a session that ends with an error and writes nothing. *)
LEMMA ErrorStep ==
    ASSUME IInv, NEW s \in Sessions, pc[s] # "idle", NEW e \in Errors, Answer(s, e),
           UNCHANGED <<receipt, effects, open, request, claimed>>
    PROVE  IInv'
<1>1. TypeOK /\ Release(s)
    BY DEF IInv, Answer
<1>2. /\ pc' = [pc EXCEPT ![s] = "done"]
      /\ \E x \in Errors : answer' = [answer EXCEPT ![s] = x]
    BY DEF Answer
<1>. QED BY <1>1, <1>2, ReleaseFrame, QuietStep

(* start: the session gets its request. *)
LEMMA StartStep ==
    ASSUME IInv, NEW s \in Sessions, NEW r \in Requests, start(s, r)
    PROVE  IInv'
<1>. USE DEF IInv, start, dbVars, Goto
<1>1. TypeOK'
    BY DEF TypeOK, Labels
<1>2. ExactlyOnce'
    BY DEF ExactlyOnce
<1>3. AnswersAgree'
    BY NoneAssumption DEF AnswersAgree, Key, TypeOK, ClaimInv
<1>4. ClaimInv'
    BY DEF ClaimInv, TypeOK
<1>. QED BY <1>1, <1>2, <1>3, <1>4

(* The unlocked and the locked look for a replay. *)
LEMMA ReplayStep ==
    ASSUME IInv, NEW s \in Sessions, pc[s] \in {"replay", "recheck"},
           NEW l \in {"lock", "preflight"}, replay_de_export(s, l),
           UNCHANGED <<receipt, effects, open, request, claimed>>
    PROVE  IInv'
<1>1. CASE Answer(s, "CONFLICT")
    BY <1>1, ErrorStep DEF Errors
<1>2. CASE Goto(s, l) /\ UNCHANGED <<claimer, locked>>
    BY <1>2, QuietStep DEF Goto, IInv, TypeOK
<1>3. CASE Goto(s, "claim") /\ UNCHANGED <<claimer, locked>>
    BY <1>3, QuietStep DEF Goto, IInv, TypeOK
<1>. QED BY <1>1, <1>2, <1>3 DEF replay_de_export

(* lock_schedule *)
LEMMA LockStep ==
    ASSUME IInv, NEW s \in Sessions, lock_schedule(s)
    PROVE  IInv'
<1>1. locked' \in [Schedules -> Sessions \cup {None}]
    BY DEF IInv, TypeOK, lock_schedule
<1>. QED BY <1>1, QuietStep DEF lock_schedule, Goto, IInv, TypeOK, dbVars

(* preflight *)
LEMMA PreflightStep ==
    ASSUME IInv, NEW s \in Sessions, preflight(s)
    PROVE  IInv'
<1>1. CASE Answer(s, "REFUSED")
    BY <1>1, ErrorStep DEF Errors, preflight, dbVars
<1>2. CASE Answer(s, "BLOCKED")
    BY <1>2, ErrorStep DEF Errors, preflight, dbVars
<1>3. CASE Goto(s, "claim") /\ UNCHANGED <<claimer, locked>>
    BY <1>3, QuietStep DEF Goto, IInv, TypeOK, preflight, dbVars
<1>. QED BY <1>1, <1>2, <1>3 DEF preflight

(* claim_command: the key is free, so no other session holds it. *)
LEMMA ClaimStep ==
    ASSUME IInv, NEW s \in Sessions, claim_command(s)
    PROVE  IInv'
<1>. DEFINE k == request[s].key
<1>1. k \in Keys /\ pc[s] = "claim" /\ claimer[k] = None /\ request[s] \in Requests
    BY RequestParts DEF IInv, TypeOK, claim_command, Key
<1>2. CASE /\ receipt[k] = None
           /\ claimer' = [claimer EXCEPT ![k] = s]
           /\ claimed' = [claimed EXCEPT ![s] = TRUE]
           /\ Goto(s, "effect")
           /\ UNCHANGED <<locked, dbVars, request>>
  <2>. USE <1>1, <1>2 DEF IInv, Goto, dbVars
  <2>1. TypeOK'
      BY DEF TypeOK, Labels
  <2>2. ExactlyOnce' /\ AnswersAgree'
      BY DEF ExactlyOnce, AnswersAgree, Key
  <2>3. ClaimInv'
      BY NoneAssumption, RequestParts DEF ClaimInv, TypeOK
  <2>. QED BY <2>1, <2>2, <2>3
<1>3. CASE Answer(s, "CONFLICT") /\ UNCHANGED <<claimed, dbVars, request>>
    BY <1>1, <1>3, ErrorStep DEF Errors, dbVars
<1>4. CASE /\ receipt[k] # None
           /\ receipt[k].fingerprint = request[s].fingerprint
           /\ claimer' = [claimer EXCEPT ![k] = s]
           /\ Goto(s, "commit")
           /\ UNCHANGED <<locked, claimed, dbVars, request>>
  <2>. USE <1>1, <1>4 DEF IInv, Goto, dbVars
  <2>1. TypeOK'
      BY DEF TypeOK, Labels
  <2>2. ExactlyOnce' /\ AnswersAgree'
      BY DEF ExactlyOnce, AnswersAgree, Key
  <2>3. ClaimInv'
      BY NoneAssumption, RequestParts DEF ClaimInv, TypeOK
  <2>. QED BY <2>1, <2>2, <2>3
<1>. QED BY <1>2, <1>3, <1>4 DEF claim_command, Key

(* The effects, not yet committed. *)
LEMMA EffectStep ==
    ASSUME IInv, NEW s \in Sessions, EffectExport(s) \/ EffectCommand(s)
    PROVE  IInv'
<1>1. CASE Answer(s, "REFUSED") /\ EffectCommand(s)
    BY <1>1, ErrorStep DEF Errors, EffectCommand, dbVars
<1>2. CASE /\ pc[s] = "effect" /\ Goto(s, "commit")
           /\ UNCHANGED <<claimer, dbVars, request, claimed>>
           /\ locked' \in [Schedules -> Sessions \cup {None}]
  <2>. USE <1>2 DEF IInv, Goto, dbVars
  <2>1. TypeOK'
      BY DEF TypeOK, Labels
  <2>2. ExactlyOnce' /\ AnswersAgree'
      BY DEF ExactlyOnce, AnswersAgree, Key
  <2>3. ClaimInv'
      BY DEF ClaimInv, TypeOK
  <2>. QED BY <2>1, <2>2, <2>3
<1>. QED BY <1>1, <1>2 DEF EffectExport, EffectCommand, IInv, TypeOK

(* A commit that takes effect: the claimed key gets its receipt and its one  *)
(* effect; no other session holds the key.                                   *)
LEMMA CommitStep ==
    ASSUME IInv, NEW s \in Sessions, pc[s] = "commit", WriteEffect(s),
           NEW a \in {OutcomeRef(s), "ERROR"}, Answer(s, a),
           UNCHANGED <<request, claimed>>
    PROVE  IInv'
<1>. DEFINE k == request[s].key
            rec == [fingerprint |-> request[s].fingerprint, outcome_ref |-> s]
<1>0. /\ k \in Keys /\ request[s] \in Requests /\ rec \in Receipts
      /\ request[s].schedule \in Schedules
    BY RequestParts DEF IInv, TypeOK
<1>1. CASE ~ claimed[s]
  <2>1. receipt[k] \in Receipts /\ receipt[k].fingerprint = request[s].fingerprint
      BY <1>0, <1>1 DEF IInv, TypeOK, ClaimInv
  <2>2. /\ OutcomeRef(s) = receipt[k].outcome_ref
        /\ receipt[k].outcome_ref \in Sessions
        /\ receipt[k] = [fingerprint |-> request[s].fingerprint,
                         outcome_ref |-> receipt[k].outcome_ref]
      BY <1>1, <2>1 DEF OutcomeRef, Key, Receipts
  <2>3. UNCHANGED <<receipt, effects, open>>
      BY <1>1 DEF WriteEffect, dbVars
  <2>4. TypeOK'
      BY <2>2, <2>3, ReleaseFrame DEF IInv, TypeOK, Answer, Labels, Errors
  <2>5. ExactlyOnce'
      BY <2>3 DEF IInv, ExactlyOnce
  <2>6. AnswersAgree'
      BY <2>2, <2>3, NoneAssumption DEF IInv, TypeOK, AnswersAgree, Answer, Key, Errors
  <2>7. ClaimInv'
    <3>1. \A u \in Sessions \ {s} : /\ pc'[u] = pc[u] /\ answer'[u] = answer[u]
                                    /\ request'[u] = request[u] /\ claimed'[u] = claimed[u]
        BY DEF IInv, TypeOK, Answer
    <3>2. ASSUME NEW u \in Sessions \ {s}, pc[u] \in {"effect", "commit"}, claimed[u]
          PROVE  claimer'[request[u].key] = u
      <4>1. request[u].key \in Keys /\ claimer[request[u].key] = u
          BY <3>2, RequestParts DEF IInv, TypeOK, ClaimInv
      <4>. QED BY <3>2, <4>1, ReleaseFrame DEF IInv, Answer
    <3>3. pc'[s] = "done"
        BY DEF IInv, TypeOK, Answer
    <3>. QED BY <2>3, <3>1, <3>2, <3>3 DEF IInv, ClaimInv
  <2>. QED BY <2>4, <2>5, <2>6, <2>7 DEF IInv
<1>2. CASE claimed[s]
  <2>1. /\ receipt' = [receipt EXCEPT ![k] = rec]
        /\ effects' = [effects EXCEPT ![k] = effects[k] + 1]
        /\ open' \in [Schedules -> BOOLEAN]
      BY <1>0, <1>2 DEF WriteEffect, Key, Agenda, IInv, TypeOK
  <2>2. OutcomeRef(s) = s
      BY <1>2 DEF OutcomeRef
  <2>3. receipt[k] = None /\ claimer[k] = s
      BY <1>2 DEF IInv, ClaimInv
  <2>4. TypeOK'
      BY <1>0, <2>1, <2>2, ReleaseFrame DEF IInv, TypeOK, Answer, Labels, Errors
  <2>5. ExactlyOnce'
      BY <1>0, <2>1, <2>3, NoneAssumption DEF IInv, TypeOK, ExactlyOnce
  <2>6. AnswersAgree'
    <3> SUFFICES ASSUME NEW u \in Sessions, answer'[u] \in Sessions
                 PROVE  receipt'[request'[u].key] =
                            [fingerprint |-> request'[u].fingerprint, outcome_ref |-> answer'[u]]
        BY DEF AnswersAgree, Key
    <3>1. CASE u = s
        BY <3>1, <1>0, <2>1, <2>2, NoneAssumption DEF IInv, TypeOK, Answer, Errors
    <3>2. CASE u # s
      <4>1. answer'[u] = answer[u] /\ request'[u] = request[u]
          BY <3>2 DEF IInv, TypeOK, Answer
      <4>2. receipt[request[u].key] =
                [fingerprint |-> request[u].fingerprint, outcome_ref |-> answer[u]]
          BY <4>1 DEF IInv, AnswersAgree, Key
      <4>3. pc[u] # "idle"
          BY <4>1, NoneAssumption DEF IInv, ClaimInv
      <4>4. request[u] \in Requests /\ request[u].key \in Keys
          BY <4>3, RequestParts DEF IInv, TypeOK
      <4>5. receipt[request[u].key] # None
          BY <4>1, <4>2, <4>4, NoneAssumption, RequestParts DEF Receipts
      <4>. QED BY <4>1, <4>2, <4>4, <4>5, <2>1, <2>3, <1>0 DEF IInv, TypeOK
    <3>. QED BY <3>1, <3>2
  <2>7. ClaimInv'
    <3>1. \A u \in Sessions \ {s} : /\ pc'[u] = pc[u] /\ answer'[u] = answer[u]
                                    /\ request'[u] = request[u] /\ claimed'[u] = claimed[u]
        BY DEF IInv, TypeOK, Answer
    <3>2. \A u \in Sessions \ {s} : pc[u] # "idle" => request[u].key \in Keys
        BY RequestParts DEF IInv, TypeOK
    <3>3. \A u \in Sessions \ {s} :
              pc[u] \in {"effect", "commit"} /\ claimed[u] =>
                  /\ request[u].key # k
                  /\ claimer'[request[u].key] = u /\ receipt'[request[u].key] = None
        BY <1>0, <2>1, <2>3, <3>2, ReleaseFrame DEF IInv, TypeOK, ClaimInv, Answer
    <3>4. \A u \in Sessions \ {s} :
              pc[u] = "commit" /\ ~ claimed[u] =>
                  /\ receipt'[request[u].key] # None
                  /\ receipt'[request[u].key].fingerprint = request[u].fingerprint
        BY <1>0, <2>1, <2>3, <3>2, NoneAssumption DEF IInv, TypeOK, ClaimInv
    <3>5. pc'[s] = "done"
        BY DEF IInv, TypeOK, Answer
    <3>. QED BY <3>1, <3>3, <3>4, <3>5 DEF IInv, ClaimInv
  <2>. QED BY <2>4, <2>5, <2>6, <2>7 DEF IInv
<1>. QED BY <1>1, <1>2

(* Every step preserves the inductive invariant. *)
LEMMA NextIInv == IInv /\ [Next]_vars => IInv'
<1> SUFFICES ASSUME IInv, [Next]_vars PROVE IInv'
    OBVIOUS
<1>1. CASE UNCHANGED vars
    BY <1>1 DEF IInv, TypeOK, ExactlyOnce, AnswersAgree, ClaimInv, vars, Key
<1>2. ASSUME NEW s \in Sessions, NEW r \in Requests, start(s, r) PROVE IInv'
    BY <1>2, StartStep
<1>3. ASSUME NEW s \in Sessions, PhaseZero(s) \/ Recheck(s) PROVE IInv'
    BY <1>3, ReplayStep DEF PhaseZero, Recheck, dbVars
<1>4. ASSUME NEW s \in Sessions, lock_schedule(s) PROVE IInv'
    BY <1>4, LockStep
<1>5. ASSUME NEW s \in Sessions, preflight(s) PROVE IInv'
    BY <1>5, PreflightStep
<1>6. ASSUME NEW s \in Sessions, claim_command(s) PROVE IInv'
    BY <1>6, ClaimStep
<1>7. ASSUME NEW s \in Sessions, EffectExport(s) \/ EffectCommand(s) PROVE IInv'
    BY <1>7, EffectStep
<1>8. ASSUME NEW s \in Sessions, Commit(s) PROVE IInv'
    BY <1>8, CommitStep DEF Commit
<1>9. ASSUME NEW s \in Sessions, CommitFails(s) PROVE IInv'
  <2>1. CASE WriteEffect(s)
      BY <1>9, <2>1, CommitStep DEF CommitFails
  <2>2. CASE UNCHANGED dbVars
      BY <1>9, <2>2, ErrorStep DEF CommitFails, dbVars, Errors
  <2>. QED BY <1>9, <2>1, <2>2 DEF CommitFails
<1>10. ASSUME NEW s \in Sessions, Rollback(s) PROVE IInv'
    BY <1>10, ErrorStep DEF Rollback, dbVars, Errors
<1>. QED BY <1>1, <1>2, <1>3, <1>4, <1>5, <1>6, <1>7, <1>8, <1>9, <1>10 DEF Next, Step

(* The rows, locks and requests keep their types for any sessions and        *)
(* requests (claim_command, _executar_uma_vez, exportar_handoff).            *)
THEOREM ReceiptsTyped == Spec => []TypeOK
<1>1. IInv => TypeOK
    BY DEF IInv
<1>. QED BY <1>1, InitIInv, NextIInv, PTL DEF Spec

(* However many requests carry a command key, its effect is committed        *)
(* exactly when its receipt is, and once.                                    *)
THEOREM KeyedOnce == Spec => []ExactlyOnce
<1>1. IInv => ExactlyOnce
    BY DEF IInv
<1>. QED BY <1>1, InitIInv, NextIInv, PTL DEF Spec

(* Every successful answer under a key names the outcome of its receipt.     *)
THEOREM SameAnswer == Spec => []AnswersAgree
<1>1. IInv => AnswersAgree
    BY DEF IInv
<1>. QED BY <1>1, InitIInv, NextIInv, PTL DEF Spec

(* Both together: one effect and one answer per key.                         *)
THEOREM OneAnswer == Spec => []OneAnswerPerKey
<1>1. IInv => OneAnswerPerKey
    BY DEF IInv, OneAnswerPerKey
<1>. QED BY <1>1, InitIInv, NextIInv, PTL DEF Spec

(* A committed write is a Perform of the once-only key. *)
LEMMA WritePerforms ==
    ASSUME IInv, NEW s \in Sessions, pc[s] = "commit", WriteEffect(s)
    PROVE  Once!Next \/ UNCHANGED <<receipt, effects>>
<1>1. CASE ~ claimed[s]
    BY <1>1 DEF WriteEffect, dbVars
<1>2. CASE claimed[s]
  <2>. DEFINE k == request[s].key
              rec == [fingerprint |-> request[s].fingerprint, outcome_ref |-> s]
  <2>1. k \in Keys /\ rec \in Receipts
      BY RequestParts DEF IInv, TypeOK
  <2>2. receipt[k] = None /\ effects[k] = 0
      BY <1>2, <2>1 DEF IInv, ClaimInv, ExactlyOnce
  <2>3. /\ receipt' = [receipt EXCEPT ![k] = rec]
        /\ effects' = [effects EXCEPT ![k] = 1]
      BY <1>2, <2>2 DEF WriteEffect, Key
  <2>4. Once!Perform(k, rec)
      BY <2>2, <2>3 DEF Once!Perform
  <2>. QED BY <2>1, <2>4 DEF Once!Next
<1>. QED BY <1>1, <1>2

(* CommandReceiptService implements the once-only key: receipts and effects  *)
(* change only when a transaction that claimed its key commits.              *)
THEOREM OnceOnlyRefined == Spec => ImplementsOnceOnly
<1>1. Init => Once!Init
    BY DEF Init, Once!Init
<1>2. IInv /\ [Next]_vars => [Once!Next]_(Once!vars)
  <2> SUFFICES ASSUME IInv, [Next]_vars PROVE Once!Next \/ UNCHANGED <<receipt, effects>>
      BY DEF Once!vars
  <2>1. ASSUME NEW s \in Sessions, Commit(s) \/ CommitFails(s)
        PROVE  Once!Next \/ UNCHANGED <<receipt, effects>>
    <3>1. CASE WriteEffect(s)
        BY <2>1, <3>1, WritePerforms DEF Commit, CommitFails
    <3>2. CASE UNCHANGED dbVars
        BY <3>2 DEF dbVars
    <3>. QED BY <2>1, <3>1, <3>2 DEF Commit, CommitFails
  <2>2. CASE UNCHANGED vars
      BY <2>2 DEF vars
  <2>. QED BY <2>1, <2>2 DEF Next, Step, start, PhaseZero, Recheck, lock_schedule,
               preflight, claim_command, EffectExport, EffectCommand, Rollback, dbVars
<1>. QED BY <1>1, <1>2, InitIInv, NextIInv, PTL DEF Spec, ImplementsOnceOnly, Once!Spec
-----------------------------------------------------------------------------
(* Replays are not refused. *)

(* The second search for a replay is made under the lock of the Schedule, so *)
(* what it found still holds at the preflight: who claims the effect of an   *)
(* equal request needs that lock, or had found the receipt already.          *)
ReplayOf(s) ==
    /\ pc[s] \in {"replay", "lock", "recheck", "preflight"} => request[s].op = "export"
    /\ pc[s] \in {"recheck", "preflight"} => locked[Agenda(s)] = s
    /\ pc[s] = "preflight" =>
           \/ receipt[Key(s)] = None
           \/ receipt[Key(s)].fingerprint # request[s].fingerprint
    /\ pc[s] \in {"claim", "effect"} /\ request[s].op = "export" =>
           locked[Agenda(s)] = s \/ receipt[Key(s)] # None
    /\ pc[s] = "commit" /\ claimed[s] => locked[Agenda(s)] = s

ReplayInv == \A s \in Sessions : ReplayOf(s)

(* What a step of s leaves to another session: its place, its locks, and a   *)
(* receipt once there is one.                                                *)
LEMMA OthersOfAStep ==
    ASSUME IInv, NEW s \in Sessions, NEW u \in Sessions \ {s},
           (\E r \in Requests : start(s, r)) \/ Step(s) \/ CommitFails(s) \/ Rollback(s)
    PROVE  /\ pc'[u] = pc[u] /\ request'[u] = request[u] /\ claimed'[u] = claimed[u]
           /\ \A a \in Schedules : locked[a] = u => locked'[a] = u
           /\ \A k \in Keys : receipt[k] # None => receipt'[k] # None
           /\ UNCHANGED receipt \/ (pc[s] = "commit" /\ claimed[s] /\ WriteEffect(s))
<1>. USE DEF IInv
<1>1. /\ pc'[u] = pc[u] /\ request'[u] = request[u] /\ claimed'[u] = claimed[u]
      /\ \A a \in Schedules : locked[a] = u => locked'[a] = u
  <2>. USE NoneAssumption DEF TypeOK, Goto, Answer, Release
  <2>1. CASE \E r \in Requests : start(s, r)
      BY <2>1 DEF start
  <2>2. CASE PhaseZero(s) \/ Recheck(s)
      BY <2>2 DEF PhaseZero, Recheck, replay_de_export
  <2>3. CASE lock_schedule(s)
      BY <2>3 DEF lock_schedule
  <2>4. CASE preflight(s)
      BY <2>4 DEF preflight
  <2>5. CASE claim_command(s)
      BY <2>5 DEF claim_command
  <2>6. CASE EffectExport(s) \/ EffectCommand(s)
      BY <2>6 DEF EffectExport, EffectCommand
  <2>7. CASE Commit(s) \/ CommitFails(s)
      BY <2>7 DEF Commit, CommitFails
  <2>8. CASE Rollback(s)
      BY <2>8 DEF Rollback
  <2>. QED BY <2>1, <2>2, <2>3, <2>4, <2>5, <2>6, <2>7, <2>8 DEF Step
<1>2. UNCHANGED receipt \/ (pc[s] = "commit" /\ claimed[s] /\ WriteEffect(s))
    BY DEF Step, start, PhaseZero, Recheck, lock_schedule, preflight, claim_command,
           EffectExport, EffectCommand, Commit, CommitFails, Rollback, WriteEffect, dbVars
<1>3. \A k \in Keys : receipt[k] # None => receipt'[k] # None
  <2>1. CASE UNCHANGED receipt
      BY <2>1
  <2>2. CASE claimed[s] /\ WriteEffect(s)
    <3>1. receipt' = [receipt EXCEPT ![Key(s)] =
                [fingerprint |-> request[s].fingerprint, outcome_ref |-> s]]
        BY <2>2 DEF WriteEffect
    <3>2. pc[s] = "commit" \/ UNCHANGED receipt
        BY <1>2
    <3>3. pc[s] = "commit" => [fingerprint |-> request[s].fingerprint, outcome_ref |-> s] # None
        BY NoneAssumption, RequestParts DEF TypeOK
    <3>. QED BY <2>1, <3>1, <3>2, <3>3 DEF TypeOK
  <2>. QED BY <1>2, <2>1, <2>2
<1>. QED BY <1>1, <1>2, <1>3

(* A session is left as ReplayInv says by the steps of the others: whoever   *)
(* commits the receipt of an equal request holds the lock of its Schedule.   *)
LEMMA ReplayOfOthers ==
    ASSUME IInv, ReplayInv, NEW s \in Sessions, NEW u \in Sessions \ {s},
           (\E r \in Requests : start(s, r)) \/ Step(s) \/ CommitFails(s) \/ Rollback(s)
    PROVE  ReplayOf(u)'
<1>1. CASE pc[u] = "idle"
    BY <1>1, OthersOfAStep DEF ReplayOf
<1>2. CASE pc[u] # "idle"
  <2>1. request[u] \in Requests /\ Key(u) \in Keys /\ Agenda(u) \in Schedules
      BY <1>2, RequestParts DEF IInv, TypeOK, Key, Agenda
  <2>2. /\ pc'[u] = pc[u] /\ request'[u] = request[u] /\ claimed'[u] = claimed[u]
        /\ Key(u)' = Key(u) /\ Agenda(u)' = Agenda(u)
        /\ locked[Agenda(u)] = u => locked'[Agenda(u)] = u
        /\ receipt[Key(u)] # None => receipt'[Key(u)] # None
      BY <2>1, OthersOfAStep DEF Key, Agenda
  <2>3. ASSUME pc[u] = "preflight"
        PROVE  receipt'[Key(u)] = None \/ receipt'[Key(u)].fingerprint # request[u].fingerprint
    <3>1. CASE UNCHANGED receipt
        BY <2>3, <3>1 DEF ReplayInv, ReplayOf
    <3>2. CASE pc[s] = "commit" /\ claimed[s] /\ WriteEffect(s)
      <4>1. receipt' = [receipt EXCEPT ![Key(s)] =
                [fingerprint |-> request[s].fingerprint, outcome_ref |-> s]]
          BY <3>2 DEF WriteEffect
      <4>2. Agenda(s) # Agenda(u)
          BY <2>3, <3>2 DEF ReplayInv, ReplayOf
      <4>3. request[s] \in Requests
          BY <3>2 DEF IInv, TypeOK
      <4>4. request[s].fingerprint # request[u].fingerprint
          BY <2>1, <4>2, <4>3, RequestAssumption DEF Agenda
      <4>5. receipt \in [Keys -> Receipts \cup {None}]
          BY DEF IInv, TypeOK
      <4>6. CASE Key(s) = Key(u)
          BY <2>1, <4>1, <4>4, <4>5, <4>6
      <4>7. CASE Key(s) # Key(u)
          BY <2>1, <2>3, <4>1, <4>5, <4>7 DEF ReplayInv, ReplayOf
      <4>. QED BY <4>6, <4>7
    <3>. QED BY <3>1, <3>2, OthersOfAStep
  <2>. QED BY <2>2, <2>3 DEF ReplayInv, ReplayOf
<1>. QED BY <1>1, <1>2

LEMMA ReplayOfMine ==
    ASSUME IInv, ReplayInv, NEW s \in Sessions,
           (\E r \in Requests : start(s, r)) \/ Step(s) \/ CommitFails(s) \/ Rollback(s)
    PROVE  ReplayOf(s)'
<1>. USE DEF IInv, TypeOK, Key, Agenda, Goto, ReplayOf
<1>1. pc[s] \in Labels /\ (pc[s] # "idle" => request[s] \in Requests)
    OBVIOUS
<1>2. CASE \E r \in Requests : start(s, r)
    BY <1>2, RequestAssumption DEF start
<1>3. CASE \E a \in Sessions \cup Errors : Answer(s, a)
    BY <1>3 DEF Answer
<1>4. CASE PhaseZero(s) /\ \A a \in Sessions \cup Errors : ~ Answer(s, a)
    BY <1>4 DEF PhaseZero, replay_de_export, Errors, dbVars, ReplayInv
<1>5. CASE lock_schedule(s)
    BY <1>1, <1>5, RequestParts DEF lock_schedule, dbVars, ReplayInv
<1>6. CASE Recheck(s) /\ \A a \in Sessions \cup Errors : ~ Answer(s, a)
    BY <1>6 DEF Recheck, replay_de_export, Errors, dbVars, ReplayInv
<1>7. CASE preflight(s) /\ \A a \in Sessions \cup Errors : ~ Answer(s, a)
    BY <1>7 DEF preflight, Errors, dbVars, ReplayInv
<1>8. CASE claim_command(s) /\ \A a \in Sessions \cup Errors : ~ Answer(s, a)
    BY <1>8 DEF claim_command, Errors, dbVars, ReplayInv, ClaimInv
<1>9. CASE EffectExport(s)
    BY <1>9 DEF EffectExport, dbVars, ReplayInv, ClaimInv
<1>10. CASE EffectCommand(s) /\ \A a \in Sessions \cup Errors : ~ Answer(s, a)
    BY <1>1, <1>10, RequestParts DEF EffectCommand, Errors, dbVars, ReplayInv
<1>11. CASE CommitFails(s) \/ Rollback(s)
    BY <1>3, <1>11 DEF CommitFails, Rollback, Errors
<1>12. CASE Commit(s)
  <2>1. OutcomeRef(s) \in Sessions
      BY <1>1, <1>12, RequestParts DEF Commit, OutcomeRef, ClaimInv, Receipts
  <2>. QED BY <1>3, <1>12, <2>1 DEF Commit
<1>. QED BY <1>2, <1>3, <1>4, <1>5, <1>6, <1>7, <1>8, <1>9, <1>10, <1>11, <1>12 DEF Step

LEMMA InitReplay == Init => ReplayInv
BY DEF Init, ReplayInv, ReplayOf

LEMMA NextReplay == IInv /\ ReplayInv /\ [Next]_vars => ReplayInv'
<1> SUFFICES ASSUME IInv, ReplayInv, [Next]_vars PROVE ReplayInv'
    OBVIOUS
<1>1. CASE UNCHANGED vars
    BY <1>1 DEF vars, ReplayInv, ReplayOf, Key, Agenda
<1>2. CASE Next
  <2>1. PICK s \in Sessions :
            (\E r \in Requests : start(s, r)) \/ Step(s) \/ CommitFails(s) \/ Rollback(s)
      BY <1>2 DEF Next
  <2>2. \A u \in Sessions : ReplayOf(u)'
      BY <2>1, ReplayOfMine, ReplayOfOthers
  <2>. QED BY <2>2 DEF ReplayInv
<1>. QED BY <1>1, <1>2

(* A request whose receipt is committed is answered as a replay or fails; it *)
(* is never told that its step is not in a state it could start from.        *)
THEOREM ReplaysAreNotRefused == Spec => ReplayIsNotRefused
<1>. DEFINE Kept(s) ==
         answer[s] = None /\ answer'[s] = "REFUSED" =>
             \/ receipt[Key(s)] = None
             \/ receipt[Key(s)].fingerprint # request[s].fingerprint
<1>1. IInv /\ ReplayInv /\ [Next]_vars => [\A s \in Sessions : Kept(s)]_vars
  <2> SUFFICES ASSUME IInv, ReplayInv, Next PROVE \A s \in Sessions : Kept(s)
      OBVIOUS
  <2>1. PICK s \in Sessions :
            (\E r \in Requests : start(s, r)) \/ Step(s) \/ CommitFails(s) \/ Rollback(s)
      BY DEF Next
  <2>2. ASSUME NEW u \in Sessions, u # s PROVE answer'[u] = answer[u]
      BY <2>1, <2>2 DEF Step, start, PhaseZero, Recheck, replay_de_export, lock_schedule,
         preflight, claim_command, EffectExport, EffectCommand, Commit, CommitFails, Rollback,
         Goto, Answer, IInv, TypeOK
  <2>3. ASSUME answer[s] = None, answer'[s] = "REFUSED"
        PROVE  preflight(s) \/ EffectCommand(s)
    <3>. USE <2>3, NoneAssumption DEF IInv, TypeOK, Goto, Answer, Errors
    <3>1. ~ \E r \in Requests : start(s, r)
        BY DEF start
    <3>2. ~ PhaseZero(s) /\ ~ Recheck(s)
        BY DEF PhaseZero, Recheck, replay_de_export
    <3>3. ~ lock_schedule(s) /\ ~ EffectExport(s)
        BY DEF lock_schedule, EffectExport
    <3>4. ~ claim_command(s)
        BY DEF claim_command
    <3>5. ~ CommitFails(s) /\ ~ Rollback(s)
        BY DEF CommitFails, Rollback
    <3>6. ~ Commit(s)
      <4> SUFFICES ASSUME Commit(s) PROVE FALSE
          OBVIOUS
      <4>1. OutcomeRef(s) \in Sessions
          BY RequestParts DEF Commit, OutcomeRef, ClaimInv, Receipts, Key
      <4>2. answer'[s] = OutcomeRef(s)
          BY DEF Commit
      <4>. QED BY <4>1, <4>2
    <3>. QED BY <2>1, <3>1, <3>2, <3>3, <3>4, <3>5, <3>6 DEF Step
  <2>4. Kept(s)
      BY <2>3 DEF preflight, EffectCommand, IInv, ClaimInv, ReplayInv, ReplayOf, Key
  <2>. QED BY <2>2, <2>4, NoneAssumption DEF Errors
<1>. QED BY <1>1, InitIInv, NextIInv, InitReplay, NextReplay, PTL DEF Spec, ReplayIsNotRefused

-----------------------------------------------------------------------------
(***************************************************************************)
(* Synchronization: packages read while services write, and imports that   *)
(* insert what others have changed since.                                  *)
(***************************************************************************)

(* The tables of an instance.                                                *)
(* Every object but the first has the record that made it.                   *)
Origin(x, records) == x = 1 \/ x \in Ids(records)

SupersededBy(row, t) == row.status = "SUPERSEDED" /\ row.updated_at = t.id
Revises(t, x) == t.kind = "REVISION" /\ t.input = x

(* An object is SUPERSEDED by the write of the one revision that says so. *)
RevisionsTell(objects, records) ==
    /\ \A t \in records, r \in objects : Revises(t, r.id) => SupersededBy(r, t)
    /\ \A r \in objects : r.status = "SUPERSEDED" =>
           \E t \in records : Revises(t, r.id) /\ SupersededBy(r, t)

ObjectRows == [id : Coids, clid : Clids, status : Statuses, updated_at : Writes]

Edge(t) == <<t.input, t.id>>

TablesInv(i) ==
    /\ DOMAIN db[i] = Sections
    /\ \A s \in Sections : Keyed(db[i][s])
    /\ db[i]["objects"] \subseteq ObjectRows
    /\ 1 \in Ids(db[i]["objects"])
    /\ \A x \in Ids(db[i]["objects"]) : Origin(x, db[i]["transformations"])
    /\ \A t \in db[i]["transformations"] :
           t.id # 1 /\ {t.id, t.input} \subseteq Ids(db[i]["objects"])
    /\ Ids(db[i]["lineage"]) = {Edge(t) : t \in db[i]["transformations"]}
    /\ RevisionsTell(db[i]["objects"], db[i]["transformations"])
    /\ \A c \in Clids : \A x, y \in CurrentOf(db[i]["objects"], c) : x = y
    /\ \A h \in db[i]["causal_histories"] : h.id[1] = h.subject

(* A record is the same wherever it has arrived. *)
OneOrigin ==
    \A i, j \in Instances : \A t \in db[i]["transformations"], u \in db[j]["transformations"] :
        t.id = u.id => t = u

Made(i) == {e \in db[i]["causal_events"] : e.id[1] = i}

(* The events made at an instance are numbered, and it has all of them. *)
EventsAtHome ==
    /\ \A i \in Instances :
           /\ IsFiniteSet(Made(i))
           /\ \A e \in Made(i) : e.id[2] \in Nat /\ e.id[2] < Cardinality(Made(i))
    /\ \A i, j \in Instances : \A e \in db[j]["causal_events"] :
           e.id[1] = i => e \in db[i]["causal_events"]

(* What was read of an instance, table by table. *)
PackageInv(j) ==
    LET p == package[j]
        there == db[j]
    IN  /\ DOMAIN p = Sections
        /\ \A s \in Sections : Keyed(p[s])
        /\ p["objects"] \subseteq ObjectRows /\ Ids(p["objects"]) \subseteq Ids(there["objects"])
        /\ \A r \in p["objects"] : r.status = "SUPERSEDED" => r \in there["objects"]
        /\ \A s \in Sections \ {"objects"} : p[s] \subseteq there[s]
        \* an object that is in the package is there with what a revision made of its source
        /\ \A t \in there["transformations"] :
               t.id \in Ids(p["objects"]) /\ t.kind = "REVISION" =>
                   \E r \in p["objects"] : r.id = t.input /\ SupersededBy(r, t)
        /\ read[j] \in 2 .. 5 =>
               /\ \A x \in Ids(p["objects"]) : Origin(x, p["transformations"])
               /\ \A r \in p["objects"] : r.status = "SUPERSEDED" =>
                      \E t \in p["transformations"] : Revises(t, r.id) /\ SupersededBy(r, t)
        /\ read[j] \in 4 .. 5 =>
               \A t \in p["transformations"] : Edge(t) \in Ids(p["lineage"])

(* What an import is about to insert. *)
PlanInv(plan) ==
    LET rows == plan.rows
        new  == Ids(plan.rows["objects"])
    IN  /\ plan.to \in Instances /\ DOMAIN rows = Sections
        /\ \A s \in Sections : Keyed(rows[s])
        /\ rows["objects"] \subseteq ObjectRows
        /\ \A t \in rows["transformations"] : \E i \in Instances : t \in db[i]["transformations"]
        /\ \A e \in rows["lineage"] : \E i \in Instances : e \in db[i]["lineage"]
        /\ \A e \in rows["causal_events"] : \E i \in Instances : e \in db[i]["causal_events"]
        /\ \A h \in rows["causal_histories"] : h.id[1] = h.subject
        /\ \A t \in rows["transformations"] : Edge(t) \in Ids(rows["lineage"])
        /\ \A e \in rows["lineage"] : e.id[2] \in new =>
               \E t \in rows["transformations"] : e.id = Edge(t)
        /\ \A x \in new : Origin(x, rows["transformations"])
        /\ \A t \in rows["transformations"] : t.id \in new /\ t.kind = "REVISION" =>
               \E r \in rows["objects"] : r.id = t.input /\ SupersededBy(r, t)
        /\ \A r \in rows["objects"] : r.status = "SUPERSEDED" =>
               \E t \in rows["transformations"] : Revises(t, r.id) /\ SupersededBy(r, t)

PatrimonyShape ==
    /\ DOMAIN db = Instances /\ DOMAIN package = Exporters /\ DOMAIN importing = Imports
    /\ read \in [Exporters -> 0 .. 5 \cup {Absent}]
    /\ report \in [Imports -> Reports \cup {Absent}]

SynchronizationIInv ==
    /\ PatrimonyShape
    /\ \A i \in Instances : TablesInv(i)
    /\ OneOrigin
    /\ EventsAtHome
    /\ \A j \in Exporters : PackageInv(j)
    /\ \A m \in Imports : importing[m] = Absent \/ PlanInv(importing[m])

-----------------------------------------------------------------------------
(* Rows and their ids. *)

LEMMA FiveSections ==
    Sections = {"objects", "transformations", "causal_histories", "lineage", "causal_events"}
BY DEF Sections, ordered_tables

(* Tables that share no id are keyed together. *)
LEMMA KeyedTogether ==
    ASSUME NEW rows, NEW more, Keyed(rows), Keyed(more), Ids(rows) \cap Ids(more) = {}
    PROVE  Keyed(rows \cup more)
BY DEF Keyed, Ids

(* The row of an id that is there. *)
LEMMA RowIsThere ==
    ASSUME NEW rows, NEW x \in Ids(rows)
    PROVE  RowOf(rows, x) \in rows /\ RowOf(rows, x).id = x
<1>1. \E r \in rows : r.id = x
    BY DEF Ids
<1>. QED BY <1>1 DEF RowOf

(* What may happen to the tables of an instance: objects stay, with their    *)
(* row once they are SUPERSEDED; all else only grows; and a record that is   *)
(* new is not of an object that was there.                                   *)
Grows(k) ==
    /\ Ids(db[k]["objects"]) \subseteq Ids(db'[k]["objects"])
    /\ \A r \in db[k]["objects"] : r.status = "SUPERSEDED" => r \in db'[k]["objects"]
    /\ \A s \in Sections \ {"objects"} : db[k][s] \subseteq db'[k][s]
    /\ \A t \in db'[k]["transformations"] :
           t \in db[k]["transformations"] \/ t.id \notin Ids(db[k]["objects"])

LEMMA PackageStays ==
    ASSUME NEW j \in Exporters, PackageInv(j), Grows(j),
           package'[j] = package[j], read'[j] = read[j]
    PROVE  PackageInv(j)'
<1>. DEFINE p == package[j]
<1>1. /\ Ids(p["objects"]) \subseteq Ids(db'[j]["objects"])
      /\ \A r \in p["objects"] : r.status = "SUPERSEDED" => r \in db'[j]["objects"]
    BY DEF PackageInv, Grows
<1>2. \A s \in Sections \ {"objects"} : p[s] \subseteq db'[j][s]
    BY DEF PackageInv, Grows
<1>3. ASSUME NEW t \in db'[j]["transformations"], t.id \in Ids(p["objects"]), t.kind = "REVISION"
      PROVE  \E r \in p["objects"] : r.id = t.input /\ SupersededBy(r, t)
  <2>1. t.id \in Ids(db[j]["objects"])
      BY <1>3 DEF PackageInv
  <2>2. t \in db[j]["transformations"]
      BY <2>1 DEF Grows
  <2>. QED BY <1>3, <2>2 DEF PackageInv
<1>4. /\ DOMAIN p = Sections
      /\ \A s \in Sections : Keyed(p[s])
      /\ p["objects"] \subseteq ObjectRows
      /\ read[j] \in 2 .. 5 =>
             /\ \A x \in Ids(p["objects"]) : Origin(x, p["transformations"])
             /\ \A r \in p["objects"] : r.status = "SUPERSEDED" =>
                    \E t \in p["transformations"] : Revises(t, r.id) /\ SupersededBy(r, t)
      /\ read[j] \in 4 .. 5 =>
             \A t \in p["transformations"] : Edge(t) \in Ids(p["lineage"])
    BY DEF PackageInv
<1>5. package'[j] = p
    OBVIOUS
<1>. HIDE DEF p
<1>. QED BY <1>1, <1>2, <1>3, <1>4, <1>5 DEF PackageInv

LEMMA PlanStays ==
    ASSUME NEW m \in Imports, PlanInv(importing[m]), importing'[m] = importing[m],
           \A k \in Instances : Grows(k)
    PROVE  PlanInv(importing[m])'
<1>. DEFINE plan == importing[m]
            rows == plan.rows
<1>1. \A k \in Instances : \A s \in Sections \ {"objects"} : db[k][s] \subseteq db'[k][s]
    BY DEF Grows
<1>2. \A t \in rows["transformations"] : \E i \in Instances : t \in db'[i]["transformations"]
    BY <1>1, FiveSections DEF PlanInv
<1>3. \A e \in rows["lineage"] : \E i \in Instances : e \in db'[i]["lineage"]
    BY <1>1, FiveSections DEF PlanInv
<1>4. \A e \in rows["causal_events"] : \E i \in Instances : e \in db'[i]["causal_events"]
    BY <1>1, FiveSections DEF PlanInv
<1>5. importing'[m] = plan /\ PlanInv(plan)
    OBVIOUS
<1>. HIDE DEF plan
<1>. QED BY <1>2, <1>3, <1>4, <1>5 DEF PlanInv

(* A commit at one instance. *)
LEMMA Written ==
    ASSUME SynchronizationIInv, NEW i \in Instances,
           DOMAIN db' = Instances, \A k \in Instances \ {i} : db'[k] = db[k],
           Grows(i), TablesInv(i)', OneOrigin', EventsAtHome', UNCHANGED <<package, read>>,
           DOMAIN importing' = Imports,
           \A m \in Imports : importing'[m] = importing[m] \/ importing'[m] = Absent,
           report' \in [Imports -> Reports \cup {Absent}]
    PROVE  SynchronizationIInv'
<1>1. ASSUME NEW k \in Instances PROVE Grows(k)
    BY DEF Grows
<1>2. ASSUME NEW k \in Instances PROVE TablesInv(k)'
  <2>1. CASE k # i
    <3>1. db'[k] = db[k] /\ TablesInv(k)
        BY <2>1 DEF SynchronizationIInv
    <3>. QED BY <3>1 DEF TablesInv
  <2>. QED BY <2>1
<1>3. ASSUME NEW j \in Exporters PROVE PackageInv(j)'
  <2>1. j \in Instances /\ PackageInv(j)
      BY SynchronizationAssumption DEF SynchronizationIInv
  <2>. QED BY <1>1, <2>1, PackageStays
<1>4. ASSUME NEW m \in Imports PROVE (importing[m] = Absent \/ PlanInv(importing[m]))'
  <2>1. CASE importing'[m] = Absent
      BY <2>1
  <2>2. CASE importing'[m] = importing[m]
    <3>1. importing[m] = Absent \/ PlanInv(importing[m])
        BY DEF SynchronizationIInv
    <3>. QED BY <1>1, <2>2, <3>1, PlanStays
  <2>. QED BY <2>1, <2>2
<1>5. PatrimonyShape'
    BY DEF SynchronizationIInv, PatrimonyShape
<1>. QED BY <1>2, <1>3, <1>4, <1>5 DEF SynchronizationIInv

(* Records that arrive from elsewhere, or of an object nobody has, are what  *)
(* they are everywhere.                                                      *)
LEMMA OriginStays ==
    ASSUME OneOrigin, NEW i \in Instances, \A k \in Instances \ {i} : db'[k] = db[k],
           Keyed(db'[i]["transformations"]),
           \A t \in db'[i]["transformations"] :
               \/ \E k \in Instances : t \in db[k]["transformations"]
               \/ \A k \in Instances : \A u \in db[k]["transformations"] : u.id # t.id
    PROVE  OneOrigin'
<1>. SUFFICES ASSUME NEW j \in Instances, NEW k \in Instances,
                     NEW t \in db'[j]["transformations"], NEW u \in db'[k]["transformations"],
                     t.id = u.id
              PROVE  t = u
    BY DEF OneOrigin
<1>1. CASE j = i /\ k = i
    BY <1>1 DEF Keyed
<1>2. CASE j # i /\ k # i
    BY <1>2 DEF OneOrigin
<1>3. CASE j = i /\ k # i
    BY <1>3 DEF OneOrigin
<1>4. CASE j # i /\ k = i
    BY <1>4 DEF OneOrigin
<1>. QED BY <1>1, <1>2, <1>3, <1>4

-----------------------------------------------------------------------------
(* What the services commit. *)

LEMMA CoidNumbers ==
    /\ Coids \subseteq Nat /\ Coids \subseteq Writes /\ Clids = Coids /\ 1 \in Coids /\ 2 \in Coids
    /\ Absent \notin Coids /\ 0 \in Writes
BY SynchronizationAssumption DEF Coids, Clids, Writes

(* An unused COID is no row's and no record's anywhere. *)
LEMMA Fresh ==
    ASSUME SynchronizationIInv, NEW y \in Unused, NEW k \in Instances
    PROVE  /\ y \in Coids /\ y # 1 /\ y \notin Ids(db[k]["objects"])
           /\ \A t \in db[k]["transformations"] : t.id # y
           /\ \A t \in db[k]["transformations"] : Edge(t)[2] # y
<1>1. y \in Coids /\ y \notin Ids(db[k]["objects"])
    BY DEF Unused
<1>2. TablesInv(k)
    BY DEF SynchronizationIInv
<1>. QED BY <1>1, <1>2 DEF TablesInv, Edge

(* MakeFrom where every object has a CLID: the source is only written if its *)
(* status changes.                                                           *)
LEMMA MakesFrom ==
    ASSUME SynchronizationIInv, NEW i \in Instances, NEW x \in Ids(db[i]["objects"]), NEW y,
           NEW kind, NEW sourceStatus, NEW newStatus,
           MakeFrom(i, x, y, kind, sourceStatus, newStatus)
    PROVE  LET source == RowOf(db[i]["objects"], x)
               after  == IF source.status = sourceStatus THEN source
                         ELSE ObjectRow(x, source.clid, sourceStatus, y)
           IN  /\ source \in db[i]["objects"] /\ source.id = x /\ source.clid \in Clids
               /\ db'[i]["objects"] = (db[i]["objects"] \ {source})
                                          \cup {after, ObjectRow(y, source.clid, newStatus, y)}
               /\ db'[i]["transformations"] = db[i]["transformations"]
                                          \cup {[id |-> y, input |-> x, kind |-> kind]}
               /\ db'[i]["lineage"] = db[i]["lineage"] \cup {[id |-> <<x, y>>]}
               /\ db'[i]["causal_histories"] = db[i]["causal_histories"]
               /\ db'[i]["causal_events"] = db[i]["causal_events"]
               /\ DOMAIN db'[i] = Sections /\ DOMAIN db' = Instances
               /\ \A k \in Instances \ {i} : db'[k] = db[k]
<1>. DEFINE source == RowOf(db[i]["objects"], x)
            clid == IF source.clid = Absent THEN y ELSE source.clid
            after == IF source.clid = clid /\ source.status = sourceStatus THEN source
                     ELSE ObjectRow(x, clid, sourceStatus, y)
            A == (db[i]["objects"] \ {source}) \cup {after, ObjectRow(y, clid, newStatus, y)}
            B == db[i]["transformations"] \cup {[id |-> y, input |-> x, kind |-> kind]}
            C == db[i]["lineage"] \cup {[id |-> <<x, y>>]}
<1>1. TablesInv(i) /\ DOMAIN db = Instances
    BY DEF SynchronizationIInv, PatrimonyShape
<1>2. source \in db[i]["objects"] /\ source.id = x
    BY RowIsThere
<1>3. source.clid \in Clids /\ source.clid # Absent
    BY <1>1, <1>2, CoidNumbers DEF TablesInv, ObjectRows
<1>4. clid = source.clid
    BY <1>3
<1>5. db' = [db EXCEPT ![i]["objects"] = A, ![i]["transformations"] = B, ![i]["lineage"] = C]
    BY DEF MakeFrom
<1>6. DOMAIN db[i] = Sections
    BY <1>1 DEF TablesInv
<1>. HIDE DEF A, B, C
<1>7. /\ db'[i] = [db[i] EXCEPT !["objects"] = A, !["transformations"] = B, !["lineage"] = C]
      /\ DOMAIN db' = Instances /\ \A k \in Instances \ {i} : db'[k] = db[k]
    BY <1>1, <1>5
<1>8. /\ db'[i]["objects"] = A /\ db'[i]["transformations"] = B /\ db'[i]["lineage"] = C
      /\ db'[i]["causal_histories"] = db[i]["causal_histories"]
      /\ db'[i]["causal_events"] = db[i]["causal_events"]
      /\ DOMAIN db'[i] = Sections
    BY <1>6, <1>7, FiveSections
<1>9. A = (db[i]["objects"] \ {source})
              \cup {IF source.status = sourceStatus THEN source
                    ELSE ObjectRow(x, source.clid, sourceStatus, y),
                    ObjectRow(y, source.clid, newStatus, y)}
    BY <1>4 DEF A
<1>. QED BY <1>2, <1>3, <1>7, <1>8, <1>9 DEF B, C

(* A new object, made from a source that stays or is SUPERSEDED by it. *)
LEMMA Making ==
    ASSUME SynchronizationIInv, NEW i \in Instances, NEW y \in Unused,
           NEW source \in db[i]["objects"], NEW after, NEW new, NEW t,
           t.id = y /\ t.input = source.id,
           \/ t.kind = "DERIVATION" /\ after = source /\ new = ObjectRow(y, source.clid, "NONE", y)
           \/ /\ t.kind = "REVISION" /\ source.status # "SUPERSEDED"
              /\ CurrentOf(db[i]["objects"], source.clid) \subseteq {source.id}
              /\ after = ObjectRow(source.id, source.clid, "SUPERSEDED", y)
              /\ new = ObjectRow(y, source.clid, "CURRENT", y),
           db'[i]["objects"] = (db[i]["objects"] \ {source}) \cup {after, new},
           db'[i]["transformations"] = db[i]["transformations"] \cup {t},
           db'[i]["lineage"] = db[i]["lineage"] \cup {[id |-> <<source.id, y>>]},
           db'[i]["causal_histories"] = db[i]["causal_histories"],
           db'[i]["causal_events"] = db[i]["causal_events"],
           DOMAIN db'[i] = Sections
    PROVE  TablesInv(i)' /\ Grows(i)
<1>. DEFINE objects == db[i]["objects"]
            records == db[i]["transformations"]
            x == source.id
            both == (objects \ {source}) \cup {after, new}
<1>1. TablesInv(i)
    BY DEF SynchronizationIInv
<1>2. /\ y \in Coids /\ y # 1 /\ y \notin Ids(objects) /\ \A u \in records : u.id # y
      /\ \A u \in records : Edge(u)[2] # y
    BY Fresh
<1>3. source \in ObjectRows /\ x \in Ids(objects) /\ x # y
    BY <1>1, <1>2 DEF TablesInv, Ids
<1>4. /\ x \in Coids /\ source.clid \in Clids /\ source.status \in Statuses
      /\ source.updated_at \in Writes
    BY <1>3 DEF ObjectRows
<1>5. /\ after \in ObjectRows /\ after.id = x /\ after.clid = source.clid
      /\ new \in ObjectRows /\ new.id = y /\ new.clid = source.clid
    BY <1>2, <1>3, <1>4, CoidNumbers DEF ObjectRow, ObjectRows, Statuses
<1>6. Ids(both) = Ids(objects) \cup {y}
  <2>1. ASSUME NEW z \in Ids(objects) PROVE z \in Ids(both)
    <3>1. PICK r \in objects : r.id = z
        BY DEF Ids
    <3>2. CASE r = source
        BY <1>5, <3>1, <3>2 DEF Ids
    <3>. QED BY <3>1, <3>2 DEF Ids
  <2>. QED BY <2>1, <1>3, <1>5 DEF Ids
<1>7. Keyed(both)
  <2>1. Keyed(objects)
      BY <1>1, FiveSections DEF TablesInv
  <2>2. \A r \in objects \ {source} : r.id # x /\ r.id # y
      BY <1>2, <2>1 DEF Keyed, Ids
  <2>. QED BY <1>3, <1>5, <2>1, <2>2 DEF Keyed
<1>8. both \subseteq ObjectRows
    BY <1>1, <1>5 DEF TablesInv
<1>9. Keyed(records \cup {t})
  <2>1. Keyed(records) /\ Keyed({t})
      BY <1>1, FiveSections DEF TablesInv, Keyed
  <2>. QED BY <1>2, <2>1 DEF Keyed
<1>10. Ids(records \cup {t}) = Ids(records) \cup {y}
    BY DEF Ids
<1>11. Edge(t) = <<x, y>>
    BY DEF Edge
<1>12. LET edges == db[i]["lineage"] \cup {[id |-> <<x, y>>]}
       IN  /\ Ids(edges) = {Edge(u) : u \in records \cup {t}}
           /\ Keyed(edges)
  <2>. DEFINE edge == [id |-> <<x, y>>]
              edges == db[i]["lineage"] \cup {edge}
  <2>1. Ids(db[i]["lineage"]) = {Edge(u) : u \in records} /\ Keyed(db[i]["lineage"])
      BY <1>1, FiveSections DEF TablesInv
  <2>2. \A u \in records : Edge(u) # Edge(t)
    <3>1. Edge(t)[2] = y
        BY <1>11
    <3>. QED BY <1>2, <3>1
  <2>3. edge.id = Edge(t)
      BY <1>11
  <2>. HIDE DEF edge
  <2>4. \A e \in db[i]["lineage"] : e.id \in Ids(db[i]["lineage"])
      BY DEF Ids
  <2>5. \A e \in db[i]["lineage"] : e.id # edge.id
      BY <2>1, <2>2, <2>3, <2>4
  <2>6. Ids(edges) = Ids(db[i]["lineage"]) \cup {edge.id}
      BY DEF Ids
  <2>7. Keyed(edges)
      BY <2>1, <2>5 DEF Keyed
  <2>. HIDE DEF edges
  <2>8. Ids(edges) = {Edge(u) : u \in records \cup {t}}
      BY <2>1, <2>3, <2>6
  <2>. QED BY <2>7, <2>8 DEF edge, edges
<1>13. RevisionsTell(both, records \cup {t})
  <2>1. /\ \A u \in records, r \in objects : Revises(u, r.id) => SupersededBy(r, u)
        /\ \A r \in objects : r.status = "SUPERSEDED" =>
               \E u \in records : Revises(u, r.id) /\ SupersededBy(r, u)
        /\ \A u \in records : u.input \in Ids(objects)
      BY <1>1 DEF TablesInv, RevisionsTell
  <2>2. \A u \in records : ~ Revises(u, y)
      BY <1>2, <2>1 DEF Revises
  <2>3. \A r \in objects \ {source} : r.id # x
    <3>1. Keyed(objects)
        BY <1>1, FiveSections DEF TablesInv
    <3>. QED BY <3>1 DEF Keyed
  <2>4. CASE t.kind = "DERIVATION" /\ after = source /\ new = ObjectRow(y, source.clid, "NONE", y)
    <3>1. \A z : ~ Revises(t, z)
        BY <2>4 DEF Revises
    <3>2. new.status # "SUPERSEDED"
        BY <2>4 DEF ObjectRow
    <3>. QED BY <1>5, <2>1, <2>2, <2>4, <3>1, <3>2 DEF RevisionsTell
  <2>5. CASE /\ t.kind = "REVISION" /\ source.status # "SUPERSEDED"
             /\ after = ObjectRow(x, source.clid, "SUPERSEDED", y)
             /\ new = ObjectRow(y, source.clid, "CURRENT", y)
    <3>1. \A z : Revises(t, z) <=> z = x
        BY <2>5 DEF Revises
    <3>2. \A u \in records : ~ Revises(u, x)
        BY <2>1, <2>5 DEF SupersededBy
    <3>3. new.status # "SUPERSEDED" /\ SupersededBy(after, t)
        BY <2>5 DEF ObjectRow, SupersededBy
    <3>. QED BY <1>3, <1>5, <2>1, <2>2, <2>3, <3>1, <3>2, <3>3 DEF RevisionsTell
  <2>. QED BY <2>4, <2>5
<1>14. \A c \in Clids : \A z, w \in CurrentOf(both, c) : z = w
  <2>1. \A c \in Clids : \A z, w \in CurrentOf(objects, c) : z = w
      BY <1>1 DEF TablesInv
  <2>2. CASE after = source /\ new = ObjectRow(y, source.clid, "NONE", y)
    <3>1. \A c : CurrentOf(both, c) = CurrentOf(objects, c)
        BY <2>2 DEF CurrentOf, ObjectRow
    <3>. QED BY <2>1, <3>1
  <2>3. CASE /\ CurrentOf(objects, source.clid) \subseteq {x}
             /\ after = ObjectRow(x, source.clid, "SUPERSEDED", y)
             /\ new = ObjectRow(y, source.clid, "CURRENT", y)
    <3>1. \A r \in objects \ {source} : r.id # x
      <4>1. Keyed(objects)
          BY <1>1, FiveSections DEF TablesInv
      <4>. QED BY <4>1 DEF Keyed
    <3>2. CurrentOf(both, source.clid) \subseteq {y}
        BY <2>3, <3>1 DEF CurrentOf, ObjectRow
    <3>3. \A c : c # source.clid => CurrentOf(both, c) \subseteq CurrentOf(objects, c)
        BY <1>5 DEF CurrentOf
    <3>. HIDE DEF both
    <3>4. ASSUME NEW c \in Clids, NEW z \in CurrentOf(both, c), NEW w \in CurrentOf(both, c)
          PROVE  z = w
      <4>1. CASE c = source.clid
          BY <3>2, <3>4, <4>1
      <4>2. CASE c # source.clid
          BY <2>1, <3>3, <3>4, <4>2
      <4>. QED BY <4>1, <4>2
    <3>. QED BY <3>4
  <2>. QED BY <2>2, <2>3
<1>15. /\ \A z \in Ids(both) : Origin(z, records \cup {t})
       /\ \A u \in records \cup {t} : u.id # 1 /\ {u.id, u.input} \subseteq Ids(both)
       /\ 1 \in Ids(both)
    BY <1>1, <1>2, <1>3, <1>6, <1>10 DEF TablesInv, Origin
<1>16. \A s \in Sections : Keyed(db'[i][s])
  <2>1. Keyed(db[i]["causal_histories"]) /\ Keyed(db[i]["causal_events"])
      BY <1>1, FiveSections DEF TablesInv
  <2>2. Keyed(db'[i]["objects"]) /\ Keyed(db'[i]["transformations"]) /\ Keyed(db'[i]["lineage"])
      BY <1>7, <1>9, <1>12
  <2>. QED BY <2>1, <2>2, FiveSections
<1>17. TablesInv(i)'
  <2>1. \A h \in db'[i]["causal_histories"] : h.id[1] = h.subject
      BY <1>1 DEF TablesInv
  <2>2. db'[i]["objects"] = both /\ db'[i]["transformations"] = records \cup {t}
        /\ Ids(db'[i]["lineage"]) = {Edge(u) : u \in records \cup {t}}
      BY <1>12
  <2>. HIDE DEF both
  <2>. QED BY <1>8, <1>13, <1>14, <1>15, <1>16, <2>1, <2>2 DEF TablesInv
<1>18. Grows(i)
  <2>1. \A r \in objects : r.status = "SUPERSEDED" => r \in both
      OBVIOUS
  <2>2. \A s \in Sections \ {"objects"} : db[i][s] \subseteq db'[i][s]
      BY FiveSections
  <2>. QED BY <1>2, <1>6, <2>1, <2>2 DEF Grows
<1>. QED BY <1>17, <1>18

(* What an insertion leaves. *)
LEMMA Inserted ==
    ASSUME SynchronizationIInv, NEW i \in Instances, NEW rows, Insert(i, rows)
    PROVE  /\ \A s \in Sections : db'[i][s] = db[i][s] \cup rows[s]
           /\ DOMAIN db'[i] = Sections /\ DOMAIN db' = Instances
           /\ \A k \in Instances \ {i} : db'[k] = db[k]
<1>1. DOMAIN db = Instances
    BY DEF SynchronizationIInv, PatrimonyShape
<1>. QED BY <1>1 DEF Insert

(* Where no event is written, they are still at home. *)
LEMMA EventsStay ==
    ASSUME EventsAtHome, NEW i \in Instances, \A k \in Instances \ {i} : db'[k] = db[k],
           db'[i]["causal_events"] = db[i]["causal_events"]
    PROVE  EventsAtHome'
<1>1. ASSUME NEW k \in Instances PROVE db'[k]["causal_events"] = db[k]["causal_events"]
    OBVIOUS
<1>2. ASSUME NEW k \in Instances PROVE Made(k)' = Made(k)
    BY <1>1 DEF Made
<1>. QED BY <1>1, <1>2 DEF EventsAtHome

LEMMA ServiceWrites ==
    ASSUME SynchronizationIInv, NEW i \in Instances, NEW x \in Ids(db[i]["objects"]),
           NEW y, NewCoid(y), derive(i, x, y) \/ revise(i, x, y)
    PROVE  SynchronizationIInv'
<1>. DEFINE source == RowOf(db[i]["objects"], x)
<1>1. y \in Unused
    BY DEF NewCoid
<1>2. source \in db[i]["objects"] /\ source.id = x
    BY RowIsThere
<1>3. source.clid # Absent /\ source.status \in Statuses
  <2>1. TablesInv(i)
      BY DEF SynchronizationIInv
  <2>2. source \in ObjectRows
      BY <1>2, <2>1 DEF TablesInv
  <2>. QED BY <2>2, CoidNumbers DEF ObjectRows
<1>. HIDE DEF source
<1>4. /\ TablesInv(i)' /\ Grows(i)
      /\ db'[i]["causal_events"] = db[i]["causal_events"]
      /\ DOMAIN db' = Instances /\ \A k \in Instances \ {i} : db'[k] = db[k]
      /\ \E t : t.id = y /\ db'[i]["transformations"] = db[i]["transformations"] \cup {t}
  <2>1. CASE derive(i, x, y)
    <3>. DEFINE new == ObjectRow(y, source.clid, "NONE", y)
                t == [id |-> y, input |-> x, kind |-> "DERIVATION"]
    <3>. DEFINE status == source.status
    <3>1. MakeFrom(i, x, y, "DERIVATION", status, "NONE")
        BY <2>1 DEF derive, source
    <3>6. (IF source.status = status THEN source ELSE ObjectRow(x, source.clid, status, y)) = source
        OBVIOUS
    <3>. HIDE DEF status
    <3>2. /\ db'[i]["objects"] = (db[i]["objects"] \ {source}) \cup {source, new}
          /\ db'[i]["transformations"] = db[i]["transformations"] \cup {t}
          /\ db'[i]["lineage"] = db[i]["lineage"] \cup {[id |-> <<x, y>>]}
          /\ db'[i]["causal_histories"] = db[i]["causal_histories"]
          /\ db'[i]["causal_events"] = db[i]["causal_events"]
          /\ DOMAIN db'[i] = Sections /\ DOMAIN db' = Instances
          /\ \A k \in Instances \ {i} : db'[k] = db[k]
        BY <3>1, <3>6, MakesFrom DEF source
    <3>3. t.id = y /\ t.input = source.id /\ t.kind = "DERIVATION"
        BY <1>2
    <3>4. new = ObjectRow(y, source.clid, "NONE", y)
        OBVIOUS
    <3>. HIDE DEF new, t
    <3>5. TablesInv(i)' /\ Grows(i)
        BY <1>1, <1>2, <3>2, <3>3, <3>4, Making
    <3>. QED BY <3>2, <3>3, <3>5
  <2>2. CASE revise(i, x, y)
    <3>. DEFINE after == ObjectRow(x, source.clid, "SUPERSEDED", y)
                new == ObjectRow(y, source.clid, "CURRENT", y)
                t == [id |-> y, input |-> x, kind |-> "REVISION"]
    <3>1. /\ source.status # "SUPERSEDED"
          /\ CurrentOf(db[i]["objects"], source.clid) \subseteq {x}
          /\ MakeFrom(i, x, y, "REVISION", "SUPERSEDED", "CURRENT")
        BY <1>3, <2>2 DEF revise, source
    <3>2. /\ db'[i]["objects"] = (db[i]["objects"] \ {source}) \cup {after, new}
          /\ db'[i]["transformations"] = db[i]["transformations"] \cup {t}
          /\ db'[i]["lineage"] = db[i]["lineage"] \cup {[id |-> <<x, y>>]}
          /\ db'[i]["causal_histories"] = db[i]["causal_histories"]
          /\ db'[i]["causal_events"] = db[i]["causal_events"]
          /\ DOMAIN db'[i] = Sections /\ DOMAIN db' = Instances
          /\ \A k \in Instances \ {i} : db'[k] = db[k]
        BY <3>1, MakesFrom DEF source
    <3>3. t.id = y /\ t.input = source.id /\ t.kind = "REVISION"
        BY <1>2
    <3>4. new = ObjectRow(y, source.clid, "CURRENT", y)
          /\ after = ObjectRow(source.id, source.clid, "SUPERSEDED", y)
        BY <1>2
    <3>. HIDE DEF new, t, after
    <3>5. TablesInv(i)' /\ Grows(i)
        BY <1>1, <1>2, <3>1, <3>2, <3>3, <3>4, Making
    <3>. QED BY <3>2, <3>3, <3>5
  <2>. QED BY <2>1, <2>2
<1>5. OneOrigin'
  <2>1. OneOrigin
      BY DEF SynchronizationIInv
  <2>2. Keyed(db'[i]["transformations"])
      BY <1>4, FiveSections DEF TablesInv
  <2>3. \A k \in Instances : \A u \in db[k]["transformations"] : u.id # y
      BY <1>1, Fresh
  <2>4. \A t \in db'[i]["transformations"] :
            \/ \E k \in Instances : t \in db[k]["transformations"]
            \/ \A k \in Instances : \A u \in db[k]["transformations"] : u.id # t.id
      BY <1>4, <2>3
  <2>. QED BY <1>4, <2>1, <2>2, <2>4, OriginStays
<1>6. EventsAtHome'
    BY <1>4, EventsStay DEF SynchronizationIInv
<1>7. UNCHANGED <<package, read, importing, report>>
    BY DEF derive, revise
<1>. QED BY <1>4, <1>5, <1>6, <1>7, Written DEF SynchronizationIInv, PatrimonyShape

LEMMA EventWrites ==
    ASSUME SynchronizationIInv, NEW i \in Instances, NEW x, record(i, x)
    PROVE  SynchronizationIInv'
<1>. DEFINE made == {e \in db[i]["causal_events"] : e.id[1] = i}
            n == Cardinality(made)
<1>1. PICK h \in ensure_history(i, x) :
          Insert(i, [Empty EXCEPT
                !["causal_histories"] = {h},
                !["causal_events"] = {[id |-> <<i, Cardinality(made)>>, history |-> h.id]}])
    BY DEF record
<1>. DEFINE event == [id |-> <<i, Cardinality(made)>>, history |-> h.id]
            rows == [Empty EXCEPT !["causal_histories"] = {h}, !["causal_events"] = {event}]
<1>2. /\ rows["objects"] = {} /\ rows["transformations"] = {} /\ rows["lineage"] = {}
      /\ rows["causal_histories"] = {h} /\ rows["causal_events"] = {event}
    BY FiveSections DEF Empty
<1>3. /\ \A s \in Sections : db'[i][s] = db[i][s] \cup rows[s]
      /\ DOMAIN db'[i] = Sections /\ DOMAIN db' = Instances
      /\ \A k \in Instances \ {i} : db'[k] = db[k]
  <2>1. Insert(i, rows)
      BY <1>1
  <2>. HIDE DEF rows
  <2>. QED BY <2>1, Inserted
<1>4. event.id[1] = i /\ event.id[2] = n /\ event.id = <<i, n>>
    OBVIOUS
<1>. HIDE DEF rows, event
<1>5. /\ db'[i]["objects"] = db[i]["objects"]
      /\ db'[i]["transformations"] = db[i]["transformations"]
      /\ db'[i]["lineage"] = db[i]["lineage"]
      /\ db'[i]["causal_histories"] = db[i]["causal_histories"] \cup {h}
      /\ db'[i]["causal_events"] = db[i]["causal_events"] \cup {event}
  <2>1. /\ db'[i]["objects"] = db[i]["objects"] \cup rows["objects"]
        /\ db'[i]["transformations"] = db[i]["transformations"] \cup rows["transformations"]
        /\ db'[i]["lineage"] = db[i]["lineage"] \cup rows["lineage"]
        /\ db'[i]["causal_histories"] = db[i]["causal_histories"] \cup rows["causal_histories"]
        /\ db'[i]["causal_events"] = db[i]["causal_events"] \cup rows["causal_events"]
      BY <1>3, FiveSections
  <2>. QED BY <1>2, <2>1
<1>6. TablesInv(i) /\ OneOrigin /\ EventsAtHome
    BY DEF SynchronizationIInv
<1>7. made = Made(i) /\ IsFiniteSet(made) /\ n \in Nat
      /\ \A e \in made : e.id[2] \in Nat /\ e.id[2] < n
  <2>1. made = Made(i)
      BY DEF Made
  <2>2. IsFiniteSet(made)
      BY <1>6, <2>1 DEF EventsAtHome
  <2>. QED BY <1>6, <2>1, <2>2, FS_CardinalityType DEF EventsAtHome
<1>8. \A e \in db[i]["causal_events"] : e.id # event.id
  <2>. SUFFICES ASSUME NEW e \in db[i]["causal_events"], e.id = event.id PROVE FALSE
      OBVIOUS
  <2>1. e \in made /\ e.id[2] = n
      BY <1>4
  <2>. HIDE DEF n
  <2>. QED BY <1>7, <2>1
<1>9. Keyed(db'[i]["causal_events"])
    BY <1>5, <1>6, <1>8, FiveSections DEF TablesInv, Keyed
<1>10. Keyed(db'[i]["causal_histories"]) /\ h.id[1] = h.subject
  <2>. DEFINE mine == {g \in db[i]["causal_histories"] : g.subject = x}
  <2>1. Keyed(db[i]["causal_histories"]) /\ \A g \in db[i]["causal_histories"] : g.id[1] = g.subject
      BY <1>6, FiveSections DEF TablesInv
  <2>2. CASE mine # {}
    <3>1. h \in db[i]["causal_histories"]
        BY <2>2 DEF ensure_history
    <3>. QED BY <1>5, <2>1, <3>1 DEF Keyed
  <2>3. CASE mine = {}
    <3>1. h = [id |-> <<x, i>>, subject |-> x]
        BY <2>3 DEF ensure_history
    <3>2. h.id[1] = x /\ h.subject = x
        BY <3>1
    <3>3. \A g \in db[i]["causal_histories"] : g.id # h.id
        BY <2>1, <2>3, <3>2
    <3>. QED BY <1>5, <2>1, <3>2, <3>3 DEF Keyed
  <2>. QED BY <2>2, <2>3
<1>11. TablesInv(i)'
  <2>1. \A s \in Sections : Keyed(db'[i][s])
      BY <1>5, <1>6, <1>9, <1>10, FiveSections DEF TablesInv
  <2>2. \A g \in db'[i]["causal_histories"] : g.id[1] = g.subject
      BY <1>5, <1>6, <1>10 DEF TablesInv
  <2>. QED BY <1>3, <1>5, <1>6, <2>1, <2>2 DEF TablesInv
<1>12. Grows(i)
  <2>1. \A s \in Sections : db[i][s] \subseteq db'[i][s]
      BY <1>3
  <2>. QED BY <1>5, <2>1 DEF Grows
<1>13. OneOrigin'
  <2>1. \A k \in Instances : db'[k]["transformations"] = db[k]["transformations"]
      BY <1>3, <1>5
  <2>. QED BY <1>6, <2>1 DEF OneOrigin
<1>14. EventsAtHome'
  <2>1. Made(i)' = made \cup {event}
      BY <1>4, <1>5 DEF Made
  <2>2. IsFiniteSet(made \cup {event}) /\ Cardinality(made \cup {event}) = n + 1
    <3>1. event \notin made
        BY <1>8
    <3>. HIDE DEF made
    <3>. QED BY <1>7, <3>1, FS_AddElement DEF n
  <2>3. \A e \in Made(i)' : e.id[2] \in Nat /\ e.id[2] < n + 1
    <3>. HIDE DEF made, n
    <3>. QED BY <1>4, <1>7, <2>1
  <2>4. \A k \in Instances \ {i} : Made(k)' = Made(k)
      BY <1>3 DEF Made
  <2>5. ASSUME NEW a \in Instances, NEW b \in Instances, NEW e \in db'[b]["causal_events"],
               e.id[1] = a
        PROVE  e \in db'[a]["causal_events"]
    <3>1. \A k \in Instances : db[k]["causal_events"] \subseteq db'[k]["causal_events"]
        BY <1>3, <1>5
    <3>2. CASE e \in db[b]["causal_events"]
        BY <1>6, <2>5, <3>1, <3>2 DEF EventsAtHome
    <3>3. CASE e \notin db[b]["causal_events"]
      <4>1. b = i /\ e = event
          BY <1>3, <1>5, <3>3
      <4>. QED BY <1>4, <2>5, <4>1
    <3>. QED BY <3>2, <3>3
  <2>6. ASSUME NEW k \in Instances
        PROVE  /\ IsFiniteSet(Made(k)')
               /\ \A e \in Made(k)' : e.id[2] \in Nat /\ e.id[2] < Cardinality(Made(k)')
    <3>1. CASE k = i
        BY <2>1, <2>2, <2>3, <3>1
    <3>2. CASE k # i
        BY <1>6, <2>4, <3>2 DEF EventsAtHome
    <3>. QED BY <3>1, <3>2
  <2>. QED BY <2>5, <2>6 DEF EventsAtHome
<1>15. UNCHANGED <<package, read, importing, report>>
    BY DEF record
<1>. QED BY <1>3, <1>11, <1>12, <1>13, <1>14, <1>15, Written DEF SynchronizationIInv, PatrimonyShape

-----------------------------------------------------------------------------
(* The export. *)

(* What reads or plans leaves the tables, and the history of records, alone. *)
LEMMA TablesUntouched ==
    ASSUME SynchronizationIInv, UNCHANGED db, PatrimonyShape',
           \A j \in Exporters : PackageInv(j)',
           \A m \in Imports : (importing[m] = Absent \/ PlanInv(importing[m]))'
    PROVE  SynchronizationIInv'
<1>1. \A i \in Instances : TablesInv(i)'
    BY DEF SynchronizationIInv, TablesInv
<1>2. OneOrigin'
    BY DEF SynchronizationIInv, OneOrigin
<1>3. EventsAtHome'
    BY DEF SynchronizationIInv, EventsAtHome, Made
<1>. QED BY <1>1, <1>2, <1>3 DEF SynchronizationIInv

LEMMA GrowsByNothing ==
    ASSUME UNCHANGED db
    PROVE  \A k \in Instances : Grows(k)
BY DEF Grows

(* Plans stay while packages are read. *)
LEMMA ReadingOne ==
    ASSUME SynchronizationIInv, NEW i \in Exporters, PackageInv(i)',
           DOMAIN package' = Exporters, read' \in [Exporters -> 0 .. 5 \cup {Absent}],
           \A j \in Exporters \ {i} : package'[j] = package[j] /\ read'[j] = read[j],
           UNCHANGED <<db, importing, report>>
    PROVE  SynchronizationIInv'
<1>1. \A k \in Instances : Grows(k)
    BY GrowsByNothing
<1>2. ASSUME NEW j \in Exporters PROVE PackageInv(j)'
  <2>1. CASE j # i
    <3>1. j \in Instances /\ PackageInv(j)
        BY SynchronizationAssumption DEF SynchronizationIInv
    <3>. QED BY <1>1, <2>1, <3>1, PackageStays
  <2>. QED BY <2>1
<1>3. ASSUME NEW m \in Imports PROVE (importing[m] = Absent \/ PlanInv(importing[m]))'
  <2>1. importing[m] = Absent \/ PlanInv(importing[m])
      BY DEF SynchronizationIInv
  <2>. QED BY <1>1, <2>1, PlanStays
<1>4. PatrimonyShape'
    BY DEF SynchronizationIInv, PatrimonyShape
<1>. QED BY <1>2, <1>3, <1>4, TablesUntouched

LEMMA NothingRead ==
    DOMAIN Empty = Sections /\ \A s \in Sections : Empty[s] = {}
BY DEF Empty

LEMMA ExportStarts ==
    ASSUME SynchronizationIInv, NEW i \in Exporters, ExportBegins(i)
    PROVE  SynchronizationIInv'
<1>1. DOMAIN package = Exporters /\ read \in [Exporters -> 0 .. 5 \cup {Absent}]
    BY DEF SynchronizationIInv, PatrimonyShape
<1>2. /\ package'[i] = Empty /\ read'[i] = 0
      /\ DOMAIN package' = Exporters /\ read' \in [Exporters -> 0 .. 5 \cup {Absent}]
      /\ \A j \in Exporters \ {i} : package'[j] = package[j] /\ read'[j] = read[j]
      /\ UNCHANGED <<db, importing, report>>
    BY <1>1 DEF ExportBegins
<1>3. /\ Empty["objects"] = {} /\ Empty["transformations"] = {} /\ Empty["lineage"] = {}
      /\ \A s \in Sections : Empty[s] = {}
    BY NothingRead, FiveSections
<1>4. Ids(Empty["objects"]) = {}
    BY <1>3 DEF Ids
<1>5. \A s \in Sections : Keyed(Empty[s])
    BY <1>3 DEF Keyed
<1>6. PackageInv(i)'
    BY <1>2, <1>3, <1>4, <1>5, NothingRead DEF PackageInv
<1>. QED BY <1>2, <1>6, ReadingOne

(* One statement: a table as it is committed now. *)
LEMMA TableIsRead ==
    ASSUME SynchronizationIInv, NEW i \in Exporters, read_table(i)
    PROVE  SynchronizationIInv'
<1>. DEFINE n == read[i]
            s0 == ordered_tables[n + 1]
            p == package[i]
            q == package'[i]
<1>1. /\ DOMAIN package = Exporters /\ read \in [Exporters -> 0 .. 5 \cup {Absent}]
      /\ i \in Instances /\ PackageInv(i) /\ TablesInv(i)
    BY SynchronizationAssumption DEF SynchronizationIInv, PatrimonyShape
<1>2. n \in 0 .. 4
    BY <1>1 DEF read_table
<1>3. DOMAIN p = Sections
    BY <1>1 DEF PackageInv
<1>4. /\ q = [p EXCEPT ![s0] = db[i][s0]] /\ read'[i] = n + 1
      /\ DOMAIN package' = Exporters /\ read' \in [Exporters -> 0 .. 5 \cup {Absent}]
      /\ \A j \in Exporters \ {i} : package'[j] = package[j] /\ read'[j] = read[j]
      /\ UNCHANGED <<db, importing, report>>
    BY <1>1, <1>2 DEF read_table
<1>5. s0 \in Sections /\ q[s0] = db[i][s0] /\ \A s \in Sections \ {s0} : q[s] = p[s]
  <2>1. s0 \in Sections
      BY <1>2 DEF Sections
  <2>. HIDE DEF s0, p, q
  <2>. QED BY <1>3, <1>4, <2>1
<1>6. DOMAIN q = Sections
    BY <1>3, <1>4
<1>7. /\ n = 0 => s0 = "objects"
      /\ n = 1 => s0 = "transformations"
      /\ n = 2 => s0 = "causal_histories"
      /\ n = 3 => s0 = "lineage"
      /\ n = 4 => s0 = "causal_events"
    BY DEF ordered_tables
<1>. HIDE DEF s0, p, q, n
<1>8. \A s \in Sections : Keyed(q[s])
    BY <1>1, <1>5 DEF PackageInv, TablesInv, p
<1>9. \A s \in Sections \ {"objects"} : q[s] \subseteq db[i][s]
    BY <1>1, <1>5 DEF PackageInv, p
<1>10. /\ q["objects"] \subseteq ObjectRows /\ Ids(q["objects"]) \subseteq Ids(db[i]["objects"])
       /\ \A r \in q["objects"] : r.status = "SUPERSEDED" => r \in db[i]["objects"]
       /\ \A t \in db[i]["transformations"] :
              t.id \in Ids(q["objects"]) /\ t.kind = "REVISION" =>
                  \E r \in q["objects"] : r.id = t.input /\ SupersededBy(r, t)
  <2>1. CASE n = 0
    <3>1. q["objects"] = db[i]["objects"]
        BY <1>5, <1>7, <2>1
    <3>2. ASSUME NEW t \in db[i]["transformations"], t.kind = "REVISION"
          PROVE  \E r \in db[i]["objects"] : r.id = t.input /\ SupersededBy(r, t)
      <4>1. t.input \in Ids(db[i]["objects"])
          BY <1>1 DEF TablesInv
      <4>2. PICK r \in db[i]["objects"] : r.id = t.input
          BY <4>1 DEF Ids
      <4>. QED BY <1>1, <3>2, <4>2 DEF TablesInv, RevisionsTell, Revises
    <3>. QED BY <1>1, <3>1, <3>2 DEF TablesInv
  <2>2. CASE n # 0
    <3>1. s0 # "objects"
        BY <1>2, <1>7, <2>2
    <3>2. q["objects"] = p["objects"]
        BY <1>5, <3>1, FiveSections
    <3>. QED BY <1>1, <3>2 DEF PackageInv, p
  <2>. QED BY <2>1, <2>2
<1>11. n + 1 \in 2 .. 5 =>
          /\ \A x \in Ids(q["objects"]) : Origin(x, q["transformations"])
          /\ \A r \in q["objects"] : r.status = "SUPERSEDED" =>
                 \E t \in q["transformations"] : Revises(t, r.id) /\ SupersededBy(r, t)
  <2>1. CASE n = 0
      BY <2>1
  <2>2. CASE n = 1
    <3>1. q["transformations"] = db[i]["transformations"]
        BY <1>5, <1>7, <2>2
    <3>2. \A x \in Ids(q["objects"]) : Origin(x, q["transformations"])
        BY <1>1, <1>10, <3>1 DEF TablesInv
    <3>3. ASSUME NEW r \in q["objects"], r.status = "SUPERSEDED"
          PROVE  \E t \in q["transformations"] : Revises(t, r.id) /\ SupersededBy(r, t)
        BY <1>1, <1>10, <3>1, <3>3 DEF TablesInv, RevisionsTell
    <3>. QED BY <3>2, <3>3
  <2>3. CASE n \in 2 .. 4
    <3>1. s0 # "objects" /\ s0 # "transformations"
        BY <1>7, <2>3
    <3>2. q["objects"] = p["objects"] /\ q["transformations"] = p["transformations"]
        BY <1>5, <3>1, FiveSections
    <3>3. n \in 2 .. 5
        BY <2>3
    <3>. QED BY <1>1, <3>2, <3>3 DEF PackageInv, p, n
  <2>. QED BY <1>2, <2>1, <2>2, <2>3
<1>12. n + 1 \in 4 .. 5 => \A t \in q["transformations"] : Edge(t) \in Ids(q["lineage"])
  <2>1. CASE n \in 0 .. 2
      BY <2>1
  <2>2. CASE n = 3
    <3>1. q["lineage"] = db[i]["lineage"]
        BY <1>5, <1>7, <2>2
    <3>2. q["transformations"] \subseteq db[i]["transformations"]
        BY <1>9, FiveSections
    <3>3. Ids(db[i]["lineage"]) = {Edge(t) : t \in db[i]["transformations"]}
        BY <1>1 DEF TablesInv
    <3>. QED BY <3>1, <3>2, <3>3
  <2>3. CASE n = 4
    <3>1. s0 # "lineage" /\ s0 # "transformations"
        BY <1>7, <2>3
    <3>2. q["lineage"] = p["lineage"] /\ q["transformations"] = p["transformations"]
        BY <1>5, <3>1, FiveSections
    <3>3. n \in 4 .. 5
        BY <2>3
    <3>. QED BY <1>1, <3>2, <3>3 DEF PackageInv, p, n
  <2>. QED BY <1>2, <2>1, <2>2, <2>3
<1>13. PackageInv(i)'
  <2>. HIDE DEF Keyed
  <2>. QED BY <1>4, <1>6, <1>8, <1>9, <1>10, <1>11, <1>12 DEF PackageInv, q
<1>. QED BY <1>4, <1>13, ReadingOne

-----------------------------------------------------------------------------
(* The import. *)

(* The rows that are new to an instance, of a package read to its end. *)
LEMMA PlanOfPackage ==
    ASSUME SynchronizationIInv, NEW i \in Instances, NEW j \in Exporters,
           read[j] = 5, Conflicts(i, package[j]) = {},
           NEW plan, plan.to = i, plan.rows = NewRows(i, package[j])
    PROVE  PlanInv(plan)
<1>. DEFINE p == package[j]
            rows == plan.rows
            new == Ids(rows["objects"])
<1>1. /\ j \in Instances /\ PackageInv(j) /\ TablesInv(i) /\ TablesInv(j) /\ OneOrigin
    BY SynchronizationAssumption DEF SynchronizationIInv
<1>2. DOMAIN rows = Sections
      /\ \A s \in Sections : rows[s] = {r \in p[s] : r.id \notin Ids(db[i][s])}
    BY DEF NewRows
<1>3. /\ rows["objects"] = {r \in p["objects"] : r.id \notin Ids(db[i]["objects"])}
      /\ rows["transformations"] =
             {r \in p["transformations"] : r.id \notin Ids(db[i]["transformations"])}
      /\ rows["lineage"] = {r \in p["lineage"] : r.id \notin Ids(db[i]["lineage"])}
      /\ rows["causal_histories"] \subseteq p["causal_histories"]
      /\ rows["causal_events"] \subseteq p["causal_events"]
    BY <1>2, FiveSections
<1>4. /\ p["transformations"] \subseteq db[j]["transformations"]
      /\ p["lineage"] \subseteq db[j]["lineage"]
      /\ p["causal_histories"] \subseteq db[j]["causal_histories"]
      /\ p["causal_events"] \subseteq db[j]["causal_events"]
    BY <1>1, FiveSections DEF PackageInv
<1>5. /\ \A x \in Ids(p["objects"]) : Origin(x, p["transformations"])
      /\ \A r \in p["objects"] : r.status = "SUPERSEDED" =>
             \E t \in p["transformations"] : Revises(t, r.id) /\ SupersededBy(r, t)
      /\ \A t \in p["transformations"] : Edge(t) \in Ids(p["lineage"])
      /\ \A t \in db[j]["transformations"] :
             t.id \in Ids(p["objects"]) /\ t.kind = "REVISION" =>
                 \E r \in p["objects"] : r.id = t.input /\ SupersededBy(r, t)
      /\ p["objects"] \subseteq ObjectRows
      /\ \A s \in Sections : Keyed(p[s])
    BY <1>1 DEF PackageInv
<1>6. /\ \A t \in db[i]["transformations"] :
             t.id # 1 /\ {t.id, t.input} \subseteq Ids(db[i]["objects"])
      /\ Ids(db[i]["lineage"]) = {Edge(t) : t \in db[i]["transformations"]}
      /\ RevisionsTell(db[i]["objects"], db[i]["transformations"])
      /\ 1 \in Ids(db[i]["objects"])
    BY <1>1 DEF TablesInv
<1>7. \A x \in new : x \in Ids(p["objects"]) /\ x \notin Ids(db[i]["objects"])
    BY <1>3 DEF Ids
<1>. HIDE DEF p
<1>8. \A s \in Sections : Keyed(rows[s])
    BY <1>2, <1>5 DEF Keyed
<1>9. /\ \A t \in rows["transformations"] : t \in db[j]["transformations"]
      /\ \A e \in rows["lineage"] : e \in db[j]["lineage"]
      /\ \A e \in rows["causal_events"] : e \in db[j]["causal_events"]
      /\ \A h \in rows["causal_histories"] : h \in db[j]["causal_histories"]
      /\ rows["objects"] \subseteq ObjectRows
    BY <1>3, <1>4, <1>5
<1>10. \A h \in rows["causal_histories"] : h.id[1] = h.subject
    BY <1>1, <1>9 DEF TablesInv
<1>11. ASSUME NEW t \in rows["transformations"] PROVE Edge(t) \in Ids(rows["lineage"])
  <2>1. t \in p["transformations"] /\ t.id \notin Ids(db[i]["transformations"])
      BY <1>3
  <2>2. PICK e \in p["lineage"] : e.id = Edge(t)
      BY <1>5, <2>1 DEF Ids
  <2>3. e.id \notin Ids(db[i]["lineage"])
    <3>. SUFFICES ASSUME e.id \in Ids(db[i]["lineage"]) PROVE FALSE
        OBVIOUS
    <3>1. PICK u \in db[i]["transformations"] : Edge(u) = Edge(t)
        BY <1>6, <2>2
    <3>2. u.id = t.id
        BY <3>1 DEF Edge
    <3>. QED BY <2>1, <3>2 DEF Ids
  <2>4. e \in rows["lineage"]
      BY <1>3, <2>2, <2>3
  <2>. QED BY <2>2, <2>4 DEF Ids
<1>12. ASSUME NEW t \in p["transformations"], t.id \notin Ids(db[i]["objects"])
       PROVE  t \in rows["transformations"]
  <2>1. t.id \notin Ids(db[i]["transformations"])
      BY <1>6, <1>12 DEF Ids
  <2>. QED BY <1>3, <2>1
<1>13. ASSUME NEW e \in rows["lineage"], e.id[2] \in new
       PROVE  \E t \in rows["transformations"] : e.id = Edge(t)
  <2>1. e \in db[j]["lineage"]
      BY <1>9
  <2>2. e.id \in {Edge(t) : t \in db[j]["transformations"]}
      BY <1>1, <2>1 DEF TablesInv, Ids
  <2>3. PICK u \in db[j]["transformations"] : e.id = Edge(u)
      BY <2>2
  <2>4. u.id = e.id[2] /\ u.id # 1
      BY <1>1, <2>3 DEF Edge, TablesInv
  <2>5. Origin(u.id, p["transformations"])
      BY <1>5, <1>7, <1>13, <2>4
  <2>6. PICK t \in p["transformations"] : t.id = u.id
      BY <2>4, <2>5 DEF Origin, Ids
  <2>7. t = u
      BY <1>1, <1>4, <2>6 DEF OneOrigin
  <2>8. t \in rows["transformations"]
      BY <1>7, <1>12, <1>13, <2>4, <2>6
  <2>. QED BY <2>3, <2>7, <2>8
<1>14. ASSUME NEW x \in new PROVE Origin(x, rows["transformations"])
  <2>1. x \in Ids(p["objects"]) /\ x \notin Ids(db[i]["objects"]) /\ x # 1
      BY <1>6, <1>7
  <2>2. PICK t \in p["transformations"] : t.id = x
      BY <1>5, <2>1 DEF Origin, Ids
  <2>3. t \in rows["transformations"]
      BY <1>12, <2>1, <2>2
  <2>. QED BY <2>2, <2>3 DEF Origin, Ids
<1>15. ASSUME NEW t \in rows["transformations"], t.id \in new, t.kind = "REVISION"
       PROVE  \E r \in rows["objects"] : r.id = t.input /\ SupersededBy(r, t)
  <2>1. t \in db[j]["transformations"] /\ t.id \notin Ids(db[i]["transformations"])
      BY <1>3, <1>9
  <2>2. PICK r \in p["objects"] : r.id = t.input /\ SupersededBy(r, t)
      BY <1>5, <1>7, <1>15, <2>1
  <2>3. r.id \notin Ids(db[i]["objects"])
    <3>. SUFFICES ASSUME r.id \in Ids(db[i]["objects"]) PROVE FALSE
        OBVIOUS
    <3>1. PICK o \in db[i]["objects"] : o.id = r.id
        BY DEF Ids
    <3>2. o = r
        BY <2>2, <3>1 DEF Conflicts, p
    <3>3. PICK u \in db[i]["transformations"] : SupersededBy(r, u)
        BY <1>6, <2>2, <3>1, <3>2 DEF RevisionsTell, SupersededBy
    <3>4. u.id = t.id
        BY <2>2, <3>3 DEF SupersededBy
    <3>. QED BY <2>1, <3>4 DEF Ids
  <2>4. r \in rows["objects"]
      BY <1>3, <2>2, <2>3
  <2>. QED BY <2>2, <2>4
<1>16. ASSUME NEW r \in rows["objects"], r.status = "SUPERSEDED"
       PROVE  \E t \in rows["transformations"] : Revises(t, r.id) /\ SupersededBy(r, t)
  <2>1. r \in p["objects"] /\ r.id \notin Ids(db[i]["objects"])
      BY <1>3
  <2>2. PICK t \in p["transformations"] : Revises(t, r.id) /\ SupersededBy(r, t)
      BY <1>5, <1>16, <2>1
  <2>3. t.id \notin Ids(db[i]["transformations"])
    <3>. SUFFICES ASSUME t.id \in Ids(db[i]["transformations"]) PROVE FALSE
        OBVIOUS
    <3>1. PICK u \in db[i]["transformations"] : u.id = t.id
        BY DEF Ids
    <3>2. u = t
        BY <1>1, <1>4, <2>2, <3>1 DEF OneOrigin
    <3>3. t.input \in Ids(db[i]["objects"])
        BY <1>6, <3>1, <3>2
    <3>. QED BY <2>1, <2>2, <3>3 DEF Revises
  <2>4. t \in rows["transformations"]
      BY <1>3, <2>2, <2>3
  <2>. QED BY <2>2, <2>4
<1>17. /\ \A t \in rows["transformations"] : \E k \in Instances : t \in db[k]["transformations"]
       /\ \A e \in rows["lineage"] : \E k \in Instances : e \in db[k]["lineage"]
       /\ \A e \in rows["causal_events"] : \E k \in Instances : e \in db[k]["causal_events"]
    BY <1>1, <1>9
<1>18. plan.to \in Instances
    OBVIOUS
<1>. HIDE DEF new, rows
<1>. QED BY <1>2, <1>8, <1>9, <1>10, <1>11, <1>13, <1>14, <1>15, <1>16, <1>17, <1>18
         DEF PlanInv, new, rows

LEMMA ImportIsPlanned ==
    ASSUME SynchronizationIInv, NEW m \in Imports, NEW i \in Importers, NEW j \in Exporters,
           classify(m, i, j)
    PROVE  SynchronizationIInv'
<1>1. /\ i \in Instances /\ PatrimonyShape /\ read[j] = 5 /\ UNCHANGED <<db, package, read>>
    BY SynchronizationAssumption DEF SynchronizationIInv, classify
<1>2. \A k \in Instances : Grows(k)
    BY <1>1, GrowsByNothing
<1>3. ASSUME NEW k \in Exporters PROVE PackageInv(k)'
  <2>1. k \in Instances /\ PackageInv(k)
      BY SynchronizationAssumption DEF SynchronizationIInv
  <2>. QED BY <1>1, <1>2, <2>1, PackageStays
<1>4. CASE Conflicts(i, package[j]) = {}
  <2>. DEFINE plan == [to |-> i, rows |-> NewRows(i, package[j])]
  <2>1. importing' = [importing EXCEPT ![m] = plan] /\ UNCHANGED report
      BY <1>4 DEF classify
  <2>2. plan.to = i /\ plan.rows = NewRows(i, package[j])
      OBVIOUS
  <2>. HIDE DEF plan
  <2>3. PlanInv(plan)
      BY <1>1, <1>4, <2>2, PlanOfPackage
  <2>4. importing'[m] = plan /\ DOMAIN importing' = Imports
        /\ \A l \in Imports \ {m} : importing'[l] = importing[l]
      BY <1>1, <2>1 DEF PatrimonyShape
  <2>5. PlanInv(importing[m])'
      BY <1>1, <2>3, <2>4 DEF PlanInv
  <2>6. ASSUME NEW l \in Imports PROVE (importing[l] = Absent \/ PlanInv(importing[l]))'
    <3>1. CASE l = m
        BY <2>5, <3>1
    <3>2. CASE l # m
      <4>1. importing[l] = Absent \/ PlanInv(importing[l])
          BY DEF SynchronizationIInv
      <4>. QED BY <1>2, <2>4, <3>2, <4>1, PlanStays
    <3>. QED BY <3>1, <3>2
  <2>7. PatrimonyShape'
      BY <1>1, <2>1, <2>4 DEF PatrimonyShape
  <2>. QED BY <1>1, <1>3, <2>6, <2>7, TablesUntouched
<1>5. CASE Conflicts(i, package[j]) # {}
  <2>1. report' = [report EXCEPT ![m] = "CONFLICT"] /\ UNCHANGED importing
      BY <1>5 DEF classify
  <2>2. report' \in [Imports -> Reports \cup {Absent}]
      BY <1>1, <2>1 DEF PatrimonyShape, Reports
  <2>3. ASSUME NEW l \in Imports PROVE (importing[l] = Absent \/ PlanInv(importing[l]))'
    <3>1. importing[l] = Absent \/ PlanInv(importing[l])
        BY DEF SynchronizationIInv
    <3>. QED BY <1>2, <2>1, <3>1, PlanStays
  <2>4. PatrimonyShape'
      BY <1>1, <2>1, <2>2 DEF PatrimonyShape
  <2>. QED BY <1>1, <1>3, <2>3, <2>4, TablesUntouched
<1>. QED BY <1>4, <1>5

(* The insertions of an import whose foreign keys and unique keys hold.      *)
LEMMA ImportCommits ==
    ASSUME SynchronizationIInv, NEW i \in Instances, NEW plan, PlanInv(plan), plan.to = i,
           NEW rows, rows = plan.rows, ReferencesExist(i, rows), Unique(i, rows), Insert(i, rows)
    PROVE  TablesInv(i)' /\ Grows(i) /\ OneOrigin' /\ EventsAtHome'
<1>. DEFINE new == Ids(rows["objects"])
            old == Ids(db[i]["objects"])
            objects == db'[i]["objects"]
            records == db'[i]["transformations"]
<1>1. /\ \A s \in Sections : db'[i][s] = db[i][s] \cup rows[s]
      /\ DOMAIN db'[i] = Sections /\ DOMAIN db' = Instances
      /\ \A k \in Instances \ {i} : db'[k] = db[k]
    BY Inserted
<1>2. /\ objects = db[i]["objects"] \cup rows["objects"]
      /\ records = db[i]["transformations"] \cup rows["transformations"]
      /\ db'[i]["lineage"] = db[i]["lineage"] \cup rows["lineage"]
      /\ db'[i]["causal_histories"] = db[i]["causal_histories"] \cup rows["causal_histories"]
      /\ db'[i]["causal_events"] = db[i]["causal_events"] \cup rows["causal_events"]
    BY <1>1, FiveSections
<1>3. TablesInv(i) /\ OneOrigin /\ EventsAtHome /\ \A k \in Instances : TablesInv(k)
    BY DEF SynchronizationIInv
<1>4. /\ DOMAIN db[i] = Sections
      /\ \A s \in Sections : Keyed(db[i][s])
      /\ db[i]["objects"] \subseteq ObjectRows
      /\ 1 \in old
      /\ \A x \in old : Origin(x, db[i]["transformations"])
      /\ \A t \in db[i]["transformations"] : t.id # 1 /\ {t.id, t.input} \subseteq old
      /\ Ids(db[i]["lineage"]) = {Edge(t) : t \in db[i]["transformations"]}
      /\ RevisionsTell(db[i]["objects"], db[i]["transformations"])
      /\ \A c \in Clids : \A x, y \in CurrentOf(db[i]["objects"], c) : x = y
      /\ \A h \in db[i]["causal_histories"] : h.id[1] = h.subject
    BY <1>3 DEF TablesInv
<1>5. /\ \A s \in Sections : Keyed(rows[s])
      /\ rows["objects"] \subseteq ObjectRows
      /\ \A t \in rows["transformations"] : \E k \in Instances : t \in db[k]["transformations"]
      /\ \A e \in rows["lineage"] : \E k \in Instances : e \in db[k]["lineage"]
      /\ \A e \in rows["causal_events"] : \E k \in Instances : e \in db[k]["causal_events"]
      /\ \A h \in rows["causal_histories"] : h.id[1] = h.subject
      /\ \A t \in rows["transformations"] : Edge(t) \in Ids(rows["lineage"])
      /\ \A e \in rows["lineage"] : e.id[2] \in new =>
             \E t \in rows["transformations"] : e.id = Edge(t)
      /\ \A x \in new : Origin(x, rows["transformations"])
      /\ \A t \in rows["transformations"] : t.id \in new /\ t.kind = "REVISION" =>
             \E r \in rows["objects"] : r.id = t.input /\ SupersededBy(r, t)
      /\ \A r \in rows["objects"] : r.status = "SUPERSEDED" =>
             \E t \in rows["transformations"] : Revises(t, r.id) /\ SupersededBy(r, t)
    BY DEF PlanInv
<1>6. /\ \A s \in Sections : Ids(rows[s]) \cap Ids(db[i][s]) = {}
      /\ \A r \in rows["objects"] : r.status = "CURRENT" =>
             CurrentOf(db[i]["objects"] \cup rows["objects"], r.clid) = {r.id}
    BY DEF Unique
<1>7. /\ new \cap old = {}
      /\ Ids(rows["transformations"]) \cap Ids(db[i]["transformations"]) = {}
      /\ Ids(rows["causal_events"]) \cap Ids(db[i]["causal_events"]) = {}
    BY <1>6, FiveSections
<1>8. Ids(objects) = old \cup new
    BY <1>2 DEF Ids
<1>9. \A e \in rows["lineage"] : e.id[1] \in old \cup new /\ e.id[2] \in old \cup new
    BY <1>2, <1>8 DEF ReferencesExist
<1>. HIDE DEF new, old, objects, records
\* a record arrives with its object, and its source is there
<1>10. ASSUME NEW t \in rows["transformations"]
       PROVE  t.id # 1 /\ t.id \in new /\ t.input \in old \cup new
  <2>1. t.id # 1
      BY <1>3, <1>5 DEF TablesInv
  <2>2. PICK e \in rows["lineage"] : e.id = Edge(t)
      BY <1>5 DEF Ids
  <2>3. t.input \in old \cup new /\ t.id \in old \cup new
      BY <1>9, <2>2 DEF Edge
  <2>4. t.id \notin old
    <3>. SUFFICES ASSUME t.id \in old PROVE FALSE
        OBVIOUS
    <3>1. t.id \in Ids(db[i]["transformations"])
        BY <1>4, <2>1 DEF Origin
    <3>2. t.id \in Ids(rows["transformations"])
        BY DEF Ids
    <3>. QED BY <1>7, <3>1, <3>2
  <2>. QED BY <2>1, <2>3, <2>4
\* the edge of an object that was there is the edge of a record that was there
<1>11. ASSUME NEW e \in rows["lineage"] PROVE \E t \in records : e.id = Edge(t)
  <2>1. CASE e.id[2] \in new
      BY <1>2, <1>5, <2>1
  <2>2. CASE e.id[2] \in old
    <3>1. PICK k \in Instances : e \in db[k]["lineage"]
        BY <1>5
    <3>2. e.id \in {Edge(u) : u \in db[k]["transformations"]}
        BY <1>3, <3>1 DEF TablesInv, Ids
    <3>3. PICK u \in db[k]["transformations"] : e.id = Edge(u)
        BY <3>2
    <3>4. u.id = e.id[2] /\ u.id # 1
        BY <1>3, <3>3 DEF Edge, TablesInv
    <3>5. PICK t \in db[i]["transformations"] : t.id = u.id
        BY <1>4, <2>2, <3>4 DEF Origin, Ids
    <3>6. t = u
        BY <1>3, <3>5 DEF OneOrigin
    <3>. QED BY <1>2, <3>3, <3>5, <3>6
  <2>. QED BY <1>9, <2>1, <2>2
<1>12. Ids(db'[i]["lineage"]) = {Edge(t) : t \in records}
  <2>1. ASSUME NEW e \in db'[i]["lineage"] PROVE e.id \in {Edge(t) : t \in records}
    <3>1. CASE e \in rows["lineage"]
        BY <1>11, <3>1
    <3>2. CASE e \in db[i]["lineage"]
      <4>1. e.id \in {Edge(t) : t \in db[i]["transformations"]}
          BY <1>4, <3>2 DEF Ids
      <4>. QED BY <1>2, <4>1
    <3>. QED BY <1>2, <3>1, <3>2
  <2>2. ASSUME NEW t \in records PROVE Edge(t) \in Ids(db'[i]["lineage"])
    <3>1. CASE t \in rows["transformations"]
        BY <1>2, <1>5, <3>1 DEF Ids
    <3>2. CASE t \in db[i]["transformations"]
      <4>1. Edge(t) \in Ids(db[i]["lineage"])
          BY <1>4, <3>2
      <4>. QED BY <1>2, <4>1 DEF Ids
    <3>. QED BY <1>2, <3>1, <3>2
  <2>. QED BY <2>1, <2>2 DEF Ids
<1>13. ASSUME NEW t \in records, NEW r \in objects, Revises(t, r.id)
       PROVE  SupersededBy(r, t)
  <2>1. CASE t \in rows["transformations"]
    <3>1. PICK o \in rows["objects"] : o.id = t.input /\ SupersededBy(o, t)
        BY <1>5, <1>10, <1>13, <2>1 DEF Revises
    <3>2. o.id = r.id /\ o.id \in new
        BY <1>13, <3>1 DEF Revises, Ids, new
    <3>3. r \in rows["objects"]
      <4>1. r.id \notin old
          BY <1>7, <3>2
      <4>. QED BY <1>2, <4>1 DEF Ids, old
    <3>4. o = r
        BY <1>5, <3>2, <3>3, FiveSections DEF Keyed
    <3>. QED BY <3>1, <3>4
  <2>2. CASE t \in db[i]["transformations"]
    <3>1. r.id \in old
        BY <1>4, <1>13, <2>2 DEF Revises
    <3>2. r \in db[i]["objects"]
        BY <1>2, <1>7, <3>1 DEF Ids, new
    <3>. QED BY <1>4, <1>13, <2>2, <3>2 DEF RevisionsTell
  <2>. QED BY <1>2, <2>1, <2>2
<1>14. ASSUME NEW r \in objects, r.status = "SUPERSEDED"
       PROVE  \E t \in records : Revises(t, r.id) /\ SupersededBy(r, t)
    BY <1>2, <1>4, <1>5, <1>14 DEF RevisionsTell
<1>15. RevisionsTell(objects, records)
    BY <1>13, <1>14 DEF RevisionsTell
<1>16. ASSUME NEW c \in Clids, NEW x \in CurrentOf(objects, c), NEW y \in CurrentOf(objects, c)
       PROVE  x = y
  <2>1. CASE \E r \in rows["objects"] : r.status = "CURRENT" /\ r.clid = c
      BY <1>2, <1>6, <1>16, <2>1
  <2>2. CASE ~ \E r \in rows["objects"] : r.status = "CURRENT" /\ r.clid = c
    <3>1. CurrentOf(objects, c) \subseteq CurrentOf(db[i]["objects"], c)
        BY <1>2, <2>2 DEF CurrentOf
    <3>. QED BY <1>4, <1>16, <3>1
  <2>. QED BY <2>1, <2>2
<1>17. \A s \in Sections : Keyed(db'[i][s])
  <2>. SUFFICES ASSUME NEW s \in Sections PROVE Keyed(db[i][s] \cup rows[s])
      BY <1>1
  <2>1. Keyed(db[i][s]) /\ Keyed(rows[s]) /\ Ids(db[i][s]) \cap Ids(rows[s]) = {}
      BY <1>4, <1>5, <1>6
  <2>. QED BY <2>1, KeyedTogether
<1>18. TablesInv(i)'
  <2>1. objects \subseteq ObjectRows /\ 1 \in Ids(objects)
      BY <1>2, <1>4, <1>5, <1>8
  <2>2. \A x \in Ids(objects) : Origin(x, records)
    <3>1. ASSUME NEW x \in old PROVE Origin(x, records)
      <4>1. Origin(x, db[i]["transformations"])
          BY <1>4
      <4>. QED BY <1>2, <4>1 DEF Origin, Ids
    <3>2. ASSUME NEW x \in new PROVE Origin(x, records)
      <4>1. Origin(x, rows["transformations"])
          BY <1>5
      <4>. QED BY <1>2, <4>1 DEF Origin, Ids
    <3>. QED BY <1>8, <3>1, <3>2
  <2>3. \A t \in records : t.id # 1 /\ {t.id, t.input} \subseteq Ids(objects)
    <3>. SUFFICES ASSUME NEW t \in records
                  PROVE  t.id # 1 /\ t.id \in Ids(objects) /\ t.input \in Ids(objects)
        OBVIOUS
    <3>1. CASE t \in rows["transformations"]
        BY <1>8, <1>10, <3>1
    <3>2. CASE t \in db[i]["transformations"]
        BY <1>4, <1>8, <3>2
    <3>. QED BY <1>2, <3>1, <3>2
  <2>4. \A h \in db'[i]["causal_histories"] : h.id[1] = h.subject
      BY <1>2, <1>4, <1>5
  <2>. QED BY <1>1, <1>12, <1>15, <1>16, <1>17, <2>1, <2>2, <2>3, <2>4
           DEF TablesInv, objects, records
<1>19. Grows(i)
  <2>1. old \subseteq Ids(objects) /\ \A r \in db[i]["objects"] : r \in objects
      BY <1>2, <1>8
  <2>2. \A s \in Sections \ {"objects"} : db[i][s] \subseteq db'[i][s]
      BY <1>1
  <2>3. \A t \in records : t \in db[i]["transformations"] \/ t.id \notin old
      BY <1>2, <1>7, <1>10
  <2>. QED BY <2>1, <2>2, <2>3 DEF Grows, old, objects, records
<1>20. OneOrigin'
  <2>1. Keyed(db'[i]["transformations"])
      BY <1>17, FiveSections
  <2>2. \A t \in db'[i]["transformations"] : \E k \in Instances : t \in db[k]["transformations"]
      BY <1>2, <1>5 DEF records
  <2>. QED BY <1>1, <1>3, <2>1, <2>2, OriginStays
\* an event that was made here has never left
<1>21. ASSUME NEW e \in rows["causal_events"], e.id[1] = i PROVE FALSE
  <2>1. PICK k \in Instances : e \in db[k]["causal_events"]
      BY <1>5
  <2>2. e \in db[i]["causal_events"]
      BY <1>3, <1>21, <2>1 DEF EventsAtHome
  <2>. QED BY <1>7, <2>2 DEF Ids
<1>22. \A k \in Instances : Made(k)' = Made(k)
  <2>1. \A k \in Instances \ {i} : Made(k)' = Made(k)
      BY <1>1 DEF Made
  <2>2. Made(i)' = Made(i)
      BY <1>2, <1>21 DEF Made
  <2>. QED BY <2>1, <2>2
<1>23. ASSUME NEW a \in Instances, NEW b \in Instances,
              NEW e \in db'[b]["causal_events"], e.id[1] = a
       PROVE  e \in db'[a]["causal_events"]
  <2>1. \E k \in Instances : e \in db[k]["causal_events"]
      BY <1>1, <1>2, <1>5
  <2>2. e \in db[a]["causal_events"]
      BY <1>3, <1>23, <2>1 DEF EventsAtHome
  <2>. QED BY <1>1, <1>2, <2>2
<1>24. EventsAtHome'
    BY <1>3, <1>22, <1>23 DEF EventsAtHome
<1>. QED BY <1>18, <1>19, <1>20, <1>24

LEMMA ImportIsDone ==
    ASSUME SynchronizationIInv, NEW m \in Imports, ImportEnds(m)
    PROVE  SynchronizationIInv'
<1>1. PatrimonyShape /\ PlanInv(importing[m]) /\ importing[m].to \in Instances
    BY DEF SynchronizationIInv, ImportEnds, PlanInv
<1>2. PICK plan : plan = importing[m]
    OBVIOUS
<1>3. PICK i \in Instances : i = plan.to
    BY <1>1, <1>2
<1>4. PICK rows : rows = plan.rows
    OBVIOUS
<1>5. PlanInv(plan)
    BY <1>1, <1>2
<1>6. /\ UNCHANGED <<package, read>> /\ importing' = [importing EXCEPT ![m] = Absent]
      /\ DOMAIN importing' = Imports
      /\ \A l \in Imports : importing'[l] = importing[l] \/ importing'[l] = Absent
    BY <1>1 DEF ImportEnds, PatrimonyShape
<1>7. CASE /\ ReferencesExist(i, rows) /\ Unique(i, rows)
           /\ Insert(i, rows)
           /\ report' = [report EXCEPT ![m] = "APPLIED"]
  <2>1. report' \in [Imports -> Reports \cup {Absent}]
      BY <1>1, <1>7 DEF PatrimonyShape, Reports
  <2>2. DOMAIN db' = Instances /\ \A k \in Instances \ {i} : db'[k] = db[k]
      BY <1>7, Inserted
  <2>3. TablesInv(i)' /\ Grows(i) /\ OneOrigin' /\ EventsAtHome'
      BY <1>7, <1>3, <1>4, <1>5, ImportCommits
  <2>. QED BY <1>1, <1>6, <2>1, <2>2, <2>3, Written
<1>8. CASE report' = [report EXCEPT ![m] = "ERROR"] /\ UNCHANGED db
  <2>1. report' \in [Imports -> Reports \cup {Absent}]
      BY <1>1, <1>8 DEF PatrimonyShape, Reports
  <2>2. \A k \in Instances : Grows(k)
      BY <1>8, GrowsByNothing
  <2>3. ASSUME NEW k \in Exporters PROVE PackageInv(k)'
    <3>1. k \in Instances /\ PackageInv(k)
        BY SynchronizationAssumption DEF SynchronizationIInv
    <3>. QED BY <1>6, <2>2, <3>1, PackageStays
  <2>4. ASSUME NEW l \in Imports PROVE (importing[l] = Absent \/ PlanInv(importing[l]))'
    <3>1. importing[l] = Absent \/ PlanInv(importing[l])
        BY DEF SynchronizationIInv
    <3>. QED BY <1>6, <2>2, <3>1, PlanStays
  <2>5. PatrimonyShape'
      BY <1>1, <1>6, <1>8, <2>1 DEF PatrimonyShape
  <2>. QED BY <1>8, <2>3, <2>4, <2>5, TablesUntouched
<1>. QED BY <1>7, <1>8, <1>2, <1>3, <1>4 DEF ImportEnds

-----------------------------------------------------------------------------
(* Every step, and the theorem. *)

(* The tables that only hold object 1, and those that derived object 2. *)
LEMMA FirstTables ==
    ASSUME NEW i \in Instances,
           \/ /\ db[i]["objects"] = {ObjectRow(1, 1, "NONE", 0)}
              /\ db[i]["transformations"] = {} /\ db[i]["lineage"] = {}
           \/ /\ db[i]["objects"] = {ObjectRow(1, 1, "NONE", 0), ObjectRow(2, 1, "NONE", 2)}
              /\ db[i]["transformations"] = {[id |-> 2, input |-> 1, kind |-> "DERIVATION"]}
              /\ db[i]["lineage"] = {[id |-> <<1, 2>>]},
           db[i]["causal_histories"] = {}, db[i]["causal_events"] = {}, DOMAIN db[i] = Sections
    PROVE  TablesInv(i)
<1>1. \A a, b \in 1 .. 2 : ObjectRow(a, 1, "NONE", 0) \in ObjectRows
                           /\ ObjectRow(a, 1, "NONE", 2) \in ObjectRows
    BY CoidNumbers, SynchronizationAssumption DEF ObjectRow, ObjectRows, Statuses, Writes
<1>2. \A c : CurrentOf(db[i]["objects"], c) = {}
    BY DEF CurrentOf, ObjectRow
<1>3. \A r \in db[i]["objects"] : r.status # "SUPERSEDED"
    BY DEF ObjectRow
<1>4. \A t \in db[i]["transformations"] : t.kind # "REVISION" /\ t.id = 2 /\ t.input = 1
    OBVIOUS
<1>5. RevisionsTell(db[i]["objects"], db[i]["transformations"])
    BY <1>3, <1>4 DEF RevisionsTell, Revises
<1>6. db[i]["objects"] \subseteq ObjectRows
    BY <1>1
<1>7. /\ 1 \in Ids(db[i]["objects"])
      /\ \A x \in Ids(db[i]["objects"]) : Origin(x, db[i]["transformations"])
      /\ \A t \in db[i]["transformations"] :
             t.id # 1 /\ {t.id, t.input} \subseteq Ids(db[i]["objects"])
      /\ Ids(db[i]["lineage"]) = {Edge(t) : t \in db[i]["transformations"]}
  <2>1. CASE /\ db[i]["objects"] = {ObjectRow(1, 1, "NONE", 0)}
             /\ db[i]["transformations"] = {} /\ db[i]["lineage"] = {}
    <3>1. Ids(db[i]["objects"]) = {1} /\ Ids(db[i]["lineage"]) = {}
        BY <2>1 DEF Ids, ObjectRow
    <3>. QED BY <2>1, <3>1 DEF Origin
  <2>2. CASE /\ db[i]["objects"] = {ObjectRow(1, 1, "NONE", 0), ObjectRow(2, 1, "NONE", 2)}
             /\ db[i]["transformations"] = {[id |-> 2, input |-> 1, kind |-> "DERIVATION"]}
             /\ db[i]["lineage"] = {[id |-> <<1, 2>>]}
    <3>. DEFINE t == [id |-> 2, input |-> 1, kind |-> "DERIVATION"]
    <3>1. t.id = 2 /\ t.input = 1 /\ Edge(t) = <<1, 2>>
        BY DEF Edge
    <3>2. Ids(db[i]["objects"]) = {1, 2} /\ Ids(db[i]["lineage"]) = {<<1, 2>>}
        BY <2>2 DEF Ids, ObjectRow
    <3>3. db[i]["transformations"] = {t}
        BY <2>2
    <3>4. Ids(db[i]["transformations"]) = {2}
        BY <3>1, <3>3 DEF Ids
    <3>. HIDE DEF t
    <3>5. {Edge(u) : u \in db[i]["transformations"]} = {<<1, 2>>}
        BY <3>1, <3>3
    <3>6. \A x \in Ids(db[i]["objects"]) : Origin(x, db[i]["transformations"])
        BY <3>2, <3>4 DEF Origin
    <3>. QED BY <3>1, <3>2, <3>3, <3>5, <3>6
  <2>. QED BY <2>1, <2>2
<1>8. \A s \in Sections : Keyed(db[i][s])
    BY FiveSections DEF Keyed, ObjectRow
<1>. QED BY <1>2, <1>5, <1>6, <1>7, <1>8 DEF TablesInv

LEMMA SynchronizationStarts ==
    SynchronizationInit => SynchronizationIInv
<1>. SUFFICES ASSUME SynchronizationInit PROVE SynchronizationIInv
    OBVIOUS
<1>1. DOMAIN Empty = Sections /\ \A s \in Sections : Empty[s] = {}
    BY NothingRead
<1>2. ASSUME NEW i \in Instances
      PROVE  /\ \/ /\ db[i]["objects"] = {ObjectRow(1, 1, "NONE", 0)}
                   /\ db[i]["transformations"] = {} /\ db[i]["lineage"] = {}
                \/ /\ db[i]["objects"] = {ObjectRow(1, 1, "NONE", 0), ObjectRow(2, 1, "NONE", 2)}
                   /\ db[i]["transformations"] = {[id |-> 2, input |-> 1, kind |-> "DERIVATION"]}
                   /\ db[i]["lineage"] = {[id |-> <<1, 2>>]}
             /\ db[i]["causal_histories"] = {} /\ db[i]["causal_events"] = {}
             /\ DOMAIN db[i] = Sections
  <2>1. CASE i \in Exporters
    <3>1. db[i] = [Empty EXCEPT !["objects"] = {ObjectRow(1, 1, "NONE", 0)}]
        BY <2>1 DEF SynchronizationInit
    <3>. QED BY <1>1, <3>1, FiveSections
  <2>2. CASE i \notin Exporters
    <3>1. db[i] = [Empty EXCEPT
                        !["objects"] = {ObjectRow(1, 1, "NONE", 0), ObjectRow(2, 1, "NONE", 2)},
                        !["transformations"] = {[id |-> 2, input |-> 1, kind |-> "DERIVATION"]},
                        !["lineage"] = {[id |-> <<1, 2>>]}]
        BY <2>2 DEF SynchronizationInit
    <3>. QED BY <1>1, <3>1, FiveSections
  <2>. QED BY <2>1, <2>2
<1>3. \A i \in Instances : TablesInv(i)
    BY <1>2, FirstTables
<1>4. \A i \in Instances : \A t \in db[i]["transformations"] :
          t = [id |-> 2, input |-> 1, kind |-> "DERIVATION"]
    BY <1>2
<1>5. OneOrigin
    BY <1>4 DEF OneOrigin
<1>6. EventsAtHome
  <2>1. \A i \in Instances : Made(i) = {}
      BY <1>2 DEF Made
  <2>. QED BY <1>2, <2>1, FS_EmptySet DEF EventsAtHome
<1>7. ASSUME NEW j \in Exporters PROVE PackageInv(j)
  <2>1. package[j] = Empty /\ read[j] = Absent
      BY DEF SynchronizationInit
  <2>2. /\ Empty["objects"] = {} /\ Empty["transformations"] = {} /\ Empty["lineage"] = {}
        /\ Ids(Empty["objects"]) = {} /\ \A s \in Sections : Keyed(Empty[s])
      BY <1>1, FiveSections DEF Ids, Keyed
  <2>3. read[j] \notin 2 .. 5 /\ read[j] \notin 4 .. 5
      BY <2>1, SynchronizationAssumption
  <2>. QED BY <1>1, <2>1, <2>2, <2>3 DEF PackageInv
<1>8. PatrimonyShape /\ \A m \in Imports : importing[m] = Absent
    BY DEF SynchronizationInit, PatrimonyShape
<1>. QED BY <1>3, <1>5, <1>6, <1>7, <1>8 DEF SynchronizationIInv

LEMMA SynchronizationSteps ==
    SynchronizationIInv /\ [SynchronizationNext]_synchronizationVars => SynchronizationIInv'
<1>. SUFFICES ASSUME SynchronizationIInv, [SynchronizationNext]_synchronizationVars
              PROVE  SynchronizationIInv'
    OBVIOUS
<1>1. ASSUME NEW i \in Instances, Write(i) PROVE SynchronizationIInv'
    BY <1>1, EventWrites, ServiceWrites DEF Write
<1>2. ASSUME NEW i \in Exporters, ExportBegins(i) \/ read_table(i) PROVE SynchronizationIInv'
    BY <1>2, ExportStarts, TableIsRead
<1>3. ASSUME NEW m \in Imports, ImportEnds(m) PROVE SynchronizationIInv'
    BY <1>3, ImportIsDone
<1>4. ASSUME NEW m \in Imports, NEW i \in Importers, NEW j \in Exporters, classify(m, i, j)
      PROVE  SynchronizationIInv'
    BY <1>4, ImportIsPlanned
<1>5. CASE UNCHANGED synchronizationVars
  <2>1. UNCHANGED <<db, package, read, importing, report>>
      BY <1>5 DEF synchronizationVars
  <2>2. \A k \in Instances : Grows(k)
      BY <2>1, GrowsByNothing
  <2>3. ASSUME NEW j \in Exporters PROVE PackageInv(j)'
    <3>1. j \in Instances /\ PackageInv(j)
        BY SynchronizationAssumption DEF SynchronizationIInv
    <3>. QED BY <2>1, <2>2, <3>1, PackageStays
  <2>4. ASSUME NEW m \in Imports PROVE (importing[m] = Absent \/ PlanInv(importing[m]))'
    <3>1. importing[m] = Absent \/ PlanInv(importing[m])
        BY DEF SynchronizationIInv
    <3>. QED BY <2>1, <2>2, <3>1, PlanStays
  <2>5. PatrimonyShape'
      BY <2>1 DEF SynchronizationIInv, PatrimonyShape
  <2>. QED BY <2>1, <2>3, <2>4, <2>5, TablesUntouched
<1>. QED BY <1>1, <1>2, <1>3, <1>4, <1>5 DEF SynchronizationNext

LEMMA SynchronizationHolds == SynchronizationSpec => []SynchronizationIInv
<1>. QED BY SynchronizationStarts, SynchronizationSteps, PTL DEF SynchronizationSpec

LEMMA WholeWhileItHolds == SynchronizationIInv => PatrimonyWhole
<1>. SUFFICES ASSUME SynchronizationIInv PROVE PatrimonyWhole
    OBVIOUS
<1>1. PatrimonyShape /\ (\A i \in Instances : TablesInv(i)) /\ \A j \in Exporters : PackageInv(j)
    BY DEF SynchronizationIInv
<1>2. SynchronizationTypeOK
  <2>1. ASSUME NEW i \in Instances, NEW r \in db[i]["objects"]
        PROVE  r.id \in Coids
               /\ [clid |-> r.clid, status |-> r.status, updated_at |-> r.updated_at] \in Objects
    <3>1. r \in ObjectRows
        BY <1>1 DEF TablesInv
    <3>. QED BY <3>1 DEF ObjectRows, Objects
  <2>2. /\ \A i \in Instances : \A s \in Sections : Keyed(db[i][s])
        /\ \A j \in Exporters : \A s \in Sections : Keyed(package[j][s])
      BY <1>1 DEF TablesInv, PackageInv
  <2>. QED BY <1>1, <2>1, <2>2 DEF SynchronizationTypeOK, PatrimonyShape
<1>3. LineageWhole
  <2>. SUFFICES ASSUME NEW i \in Instances
                PROVE  /\ \A t \in db[i]["transformations"] :
                              {t.id, t.input} \subseteq Ids(db[i]["objects"])
                       /\ {e.id : e \in db[i]["lineage"]} =
                              {<<t.input, t.id>> : t \in db[i]["transformations"]}
                       /\ \A r \in db[i]["objects"] :
                              Cardinality({t \in db[i]["transformations"] :
                                               t.kind = "REVISION" /\ t.input = r.id}) =
                              IF r.status = "SUPERSEDED" THEN 1 ELSE 0
      BY DEF LineageWhole
  <2>1. TablesInv(i)
      BY <1>1
  <2>2. {e.id : e \in db[i]["lineage"]} = {<<t.input, t.id>> : t \in db[i]["transformations"]}
      BY <2>1 DEF TablesInv, Ids, Edge
  <2>3. ASSUME NEW r \in db[i]["objects"]
        PROVE  Cardinality({t \in db[i]["transformations"] :
                                t.kind = "REVISION" /\ t.input = r.id}) =
               IF r.status = "SUPERSEDED" THEN 1 ELSE 0
    <3>. DEFINE revisions == {t \in db[i]["transformations"] :
                                  t.kind = "REVISION" /\ t.input = r.id}
    <3>1. \A t \in revisions : SupersededBy(r, t)
        BY <2>1 DEF TablesInv, RevisionsTell, Revises
    <3>2. CASE r.status # "SUPERSEDED"
      <4>1. revisions = {}
          BY <3>1, <3>2 DEF SupersededBy
      <4>. QED BY <3>2, <4>1, FS_EmptySet
    <3>3. CASE r.status = "SUPERSEDED"
      <4>1. PICK t \in db[i]["transformations"] : Revises(t, r.id)
          BY <2>1, <3>3 DEF TablesInv, RevisionsTell
      <4>2. t \in revisions
          BY <4>1 DEF Revises
      <4>3. \A u \in revisions : u = t
        <5>1. Keyed(db[i]["transformations"])
            BY <2>1, FiveSections DEF TablesInv
        <5>. QED BY <3>1, <4>2, <5>1 DEF SupersededBy, Keyed
      <4>. HIDE DEF revisions
      <4>4. revisions = {t}
          BY <4>2, <4>3
      <4>5. Cardinality(revisions) = 1
          BY <4>4, FS_Singleton
      <4>. QED BY <3>3, <4>5 DEF revisions
    <3>. QED BY <3>2, <3>3
  <2>. QED BY <2>1, <2>2, <2>3 DEF TablesInv
<1>4. OneCurrentPerClid
  <2>. SUFFICES ASSUME NEW i \in Instances, NEW c \in Clids
                PROVE  Cardinality(CurrentOf(db[i]["objects"], c)) <= 1
      BY DEF OneCurrentPerClid
  <2>. DEFINE heads == CurrentOf(db[i]["objects"], c)
  <2>1. \A x, y \in heads : x = y
      BY <1>1 DEF TablesInv
  <2>. HIDE DEF heads
  <2>2. heads = {} \/ \E x : heads = {x}
      BY <2>1
  <2>3. Cardinality(heads) <= 1
    <3>1. CASE heads = {}
        BY <3>1, FS_EmptySet
    <3>2. CASE heads # {}
      <4>1. PICK x : heads = {x}
          BY <2>2, <3>2
      <4>2. Cardinality({x}) = 1
          BY FS_Singleton
      <4>. QED BY <4>1, <4>2
    <3>. QED BY <3>1, <3>2
  <2>. QED BY <2>3 DEF heads
<1>. QED BY <1>2, <1>3, <1>4 DEF PatrimonyWhole

(* Whatever export_package reads while services derive, revise and record,   *)
(* and whatever the tables have become when import_package inserts, no       *)
(* instance is left with part of a lineage, with a SUPERSEDED object that no *)
(* revision explains, or with two CURRENT objects of a CLID: for any number  *)
(* of instances, importers, sessions and objects.                            *)
THEOREM PatrimonyStaysWhole == SynchronizationSpec => []PatrimonyWhole
<1>. QED BY SynchronizationHolds, WholeWhileItHolds, PTL
=============================================================================
