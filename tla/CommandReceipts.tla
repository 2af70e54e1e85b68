-------------------------- MODULE CommandReceipts --------------------------
(***************************************************************************)
(* Idempotent commands of app/orchestration: CommandReceiptService claims  *)
(* the triple (principal, operation, command_key) with INSERT ... ON       *)
(* CONFLICT DO UPDATE and produces the effect in the same transaction only *)
(* if it inserted the row.  The export route also looks for a replay       *)
(* before anything else, and again once it holds the lock of the Schedule. *)
(*                                                                         *)
(* A session is one request on its own connection.  The export effect      *)
(* opens an attempt of the Schedule and the import effect closes it; every *)
(* other command claims first, like the import.                            *)
(***************************************************************************)
EXTENDS Integers

CONSTANTS Sessions,  \* requests in flight, retries included
          Requests,  \* what they ask: key, op, schedule, fingerprint
          None       \* an absent row, a free lock

Keys      == {r.key : r \in Requests}
Schedules == {r.schedule : r \in Requests}
Receipts  == [fingerprint : {r.fingerprint : r \in Requests}, outcome_ref : Sessions]

Errors    == {"CONFLICT", "REFUSED", "BLOCKED", "ERROR"}

ASSUME NoneAssumption ==
    /\ None \notin Sessions /\ None \notin Receipts /\ None \notin Errors
    /\ Sessions \cap Errors = {}
(* The operation is part of the triple and the Schedule of the fingerprint.  *)
ASSUME RequestAssumption ==
    /\ \A r \in Requests : r.op \in {"export", "command"}
    /\ \A q, r \in Requests : q.key = r.key => q.op = r.op
    /\ \A q, r \in Requests : q.fingerprint = r.fingerprint => q.schedule = r.schedule

VARIABLES
    receipt,  \* committed command_receipts row of a key, or None
    effects,  \* committed effects of a key, counted
    claimer,  \* who inserted or locked the row of a key and has not ended
    locked,   \* who holds the lock of a Schedule
    open,     \* whether a Schedule's step has an OPEN attempt
    pc, request, claimed,
    answer    \* what the session answered

dbVars == <<receipt, effects, open>>
vars   == <<receipt, effects, claimer, locked, open, pc, request, claimed, answer>>

Key(s) == request[s].key
Agenda(s) == request[s].schedule

Init ==
    /\ receipt = [k \in Keys |-> None]
    /\ effects = [k \in Keys |-> 0]
    /\ claimer = [k \in Keys |-> None]
    /\ locked = [a \in Schedules |-> None]
    /\ open = [a \in Schedules |-> FALSE]
    /\ pc = [s \in Sessions |-> "idle"]
    /\ request = [s \in Sessions |-> None]
    /\ claimed = [s \in Sessions |-> FALSE]
    /\ answer = [s \in Sessions |-> None]

Goto(s, label) == pc' = [pc EXCEPT ![s] = label] /\ UNCHANGED answer

(* Mutant: the lock of the Schedule outlives the transaction. *)
ReleaseKeepingSchedule(s) ==
    /\ claimer' = [k \in Keys |-> IF claimer[k] = s THEN None ELSE claimer[k]]
    /\ UNCHANGED locked

(* The transaction of s ends, by commit or rollback, and its locks with it. *)
Release(s) ==
    /\ claimer' = [k \in Keys |-> IF claimer[k] = s THEN None ELSE claimer[k]]
    /\ locked' = [a \in Schedules |-> IF locked[a] = s THEN None ELSE locked[a]]

Answer(s, what) ==
    /\ pc' = [pc EXCEPT ![s] = "done"]
    /\ answer' = [answer EXCEPT ![s] = what]
    /\ Release(s)

-----------------------------------------------------------------------------
(* Mutant: the request goes on without its identity. *)
StartWithoutIdentity(s, r) ==
    /\ pc[s] = "idle"
    /\ Goto(s, IF r.op = "export" THEN "replay" ELSE "claim")
    /\ UNCHANGED <<dbVars, claimer, locked, request, claimed>>

(* A route is called: the export looks for a replay, the others claim.       *)
start(s, r) ==
    /\ pc[s] = "idle"
    /\ request' = [request EXCEPT ![s] = r]
    /\ Goto(s, IF r.op = "export" THEN "replay" ELSE "claim")
    /\ UNCHANGED <<dbVars, claimer, locked, claimed>>

(* Mutant: no replay is looked for a second time, under the lock. *)
ReplayBeforeLockOnly(s, absent) ==
    \/ /\ pc[s] = "recheck" \/ receipt[Key(s)] = None
       /\ Goto(s, absent)
       /\ UNCHANGED <<claimer, locked>>
    \/ /\ pc[s] = "replay" /\ receipt[Key(s)] # None
       /\ receipt[Key(s)].fingerprint # request[s].fingerprint
       /\ Answer(s, "CONFLICT")
    \/ /\ pc[s] = "replay" /\ receipt[Key(s)] # None
       /\ receipt[Key(s)].fingerprint = request[s].fingerprint
       /\ Goto(s, "claim")
       /\ UNCHANGED <<claimer, locked>>

(* _replay_de_export: a plain read of the receipt.  With no receipt the      *)
(* request goes on to `absent`.                                              *)
replay_de_export(s, absent) ==
    \/ /\ receipt[Key(s)] = None
       /\ Goto(s, absent)
       /\ UNCHANGED <<claimer, locked>>
    \/ /\ receipt[Key(s)] # None
       /\ receipt[Key(s)].fingerprint # request[s].fingerprint
       /\ Answer(s, "CONFLICT")
    \/ /\ receipt[Key(s)] # None
       /\ receipt[Key(s)].fingerprint = request[s].fingerprint
       /\ Goto(s, "claim")
       /\ UNCHANGED <<claimer, locked>>

PhaseZero(s) ==
    /\ pc[s] = "replay"
    /\ replay_de_export(s, "lock")
    /\ UNCHANGED <<dbVars, request, claimed>>

lock_schedule(s) ==
    /\ pc[s] = "lock"
    /\ locked[Agenda(s)] = None
    /\ locked' = [locked EXCEPT ![Agenda(s)] = s]
    /\ Goto(s, "recheck")
    /\ UNCHANGED <<dbVars, claimer, request, claimed>>

Recheck(s) ==
    /\ pc[s] = "recheck"
    /\ replay_de_export(s, "preflight")
    /\ UNCHANGED <<dbVars, request, claimed>>

(* preflight: refused when an attempt is OPEN, or blocked by a gate, in      *)
(* which case only the pause is committed.                                   *)
preflight(s) ==
    /\ pc[s] = "preflight"
    /\ \/ open[Agenda(s)] /\ Answer(s, "REFUSED")
       \/ ~ open[Agenda(s)] /\ Answer(s, "BLOCKED")
       \/ ~ open[Agenda(s)] /\ Goto(s, "claim") /\ UNCHANGED <<claimer, locked>>
    /\ UNCHANGED <<dbVars, request, claimed>>

(* Mutant: the fingerprint of the stored receipt is not compared. *)
ClaimAnyFingerprint(s) ==
    /\ pc[s] = "claim"
    /\ claimer[Key(s)] = None
    /\ claimer' = [claimer EXCEPT ![Key(s)] = s]
    /\ claimed' = [claimed EXCEPT ![s] = receipt[Key(s)] = None]
    /\ Goto(s, IF receipt[Key(s)] = None THEN "effect" ELSE "commit")
    /\ UNCHANGED <<dbVars, locked, request>>

(* claim_command and the comparison of fingerprints: the INSERT waits for    *)
(* another transaction that inserted or locked the row of the key.           *)
claim_command(s) ==
    /\ pc[s] = "claim"
    /\ claimer[Key(s)] = None
    /\ \/ /\ receipt[Key(s)] = None
          /\ claimer' = [claimer EXCEPT ![Key(s)] = s]
          /\ claimed' = [claimed EXCEPT ![s] = TRUE]
          /\ Goto(s, "effect")
          /\ UNCHANGED locked
       \/ /\ receipt[Key(s)] # None
          /\ receipt[Key(s)].fingerprint # request[s].fingerprint
          /\ Answer(s, "CONFLICT")
          /\ UNCHANGED claimed
       \/ /\ receipt[Key(s)] # None
          /\ receipt[Key(s)].fingerprint = request[s].fingerprint
          /\ claimer' = [claimer EXCEPT ![Key(s)] = s]
          /\ Goto(s, "commit")
          /\ UNCHANGED <<locked, claimed>>
    /\ UNCHANGED <<dbVars, request>>

(* The effect of an export: preflight again, under the same lock. *)
EffectExport(s) ==
    /\ pc[s] = "effect" /\ request[s].op = "export"
    /\ Goto(s, "commit")
    /\ UNCHANGED <<dbVars, claimer, locked, request, claimed>>

(* The effect of another command takes the lock of the Schedule and is       *)
(* refused without an OPEN attempt.                                          *)
EffectCommand(s) ==
    /\ pc[s] = "effect" /\ request[s].op = "command"
    /\ locked[Agenda(s)] = None
    /\ \/ /\ open[Agenda(s)]
          /\ locked' = [locked EXCEPT ![Agenda(s)] = s]
          /\ Goto(s, "commit")
          /\ UNCHANGED claimer
       \/ ~ open[Agenda(s)] /\ Answer(s, "REFUSED")
    /\ UNCHANGED <<dbVars, request, claimed>>

-----------------------------------------------------------------------------
(* Mutant: the effect is produced for a replay too. *)
WriteEffectAlways(s) ==
    /\ receipt' = [receipt EXCEPT ![Key(s)] =
           IF claimed[s] THEN [fingerprint |-> request[s].fingerprint, outcome_ref |-> s] ELSE @]
    /\ effects' = [effects EXCEPT ![Key(s)] = @ + 1]
    /\ open' = [open EXCEPT ![Agenda(s)] = request[s].op = "export"]

(* What the transaction of s wrote becomes visible. *)
WriteEffect(s) ==
    IF claimed[s]
    THEN /\ receipt' = [receipt EXCEPT ![Key(s)] =
                [fingerprint |-> request[s].fingerprint, outcome_ref |-> s]]
         /\ effects' = [effects EXCEPT ![Key(s)] = @ + 1]
         /\ open' = [open EXCEPT ![Agenda(s)] = request[s].op = "export"]
    ELSE UNCHANGED dbVars

(* The outcome_ref of the receipt that claim_command returned. *)
OutcomeRef(s) == IF claimed[s] THEN s ELSE receipt[Key(s)].outcome_ref

Commit(s) ==
    /\ pc[s] = "commit"
    /\ WriteEffect(s)
    /\ Answer(s, OutcomeRef(s))
    /\ UNCHANGED <<request, claimed>>

(* The commit fails or its confirmation is lost. *)
CommitFails(s) ==
    /\ pc[s] = "commit"
    /\ WriteEffect(s) \/ UNCHANGED dbVars
    /\ Answer(s, "ERROR")
    /\ UNCHANGED <<request, claimed>>

(* An exception, a lost connection or a crash before the commit. *)
Rollback(s) ==
    /\ pc[s] \notin {"idle", "done"}
    /\ Answer(s, "ERROR")
    /\ UNCHANGED <<dbVars, request, claimed>>

-----------------------------------------------------------------------------
Step(s) ==
    \/ PhaseZero(s) \/ lock_schedule(s) \/ Recheck(s) \/ preflight(s)
    \/ claim_command(s) \/ EffectExport(s) \/ EffectCommand(s) \/ Commit(s)

Next ==
    \E s \in Sessions :
        \/ \E r \in Requests : start(s, r)
        \/ Step(s) \/ CommitFails(s) \/ Rollback(s)

(* A request goes on while it can; waits for a row lock are served in turn.  *)
Fairness == \A s \in Sessions : SF_vars(Step(s))

Spec == Init /\ [][Next]_vars /\ Fairness
-----------------------------------------------------------------------------
(* Properties. *)

Labels == {"idle", "replay", "lock", "recheck", "preflight", "claim", "effect", "commit", "done"}

(* The rows, locks and requests have their types, and a request exists from  *)
(* the first step of its session on.                                         *)
TypeOK ==
    /\ receipt \in [Keys -> Receipts \cup {None}]
    /\ effects \in [Keys -> Nat]
    /\ claimer \in [Keys -> Sessions \cup {None}]
    /\ locked \in [Schedules -> Sessions \cup {None}]
    /\ open \in [Schedules -> BOOLEAN]
    /\ pc \in [Sessions -> Labels]
    /\ request \in [Sessions -> Requests \cup {None}]
    /\ \A s \in Sessions : pc[s] # "idle" => request[s] \in Requests
    /\ claimed \in [Sessions -> BOOLEAN]
    /\ answer \in [Sessions -> Sessions \cup Errors \cup {None}]

(* SAME_COMMAND_KEY -> NO_DUPLICATE_EFFECT: a key has its effect exactly     *)
(* once, and exactly when its receipt is committed, whatever retries and     *)
(* duplicates overlap and whichever of them fail.                            *)
ExactlyOnce ==
    \A k \in Keys : effects[k] = IF receipt[k] = None THEN 0 ELSE 1

(* SAME_COMMAND_KEY -> SAME_RECEIPT: every successful answer under a key     *)
(* names the outcome of the committed receipt, and only requests with its    *)
(* fingerprint are answered.                                                 *)
AnswersAgree ==
    \A s \in Sessions :
        answer[s] \in Sessions =>
            receipt[Key(s)] = [fingerprint |-> request[s].fingerprint,
                               outcome_ref |-> answer[s]]

(* Requests that share a command key share one effect and one answer, however *)
(* they race, fail and are retried (claim_command, _executar_uma_vez).        *)
OneAnswerPerKey == ExactlyOnce /\ AnswersAgree

(* REPLAY != NEW_REQUEST: a request whose receipt is committed is never      *)
(* refused as if it were a new one, although the step it finds is the one    *)
(* its first execution left behind.                                          *)
ReplayIsNotRefused ==
    [][\A s \in Sessions :
          answer[s] = None /\ answer'[s] = "REFUSED" =>
              \/ receipt[Key(s)] = None
              \/ receipt[Key(s)].fingerprint # request[s].fingerprint]_vars

(* Every request is answered: locks are always released, and claiming before *)
(* locking in one route and after it in another never waits in a circle.     *)
RequestsEnd ==
    \A s \in Sessions : pc[s] # "idle" ~> pc[s] = "done"

Once == INSTANCE OnceOnly WITH owner <- receipt, performed <- effects

(* The claim, the effect and the commit implement the abstract once-only key.*)
ImplementsOnceOnly == Once!Spec
=============================================================================
