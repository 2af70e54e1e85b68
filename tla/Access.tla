------------------------------- MODULE Access -------------------------------
(***************************************************************************)
(* What a request meets before any public route runs: the in-memory rate   *)
(* limiter of the process, then authentication of the technical principal, *)
(* its scope and its quota (app/api/dependencies.py), in that order.  The  *)
(* command line provisions and revokes principals meanwhile.               *)
(*                                                                         *)
(* The transaction of a request begins with the read of the principal, and *)
(* now() is that instant until it ends: it names the quota window even if  *)
(* the increment waits for another request.                                *)
(***************************************************************************)
EXTENDS Integers, Sequences, FiniteSets

CONSTANTS Requests,           \* HTTP requests
          Clients,            \* rate limiter keys: client IPs
          Principals,         \* key ids
          Revocations,        \* runs of the revoke command
          Scopes,             \* scopes of a principal
          QuotaLimit,         \* quota_limit of every principal
          QuotaWindow,        \* quota_window_seconds of every principal
          MaxRequests,        \* rate_limit_requests
          WindowSeconds,      \* rate_limit_window_seconds
          MaxClock,           \* bound on time
          None                \* no row, NULL, an unknown credential

Operations == {"predictive", "orchestration"}
Instants   == 0 .. MaxClock
Rows       == [expires_at : Instants \cup {None}, revoked_at : Instants \cup {None}]
Buckets    == Principals \X Operations \X Instants
Calls      == [client : Clients, principal : Principals \cup {None},
               operation : Operations, dead : BOOLEAN]
Answers    == {"admitted", "rate_limited", "401", "403", "429", "503", "500"}

ASSUME AccessAssumption ==
    /\ IsFiniteSet(Requests) /\ Requests \cap Revocations = {}
    /\ QuotaLimit \in Nat \ {0} /\ QuotaWindow \in Nat \ {0}
    /\ MaxRequests \in Nat \ {0} /\ WindowSeconds \in Nat \ {0} /\ MaxClock \in Nat
    /\ Scopes \in [Principals -> SUBSET Operations]
    /\ None \notin Principals \cup Requests \cup Revocations \cup Instants
    /\ None \notin Rows /\ None \notin Calls /\ None \notin Answers

VARIABLES
    clock,    \* PostgreSQL's time, and the monotonic one
    hits,     \* InMemoryRateLimiter._hits: instants of each client, oldest first
    row,      \* programmatic_service_principals
    used,     \* programmatic_quota_buckets, committed; 0 for no row
    holder,   \* the request whose transaction locks a bucket
    pc, call, answer,
    now,      \* now() of an authenticated request or of a revocation
    free,     \* liberado: whether a request's increment was accepted
    seen,     \* the row a revocation read
    passes    \* history: when the rate limiter let a request of a client through

requestVars == <<pc, call, answer, free>>
vars == <<clock, hits, row, used, holder, pc, call, answer, now, free, seen, passes>>

Init ==
    /\ clock = 0
    /\ hits = [c \in Clients |-> <<>>]
    /\ row = [p \in Principals |-> None]
    /\ used = [b \in Buckets |-> 0]
    /\ holder = [b \in Buckets |-> None]
    /\ pc = [r \in Requests |-> "idle"]
    /\ call = [r \in Requests |-> None]
    /\ answer = [r \in Requests |-> None]
    /\ now = [x \in Requests \cup Revocations |-> None]
    /\ free = [r \in Requests |-> FALSE]
    /\ seen = [v \in Revocations |-> None]
    /\ passes = [c \in Clients |-> <<>>]

is_active_at(p, t) ==
    /\ row[p].revoked_at = None
    /\ row[p].expires_at # None => row[p].expires_at > t

Goto(r, label) == pc' = [pc EXCEPT ![r] = label] /\ UNCHANGED answer

Respond(r, what) ==
    /\ pc' = [pc EXCEPT ![r] = "done"]
    /\ answer' = [answer EXCEPT ![r] = what]

-----------------------------------------------------------------------------
(* Mutant: an instant on the edge of the window is forgotten. *)
PopsEdge(c, n) ==
    /\ \A i \in 1 .. n : hits[c][i] <= clock - WindowSeconds
    /\ n < Len(hits[c]) => hits[c][n + 1] > clock - WindowSeconds

(* is_allowed pops the first n instants: those before window_start. *)
Pops(c, n) ==
    /\ \A i \in 1 .. n : hits[c][i] < clock - WindowSeconds
    /\ n < Len(hits[c]) => hits[c][n + 1] >= clock - WindowSeconds

(* RateLimitMiddleware.dispatch: the request is counted and goes on, or is   *)
(* refused and not counted.                                                  *)
Limit(r, c, recent) ==
    \/ /\ Len(recent) >= MaxRequests
       /\ hits' = [hits EXCEPT ![c] = recent]
       /\ Respond(r, "rate_limited")
       /\ UNCHANGED passes
    \/ /\ Len(recent) < MaxRequests
       /\ hits' = [hits EXCEPT ![c] = Append(recent, clock)]
       /\ passes' = [passes EXCEPT ![c] = Append(@, clock)]
       /\ Goto(r, "authenticate")

is_allowed(r, c) ==
    \E n \in 0 .. Len(hits[c]) :
        Pops(c, n) /\ Limit(r, c, SubSeq(hits[c], n + 1, Len(hits[c])))

(* Whether the credential of p is already unknown, revoked or expired. *)
Dead(p) ==
    \/ p = None
    \/ row[p].revoked_at # None
    \/ row[p].expires_at # None /\ row[p].expires_at <= clock

(* A request arrives, with the credential of p or one that no row matches.   *)
dispatch(r, c, p, op) ==
    /\ pc[r] = "idle"
    /\ p # None => row[p] # None
    /\ call' = [call EXCEPT ![r] =
                    [client |-> c, principal |-> p, operation |-> op,
                     dead |-> Dead(p)]]
    /\ is_allowed(r, c)
    /\ UNCHANGED <<clock, row, used, holder, now, free, seen>>

-----------------------------------------------------------------------------
(* require_scope. *)
has_scope(r) == call[r].operation \in Scopes[call[r].principal]

(* Authentication and scope, from one row and now() of one transaction.  An  *)
(* unreadable database is a refusal like any other; a missing scope is one   *)
(* before the quota.                                                         *)
authenticate(r) ==
    LET p == call[r].principal IN
    /\ pc[r] = "authenticate"
    /\ \/ /\ p # None /\ is_active_at(p, clock) /\ has_scope(r)
          /\ now' = [now EXCEPT ![r] = clock]
          /\ Goto(r, "quota")
       \/ /\ p # None /\ is_active_at(p, clock) /\ ~has_scope(r)
          /\ Respond(r, "403") /\ UNCHANGED now
       \/ /\ Respond(r, "401") /\ UNCHANGED now
    /\ UNCHANGED <<clock, hits, row, used, holder, call, free, seen, passes>>

-----------------------------------------------------------------------------
window_start(r) == (now[r] \div QuotaWindow) * QuotaWindow

Bucket(r) == <<call[r].principal, call[r].operation, window_start(r)>>

(* Mutant: the count is read before the lock of the row is waited for. *)
ConsumeUnlocked(r) ==
    /\ pc[r] = "quota"
    /\ free' = [free EXCEPT ![r] = used[Bucket(r)] < QuotaLimit]
    /\ Goto(r, "commit")
    /\ UNCHANGED <<clock, hits, row, used, holder, call, now, seen, passes>>

(* INSERT ... ON CONFLICT DO UPDATE ... WHERE used < quota_limit.  The       *)
(* statement waits for the transaction that inserted or updated the row, and *)
(* locks it even when the WHERE refuses the increment.                       *)
consume_quota(r) ==
    /\ pc[r] = "quota"
    /\ holder[Bucket(r)] = None
    /\ holder' = [holder EXCEPT ![Bucket(r)] = r]
    /\ free' = [free EXCEPT ![r] = used[Bucket(r)] < QuotaLimit]
    /\ Goto(r, "commit")
    /\ UNCHANGED <<clock, hits, row, used, call, now, seen, passes>>

(* The statement fails: rollback, 503. *)
QuotaUnavailable(r) ==
    /\ pc[r] = "quota"
    /\ Respond(r, "503")
    /\ UNCHANGED <<clock, hits, row, used, holder, call, now, free, seen, passes>>

(* The row locks of r end with its transaction. *)
Release(r) ==
    holder' = [b \in Buckets |-> IF holder[b] = r THEN None ELSE holder[b]]

(* What the transaction of r leaves in its bucket once committed. *)
Count(r) ==
    used' = IF free[r] THEN [used EXCEPT ![Bucket(r)] = @ + 1] ELSE used

(* The commit of the quota comes before the answer. *)
commit(r) ==
    /\ pc[r] = "commit"
    /\ Count(r)
    /\ Release(r)
    /\ Respond(r, IF free[r] THEN "admitted" ELSE "429")
    /\ UNCHANGED <<clock, hits, row, call, now, free, seen, passes>>

(* The commit raises, before or after it took effect: get_db rolls back.     *)
CommitFails(r) ==
    /\ pc[r] = "commit"
    /\ Count(r) \/ UNCHANGED used
    /\ Release(r)
    /\ Respond(r, "500")
    /\ UNCHANGED <<clock, hits, row, call, now, free, seen, passes>>

-----------------------------------------------------------------------------
(* A key_id is generated once and must be new; expires_at is in the future.  *)
create_principal(p, expires) ==
    /\ row[p] = None
    /\ expires # None => expires > clock
    /\ row' = [row EXCEPT ![p] = [expires_at |-> expires, revoked_at |-> None]]
    /\ UNCHANGED <<clock, hits, used, holder, requestVars, now, seen, passes>>

(* revoke reads the row without a lock ... *)
RevokeRead(v, p) ==
    /\ now[v] = None /\ row[p] # None
    /\ now' = [now EXCEPT ![v] = clock]
    /\ seen' = [seen EXCEPT ![v] = IF row[p].revoked_at = None THEN p ELSE None]
    /\ UNCHANGED <<clock, hits, row, used, holder, requestVars, passes>>

(* ... and, if it read NULL, updates it by primary key and commits.          *)
RevokeWrite(v) ==
    /\ seen[v] # None
    /\ row' = [row EXCEPT ![seen[v]].revoked_at = now[v]]
    /\ seen' = [seen EXCEPT ![v] = None]
    /\ UNCHANGED <<clock, hits, used, holder, requestVars, now, passes>>

Tick ==
    /\ clock < MaxClock
    /\ clock' = clock + 1
    /\ UNCHANGED <<hits, row, used, holder, requestVars, now, seen, passes>>

-----------------------------------------------------------------------------
(* The request goes on by itself. *)
Step(r) ==
    authenticate(r) \/ consume_quota(r) \/ commit(r)

Next ==
    \/ \E r \in Requests :
        \/ \E c \in Clients, p \in Principals \cup {None}, op \in Operations :
               dispatch(r, c, p, op)
        \/ Step(r)
        \/ QuotaUnavailable(r)
        \/ CommitFails(r)
    \/ \E p \in Principals, expires \in Instants \cup {None} :
           create_principal(p, expires)
    \/ \E v \in Revocations : RevokeWrite(v) \/ \E p \in Principals : RevokeRead(v, p)
    \/ Tick

Spec == Init /\ [][Next]_vars /\ \A r \in Requests : SF_vars(Step(r))

-----------------------------------------------------------------------------
(* The tables, the limiter and the requests keep their shape; only one       *)
(* transaction at a time holds a bucket and it is about to commit.           *)
TypeOK ==
    /\ clock \in Instants
    /\ hits \in [Clients -> Seq(0 .. clock)]
    /\ \A c \in Clients : Len(hits[c]) <= MaxRequests
    /\ row \in [Principals -> Rows \cup {None}]
    /\ used \in [Buckets -> Nat]
    /\ holder \in [Buckets -> Requests \cup {None}]
    /\ pc \in [Requests -> {"idle", "authenticate", "quota", "commit", "done"}]
    /\ call \in [Requests -> Calls \cup {None}]
    /\ answer \in [Requests -> Answers \cup {None}]
    /\ now \in [Requests \cup Revocations -> Instants \cup {None}]
    /\ free \in [Requests -> BOOLEAN]
    /\ seen \in [Revocations -> Principals \cup {None}]
    /\ passes \in [Clients -> Seq(0 .. clock)]
    /\ \A r \in Requests : pc[r] = "commit" <=> \E b \in Buckets : holder[b] = r

Answered(b, whats) ==
    {r \in Requests : answer[r] \in whats /\ now[r] # None /\ Bucket(r) = b}

(* QUOTA_SOURCE_OF_TRUTH: however requests race for a bucket, fail or are    *)
(* retried, those admitted in a window are counted and never exceed the      *)
(* limit of the principal for that operation.  A refusal costs nothing: what *)
(* is counted besides are requests whose commit took effect and whose        *)
(* confirmation was lost.                                                    *)
QuotaHeld ==
    \A b \in Buckets :
        /\ Cardinality(Answered(b, {"admitted"})) <= used[b]
        /\ used[b] <= QuotaLimit
        /\ used[b] <= Cardinality(Answered(b, {"admitted", "500"}))

(* A credential already revoked, expired or unknown when its request arrives *)
(* is not admitted, whatever else is provisioned or revoked meanwhile.       *)
DeadCredentialRefused ==
    \A r \in Requests : answer[r] = "admitted" => ~call[r].dead

(* The sliding window: never more than max_requests of a client in any       *)
(* window_seconds, ends included.                                            *)
RateHeld ==
    \A c \in Clients, t \in Instants :
        Cardinality({i \in DOMAIN passes[c] : passes[c][i] \in t - WindowSeconds .. t})
            <= MaxRequests

(* What was admitted could be: the bucket's holder is about to commit, no    *)
(* dead credential passed, and the window of the limiter was kept            *)
(* (is_active_at, SlidingWindowRateLimiter).                                 *)
AdmissionsSound == TypeOK /\ DeadCredentialRefused /\ RateHeld
=============================================================================
