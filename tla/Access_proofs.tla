---------------------------- MODULE Access_proofs ----------------------------
(* Proofs about Access for any number of requests, clients, principals and   *)
(* revocations, any limits and any clock.                                    *)
EXTENDS Access, WellFoundedInduction, FiniteSetTheorems, SequenceTheorems, TLAPS

(* Where a request is and what it has by then. *)
PhaseInv ==
    /\ \A r \in Requests : pc[r] = "done" <=> answer[r] # None
    /\ \A r \in Requests : pc[r] \in {"authenticate", "quota", "commit"} => call[r] \in Calls
    /\ \A r \in Requests : pc[r] \in {"quota", "commit"} =>
           call[r].principal # None /\ now[r] \in Instants
    /\ \A r \in Requests : pc[r] \in {"idle", "authenticate"} => now[r] = None
    /\ \A r \in Requests : answer[r] \in {"admitted", "500"} =>
           call[r] \in Calls /\ call[r].principal # None /\ now[r] \in Instants
    /\ \A v \in Revocations : seen[v] # None => now[v] \in Instants /\ row[seen[v]] # None

(* The transaction about to commit holds its bucket, and no other does. *)
HolderInv ==
    /\ \A r \in Requests : pc[r] = "commit" => holder[Bucket(r)] = r
    /\ \A b \in Buckets : holder[b] # None =>
           pc[holder[b]] = "commit" /\ Bucket(holder[b]) = b
    /\ \A r \in Requests : pc[r] = "commit" /\ free[r] => used[Bucket(r)] < QuotaLimit

(* A credential that was dead stays dead until its request is authenticated, *)
(* and after that there is none.                                             *)
DeadInv ==
    /\ \A r \in Requests : pc[r] = "authenticate" =>
           /\ call[r].principal # None => row[call[r].principal] # None
           /\ call[r].dead => Dead(call[r].principal)
    /\ \A r \in Requests : pc[r] \in {"quota", "commit"} => ~ call[r].dead
    /\ DeadCredentialRefused

(* The limiter remembers the end of what it let through; what it forgot is   *)
(* before its window, so that a request lets one through only when the       *)
(* MaxRequests before it are not all within the window.                      *)
Forgotten(c) == Len(passes[c]) - Len(hits[c])

WindowInv ==
    \A c \in Clients :
        /\ Forgotten(c) >= 0
        /\ \A i \in 1 .. Len(hits[c]) : hits[c][i] = passes[c][i + Forgotten(c)]
        /\ \A i \in 1 .. Forgotten(c) : passes[c][i] < clock - WindowSeconds
        /\ \A i, j \in 1 .. Len(passes[c]) : i <= j => passes[c][i] <= passes[c][j]
        /\ \A i \in 1 .. Len(passes[c]) : i + MaxRequests <= Len(passes[c]) =>
               passes[c][i] < passes[c][i + MaxRequests] - WindowSeconds

IInv == TypeOK /\ PhaseInv /\ HolderInv /\ DeadInv /\ WindowInv /\ QuotaHeld

-----------------------------------------------------------------------------
LEMMA Numbers ==
    /\ QuotaLimit \in Nat \ {0} /\ QuotaWindow \in Nat \ {0} /\ MaxRequests \in Nat \ {0}
    /\ WindowSeconds \in Nat \ {0} /\ MaxClock \in Nat
    /\ None \notin Principals /\ None \notin Requests /\ None \notin Revocations
    /\ None \notin Instants /\ None \notin Rows /\ None \notin Calls /\ None \notin Answers
    /\ Requests \cap Revocations = {}
BY AccessAssumption

LEMMA WindowStart ==
    ASSUME NEW n \in Nat, NEW w \in Nat \ {0}
    PROVE  (n \div w) * w \in 0 .. n
<1>1. (n \div w) * w \in Int
    OBVIOUS
<1>2. (n \div w) * w <= n
    OBVIOUS
<1>3. 0 <= (n \div w) * w
    OBVIOUS
<1>. QED BY <1>1, <1>2, <1>3

(* A request that is authenticated has a bucket. *)
LEMMA BucketTyped ==
    ASSUME NEW r \in Requests, call[r] \in Calls, call[r].principal # None, now[r] \in Instants
    PROVE  Bucket(r) \in Buckets
<1>1. call[r].principal \in Principals /\ call[r].operation \in Operations
    BY DEF Calls
<1>2. window_start(r) \in Instants
  <2>1. now[r] \in Nat /\ now[r] <= MaxClock
      BY Numbers DEF Instants
  <2>2. window_start(r) \in 0 .. now[r]
      BY <2>1, Numbers, WindowStart DEF window_start
  <2>. QED BY <2>1, <2>2, Numbers DEF Instants
<1>. QED BY <1>1, <1>2 DEF Bucket, Buckets

(* What is left when the first n instants are popped. *)
LEMMA Popped ==
    ASSUME NEW S, NEW h \in Seq(S), NEW n \in 0 .. Len(h)
    PROVE  /\ SubSeq(h, n + 1, Len(h)) \in Seq(S)
           /\ Len(SubSeq(h, n + 1, Len(h))) = Len(h) - n
           /\ \A i \in 1 .. Len(h) - n : SubSeq(h, n + 1, Len(h))[i] = h[i + n]
OBVIOUS

(* A request that goes on or ends is where it says, and the others stay.     *)
LEMMA GoesTo ==
    ASSUME TypeOK, NEW r \in Requests, NEW label, Goto(r, label)
    PROVE  \A q \in Requests : /\ pc'[q] = IF q = r THEN label ELSE pc[q]
                               /\ answer'[q] = answer[q]
BY DEF TypeOK, Goto

LEMMA Responds ==
    ASSUME TypeOK, NEW r \in Requests, NEW what, Respond(r, what)
    PROVE  \A q \in Requests : /\ pc'[q] = IF q = r THEN "done" ELSE pc[q]
                               /\ answer'[q] = IF q = r THEN what ELSE answer[q]
BY DEF TypeOK, Respond

(* What a request does to the limiter. *)
LEMMA Limited ==
    ASSUME TypeOK, NEW r \in Requests, NEW c \in Clients, is_allowed(r, c)
    PROVE  \E n \in 0 .. Len(hits[c]) : \E recent \in Seq(0 .. clock) :
               /\ Pops(c, n) /\ Len(recent) = Len(hits[c]) - n
               /\ \A i \in 1 .. Len(recent) : recent[i] = hits[c][i + n]
               /\ Limit(r, c, recent)
<1>1. PICK n \in 0 .. Len(hits[c]) :
          Pops(c, n) /\ Limit(r, c, SubSeq(hits[c], n + 1, Len(hits[c])))
    BY DEF is_allowed
<1>2. hits[c] \in Seq(0 .. clock)
    BY DEF TypeOK
<1>3. PICK recent : recent = SubSeq(hits[c], n + 1, Len(hits[c]))
    OBVIOUS
<1>4. /\ recent \in Seq(0 .. clock) /\ Len(recent) = Len(hits[c]) - n
      /\ \A i \in 1 .. Len(recent) : recent[i] = hits[c][i + n]
    BY <1>2, <1>3, Popped
<1>. QED BY <1>1, <1>3, <1>4

LEMMA LimitTyped ==
    ASSUME TypeOK, NEW r \in Requests, NEW c \in Clients, NEW recent \in Seq(0 .. clock),
           Limit(r, c, recent), Len(recent) <= MaxRequests
    PROVE  /\ hits' \in [Clients -> Seq(0 .. clock)] /\ passes' \in [Clients -> Seq(0 .. clock)]
           /\ \A d \in Clients : Len(hits'[d]) <= MaxRequests
           /\ pc' \in [Requests -> {"idle", "authenticate", "quota", "commit", "done"}]
           /\ answer' \in [Requests -> Answers \cup {None}]
           /\ \/ (\A q \in Requests : /\ pc'[q] = IF q = r THEN "done" ELSE pc[q]
                                      /\ answer'[q] = IF q = r THEN "rate_limited" ELSE answer[q])
              \/ (\A q \in Requests : /\ pc'[q] = IF q = r THEN "authenticate" ELSE pc[q]
                                      /\ answer'[q] = answer[q])
<1>1. clock \in Nat /\ clock \in 0 .. clock
    BY Numbers DEF TypeOK, Instants
<1>2. CASE /\ Len(recent) >= MaxRequests /\ hits' = [hits EXCEPT ![c] = recent]
           /\ Respond(r, "rate_limited") /\ UNCHANGED passes
    BY <1>2, Responds DEF TypeOK, Respond, Answers
<1>3. CASE /\ Len(recent) < MaxRequests
           /\ hits' = [hits EXCEPT ![c] = Append(recent, clock)]
           /\ passes' = [passes EXCEPT ![c] = Append(@, clock)]
           /\ Goto(r, "authenticate")
  <2>1. Append(recent, clock) \in Seq(0 .. clock) /\ Len(Append(recent, clock)) <= MaxRequests
      BY <1>1, <1>3, Numbers
  <2>2. Append(passes[c], clock) \in Seq(0 .. clock)
      BY <1>1 DEF TypeOK
  <2>3. /\ hits' \in [Clients -> Seq(0 .. clock)] /\ passes' \in [Clients -> Seq(0 .. clock)]
        /\ \A d \in Clients : Len(hits'[d]) <= MaxRequests
      BY <1>3, <2>1, <2>2 DEF TypeOK
  <2>. QED BY <1>3, <2>3, GoesTo DEF TypeOK, Goto
<1>. QED BY <1>2, <1>3 DEF Limit

-----------------------------------------------------------------------------
(* The types, but for who holds a bucket, which HolderInv tells. *)
Typed ==
    /\ clock \in Instants
    /\ hits \in [Clients -> Seq(0 .. clock)]
    /\ \A c \in Clients : Len(hits[c]) <= MaxRequests
    /\ row \in [Principals -> Rows \cup {None}]
    /\ used \in [Buckets -> Nat]
    /\ holder \in [Buckets -> Requests \cup {None}]
    /\ pc \in [Requests -> {"idle", "authenticate", "quota", "commit", "done"}]
    /\ call \in [Requests -> Calls \cup {None}]
    /\ answer \in [Requests -> Answers \cup {None}]
    /\ now \in [Requests \cup Revocations -> Instants \cup {None}]
    /\ free \in [Requests -> BOOLEAN]
    /\ seen \in [Revocations -> Principals \cup {None}]
    /\ passes \in [Clients -> Seq(0 .. clock)]

LEMMA TypeParts ==
    Typed /\ (\A r \in Requests : pc[r] = "commit" <=> \E b \in Buckets : holder[b] = r) <=> TypeOK
BY DEF TypeOK, Typed

(* A request that arrives. *)
LEMMA Arrives ==
    ASSUME TypeOK, NEW r \in Requests, NEW c \in Clients, NEW p \in Principals \cup {None},
           NEW op \in Operations, dispatch(r, c, p, op)
    PROVE  /\ Typed' /\ UNCHANGED <<clock, row, used, holder, now, free, seen>>
           /\ pc[r] = "idle" /\ (p # None => row[p] # None)
           /\ call' = [call EXCEPT ![r] = call'[r]]
           /\ call'[r] \in Calls /\ call'[r].principal = p
           /\ call'[r].dead => Dead(p)
           /\ \A q \in Requests : q # r =>
                  pc'[q] = pc[q] /\ answer'[q] = answer[q] /\ call'[q] = call[q]
           /\ \/ pc'[r] = "done" /\ answer'[r] = "rate_limited"
              \/ pc'[r] = "authenticate" /\ answer'[r] = answer[r]
<1>. DEFINE arrived == [client |-> c, principal |-> p, operation |-> op, dead |-> Dead(p)]
<1>1. /\ pc[r] = "idle" /\ (p # None => row[p] # None)
      /\ call' = [call EXCEPT ![r] = arrived] /\ is_allowed(r, c)
      /\ UNCHANGED <<clock, row, used, holder, now, free, seen>>
    BY DEF dispatch
<1>2. PICK n \in 0 .. Len(hits[c]), recent \in Seq(0 .. clock) :
          /\ Len(recent) = Len(hits[c]) - n /\ Limit(r, c, recent)
    BY <1>1, Limited
<1>3. Len(recent) <= MaxRequests
  <2>1. Len(hits[c]) \in Nat /\ Len(hits[c]) <= MaxRequests
      BY DEF TypeOK
  <2>. QED BY <1>2, <2>1, Numbers
<1>4. Dead(p) \in BOOLEAN
    BY DEF Dead
<1>5. arrived \in Calls
    BY <1>4 DEF Calls
<1>6. call'[r] = arrived /\ call' \in [Requests -> Calls \cup {None}]
    BY <1>1, <1>5 DEF TypeOK
<1>. HIDE DEF arrived
<1>7. \A q \in Requests : q # r => call'[q] = call[q]
    BY <1>1 DEF TypeOK
<1>8. call' = [call EXCEPT ![r] = call'[r]]
    BY <1>1, <1>6
<1>9. call'[r].principal = p /\ (call'[r].dead => Dead(p))
    BY <1>6 DEF arrived
<1>10. Typed'
    BY <1>1, <1>2, <1>3, <1>6, LimitTyped DEF Typed, TypeOK
<1>11. /\ \A q \in Requests : q # r => pc'[q] = pc[q] /\ answer'[q] = answer[q]
       /\ \/ pc'[r] = "done" /\ answer'[r] = "rate_limited"
          \/ pc'[r] = "authenticate" /\ answer'[r] = answer[r]
    BY <1>2, <1>3, LimitTyped
<1>. QED BY <1>1, <1>5, <1>6, <1>7, <1>8, <1>9, <1>10, <1>11

LEMMA Authenticates ==
    ASSUME TypeOK, NEW r \in Requests, authenticate(r)
    PROVE  /\ Typed' /\ pc[r] = "authenticate"
           /\ UNCHANGED <<clock, hits, row, used, holder, call, free, seen, passes>>
           /\ \A q \in Requests : q # r => pc'[q] = pc[q] /\ answer'[q] = answer[q]
           /\ \A x \in Requests \cup Revocations : x # r => now'[x] = now[x]
           /\ \/ /\ pc'[r] = "quota" /\ answer'[r] = answer[r] /\ now'[r] = clock
                 /\ call[r].principal # None /\ is_active_at(call[r].principal, clock)
              \/ pc'[r] = "done" /\ answer'[r] \in {"401", "403"} /\ now' = now
<1>1. CASE /\ call[r].principal # None /\ is_active_at(call[r].principal, clock)
           /\ now' = [now EXCEPT ![r] = clock] /\ Goto(r, "quota")
  <2>1. \A x \in Requests \cup Revocations : now'[x] = IF x = r THEN clock ELSE now[x]
      BY <1>1 DEF TypeOK
  <2>2. now' \in [Requests \cup Revocations -> Instants \cup {None}]
      BY <1>1 DEF TypeOK
  <2>. QED BY <1>1, <2>1, <2>2, GoesTo DEF authenticate, TypeOK, Typed, Goto
<1>2. CASE UNCHANGED now /\ (Respond(r, "401") \/ Respond(r, "403"))
  <2>1. PICK what \in {"401", "403"} : Respond(r, what)
      BY <1>2
  <2>2. /\ \A q \in Requests : q # r => pc'[q] = pc[q] /\ answer'[q] = answer[q]
        /\ pc'[r] = "done" /\ answer'[r] = what
      BY <2>1, Responds
  <2>3. /\ pc' \in [Requests -> {"idle", "authenticate", "quota", "commit", "done"}]
        /\ answer' \in [Requests -> Answers \cup {None}]
      BY <2>1 DEF TypeOK, Respond, Answers
  <2>4. /\ pc[r] = "authenticate"
        /\ UNCHANGED <<clock, hits, row, used, holder, call, free, seen, passes>>
      BY DEF authenticate
  <2>5. Typed'
      BY <1>2, <2>3, <2>4 DEF TypeOK, Typed
  <2>. QED BY <1>2, <2>2, <2>4, <2>5
<1>. QED BY <1>1, <1>2 DEF authenticate

LEMMA Consumes ==
    ASSUME TypeOK, NEW r \in Requests, consume_quota(r), Bucket(r) \in Buckets
    PROVE  /\ Typed' /\ pc[r] = "quota" /\ holder[Bucket(r)] = None
           /\ UNCHANGED <<clock, hits, row, used, call, now, seen, passes, answer>>
           /\ \A q \in Requests : pc'[q] = IF q = r THEN "commit" ELSE pc[q]
           /\ \A b \in Buckets : holder'[b] = IF b = Bucket(r) THEN r ELSE holder[b]
           /\ \A q \in Requests : free'[q] = IF q = r THEN used[Bucket(r)] < QuotaLimit
                                             ELSE free[q]
<1>1. /\ pc[r] = "quota" /\ holder[Bucket(r)] = None /\ Goto(r, "commit")
      /\ holder' = [holder EXCEPT ![Bucket(r)] = r]
      /\ free' = [free EXCEPT ![r] = used[Bucket(r)] < QuotaLimit]
      /\ UNCHANGED <<clock, hits, row, used, call, now, seen, passes>>
    BY DEF consume_quota
<1>2. \A b \in Buckets : holder'[b] = IF b = Bucket(r) THEN r ELSE holder[b]
    BY <1>1 DEF TypeOK
<1>3. \A q \in Requests : free'[q] = IF q = r THEN used[Bucket(r)] < QuotaLimit ELSE free[q]
    BY <1>1 DEF TypeOK
<1>4. \A q \in Requests : pc'[q] = IF q = r THEN "commit" ELSE pc[q]
    BY <1>1, GoesTo
<1>5. pc' \in [Requests -> {"idle", "authenticate", "quota", "commit", "done"}]
    BY <1>1 DEF TypeOK, Goto
<1>6. holder' \in [Buckets -> Requests \cup {None}]
    BY <1>1 DEF TypeOK
<1>7. free' \in [Requests -> BOOLEAN]
    BY <1>1 DEF TypeOK
<1>8. UNCHANGED answer
    BY <1>1 DEF Goto
<1>9. Typed'
    BY <1>1, <1>5, <1>6, <1>7, <1>8 DEF TypeOK, Typed
<1>. QED BY <1>1, <1>2, <1>3, <1>4, <1>8, <1>9

(* The transaction ends: its bucket is free again, and may count it. *)
LEMMA Finishes ==
    ASSUME TypeOK, NEW r \in Requests, commit(r) \/ CommitFails(r), Bucket(r) \in Buckets
    PROVE  /\ Typed' /\ pc[r] = "commit"
           /\ UNCHANGED <<clock, hits, row, call, now, free, seen, passes>>
           /\ \A b \in Buckets : holder'[b] = IF holder[b] = r THEN None ELSE holder[b]
           /\ \A q \in Requests : q # r => pc'[q] = pc[q] /\ answer'[q] = answer[q]
           /\ pc'[r] = "done"
           /\ \/ answer'[r] = "admitted" /\ free[r]
                 /\ \A b \in Buckets : used'[b] = IF b = Bucket(r) THEN used[b] + 1 ELSE used[b]
              \/ answer'[r] = "429" /\ ~ free[r] /\ used' = used
              \/ answer'[r] = "500" /\ used' = used
              \/ answer'[r] = "500" /\ free[r]
                 /\ \A b \in Buckets : used'[b] = IF b = Bucket(r) THEN used[b] + 1 ELSE used[b]
<1>1. /\ \A b \in Buckets : holder'[b] = IF holder[b] = r THEN None ELSE holder[b]
      /\ holder' \in [Buckets -> Requests \cup {None}]
    BY DEF commit, CommitFails, Release, TypeOK
<1>2. ASSUME Count(r), free[r]
      PROVE  /\ \A b \in Buckets : used'[b] = IF b = Bucket(r) THEN used[b] + 1 ELSE used[b]
             /\ used' \in [Buckets -> Nat]
    BY <1>2 DEF Count, TypeOK
<1>3. ASSUME Count(r), ~ free[r] PROVE used' = used
    BY <1>3 DEF Count
<1>4. free[r] \in BOOLEAN /\ used \in [Buckets -> Nat]
    BY DEF TypeOK
<1>5. used' \in [Buckets -> Nat]
    BY <1>2, <1>3, <1>4 DEF commit, CommitFails
<1>6. PICK what \in {"admitted", "429", "500"} :
          /\ Respond(r, what)
          /\ what = "admitted" => Count(r) /\ free[r]
          /\ what = "429" => Count(r) /\ ~ free[r]
          /\ what = "500" => Count(r) \/ UNCHANGED used
    BY <1>4 DEF commit, CommitFails
<1>7. /\ \A q \in Requests : q # r => pc'[q] = pc[q] /\ answer'[q] = answer[q]
      /\ pc'[r] = "done" /\ answer'[r] = what
    BY <1>6, Responds
<1>8. /\ pc' \in [Requests -> {"idle", "authenticate", "quota", "commit", "done"}]
      /\ answer' \in [Requests -> Answers \cup {None}]
    BY <1>6 DEF TypeOK, Respond, Answers
<1>9. Typed'
    BY <1>1, <1>5, <1>8 DEF TypeOK, Typed, commit, CommitFails
<1>10. \/ what = "admitted" /\ free[r]
          /\ \A b \in Buckets : used'[b] = IF b = Bucket(r) THEN used[b] + 1 ELSE used[b]
       \/ what = "429" /\ ~ free[r] /\ used' = used
       \/ what = "500" /\ used' = used
       \/ what = "500" /\ free[r]
          /\ \A b \in Buckets : used'[b] = IF b = Bucket(r) THEN used[b] + 1 ELSE used[b]
    BY <1>2, <1>3, <1>4, <1>6
<1>11. pc[r] = "commit" /\ UNCHANGED <<clock, hits, row, call, now, free, seen, passes>>
    BY DEF commit, CommitFails
<1>. QED BY <1>1, <1>7, <1>9, <1>10, <1>11

-----------------------------------------------------------------------------
(* The command line and the clock leave the requests alone. *)
LEMMA Provisions ==
    ASSUME TypeOK, NEW p \in Principals, NEW expires \in Instants \cup {None},
           create_principal(p, expires)
    PROVE  /\ Typed' /\ UNCHANGED <<clock, hits, used, holder, requestVars, now, seen, passes>>
           /\ row[p] = None /\ row'[p] # None
           /\ \A q \in Principals : q # p => row'[q] = row[q]
<1>. DEFINE new == [expires_at |-> expires, revoked_at |-> None]
<1>1. /\ row[p] = None /\ row' = [row EXCEPT ![p] = new]
      /\ UNCHANGED <<clock, hits, used, holder, requestVars, now, seen, passes>>
    BY DEF create_principal
<1>2. new \in Rows
    BY DEF Rows
<1>. HIDE DEF new
<1>3. row' \in [Principals -> Rows \cup {None}] /\ row'[p] = new
    BY <1>1, <1>2 DEF TypeOK
<1>4. \A q \in Principals : q # p => row'[q] = row[q]
    BY <1>1 DEF TypeOK
<1>5. new # None
    BY <1>2, Numbers
<1>. QED BY <1>1, <1>3, <1>4, <1>5 DEF TypeOK, Typed, requestVars

LEMMA ReadsToRevoke ==
    ASSUME TypeOK, NEW v \in Revocations, NEW p \in Principals, RevokeRead(v, p)
    PROVE  /\ Typed' /\ UNCHANGED <<clock, hits, row, used, holder, requestVars, passes>>
           /\ \A x \in Requests \cup Revocations : x # v => now'[x] = now[x]
           /\ \A w \in Revocations : w # v => seen'[w] = seen[w]
           /\ now'[v] = clock /\ row[p] # None /\ seen'[v] \in {p, None}
<1>1. /\ row[p] # None /\ now' = [now EXCEPT ![v] = clock]
      /\ seen' = [seen EXCEPT ![v] = IF row[p].revoked_at = None THEN p ELSE None]
      /\ UNCHANGED <<clock, hits, row, used, holder, requestVars, passes>>
    BY DEF RevokeRead
<1>2. /\ now' \in [Requests \cup Revocations -> Instants \cup {None}]
      /\ \A x \in Requests \cup Revocations : now'[x] = IF x = v THEN clock ELSE now[x]
    BY <1>1 DEF TypeOK
<1>3. /\ seen' \in [Revocations -> Principals \cup {None}]
      /\ \A w \in Revocations : w # v => seen'[w] = seen[w]
      /\ seen'[v] \in {p, None}
    BY <1>1 DEF TypeOK
<1>. QED BY <1>1, <1>2, <1>3 DEF TypeOK, Typed, requestVars

LEMMA Revokes ==
    ASSUME TypeOK, PhaseInv, NEW v \in Revocations, RevokeWrite(v)
    PROVE  /\ Typed' /\ UNCHANGED <<clock, hits, used, holder, requestVars, now, passes>>
           /\ \A w \in Revocations : seen'[w] \in {seen[w], None}
           /\ \A q \in Principals :
                  /\ row[q] # None => row'[q] # None
                  /\ row[q] # None => row'[q].expires_at = row[q].expires_at
                  /\ row[q] # None /\ row[q].revoked_at # None => row'[q].revoked_at # None
<1>1. /\ seen[v] # None /\ row' = [row EXCEPT ![seen[v]].revoked_at = now[v]]
      /\ seen' = [seen EXCEPT ![v] = None]
      /\ UNCHANGED <<clock, hits, used, holder, requestVars, now, passes>>
    BY DEF RevokeWrite
<1>2. PICK p \in Principals : p = seen[v]
    BY <1>1 DEF TypeOK
<1>3. row[p] # None /\ now[v] \in Instants /\ now[v] # None
    BY <1>1, <1>2, Numbers DEF PhaseInv
<1>4. row[p] \in Rows
    BY <1>3 DEF TypeOK
<1>5. PICK new : new = [row[p] EXCEPT !.revoked_at = now[v]]
    OBVIOUS
<1>6. new \in Rows /\ new.expires_at = row[p].expires_at /\ new.revoked_at = now[v]
    BY <1>3, <1>4, <1>5 DEF Rows
<1>7. row' = [row EXCEPT ![p] = new]
    BY <1>1, <1>2, <1>5
<1>8. row' \in [Principals -> Rows \cup {None}] /\ row'[p] = new
      /\ \A q \in Principals : q # p => row'[q] = row[q]
    BY <1>6, <1>7 DEF TypeOK
<1>9. new # None
    BY <1>6, Numbers
<1>10. /\ seen' \in [Revocations -> Principals \cup {None}]
       /\ \A w \in Revocations : seen'[w] \in {seen[w], None}
    BY <1>1 DEF TypeOK
<1>11. Typed'
    BY <1>1, <1>8, <1>10 DEF TypeOK, Typed, requestVars
<1>. QED BY <1>1, <1>3, <1>6, <1>8, <1>9, <1>10, <1>11

LEMMA Ticks ==
    ASSUME TypeOK, Tick
    PROVE  /\ Typed' /\ UNCHANGED <<hits, row, used, holder, requestVars, now, seen, passes>>
           /\ clock' = clock + 1
<1>1. clock \in Nat /\ clock' = clock + 1 /\ clock' \in Instants
    BY Numbers DEF Tick, TypeOK, Instants
<1>2. Seq(0 .. clock) \subseteq Seq(0 .. clock')
    BY <1>1
<1>3. UNCHANGED <<hits, row, used, holder, requestVars, now, seen, passes>>
    BY DEF Tick
<1>4. hits' \in [Clients -> Seq(0 .. clock')] /\ passes' \in [Clients -> Seq(0 .. clock')]
    BY <1>2, <1>3 DEF TypeOK
<1>. QED BY <1>1, <1>3, <1>4 DEF TypeOK, Typed, requestVars

LEMMA Stuttered ==
    ASSUME TypeOK, UNCHANGED vars
    PROVE  Typed'
BY DEF TypeOK, Typed, vars

LEMMA Unavailable ==
    ASSUME TypeOK, NEW r \in Requests, QuotaUnavailable(r)
    PROVE  /\ Typed' /\ pc[r] = "quota" /\ pc'[r] = "done" /\ answer'[r] = "503"
           /\ UNCHANGED <<clock, hits, row, used, holder, call, now, free, seen, passes>>
           /\ \A q \in Requests : q # r => pc'[q] = pc[q] /\ answer'[q] = answer[q]
<1>1. /\ pc[r] = "quota" /\ Respond(r, "503")
      /\ UNCHANGED <<clock, hits, row, used, holder, call, now, free, seen, passes>>
    BY DEF QuotaUnavailable
<1>2. /\ pc' \in [Requests -> {"idle", "authenticate", "quota", "commit", "done"}]
      /\ answer' \in [Requests -> Answers \cup {None}]
    BY <1>1 DEF TypeOK, Respond, Answers
<1>. QED BY <1>1, <1>2, Responds DEF TypeOK, Typed

(* Who steps. *)
LEMMA Actions ==
    ASSUME Next
    PROVE  \/ \E r \in Requests, c \in Clients, p \in Principals \cup {None}, op \in Operations :
                  dispatch(r, c, p, op)
           \/ \E r \in Requests : \/ authenticate(r) \/ consume_quota(r) \/ QuotaUnavailable(r)
                                  \/ commit(r) \/ CommitFails(r)
           \/ \E p \in Principals, expires \in Instants \cup {None} : create_principal(p, expires)
           \/ \E v \in Revocations : RevokeWrite(v)
           \/ \E v \in Revocations, p \in Principals : RevokeRead(v, p)
           \/ Tick
BY DEF Next, Step

LEMMA NextTyped == IInv /\ [Next]_vars => Typed'
<1> SUFFICES ASSUME IInv, [Next]_vars PROVE Typed'
    OBVIOUS
<1>. TypeOK /\ PhaseInv
    BY DEF IInv
<1>1. ASSUME NEW r \in Requests, pc[r] \in {"quota", "commit"} PROVE Bucket(r) \in Buckets
    BY <1>1, BucketTyped DEF PhaseInv
<1>2. ASSUME NEW r \in Requests, consume_quota(r) PROVE Typed'
    BY <1>1, <1>2, Consumes DEF consume_quota
<1>3. ASSUME NEW r \in Requests, commit(r) \/ CommitFails(r) PROVE Typed'
    BY <1>1, <1>3, Finishes DEF commit, CommitFails
<1>. QED BY <1>2, <1>3, Actions, Arrives, Authenticates, Unavailable, Provisions, ReadsToRevoke,
           Revokes, Ticks, Stuttered

(* A request whose call, instant and phase do not change keeps its bucket. *)
LEMMA SameBucket ==
    ASSUME NEW r \in Requests, call'[r] = call[r], now'[r] = now[r]
    PROVE  Bucket(r)' = Bucket(r)
BY DEF Bucket, window_start

(* What the phases say of one request, and of one revocation. *)
Phase(r) ==
    /\ pc[r] = "done" <=> answer[r] # None
    /\ pc[r] \in {"authenticate", "quota", "commit"} => call[r] \in Calls
    /\ pc[r] \in {"quota", "commit"} => call[r].principal # None /\ now[r] \in Instants
    /\ pc[r] \in {"idle", "authenticate"} => now[r] = None
    /\ answer[r] \in {"admitted", "500"} =>
           call[r] \in Calls /\ call[r].principal # None /\ now[r] \in Instants

Revoking(v) == seen[v] # None => now[v] \in Instants /\ row[seen[v]] # None

LEMMA PhaseParts ==
    PhaseInv <=> (\A r \in Requests : Phase(r)) /\ (\A v \in Revocations : Revoking(v))
BY DEF PhaseInv, Phase, Revoking

LEMMA SamePhase ==
    ASSUME NEW r \in Requests, Phase(r), pc'[r] = pc[r], call'[r] = call[r], answer'[r] = answer[r],
           now'[r] = now[r]
    PROVE  Phase(r)'
BY DEF Phase

LEMMA SameRevoking ==
    ASSUME NEW v \in Revocations, Revoking(v), now'[v] = now[v], seen'[v] \in {seen[v], None},
           \A p \in Principals : row[p] # None => row'[p] # None,
           seen[v] \in Principals \cup {None}
    PROVE  Revoking(v)'
BY DEF Revoking

LEMMA NextPhase == IInv /\ [Next]_vars => PhaseInv'
<1> SUFFICES ASSUME IInv, [Next]_vars
             PROVE (\A r \in Requests : Phase(r)') /\ (\A v \in Revocations : Revoking(v)')
    BY DEF PhaseInv, Phase, Revoking
<1>. /\ TypeOK /\ PhaseInv /\ \A r \in Requests : Phase(r)
     /\ \A v \in Revocations : Revoking(v) /\ seen[v] \in Principals \cup {None}
    BY PhaseParts DEF IInv, TypeOK
<1>. None \notin Instants /\ None \notin Answers /\ \A r \in Requests : r \notin Revocations
    BY Numbers
<1>1. ASSUME UNCHANGED requestVars, UNCHANGED now, \A v \in Revocations : seen'[v] \in {seen[v], None},
             \A p \in Principals : row[p] # None => row'[p] # None
      PROVE  (\A r \in Requests : Phase(r)') /\ (\A v \in Revocations : Revoking(v)')
    BY <1>1, SamePhase, SameRevoking DEF requestVars
<1>2. CASE UNCHANGED vars
    BY <1>1, <1>2 DEF vars, requestVars
<1>3. ASSUME NEW r \in Requests, Phase(r)', UNCHANGED <<row, seen>>,
             \A x \in Requests \cup Revocations : x # r => now'[x] = now[x],
             \A q \in Requests : q # r => pc'[q] = pc[q] /\ answer'[q] = answer[q] /\ call'[q] = call[q]
      PROVE  (\A q \in Requests : Phase(q)') /\ (\A v \in Revocations : Revoking(v)')
  <2>1. ASSUME NEW q \in Requests PROVE Phase(q)'
      BY <1>3, SamePhase
  <2>2. ASSUME NEW v \in Revocations PROVE Revoking(v)'
      BY <1>3, SameRevoking
  <2>. QED BY <2>1, <2>2
<1>4. ASSUME NEW r \in Requests, NEW c \in Clients, NEW p \in Principals \cup {None},
             NEW op \in Operations, dispatch(r, c, p, op)
      PROVE  (\A q \in Requests : Phase(q)') /\ (\A v \in Revocations : Revoking(v)')
  <2>1. Phase(r)'
      BY <1>4, Arrives DEF Phase, Answers
  <2>. QED BY <1>3, <1>4, <2>1, Arrives
<1>5. ASSUME NEW r \in Requests, authenticate(r)
      PROVE  (\A q \in Requests : Phase(q)') /\ (\A v \in Revocations : Revoking(v)')
  <2>1. Phase(r)'
    <3>1. clock \in Instants
        BY DEF TypeOK
    <3>. QED BY <1>5, <3>1, Authenticates DEF Phase, Answers
  <2>. QED BY <1>3, <1>5, <2>1, Authenticates
<1>6. ASSUME NEW r \in Requests, consume_quota(r) \/ QuotaUnavailable(r) \/ commit(r) \/ CommitFails(r)
      PROVE  (\A q \in Requests : Phase(q)') /\ (\A v \in Revocations : Revoking(v)')
  <2>1. Bucket(r) \in Buckets
      BY <1>6, BucketTyped DEF PhaseInv, consume_quota, QuotaUnavailable, commit, CommitFails
  <2>2. /\ UNCHANGED <<row, seen, now, call>> /\ pc[r] \in {"quota", "commit"}
        /\ \A q \in Requests : q # r => pc'[q] = pc[q] /\ answer'[q] = answer[q]
        /\ \/ pc'[r] = "commit" /\ answer'[r] = answer[r]
           \/ pc'[r] = "done" /\ answer'[r] \in {"admitted", "429", "500", "503"}
      BY <1>6, <2>1, Consumes, Finishes, Unavailable
  <2>3. Phase(r)'
      BY <2>2 DEF Phase, Answers
  <2>. QED BY <1>3, <2>2, <2>3
<1>7. ASSUME NEW p \in Principals, NEW expires \in Instants \cup {None}, create_principal(p, expires)
      PROVE  (\A q \in Requests : Phase(q)') /\ (\A v \in Revocations : Revoking(v)')
    BY <1>1, <1>7, Provisions
<1>8. ASSUME NEW v \in Revocations, RevokeWrite(v)
      PROVE  (\A q \in Requests : Phase(q)') /\ (\A w \in Revocations : Revoking(w)')
    BY <1>1, <1>8, Revokes
<1>9. ASSUME NEW v \in Revocations, NEW p \in Principals, RevokeRead(v, p)
      PROVE  (\A q \in Requests : Phase(q)') /\ (\A w \in Revocations : Revoking(w)')
  <2>1. /\ UNCHANGED requestVars /\ UNCHANGED row
        /\ \A x \in Requests \cup Revocations : x # v => now'[x] = now[x]
        /\ \A w \in Revocations : w # v => seen'[w] = seen[w]
        /\ now'[v] = clock /\ row[p] # None /\ seen'[v] \in {p, None}
      BY <1>9, ReadsToRevoke
  <2>2. clock \in Instants
      BY DEF TypeOK
  <2>3. \A q \in Requests : Phase(q)'
      BY <2>1, SamePhase DEF requestVars
  <2>4. \A w \in Revocations : Revoking(w)'
      BY <2>1, <2>2 DEF Revoking
  <2>. QED BY <2>3, <2>4
<1>10. CASE Tick
    BY <1>1, <1>10, Ticks
<1>. QED BY <1>2, <1>4, <1>5, <1>6, <1>7, <1>8, <1>9, <1>10, Actions

-----------------------------------------------------------------------------
(* Who is not about to commit neither before nor after a step, or does not    *)
(* change while it is, leaves the buckets to their holders.                   *)
LEMMA SameHolders ==
    ASSUME HolderInv, holder \in [Buckets -> Requests \cup {None}], UNCHANGED <<holder, used>>,
           \A q \in Requests : pc'[q] = "commit" <=> pc[q] = "commit",
           \A q \in Requests : pc[q] = "commit" =>
               call'[q] = call[q] /\ now'[q] = now[q] /\ free'[q] = free[q],
           None \notin Requests
    PROVE  HolderInv'
<1>1. \A q \in Requests : pc[q] = "commit" => Bucket(q)' = Bucket(q)
    BY SameBucket
<1>2. ASSUME NEW b \in Buckets, holder[b] # None
      PROVE  pc'[holder[b]] = "commit" /\ Bucket(holder[b])' = b
  <2>1. holder[b] \in Requests /\ pc[holder[b]] = "commit" /\ Bucket(holder[b]) = b
      BY <1>2 DEF HolderInv
  <2>2. PICK q \in Requests : q = holder[b]
      BY <2>1
  <2>3. holder'[b] = q
      BY <2>2
  <2>. QED BY <1>1, <2>1, <2>2, <2>3
<1>3. \A b \in Buckets : holder'[b] # None =>
          pc'[holder'[b]] = "commit" /\ Bucket(holder[b])' = b
    BY <1>2
<1>. QED BY <1>1, <1>3 DEF HolderInv

LEMMA HeldBucket ==
    ASSUME TypeOK, HolderInv, NEW r \in Requests, pc[r] = "commit"
    PROVE  Bucket(r) \in Buckets /\ holder[Bucket(r)] = r
<1>1. PICK b \in Buckets : holder[b] = r
    BY DEF TypeOK
<1>2. Bucket(r) = b
    BY <1>1, Numbers DEF HolderInv
<1>. QED BY <1>1, <1>2

(* The transaction that takes a bucket, and the one that leaves it. *)
LEMMA TakesBucket ==
    ASSUME TypeOK, HolderInv, NEW r \in Requests, consume_quota(r), Bucket(r) \in Buckets
    PROVE  HolderInv'
<1>1. /\ pc[r] = "quota" /\ holder[Bucket(r)] = None /\ UNCHANGED <<used, call, now>>
      /\ \A q \in Requests : pc'[q] = IF q = r THEN "commit" ELSE pc[q]
      /\ \A b \in Buckets : holder'[b] = IF b = Bucket(r) THEN r ELSE holder[b]
      /\ \A q \in Requests : free'[q] = IF q = r THEN used[Bucket(r)] < QuotaLimit ELSE free[q]
    BY Consumes
<1>2. \A q \in Requests : Bucket(q)' = Bucket(q)
    BY <1>1, SameBucket
<1>3. ASSUME NEW q \in Requests, pc'[q] = "commit" PROVE holder'[Bucket(q)] = q
  <2>1. CASE q = r
      BY <1>1, <2>1
  <2>2. CASE q # r
    <3>1. holder[Bucket(q)] = q /\ q # None /\ Bucket(q) \in Buckets
        BY <1>1, <1>3, <2>2, Numbers, HeldBucket
    <3>. QED BY <3>1, <1>1
  <2>. QED BY <2>1, <2>2
<1>4. ASSUME NEW b \in Buckets, holder'[b] # None
      PROVE  pc'[holder'[b]] = "commit" /\ Bucket(holder'[b]) = b
  <2>1. CASE b = Bucket(r)
      BY <1>1, <2>1
  <2>2. CASE b # Bucket(r)
    <3>1. holder'[b] = holder[b] /\ holder[b] \in Requests
        BY <1>1, <1>4, <2>2 DEF TypeOK
    <3>. QED BY <1>1, <1>4, <3>1 DEF HolderInv
  <2>. QED BY <2>1, <2>2
<1>5. \A b \in Buckets : holder'[b] # None => holder'[b] \in Requests
  <2>1. \A b \in Buckets : holder[b] \in Requests \cup {None}
      BY DEF TypeOK
  <2>. QED BY <1>1, <2>1
<1>6. ASSUME NEW b \in Buckets, holder'[b] # None PROVE Bucket(holder[b])' = b
  <2>1. PICK q \in Requests : q = holder'[b]
      BY <1>5, <1>6
  <2>. QED BY <1>2, <1>4, <1>6, <2>1
<1>7. ASSUME NEW q \in Requests, pc'[q] = "commit", free'[q] PROVE used'[Bucket(q)] < QuotaLimit
    BY <1>1, <1>7 DEF HolderInv
<1>. QED BY <1>2, <1>3, <1>4, <1>6, <1>7 DEF HolderInv

LEMMA LeavesBucket ==
    ASSUME TypeOK, HolderInv, NEW r \in Requests, commit(r) \/ CommitFails(r), Bucket(r) \in Buckets
    PROVE  HolderInv'
<1>1. /\ pc[r] = "commit" /\ pc'[r] = "done" /\ UNCHANGED <<call, now, free>>
      /\ \A b \in Buckets : holder'[b] = IF holder[b] = r THEN None ELSE holder[b]
      /\ \A q \in Requests : q # r => pc'[q] = pc[q]
      /\ \A b \in Buckets : b # Bucket(r) => used'[b] = used[b]
    BY Finishes
<1>2. \A q \in Requests : Bucket(q)' = Bucket(q)
    BY <1>1, SameBucket
<1>3. ASSUME NEW q \in Requests, pc'[q] = "commit"
      PROVE  /\ q # r /\ pc[q] = "commit" /\ holder[Bucket(q)] = q /\ Bucket(q) \in Buckets
             /\ Bucket(q) # Bucket(r)
  <2>1. q # r /\ pc[q] = "commit"
      BY <1>1, <1>3
  <2>2. holder[Bucket(q)] = q /\ Bucket(q) \in Buckets /\ holder[Bucket(r)] = r
      BY <1>1, <2>1, HeldBucket
  <2>. QED BY <2>1, <2>2
<1>4. ASSUME NEW b \in Buckets, holder'[b] # None
      PROVE  pc'[holder'[b]] = "commit" /\ Bucket(holder[b])' = b
  <2>1. holder'[b] = holder[b] /\ holder[b] # r /\ holder[b] \in Requests
      BY <1>1, <1>4 DEF TypeOK
  <2>2. PICK q \in Requests : q = holder[b]
      BY <2>1
  <2>3. pc[q] = "commit" /\ Bucket(q) = b
      BY <1>4, <2>1, <2>2 DEF HolderInv
  <2>. QED BY <1>1, <1>2, <2>1, <2>2, <2>3
<1>5. \A q \in Requests : pc'[q] = "commit" => holder'[Bucket(q)] = q
    BY <1>1, <1>3
<1>6. \A q \in Requests : pc'[q] = "commit" /\ free'[q] => used'[Bucket(q)] < QuotaLimit
    BY <1>1, <1>3 DEF HolderInv
<1>. QED BY <1>2, <1>4, <1>5, <1>6 DEF HolderInv

LEMMA NextHolder == IInv /\ [Next]_vars => HolderInv'
<1> SUFFICES ASSUME IInv, [Next]_vars PROVE HolderInv'
    OBVIOUS
<1>. /\ TypeOK /\ PhaseInv /\ HolderInv /\ holder \in [Buckets -> Requests \cup {None}]
     /\ None \notin Requests /\ \A r \in Requests : r \notin Revocations
    BY Numbers DEF IInv, TypeOK
<1>1. CASE UNCHANGED vars
    BY <1>1, SameHolders DEF vars
<1>2. ASSUME NEW r \in Requests, NEW c \in Clients, NEW p \in Principals \cup {None},
             NEW op \in Operations, dispatch(r, c, p, op)
      PROVE  HolderInv'
    BY <1>2, Arrives, SameHolders
<1>3. ASSUME NEW r \in Requests, authenticate(r) PROVE HolderInv'
    BY <1>3, Authenticates, SameHolders
<1>4. ASSUME NEW r \in Requests, QuotaUnavailable(r) PROVE HolderInv'
    BY <1>4, Unavailable, SameHolders
<1>5. ASSUME NEW r \in Requests, consume_quota(r) PROVE HolderInv'
    BY <1>5, TakesBucket, BucketTyped DEF PhaseInv, consume_quota
<1>6. ASSUME NEW r \in Requests, commit(r) \/ CommitFails(r) PROVE HolderInv'
    BY <1>6, LeavesBucket, BucketTyped DEF PhaseInv, commit, CommitFails
<1>7. ASSUME UNCHANGED <<holder, used, requestVars>>, \A r \in Requests : now'[r] = now[r]
      PROVE  HolderInv'
    BY <1>7, SameHolders DEF requestVars
<1>8. ASSUME NEW p \in Principals, NEW expires \in Instants \cup {None}, create_principal(p, expires)
      PROVE  HolderInv'
    BY <1>7, <1>8, Provisions
<1>9. ASSUME NEW v \in Revocations, RevokeWrite(v) PROVE HolderInv'
    BY <1>7, <1>9, Revokes
<1>10. ASSUME NEW v \in Revocations, NEW p \in Principals, RevokeRead(v, p) PROVE HolderInv'
  <2>1. /\ UNCHANGED <<holder, used, requestVars>>
        /\ \A x \in Requests \cup Revocations : x # v => now'[x] = now[x]
      BY <1>10, ReadsToRevoke
  <2>. QED BY <1>7, <2>1
<1>11. CASE Tick
    BY <1>7, <1>11, Ticks
<1>. QED BY <1>1, <1>2, <1>3, <1>4, <1>5, <1>6, <1>8, <1>9, <1>10, <1>11, Actions

-----------------------------------------------------------------------------
(* What a row of a principal may become: there, no longer valid, no earlier. *)
RowsOnlyExpire ==
    /\ clock' >= clock
    /\ \A p \in Principals : row[p] # None =>
           /\ row'[p] # None /\ row'[p].expires_at = row[p].expires_at
           /\ row[p].revoked_at # None => row'[p].revoked_at # None

LEMMA StaysDead ==
    ASSUME TypeOK, RowsOnlyExpire, NEW p \in Principals \cup {None}, p # None => row[p] # None,
           Dead(p), clock' \in Instants
    PROVE  Dead(p)'
<1>1. CASE p = None
    BY <1>1 DEF Dead
<1>2. CASE p # None
  <2>1. row[p] \in Rows /\ p \in Principals
      BY <1>2 DEF TypeOK
  <2>2. row[p].expires_at # None => row[p].expires_at \in Nat
      BY <2>1, Numbers DEF Rows, Instants
  <2>3. clock \in Nat /\ clock' \in Nat
      BY Numbers DEF TypeOK, Instants
  <2>. QED BY <1>2, <2>1, <2>2, <2>3 DEF Dead, RowsOnlyExpire
<1>. QED BY <1>1, <1>2

(* The part of DeadInv about one request. *)
Refusing(r) ==
    /\ pc[r] = "authenticate" =>
           /\ call[r].principal # None => row[call[r].principal] # None
           /\ call[r].dead => Dead(call[r].principal)
    /\ pc[r] \in {"quota", "commit"} => ~ call[r].dead
    /\ answer[r] = "admitted" => ~ call[r].dead

LEMMA DeadParts == DeadInv <=> \A r \in Requests : Refusing(r)
BY DEF DeadInv, Refusing, DeadCredentialRefused

LEMMA SameRefusing ==
    ASSUME TypeOK, PhaseInv, RowsOnlyExpire, clock' \in Instants, NEW r \in Requests, Refusing(r),
           pc'[r] = pc[r], call'[r] = call[r], answer'[r] = answer[r]
    PROVE  Refusing(r)'
<1>1. CASE pc[r] = "authenticate"
  <2>1. PICK p \in Principals \cup {None} : p = call[r].principal
      BY <1>1 DEF PhaseInv, Calls
  <2>2. /\ p # None => row[p] # None
        /\ call[r].dead => Dead(p)
      BY <1>1, <2>1 DEF Refusing
  <2>3. p # None => row'[p] # None
      BY <2>2 DEF RowsOnlyExpire
  <2>4. call[r].dead => Dead(p)'
      BY <2>2, StaysDead
  <2>5. call[r].dead => Dead(call[r].principal)'
      BY <2>1, <2>4 DEF Dead
  <2>. QED BY <1>1, <2>1, <2>3, <2>4 DEF Refusing, Dead
<1>2. CASE pc[r] # "authenticate"
    BY <1>2 DEF Refusing
<1>. QED BY <1>1, <1>2

LEMMA StepRowsOnlyExpire == IInv /\ [Next]_vars => RowsOnlyExpire /\ clock' \in Instants
<1> SUFFICES ASSUME IInv, [Next]_vars PROVE RowsOnlyExpire /\ clock' \in Instants
    OBVIOUS
<1>. TypeOK /\ PhaseInv /\ clock \in Nat
    BY Numbers DEF IInv, TypeOK, Instants
<1>1. clock' \in Instants
    BY NextTyped DEF Typed
<1>2. CASE UNCHANGED <<clock, row>>
    BY <1>1, <1>2 DEF RowsOnlyExpire
<1>3. ASSUME NEW p \in Principals, NEW expires \in Instants \cup {None}, create_principal(p, expires)
      PROVE  RowsOnlyExpire
    BY <1>3, Provisions DEF RowsOnlyExpire
<1>4. ASSUME NEW v \in Revocations, RevokeWrite(v) PROVE RowsOnlyExpire
    BY <1>4, Revokes DEF RowsOnlyExpire
<1>5. CASE Tick
    BY <1>1, <1>5, Ticks DEF RowsOnlyExpire
<1>6. ASSUME NEW r \in Requests, consume_quota(r) \/ QuotaUnavailable(r) \/ commit(r) \/ CommitFails(r)
             \/ authenticate(r)
      PROVE  UNCHANGED <<clock, row>>
    BY <1>6 DEF consume_quota, QuotaUnavailable, commit, CommitFails, authenticate
<1>7. ASSUME NEW v \in Revocations, NEW p \in Principals, RevokeRead(v, p)
      PROVE  UNCHANGED <<clock, row>>
    BY <1>7 DEF RevokeRead
<1>8. CASE UNCHANGED vars
    BY <1>2, <1>8 DEF vars
<1>9. ASSUME NEW r \in Requests, NEW c \in Clients, NEW p \in Principals \cup {None},
             NEW op \in Operations, dispatch(r, c, p, op)
      PROVE  UNCHANGED <<clock, row>>
    BY <1>9 DEF dispatch
<1>. QED BY <1>1, <1>2, <1>3, <1>4, <1>5, <1>6, <1>7, <1>8, <1>9, Actions

LEMMA NextDead == IInv /\ [Next]_vars => DeadInv'
<1> SUFFICES ASSUME IInv, [Next]_vars PROVE \A r \in Requests : Refusing(r)'
    BY DEF DeadInv, Refusing, DeadCredentialRefused
<1>. /\ TypeOK /\ PhaseInv /\ RowsOnlyExpire /\ clock' \in Instants
     /\ \A r \in Requests : Refusing(r)
    BY StepRowsOnlyExpire, DeadParts DEF IInv
<1>1. CASE UNCHANGED requestVars
    BY <1>1, SameRefusing DEF requestVars
<1>2. ASSUME NEW r \in Requests, Refusing(r)',
             \A q \in Requests : q # r => pc'[q] = pc[q] /\ answer'[q] = answer[q] /\ call'[q] = call[q]
      PROVE  \A q \in Requests : Refusing(q)'
    BY <1>2, SameRefusing
<1>3. ASSUME NEW r \in Requests, NEW c \in Clients, NEW p \in Principals \cup {None},
             NEW op \in Operations, dispatch(r, c, p, op)
      PROVE  \A q \in Requests : Refusing(q)'
  <2>1. /\ UNCHANGED <<clock, row>> /\ (p # None => row[p] # None)
        /\ call'[r].principal = p /\ (call'[r].dead => Dead(p))
        /\ \/ pc'[r] = "done" /\ answer'[r] = "rate_limited"
           \/ pc'[r] = "authenticate" /\ answer'[r] = answer[r]
        /\ pc[r] = "idle"
      BY <1>3, Arrives
  <2>2. Dead(p)' <=> Dead(p)
      BY <2>1 DEF Dead
  <2>3. answer[r] # "admitted"
      BY <2>1, Numbers DEF PhaseInv, Answers
  <2>4. (call'[r].dead => Dead(call[r].principal)')
      BY <2>1, <2>2 DEF Dead
  <2>5. Refusing(r)'
      BY <2>1, <2>3, <2>4 DEF Refusing
  <2>. QED BY <1>2, <1>3, <2>5, Arrives
<1>4. ASSUME NEW r \in Requests, authenticate(r) PROVE \A q \in Requests : Refusing(q)'
  <2>1. /\ UNCHANGED <<clock, row, call>> /\ pc[r] = "authenticate"
        /\ \/ /\ pc'[r] = "quota" /\ answer'[r] = answer[r]
              /\ call[r].principal # None /\ is_active_at(call[r].principal, clock)
           \/ pc'[r] = "done" /\ answer'[r] \in {"401", "403"}
      BY <1>4, Authenticates
  <2>2. call[r].dead /\ call[r].principal # None => ~ is_active_at(call[r].principal, clock)
    <3>1. call[r].dead => Dead(call[r].principal)
        BY <2>1 DEF Refusing
    <3>2. clock \in Nat /\ call[r] \in Calls /\ (call[r].principal # None => row[call[r].principal] # None)
        BY <2>1, Numbers DEF TypeOK, Instants, PhaseInv, Refusing
    <3>3. call[r].principal # None => row[call[r].principal] \in Rows
        BY <3>2 DEF TypeOK, Calls
    <3>4. ASSUME call[r].principal # None, row[call[r].principal].expires_at # None
          PROVE  row[call[r].principal].expires_at \in Nat
        BY <3>3, <3>4, Numbers DEF Rows, Instants
    <3>. QED BY <3>1, <3>2, <3>4 DEF Dead, is_active_at
  <2>3. answer[r] # "admitted"
      BY <2>1, Numbers DEF PhaseInv, Answers
  <2>4. Refusing(r)'
      BY <2>1, <2>2, <2>3 DEF Refusing
  <2>. QED BY <1>2, <1>4, <2>4, Authenticates
<1>5. ASSUME NEW r \in Requests, consume_quota(r) \/ QuotaUnavailable(r) \/ commit(r) \/ CommitFails(r)
      PROVE  \A q \in Requests : Refusing(q)'
  <2>1. Bucket(r) \in Buckets
      BY <1>5, BucketTyped DEF PhaseInv, consume_quota, QuotaUnavailable, commit, CommitFails
  <2>2. /\ UNCHANGED call /\ pc[r] \in {"quota", "commit"} /\ pc'[r] \in {"commit", "done"}
        /\ \A q \in Requests : q # r => pc'[q] = pc[q] /\ answer'[q] = answer[q]
      BY <1>5, <2>1, Consumes, Finishes, Unavailable
  <2>3. Refusing(r)'
      BY <2>2 DEF Refusing
  <2>. QED BY <1>2, <2>2, <2>3
<1>6. CASE Tick \/ (\E v \in Revocations : RevokeWrite(v))
           \/ (\E v \in Revocations, p \in Principals : RevokeRead(v, p))
           \/ (\E p \in Principals, expires \in Instants \cup {None} : create_principal(p, expires))
  <2>1. UNCHANGED requestVars
      BY <1>6, Ticks, Revokes, ReadsToRevoke, Provisions
  <2>. QED BY <1>1, <2>1
<1>7. CASE UNCHANGED vars
    BY <1>1, <1>7 DEF vars, requestVars
<1>. QED BY <1>3, <1>4, <1>5, <1>6, <1>7, Actions

-----------------------------------------------------------------------------
(* WindowInv of one client, of what it remembers (h) and what passed (p). *)
Window(h, p, t) ==
    /\ Len(p) - Len(h) >= 0
    /\ \A i \in 1 .. Len(h) : h[i] = p[i + (Len(p) - Len(h))]
    /\ \A i \in 1 .. Len(p) - Len(h) : p[i] < t - WindowSeconds
    /\ \A i, j \in 1 .. Len(p) : i <= j => p[i] <= p[j]
    /\ \A i \in 1 .. Len(p) : i + MaxRequests <= Len(p) => p[i] < p[i + MaxRequests] - WindowSeconds

LEMMA WindowParts == WindowInv <=> \A c \in Clients : Window(hits[c], passes[c], clock)
BY DEF WindowInv, Window, Forgotten

(* Popping what is before the window keeps it. *)
LEMMA WindowPopped ==
    ASSUME NEW t \in Nat, NEW h \in Seq(0 .. t), NEW p \in Seq(0 .. t), Window(h, p, t),
           NEW n \in 0 .. Len(h), \A i \in 1 .. n : h[i] < t - WindowSeconds,
           NEW recent \in Seq(0 .. t), Len(recent) = Len(h) - n,
           \A i \in 1 .. Len(recent) : recent[i] = h[i + n]
    PROVE  Window(recent, p, t)
<1>. /\ Len(h) \in Nat /\ Len(p) \in Nat /\ n \in Nat /\ n <= Len(h)
     /\ Len(p) - Len(h) \in Nat
    BY DEF Window
<1>1. Len(p) - Len(recent) = (Len(p) - Len(h)) + n
    OBVIOUS
<1>2. ASSUME NEW i \in 1 .. Len(recent) PROVE recent[i] = p[i + (Len(p) - Len(recent))]
  <2>1. i + n \in 1 .. Len(h)
      OBVIOUS
  <2>2. h[i + n] = p[(i + n) + (Len(p) - Len(h))]
      BY <2>1 DEF Window
  <2>3. (i + n) + (Len(p) - Len(h)) = i + (Len(p) - Len(recent))
      BY <1>1
  <2>. QED BY <2>2, <2>3
<1>3. ASSUME NEW i \in 1 .. Len(p) - Len(recent) PROVE p[i] < t - WindowSeconds
  <2>1. CASE i <= Len(p) - Len(h)
      BY <2>1 DEF Window
  <2>2. CASE i > Len(p) - Len(h)
    <3>0. /\ i \in Int /\ Len(p) - Len(h) \in Int /\ i <= (Len(p) - Len(h)) + n
          /\ i > Len(p) - Len(h)
        BY <1>1, <2>2
    <3>. DEFINE m == i - (Len(p) - Len(h))
    <3>5. m \in 1 .. n
        BY <3>0
    <3>. HIDE DEF m
    <3>1. PICK k \in 1 .. n : k = i - (Len(p) - Len(h))
        BY <3>5 DEF m
    <3>2. i = k + (Len(p) - Len(h)) /\ k \in 1 .. Len(h)
        BY <3>1
    <3>3. h[k] = p[i]
        BY <3>2 DEF Window
    <3>. QED BY <3>1, <3>3
  <2>. QED BY <2>1, <2>2
<1>4. Len(p) - Len(recent) >= 0
    BY <1>1
<1>. QED BY <1>2, <1>3, <1>4 DEF Window

(* Letting one more through keeps it if fewer than MaxRequests are recent. *)
LEMMA WindowPassed ==
    ASSUME NEW t \in Nat, NEW h \in Seq(0 .. t), NEW p \in Seq(0 .. t), Window(h, p, t),
           Len(h) < MaxRequests
    PROVE  Window(Append(h, t), Append(p, t), t)
<1>. DEFINE g == Append(h, t)  q == Append(p, t)
<1>. /\ Len(h) \in Nat /\ Len(p) \in Nat /\ MaxRequests \in Nat \ {0} /\ WindowSeconds \in Nat \ {0}
     /\ Len(p) - Len(h) \in Nat
    BY Numbers DEF Window
<1>1. /\ Len(g) = Len(h) + 1 /\ Len(q) = Len(p) + 1 /\ Len(q) - Len(g) = Len(p) - Len(h)
      /\ \A i \in 1 .. Len(h) : g[i] = h[i]
      /\ \A i \in 1 .. Len(p) : q[i] = p[i] /\ p[i] \in Nat /\ p[i] <= t
      /\ g[Len(h) + 1] = t /\ q[Len(p) + 1] = t
    OBVIOUS
<1>. HIDE DEF g, q
<1>2. ASSUME NEW i \in 1 .. Len(g) PROVE g[i] = q[i + (Len(q) - Len(g))]
  <2>1. CASE i = Len(h) + 1
      BY <1>1, <2>1
  <2>2. CASE i # Len(h) + 1
    <3>1. i \in 1 .. Len(h) /\ i + (Len(p) - Len(h)) \in 1 .. Len(p)
        BY <1>1, <2>2
    <3>2. h[i] = p[i + (Len(p) - Len(h))]
        BY <3>1 DEF Window
    <3>. QED BY <1>1, <3>1, <3>2
  <2>. QED BY <2>1, <2>2
<1>3. ASSUME NEW i \in 1 .. Len(q) - Len(g) PROVE q[i] < t - WindowSeconds
  <2>1. i \in 1 .. Len(p) - Len(h) /\ i \in 1 .. Len(p)
      BY <1>1
  <2>. QED BY <1>1, <2>1 DEF Window
<1>4. ASSUME NEW i \in 1 .. Len(q), NEW j \in 1 .. Len(q), i <= j PROVE q[i] <= q[j]
  <2>1. CASE j = Len(p) + 1
      BY <1>1, <2>1
  <2>2. CASE j # Len(p) + 1
    <3>1. i \in 1 .. Len(p) /\ j \in 1 .. Len(p)
        BY <1>1, <1>4, <2>2
    <3>2. p[i] <= p[j]
        BY <1>4, <3>1 DEF Window
    <3>. QED BY <1>1, <3>1, <3>2
  <2>. QED BY <2>1, <2>2
<1>5. ASSUME NEW i \in 1 .. Len(q), i + MaxRequests <= Len(q)
      PROVE  q[i] < q[i + MaxRequests] - WindowSeconds
  <2>1. i \in 1 .. Len(p)
      BY <1>1, <1>5
  <2>2. CASE i + MaxRequests = Len(p) + 1
    <3>1. i \in 1 .. Len(p) - Len(h)
        BY <2>1, <2>2
    <3>2. p[i] < t - WindowSeconds
        BY <3>1 DEF Window
    <3>. QED BY <1>1, <2>1, <2>2, <3>2
  <2>3. CASE i + MaxRequests # Len(p) + 1
    <3>0. i + MaxRequests \in Nat /\ i + MaxRequests >= 1
        BY <2>1
    <3>1. i + MaxRequests \in 1 .. Len(p) /\ i + MaxRequests <= Len(p)
      <4>1. i + MaxRequests <= Len(p) + 1
          BY <1>1, <1>5
      <4>. QED BY <3>0, <4>1, <2>3
    <3>2. p[i] < p[i + MaxRequests] - WindowSeconds
        BY <2>1, <3>1 DEF Window
    <3>. QED BY <1>1, <2>1, <3>1, <3>2
  <2>. QED BY <2>2, <2>3
<1>6. Len(q) - Len(g) >= 0
    BY <1>1
<1>. QED BY <1>2, <1>3, <1>4, <1>5, <1>6 DEF Window, g, q

LEMMA NextWindow == IInv /\ [Next]_vars => WindowInv'
<1> SUFFICES ASSUME IInv, [Next]_vars
             PROVE \A c \in Clients : Window(hits'[c], passes'[c], clock')
    BY DEF WindowInv, Window, Forgotten
<1>. /\ TypeOK /\ PhaseInv /\ clock \in Nat /\ WindowSeconds \in Nat \ {0}
     /\ \A c \in Clients : Window(hits[c], passes[c], clock)
     /\ \A c \in Clients : hits[c] \in Seq(0 .. clock) /\ passes[c] \in Seq(0 .. clock)
    BY Numbers, WindowParts DEF IInv, TypeOK, Instants
<1>1. CASE UNCHANGED <<hits, passes, clock>>
    BY <1>1
<1>2. ASSUME NEW r \in Requests, NEW c \in Clients, NEW p \in Principals \cup {None},
             NEW op \in Operations, dispatch(r, c, p, op)
      PROVE  \A d \in Clients : Window(hits'[d], passes'[d], clock')
  <2>1. is_allowed(r, c) /\ clock' = clock
      BY <1>2 DEF dispatch
  <2>2. PICK n \in 0 .. Len(hits[c]), recent \in Seq(0 .. clock) :
            /\ Pops(c, n) /\ Len(recent) = Len(hits[c]) - n
            /\ \A i \in 1 .. Len(recent) : recent[i] = hits[c][i + n]
            /\ Limit(r, c, recent)
      BY <2>1, Limited
  <2>3. Window(recent, passes[c], clock)
      BY <2>2, WindowPopped DEF Pops
  <2>4. CASE Len(recent) >= MaxRequests /\ hits' = [hits EXCEPT ![c] = recent] /\ UNCHANGED passes
      BY <2>1, <2>3, <2>4 DEF TypeOK
  <2>5. CASE /\ Len(recent) < MaxRequests
             /\ hits' = [hits EXCEPT ![c] = Append(recent, clock)]
             /\ passes' = [passes EXCEPT ![c] = Append(@, clock)]
    <3>1. Window(Append(recent, clock), Append(passes[c], clock), clock)
        BY <2>3, <2>5, WindowPassed
    <3>2. \A d \in Clients : /\ hits'[d] = IF d = c THEN Append(recent, clock) ELSE hits[d]
                             /\ passes'[d] = IF d = c THEN Append(passes[c], clock) ELSE passes[d]
        BY <2>5 DEF TypeOK
    <3>. QED BY <2>1, <3>1, <3>2
  <2>. QED BY <2>2, <2>4, <2>5 DEF Limit
<1>3. CASE Tick
  <2>1. UNCHANGED <<hits, passes>> /\ clock' = clock + 1
      BY <1>3, Ticks
  <2>2. ASSUME NEW c \in Clients PROVE Window(hits[c], passes[c], clock + 1)
    <3>1. \A i \in 1 .. Len(passes[c]) - Len(hits[c]) :
              passes[c][i] < (clock + 1) - WindowSeconds
      <4>1. ASSUME NEW i \in 1 .. Len(passes[c]) - Len(hits[c])
            PROVE  passes[c][i] < (clock + 1) - WindowSeconds
        <5>1. passes[c][i] < clock - WindowSeconds
            BY DEF Window
        <5>2. passes[c][i] \in Nat
          <6>1. Len(hits[c]) \in Nat /\ Len(passes[c]) \in Nat
              OBVIOUS
          <6>2. i \in 1 .. Len(passes[c])
              BY <6>1
          <6>. QED BY <6>2
        <5>. QED BY <5>1, <5>2
      <4>. QED BY <4>1
    <3>. QED BY <3>1 DEF Window
  <2>. QED BY <2>1, <2>2
<1>4. ASSUME NEW r \in Requests, consume_quota(r) \/ QuotaUnavailable(r) \/ commit(r) \/ CommitFails(r)
             \/ authenticate(r)
      PROVE  UNCHANGED <<hits, passes, clock>>
    BY <1>4 DEF consume_quota, QuotaUnavailable, commit, CommitFails, authenticate
<1>5. CASE (\E v \in Revocations : RevokeWrite(v))
           \/ (\E v \in Revocations, p \in Principals : RevokeRead(v, p))
           \/ (\E p \in Principals, expires \in Instants \cup {None} : create_principal(p, expires))
  <2>1. UNCHANGED <<hits, passes, clock>>
      BY <1>5 DEF RevokeWrite, RevokeRead, create_principal
  <2>. QED BY <1>1, <2>1
<1>6. CASE UNCHANGED vars
    BY <1>1, <1>6 DEF vars
<1>. QED BY <1>1, <1>2, <1>3, <1>4, <1>5, <1>6, Actions

-----------------------------------------------------------------------------
(* The requests answered so far are finitely many. *)
LEMMA AnsweredFinite ==
    ASSUME NEW b, NEW whats
    PROVE  IsFiniteSet(Answered(b, whats)) /\ Cardinality(Answered(b, whats)) \in Nat
<1>1. Answered(b, whats) \subseteq Requests
    BY DEF Answered
<1>. QED BY <1>1, AccessAssumption, FS_Subset, FS_CardinalityType

(* A request that was not answered is added to what its answer joins, and    *)
(* the other requests stay.                                                  *)
LEMMA StepAnswers ==
    ASSUME PhaseInv, NEW r \in Requests, pc[r] # "done",
           \A q \in Requests : q # r =>
               answer'[q] = answer[q] /\ call'[q] = call[q] /\ now'[q] = now[q],
           NEW b \in Buckets, NEW whats \in SUBSET Answers
    PROVE  /\ Answered(b, whats)' =
                  IF answer'[r] \in whats /\ now'[r] # None /\ Bucket(r)' = b
                  THEN Answered(b, whats) \cup {r} ELSE Answered(b, whats)
           /\ r \notin Answered(b, whats)
<1>1. r \notin Answered(b, whats)
    BY Numbers DEF PhaseInv, Answered
<1>2. Answered(b, whats)' =
          {q \in Requests : answer'[q] \in whats /\ now'[q] # None /\ Bucket(q)' = b}
    BY DEF Answered
<1>3. \A q \in Requests : q # r =>
          ((answer'[q] \in whats /\ now'[q] # None /\ Bucket(q)' = b) <=> q \in Answered(b, whats))
    BY SameBucket DEF Answered
<1>4. Answered(b, whats) \subseteq Requests
    BY DEF Answered
<1>. QED BY <1>1, <1>2, <1>3, <1>4

(* What answers a request without counting it leaves every bucket as it is. *)
LEMMA SameQuota ==
    ASSUME PhaseInv, QuotaHeld, NEW r \in Requests, pc[r] # "done",
           \A q \in Requests : q # r =>
               answer'[q] = answer[q] /\ call'[q] = call[q] /\ now'[q] = now[q],
           answer'[r] \notin {"admitted", "500"}, UNCHANGED used
    PROVE  QuotaHeld'
<1>1. {"admitted"} \in SUBSET Answers /\ {"admitted", "500"} \in SUBSET Answers
    BY DEF Answers
<1>2. ASSUME NEW b \in Buckets
      PROVE  /\ Answered(b, {"admitted"})' = Answered(b, {"admitted"})
             /\ Answered(b, {"admitted", "500"})' = Answered(b, {"admitted", "500"})
    BY <1>1, StepAnswers
<1>3. ASSUME NEW b \in Buckets
      PROVE  /\ Cardinality(Answered(b, {"admitted"}))' <= used[b]
             /\ used[b] <= QuotaLimit
             /\ used[b] <= Cardinality(Answered(b, {"admitted", "500"}))'
    BY <1>2 DEF QuotaHeld
<1>. QED BY <1>3 DEF QuotaHeld

(* A commit counts what it admits, once, and what it may have admitted.      *)
LEMMA CommitQuota ==
    ASSUME TypeOK, PhaseInv, HolderInv, QuotaHeld, NEW r \in Requests, commit(r) \/ CommitFails(r)
    PROVE  QuotaHeld'
<1>. /\ pc[r] = "commit" /\ QuotaLimit \in Nat
     /\ \A b \in Buckets : used[b] \in Nat
    BY Numbers DEF commit, CommitFails, TypeOK
<1>1. Bucket(r) \in Buckets /\ now[r] # None
    BY BucketTyped, Numbers DEF PhaseInv
<1>2. /\ UNCHANGED <<call, now>>
      /\ \A q \in Requests : q # r => answer'[q] = answer[q]
      /\ \/ answer'[r] = "admitted" /\ free[r]
            /\ \A b \in Buckets : used'[b] = IF b = Bucket(r) THEN used[b] + 1 ELSE used[b]
         \/ answer'[r] = "429" /\ ~ free[r] /\ used' = used
         \/ answer'[r] = "500" /\ used' = used
         \/ answer'[r] = "500" /\ free[r]
            /\ \A b \in Buckets : used'[b] = IF b = Bucket(r) THEN used[b] + 1 ELSE used[b]
    BY <1>1, Finishes
<1>3. Bucket(r)' = Bucket(r) /\ now'[r] # None
    BY <1>1, <1>2, SameBucket
<1>4. {"admitted"} \in SUBSET Answers /\ {"admitted", "500"} \in SUBSET Answers
    BY DEF Answers
<1>5. ASSUME NEW b \in Buckets
      PROVE  /\ Cardinality(Answered(b, {"admitted"}))' <= used'[b]
             /\ used'[b] <= QuotaLimit
             /\ used'[b] <= Cardinality(Answered(b, {"admitted", "500"}))'
  <2>. DEFINE mine == Answered(b, {"admitted"})  both == Answered(b, {"admitted", "500"})
  <2>1. /\ mine' = IF answer'[r] = "admitted" /\ Bucket(r) = b THEN mine \cup {r} ELSE mine
        /\ both' = IF answer'[r] \in {"admitted", "500"} /\ Bucket(r) = b
                   THEN both \cup {r} ELSE both
        /\ r \notin mine /\ r \notin both
    <3>1. \A q \in Requests : q # r =>
              answer'[q] = answer[q] /\ call'[q] = call[q] /\ now'[q] = now[q]
        BY <1>2
    <3>2. ASSUME NEW whats \in SUBSET Answers
          PROVE  /\ Answered(b, whats)' = IF answer'[r] \in whats /\ Bucket(r) = b
                                          THEN Answered(b, whats) \cup {r} ELSE Answered(b, whats)
                 /\ r \notin Answered(b, whats)
        BY <1>3, <3>1, StepAnswers
    <3>. QED BY <1>4, <3>2
  <2>2. /\ IsFiniteSet(mine) /\ IsFiniteSet(both)
        /\ Cardinality(mine) \in Nat /\ Cardinality(both) \in Nat
      BY AnsweredFinite
  <2>3. /\ Cardinality(mine) <= used[b] /\ used[b] <= QuotaLimit /\ used[b] <= Cardinality(both)
      BY DEF QuotaHeld
  <2>4. free[r] => used[Bucket(r)] < QuotaLimit
      BY DEF HolderInv
  <2>. HIDE DEF mine, both
  <2>5. /\ Cardinality(mine \cup {r}) = Cardinality(mine) + 1
        /\ Cardinality(both \cup {r}) = Cardinality(both) + 1
      BY <2>1, <2>2, FS_AddElement
  <2>6. /\ Cardinality(mine') <= used'[b] /\ used'[b] <= QuotaLimit
        /\ used'[b] <= Cardinality(both')
    <3>1. CASE Bucket(r) # b
        BY <1>2, <2>1, <2>3, <3>1
    <3>2. CASE Bucket(r) = b /\ answer'[r] = "admitted"
      <4>1. mine' = mine \cup {r} /\ both' = both \cup {r} /\ used'[b] = used[b] + 1
          BY <1>2, <2>1, <3>2
      <4>2. used[b] < QuotaLimit
          BY <1>2, <2>4, <3>2
      <4>. QED BY <2>2, <2>3, <2>5, <4>1, <4>2
    <3>3. CASE Bucket(r) = b /\ answer'[r] = "429"
        BY <1>2, <2>1, <2>3, <3>3
    <3>4. CASE Bucket(r) = b /\ answer'[r] = "500"
      <4>1. mine' = mine /\ both' = both \cup {r}
          BY <1>2, <2>1, <3>4
      <4>2. \/ used'[b] = used[b]
            \/ used'[b] = used[b] + 1 /\ used[b] < QuotaLimit
          BY <1>2, <2>4, <3>4
      <4>. QED BY <2>2, <2>3, <2>5, <4>1, <4>2
    <3>. QED BY <1>2, <3>1, <3>2, <3>3, <3>4
  <2>. QED BY <2>6 DEF mine, both
<1>. QED BY <1>5 DEF QuotaHeld

LEMMA NextQuota == IInv /\ [Next]_vars => QuotaHeld'
<1> SUFFICES ASSUME IInv, [Next]_vars PROVE QuotaHeld'
    OBVIOUS
<1>. /\ TypeOK /\ PhaseInv /\ HolderInv /\ QuotaHeld
     /\ None \notin Answers /\ None \notin Requests /\ \A q \in Requests : q \notin Revocations
    BY Numbers DEF IInv
<1>1. ASSUME UNCHANGED <<used, answer, call>>, \A q \in Requests : now'[q] = now[q]
      PROVE  QuotaHeld'
  <2>1. ASSUME NEW b \in Buckets, NEW whats PROVE Answered(b, whats)' = Answered(b, whats)
      BY <1>1, SameBucket DEF Answered
  <2>. QED BY <1>1, <2>1 DEF QuotaHeld
<1>2. ASSUME NEW r \in Requests, NEW c \in Clients, NEW p \in Principals \cup {None},
             NEW op \in Operations, dispatch(r, c, p, op)
      PROVE  QuotaHeld'
  <2>1. /\ UNCHANGED <<used, now>> /\ pc[r] = "idle"
        /\ \A q \in Requests : q # r => answer'[q] = answer[q] /\ call'[q] = call[q]
        /\ answer'[r] = "rate_limited" \/ answer'[r] = answer[r]
      BY <1>2, Arrives
  <2>2. answer[r] = None
      BY <2>1 DEF PhaseInv
  <2>. QED BY <2>1, <2>2, SameQuota DEF Answers
<1>3. ASSUME NEW r \in Requests, authenticate(r) PROVE QuotaHeld'
  <2>1. /\ UNCHANGED <<used, call>> /\ pc[r] = "authenticate"
        /\ \A q \in Requests : q # r => answer'[q] = answer[q] /\ now'[q] = now[q]
        /\ answer'[r] = answer[r] \/ answer'[r] \in {"401", "403"}
      BY <1>3, Authenticates
  <2>2. answer[r] = None
      BY <2>1 DEF PhaseInv
  <2>. QED BY <2>1, <2>2, SameQuota DEF Answers
<1>4. ASSUME NEW r \in Requests, consume_quota(r) PROVE QuotaHeld'
  <2>1. Bucket(r) \in Buckets
      BY <1>4, BucketTyped DEF PhaseInv, consume_quota
  <2>. QED BY <1>1, <1>4, <2>1, Consumes
<1>5. ASSUME NEW r \in Requests, QuotaUnavailable(r) PROVE QuotaHeld'
  <2>1. /\ UNCHANGED <<used, call, now>> /\ pc[r] # "done" /\ answer'[r] = "503"
        /\ \A q \in Requests : q # r => answer'[q] = answer[q]
      BY <1>5, Unavailable
  <2>. QED BY <2>1, SameQuota
<1>6. CASE \E v \in Revocations, p \in Principals : RevokeRead(v, p)
    BY <1>1, <1>6, ReadsToRevoke DEF requestVars
<1>7. CASE Tick \/ (\E v \in Revocations : RevokeWrite(v))
           \/ (\E p \in Principals, expires \in Instants \cup {None} : create_principal(p, expires))
  <2>1. UNCHANGED <<used, answer, call, now>>
      BY <1>7 DEF Tick, RevokeWrite, create_principal, requestVars
  <2>. QED BY <1>1, <2>1
<1>8. CASE UNCHANGED vars
    BY <1>1, <1>8 DEF vars
<1>. QED BY <1>2, <1>3, <1>4, <1>5, <1>6, <1>7, <1>8, Actions, CommitQuota

-----------------------------------------------------------------------------
(* The invariant, from the beginning and through every step. *)
LEMMA InitIInv == Init => IInv
<1> SUFFICES ASSUME Init PROVE IInv
    OBVIOUS
<1>. None \notin Requests /\ None \notin Answers /\ None \notin Principals /\ MaxClock \in Nat
    BY Numbers
<1>1. TypeOK
    BY Numbers DEF Init, TypeOK, Instants
<1>2. PhaseInv
    BY DEF Init, PhaseInv, Answers
<1>3. HolderInv
    BY DEF Init, HolderInv
<1>4. DeadInv
    BY DEF Init, DeadInv, DeadCredentialRefused, Answers
<1>5. WindowInv
  <2>1. ASSUME NEW c \in Clients PROVE Window(<<>>, <<>>, clock)
      BY Numbers DEF Window
  <2>. QED BY <2>1, WindowParts DEF Init
<1>6. QuotaHeld
  <2>1. ASSUME NEW b \in Buckets, NEW whats \in {{"admitted"}, {"admitted", "500"}}
        PROVE  Cardinality(Answered(b, whats)) = 0
    <3>1. Answered(b, whats) = {}
        BY DEF Init, Answered, Answers
    <3>. QED BY <3>1, FS_EmptySet
  <2>2. ASSUME NEW b \in Buckets
        PROVE  /\ Cardinality(Answered(b, {"admitted"})) = 0 /\ used[b] = 0
               /\ Cardinality(Answered(b, {"admitted", "500"})) = 0
      BY <2>1 DEF Init
  <2>. QED BY <2>2, Numbers DEF QuotaHeld
<1>. QED BY <1>1, <1>2, <1>3, <1>4, <1>5, <1>6 DEF IInv

LEMMA NextIInv == IInv /\ [Next]_vars => IInv'
<1> SUFFICES ASSUME IInv, [Next]_vars PROVE IInv'
    OBVIOUS
<1>1. Typed' /\ PhaseInv' /\ HolderInv' /\ DeadInv' /\ WindowInv' /\ QuotaHeld'
    BY NextTyped, NextPhase, NextHolder, NextDead, NextWindow, NextQuota
<1>2. ASSUME NEW r \in Requests PROVE pc'[r] = "commit" <=> \E b \in Buckets : holder'[b] = r
  <2>1. ASSUME pc'[r] = "commit" PROVE holder'[Bucket(r)'] = r /\ Bucket(r)' \in Buckets
    <3>1. call'[r] \in Calls /\ call'[r].principal # None /\ now'[r] \in Instants
        BY <1>1, <2>1 DEF PhaseInv
    <3>2. Bucket(r)' \in Buckets
      <4>1. call'[r].principal \in Principals /\ call'[r].operation \in Operations
          BY <3>1 DEF Calls
      <4>2. (now'[r] \div QuotaWindow) * QuotaWindow \in Instants
        <5>1. now'[r] \in Nat /\ now'[r] <= MaxClock
            BY <3>1, Numbers DEF Instants
        <5>2. (now'[r] \div QuotaWindow) * QuotaWindow \in 0 .. now'[r]
            BY <5>1, Numbers, WindowStart
        <5>. QED BY <5>1, <5>2, Numbers DEF Instants
      <4>. QED BY <4>1, <4>2 DEF Bucket, Buckets, window_start
    <3>. QED BY <1>1, <2>1, <3>2 DEF HolderInv
  <2>2. ASSUME NEW b \in Buckets, holder'[b] = r PROVE pc'[r] = "commit"
      BY <1>1, <2>2, Numbers DEF HolderInv
  <2>. QED BY <2>1, <2>2
<1>3. TypeOK'
    BY <1>1, <1>2 DEF TypeOK, Typed
<1>. QED BY <1>1, <1>3 DEF IInv

-----------------------------------------------------------------------------
Earlier == OpToRel(<, Nat)

(* A set of naturals has a least element: some request was the first.        *)
LEMMA LeastNumber ==
    ASSUME NEW S \in SUBSET Nat, S # {}
    PROVE  \E m \in S : \A n \in S : m <= n
<1>1. IsWellFoundedOn(Earlier, Nat)
    BY NatLessThanWellFounded DEF Earlier
<1>2. PICK m \in S : \A n \in S : <<n, m>> \notin Earlier
    BY <1>1, WFMin
<1>3. ASSUME NEW n \in S PROVE m <= n
  <2>1. n \in Nat /\ m \in Nat
      OBVIOUS
  <2>2. n < m => <<n, m>> \in Earlier
      BY <2>1 DEF Earlier, OpToRel
  <2>. QED BY <1>2, <2>1, <2>2
<1>. QED BY <1>3

(* Among the requests let through in a window, the first and any other are   *)
(* less than MaxRequests apart: there are at most MaxRequests of them.       *)
LEMMA WindowKept ==
    ASSUME TypeOK, WindowInv, NEW c \in Clients, NEW t \in Instants
    PROVE  Cardinality({i \in DOMAIN passes[c] : passes[c][i] \in t - WindowSeconds .. t})
               <= MaxRequests
<1>. DEFINE p == passes[c]
            S == {i \in DOMAIN p : p[i] \in t - WindowSeconds .. t}
<1>1. /\ Window(hits[c], p, clock) /\ DOMAIN p = 1 .. Len(p) /\ Len(p) \in Nat
      /\ \A i \in 1 .. Len(p) : p[i] \in Nat
  <2>1. p \in Seq(0 .. clock) /\ clock \in Nat
      BY Numbers DEF TypeOK, Instants
  <2>. QED BY <2>1, WindowParts
<1>. MaxRequests \in Nat \ {0} /\ WindowSeconds \in Nat \ {0} /\ t \in Nat
    BY Numbers DEF Instants
<1>. HIDE DEF p
<1>2. S \in SUBSET Nat
    BY <1>1
<1>3. CASE S = {}
  <2>1. Cardinality(S) = 0
      BY <1>3, FS_EmptySet
  <2>. QED BY <2>1 DEF p
<1>4. CASE S # {}
  <2>1. PICK k \in S : \A i \in S : k <= i
      BY <1>2, <1>4, LeastNumber
  <2>2. k \in Nat /\ k \in 1 .. Len(p) /\ p[k] >= t - WindowSeconds
      BY <1>1, <2>1
  <2>3. ASSUME NEW i \in S PROVE i \in k .. (k + MaxRequests - 1)
    <3>1. i \in 1 .. Len(p) /\ p[i] <= t /\ k <= i /\ i \in Nat
        BY <1>1, <2>1
    <3>2. CASE i >= k + MaxRequests
      <4>1. k + MaxRequests \in 1 .. Len(p) /\ k + MaxRequests <= Len(p)
          BY <1>1, <2>2, <3>1, <3>2
      <4>2. p[k] < p[k + MaxRequests] - WindowSeconds
          BY <1>1, <2>2, <4>1 DEF Window
      <4>3. p[k + MaxRequests] <= p[i]
          BY <1>1, <3>1, <3>2, <4>1 DEF Window
      <4>4. p[k] \in Nat /\ p[i] \in Nat /\ p[k + MaxRequests] \in Nat
          BY <1>1, <2>2, <3>1, <4>1
      <4>. QED BY <2>2, <3>1, <4>2, <4>3, <4>4
    <3>. QED BY <2>2, <3>1, <3>2
  <2>4. S \in SUBSET (k .. (k + MaxRequests - 1))
      BY <2>3
  <2>. DEFINE I == k .. (k + MaxRequests - 1)
  <2>5. IsFiniteSet(I) /\ Cardinality(I) = MaxRequests
    <3>1. PICK last \in Int : last = k + MaxRequests - 1
        BY <2>2
    <3>2. k \in Int /\ k <= last
        BY <2>2, <3>1
    <3>3. /\ IsFiniteSet(k .. last)
          /\ Cardinality(k .. last) = IF k > last THEN 0 ELSE last - k + 1
        BY <3>2, FS_Interval
    <3>4. last - k + 1 = MaxRequests
        BY <2>2, <3>1
    <3>5. Cardinality(k .. last) = MaxRequests
        BY <3>2, <3>3, <3>4
    <3>. QED BY <3>1, <3>3, <3>5
  <2>6. Cardinality(S) <= Cardinality(I)
      BY <2>4, <2>5, FS_Subset
  <2>. QED BY <2>5, <2>6 DEF p
<1>. QED BY <1>3, <1>4

-----------------------------------------------------------------------------
(* The quota is kept whatever races, fails or is retried (QUOTA_SOURCE_OF_   *)
(* TRUTH of programmatic_access_repository): the requests admitted in a      *)
(* bucket are counted and never more than the limit.                         *)
THEOREM QuotaKept == Spec => []QuotaHeld
<1>1. IInv => QuotaHeld
    BY DEF IInv
<1>. QED BY <1>1, InitIInv, NextIInv, PTL DEF Spec

(* What was admitted could be: the types with the holder of a bucket about   *)
(* to commit, no credential that was dead on arrival (is_active_at), and the *)
(* sliding window of the limiter (is_allowed), for any limit and window.     *)
THEOREM AdmissionsAreSound == Spec => []AdmissionsSound
<1>1. IInv => AdmissionsSound
    BY WindowKept DEF IInv, AdmissionsSound, DeadInv, RateHeld
<1>. QED BY <1>1, InitIInv, NextIInv, PTL DEF Spec

(* A principal is deleted by nobody, its expiry never changes and a         *)
(* revocation is never undone: only revoked_at is written, from NULL or over *)
(* another revocation (revoke).                                              *)
THEOREM RowsAreKept == Spec => [][RowsOnlyExpire]_vars
<1>1. IInv /\ [Next]_vars => [RowsOnlyExpire]_vars
    BY StepRowsOnlyExpire
<1>. QED BY <1>1, InitIInv, NextIInv, PTL DEF Spec

=============================================================================
