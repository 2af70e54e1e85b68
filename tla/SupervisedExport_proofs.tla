------------------------ MODULE SupervisedExport_proofs ------------------------
(* Proofs about SupervisedExport for any number of sessions, keys, steps,    *)
(* Schedules and attempts, whatever the classifier says and governance       *)
(* answers.                                                                  *)
EXTENDS SupervisedExport, TLAPS

Labels == {"idle", "unavailable", "apply", "claim", "lock", "seal", "profile", "profile_lock",
           "commit"}
Kinds  == {"gate", "resume", "mcp", "manual"}
Gates  == {"g1", "g2", "g3", "g4"}

Job == [kind : Kinds \cup {None}, gate : Gates \cup {None}, step : Steps \cup {None},
        key : Keys \cup {None}, text : Texts \cup {None}, efeitos : Efeitos \cup {None}]

(* What a transaction wrote has the shape it has in Nothing. *)
Shape(m) ==
    /\ m = [events |-> m.events, attempt |-> m.attempt, claim |-> m.claim, state |-> m.state,
            profile |-> m.profile]
    /\ m.attempt \in AttemptRow \cup {None} /\ m.claim \in Claim \cup {None}
    /\ m.state \in {None, "ACTIVE", "PAUSED"}
    /\ m.profile \in ConnectionProfile \cup {None}

Shapes ==
    /\ pc \in [Sessions -> Labels]
    /\ job \in [Sessions -> Job]
    /\ DOMAIN view = Sessions /\ view = [s \in Sessions |-> view[s]]
    /\ answer = [s \in Sessions |-> answer[s]]
    /\ mine = [s \in Sessions |-> mine[s]]
    /\ \A s \in Sessions : Shape(mine[s])

(* The question a gate was asked is the one of its call. *)
Asked(j, m, v) ==
    /\ v.binding.gate_position = j.gate
    /\ v.binding.step = j.step
    /\ v.binding.schedule = IF j.step = None THEN None ELSE ScheduleOf[j.step]
    /\ v.binding.attempt = IF j.gate = "g3" THEN m.claim.attempt ELSE None

(* The call of a session: what is done of it by where it is. *)
Manual(label, j, m) ==
    /\ j.kind = "manual" /\ label \in {"profile", "profile_lock", "commit"}
    /\ j.step \in Steps /\ j.gate = None
    /\ m.events = {} /\ m.claim = None /\ m.state = None
    /\ m.attempt # None /\ m.attempt.step = j.step /\ m.attempt.mode = "manual"
    /\ label = "commit" <=> m.profile # None
    /\ m.profile # None => m.profile.principal = Principal /\ m.profile.method = "manual_handoff"

Gate(label, j, m, v) ==
    /\ j.kind \in {"gate", "resume"} /\ label \in {"unavailable", "apply", "commit"}
    /\ j.gate \in Gates /\ (j.gate = "g1" <=> j.step = None)
    /\ j.kind = "resume" => j.gate # "g1"
    /\ label # "unavailable" => j.gate # "g3"
    /\ m.attempt = None /\ m.claim = None /\ m.profile = None
    /\ label # "commit" => m = Nothing
    /\ label = "apply" => Asked(j, m, v)
    /\ m.state # None => j.step # None

First(label, j, m, v) ==
    /\ j.kind = "mcp" /\ label \in {"unavailable", "apply", "claim", "lock", "commit"}
    /\ j.gate = "g2" /\ j.step \in Steps /\ j.key \in Keys
    /\ m.attempt = None /\ m.profile = None /\ m.state = None
    /\ label = "lock" <=> m.claim # None
    /\ m.claim # None => m.claim.step = j.step
    /\ label \in {"unavailable", "apply"} => m = Nothing
    /\ label = "apply" => Asked(j, m, v)
    /\ \A e \in m.events : e.gate_position = "g2"

Second(label, j, m, v) ==
    /\ j.kind = "mcp" /\ label \in {"unavailable", "apply", "seal", "commit"}
    /\ j.gate = "g3" /\ j.step \in Steps /\ j.key \in Keys
    /\ m.profile = None /\ m.state = None
    /\ m.claim # None /\ m.claim.step = j.step
    /\ label = "apply" => Asked(j, m, v)
    /\ label = "commit" <=> m.attempt # None
    /\ m.attempt # None => /\ m.attempt.id = m.claim.attempt /\ m.attempt.step = j.step
                           /\ m.attempt.mode = "supervised"
    /\ label \in {"seal", "commit"} =>
           \E e \in m.events : /\ e.attempt = m.claim.attempt /\ e.step = j.step
                               /\ \A f \in m.events : f.attempt # None => f = e
    /\ label \in {"unavailable", "apply"} =>
           \A e \in m.events : e.attempt = None /\ e.gate_position = "g2"

Idle(label, j, m, a) == label = "idle" /\ j = NoJob /\ m = Nothing /\ a = None

(* An event waiting to be committed. *)
Waiting(j, e) ==
    /\ HumanProtectionApplication(e) /\ CHECKS_DO_EVENTO(e)
    /\ e.attempt # None => j.gate = "g3"

Working(label, j, m, v, a) ==
    /\ \/ Idle(label, j, m, a) \/ Manual(label, j, m) \/ Gate(label, j, m, v)
       \/ First(label, j, m, v) \/ Second(label, j, m, v)
    /\ \A e \in m.events : Waiting(j, e)
    /\ \A e, f \in m.events : Key(e) = Key(f) => e = f

WorkInv == \A s \in Sessions : Working(pc[s], job[s], mine[s], view[s], answer[s])

(* The identifiers a transaction has taken. *)
Taken(m) ==
    {a \in Attempts : \/ m.claim # None /\ m.claim.attempt = a
                      \/ m.attempt # None /\ m.attempt.id = a}

(* What a transaction waits to write is not there yet, and its locks keep    *)
(* its Schedule as it was read.                                              *)
Ahead(j, m, a) ==
    /\ \A x \in attempts : x.id \notin Taken(m)
    /\ \A e \in m.events, f \in events : Key(e) # Key(f)
    /\ m.claim # None => claims[j.key] = None
    /\ m.attempt # None => schedule[ScheduleOf[j.step]] # "CANCELLED"
    /\ a # None => a \in events \cup m.events

AheadInv == \A s \in Sessions : Ahead(job[s], mine[s], answer[s])

(* Two transactions write different things. *)
Apart(j, m, k, n) ==
    /\ Taken(m) \cap Taken(n) = {}
    /\ \A e \in m.events, f \in n.events : Key(e) # Key(f)
    /\ m.claim # None /\ n.claim # None => j.key # k.key

ApartInv == \A s, t \in Sessions : s # t => Apart(job[s], mine[s], job[t], mine[t])

(* The tables: what a receipt and a claim name is there. *)
Receipted ==
    /\ \A r \in receipts : \E x \in attempts : x.id = r.attempt
    /\ claims \in [Keys -> Claim \cup {None}]
    /\ step \in [Steps -> {"PENDING", "AWAITING_RETURN", "RETURNED", "CANCELLED"}]

Tables ==
    /\ TypeOK /\ Receipted /\ EveryAttemptAccounted /\ CancelledIsClosed
    /\ \A e, f \in events : Key(e) = Key(f) => e = f

IInv == Shapes /\ WorkInv /\ AheadInv /\ ApartInv /\ Tables

-----------------------------------------------------------------------------
LEMMA Given ==
    /\ None \notin Schedules /\ None \notin Steps /\ None \notin Attempts /\ None \notin Keys
    /\ None # "ACTIVE" /\ None # "PAUSED"
    /\ None \notin AttemptRow /\ None \notin Claim /\ None \notin ConnectionProfile
    /\ ScheduleOf \in [Steps -> Schedules] /\ Texts \subseteq ClassifierText
    /\ Vouched \subseteq Efeitos /\ Principal \in Principals
    /\ MaxTime \in Nat /\ MaxRevoked \in Nat
BY HumanProtectionAssumption, SupervisedExportAssumption

(* A variable of the sessions that does not change is what it was. *)
LEMMA Kept ==
    ASSUME Shapes, NEW s \in Sessions
    PROVE  /\ pc = [pc EXCEPT ![s] = pc[s]] /\ job = [job EXCEPT ![s] = job[s]]
           /\ view = [view EXCEPT ![s] = view[s]] /\ answer = [answer EXCEPT ![s] = answer[s]]
           /\ mine = [mine EXCEPT ![s] = mine[s]]
<1>1. pc = [pc EXCEPT ![s] = pc[s]] /\ job = [job EXCEPT ![s] = job[s]]
    BY DEF Shapes
<1>2. view = [view EXCEPT ![s] = view[s]]
    BY DEF Shapes
<1>3. answer = [answer EXCEPT ![s] = answer[s]]
    BY DEF Shapes
<1>4. mine = [mine EXCEPT ![s] = mine[s]]
    BY DEF Shapes
<1>. QED BY <1>1, <1>2, <1>3, <1>4

(* What a step of one session does to the others: nothing. *)
Turns(s, l, j, m, v, a) ==
    /\ pc' = [pc EXCEPT ![s] = l]
    /\ job' = [job EXCEPT ![s] = j]
    /\ view' = [view EXCEPT ![s] = v]
    /\ answer' = [answer EXCEPT ![s] = a]
    /\ mine' = [mine EXCEPT ![s] = m]

LEMMA Turned ==
    ASSUME Shapes, NEW s \in Sessions, NEW l \in Labels, NEW j \in Job, NEW m, NEW v, NEW a,
           Turns(s, l, j, m, v, a), Shape(m)
    PROVE  /\ Shapes'
           /\ pc'[s] = l /\ job'[s] = j /\ mine'[s] = m /\ view'[s] = v /\ answer'[s] = a
           /\ \A t \in Sessions : t # s =>
                  /\ pc'[t] = pc[t] /\ job'[t] = job[t] /\ mine'[t] = mine[t]
                  /\ view'[t] = view[t] /\ answer'[t] = answer[t]
<1>1. /\ pc' \in [Sessions -> Labels] /\ pc'[s] = l
      /\ \A t \in Sessions : t # s => pc'[t] = pc[t]
    BY DEF Shapes, Turns
<1>2. /\ job' \in [Sessions -> Job] /\ job'[s] = j
      /\ \A t \in Sessions : t # s => job'[t] = job[t]
    BY DEF Shapes, Turns
<1>3. /\ view' = [t \in Sessions |-> view'[t]] /\ view'[s] = v /\ DOMAIN view' = Sessions
      /\ \A t \in Sessions : t # s => view'[t] = view[t]
    BY DEF Shapes, Turns
<1>4. /\ answer' = [t \in Sessions |-> answer'[t]] /\ answer'[s] = a
      /\ \A t \in Sessions : t # s => answer'[t] = answer[t]
    BY DEF Shapes, Turns
<1>5. /\ mine' = [t \in Sessions |-> mine'[t]] /\ mine'[s] = m
      /\ \A t \in Sessions : t # s => mine'[t] = mine[t]
    BY DEF Shapes, Turns
<1>6. \A t \in Sessions : Shape(mine'[t])
    BY <1>5 DEF Shapes
<1>. QED BY <1>1, <1>2, <1>3, <1>4, <1>5, <1>6 DEF Shapes

LEMMA ApartBothWays ==
    ASSUME NEW j, NEW m, NEW k, NEW n, Apart(j, m, k, n)
    PROVE  Apart(k, n, j, m)
BY DEF Apart

(* A step of one session that changes no table keeps the invariant if it     *)
(* keeps what is said of that session.                                       *)
LEMMA Local ==
    ASSUME IInv, NEW s \in Sessions, NEW l \in Labels, NEW j \in Job, NEW m, NEW v, NEW a,
           Turns(s, l, j, m, v, a), UNCHANGED <<clock, tables>>, Shape(m),
           Working(l, j, m, v, a), Ahead(j, m, a),
           \A t \in Sessions : t # s => Apart(j, m, job[t], mine[t])
    PROVE  IInv'
<1>. Shapes /\ WorkInv /\ AheadInv /\ ApartInv /\ Tables
    BY DEF IInv
<1>1. /\ Shapes'
      /\ pc'[s] = l /\ job'[s] = j /\ mine'[s] = m /\ view'[s] = v /\ answer'[s] = a
      /\ \A t \in Sessions : t # s =>
             /\ pc'[t] = pc[t] /\ job'[t] = job[t] /\ mine'[t] = mine[t]
             /\ view'[t] = view[t] /\ answer'[t] = answer[t]
    BY Turned
<1>2. WorkInv'
  <2>1. ASSUME NEW t \in Sessions
        PROVE  Working(pc'[t], job'[t], mine'[t], view'[t], answer'[t])
      BY <1>1 DEF WorkInv
  <2>. QED BY <2>1 DEF WorkInv
<1>3. UNCHANGED <<schedule, step, attempts, events, claims, profiles, receipts, clock>>
    BY DEF tables
<1>5. AheadInv'
  <2>1. ASSUME NEW t \in Sessions
        PROVE  Ahead(job[t], mine[t], answer[t])'
    <3>1. Ahead(job'[t], mine'[t], answer'[t])
        BY <1>1 DEF AheadInv
    <3>. QED BY <1>3, <3>1 DEF Ahead
  <2>. QED BY <2>1 DEF AheadInv
<1>6. ApartInv'
  <2>1. ASSUME NEW t \in Sessions, NEW u \in Sessions, t # u
        PROVE  Apart(job'[t], mine'[t], job'[u], mine'[u])
    <3>1. CASE t = s
        BY <1>1, <2>1, <3>1
    <3>2. CASE u = s
      <4>1. Apart(j, m, job[t], mine[t])
          BY <2>1, <3>2
      <4>. QED BY <1>1, <2>1, <3>2, <4>1, ApartBothWays
    <3>3. CASE t # s /\ u # s
        BY <1>1, <2>1, <3>3 DEF ApartInv
    <3>. QED BY <3>1, <3>2, <3>3
  <2>. QED BY <2>1 DEF ApartInv
<1>7. Tables'
    BY <1>3 DEF Tables, TypeOK, Receipted, EveryAttemptAccounted, CancelledIsClosed, AllowedG3,
               ReceiptsOf
<1>. QED BY <1>1, <1>2, <1>5, <1>6, <1>7 DEF IInv

(* Nothing of a call is left when its transaction ends. *)
LEMMA NothingLeft ==
    /\ Shape(Nothing) /\ NoJob \in Job /\ Taken(Nothing) = {}
    /\ Working("idle", NoJob, Nothing, None, None)
    /\ \A k, n : Apart(NoJob, Nothing, k, n)
    /\ Ahead(NoJob, Nothing, None)
<1>1. Taken(Nothing) = {}
    BY DEF Taken, Nothing
<1>2. Working("idle", NoJob, Nothing, None, None)
    BY DEF Working, Idle, Nothing
<1>3. \A k, n : Apart(NoJob, Nothing, k, n)
    BY <1>1 DEF Apart, Nothing
<1>4. Ahead(NoJob, Nothing, None)
    BY <1>1 DEF Ahead, Nothing
<1>5. Shape(Nothing) /\ NoJob \in Job
    BY DEF Shape, Nothing, NoJob, Job
<1>. QED BY <1>1, <1>2, <1>3, <1>4, <1>5

LEMMA Forgets ==
    ASSUME NEW s \in Sessions, Forget(s)
    PROVE  Turns(s, "idle", NoJob, Nothing, None, None)
BY DEF Forget, Goes, Turns

LEMMA Aborts ==
    ASSUME IInv, NEW s \in Sessions, Abort(s)
    PROVE  IInv'
<1>1. "idle" \in Labels
    BY DEF Labels
<1>. QED BY <1>1, Local, Forgets, NothingLeft DEF Abort

(* An idle session has nothing. *)
LEMMA IdleHas ==
    ASSUME IInv, NEW s \in Sessions, pc[s] = "idle"
    PROVE  job[s] = NoJob /\ mine[s] = Nothing /\ answer[s] = None
BY DEF IInv, WorkInv, Working, Idle, Manual, Gate, First, Second

(* The answer of a gate is about what it was asked. *)
LEMMA EvaluatedAsked ==
    ASSUME NEW j \in Job, NEW m, NEW at, NEW v \in Evaluated(j.text, j.gate, j.step, at), v # None,
           at = IF j.gate = "g3" THEN m.claim.attempt ELSE None
    PROVE  Asked(j, m, v)
<1>. DEFINE c == IF j.step = None THEN None ELSE ScheduleOf[j.step]
            subject == Subject(Principal, j.gate, c, j.step, at)
<1>1. PICK k \in Classifiers :
          v = avaliar(k, j.text, ObjectiveOf[j.step], Operation, subject, clock)
    BY DEF Evaluated
<1>2. PICK d : v.binding = Binding(d, subject)
    BY <1>1 DEF avaliar, GovernanceResolutionView
<1>. QED BY <1>2 DEF Binding, Subject, Asked

LEMMA AsksTurns ==
    ASSUME Shapes, NEW s \in Sessions, NEW j \in Job, NEW at, Asks(s, j, at)
    PROVE  \E v \in Evaluated(j.text, j.gate, j.step, at) :
               /\ Turns(s, IF v = None THEN "unavailable" ELSE "apply", j, mine[s], v, answer[s])
               /\ UNCHANGED <<clock, tables>>
<1>1. PICK v \in Evaluated(j.text, j.gate, j.step, at) :
          /\ job' = [job EXCEPT ![s] = j] /\ view' = [view EXCEPT ![s] = v]
          /\ Goes(s, IF v = None THEN "unavailable" ELSE "apply")
          /\ UNCHANGED <<clock, tables, answer, mine>>
    BY DEF Asks
<1>2. Turns(s, IF v = None THEN "unavailable" ELSE "apply", j, mine[s], v, answer[s])
    BY <1>1, Kept DEF Turns, Goes
<1>. QED BY <1>1, <1>2

(* A call that begins by asking a gate. *)
LEMMA Begins ==
    ASSUME IInv, NEW s \in Sessions, pc[s] = "idle", NEW j \in Job, Asks(s, j, None),
           j.gate \in Gates \ {"g3"},
           \A v : v = None \/ Asked(j, Nothing, v) =>
               LET l == IF v = None THEN "unavailable" ELSE "apply"
               IN  Gate(l, j, Nothing, v) \/ First(l, j, Nothing, v)
    PROVE  IInv'
<1>1. Shapes /\ mine[s] = Nothing /\ answer[s] = None
    BY IdleHas DEF IInv
<1>2. PICK v \in Evaluated(j.text, j.gate, j.step, None) :
          /\ Turns(s, IF v = None THEN "unavailable" ELSE "apply", j, Nothing, v, None)
          /\ UNCHANGED <<clock, tables>>
    BY <1>1, AsksTurns
<1>3. v = None \/ Asked(j, Nothing, v)
    BY EvaluatedAsked DEF Gates
<1>4. PICK l \in {"unavailable", "apply"} : l = IF v = None THEN "unavailable" ELSE "apply"
    OBVIOUS
<1>5. Working(l, j, Nothing, v, None)
    BY <1>3, <1>4 DEF Working, Nothing
<1>6. Ahead(j, Nothing, None) /\ \A k, n : Apart(j, Nothing, k, n)
    BY NothingLeft DEF Ahead, Apart, Nothing
<1>7. l \in Labels
    BY DEF Labels
<1>. QED BY <1>2, <1>4, <1>5, <1>6, <1>7, NothingLeft, Local

(* Without an attempt there is no binding for G3. *)
LEMMA NoAttemptNoAnswer ==
    ASSUME NEW text, NEW p
    PROVE  \A v \in Evaluated(text, "g3", p, None) : v = None
<1>. DEFINE c == IF p = None THEN None ELSE ScheduleOf[p]
            subject == Subject(Principal, "g3", c, p, None)
<1>1. \A d : ~ PositionRules(Binding(d, subject))
    BY DEF PositionRules, Binding, Subject
<1>. HIDE DEF subject
<1>2. \A k \in Classifiers : avaliar(k, text, ObjectiveOf[p], Operation, subject, clock) = None
    BY <1>1 DEF avaliar
<1>. QED BY <1>2 DEF Evaluated, subject

(* A resumption at G3 is unavailable. *)
LEMMA ThirdBegins ==
    ASSUME IInv, NEW s \in Sessions, pc[s] = "idle", NEW j \in Job, Asks(s, j, None),
           j.gate = "g3", Gate("unavailable", j, Nothing, None)
    PROVE  IInv'
<1>1. Shapes /\ mine[s] = Nothing /\ answer[s] = None
    BY IdleHas DEF IInv
<1>2. PICK v \in Evaluated(j.text, j.gate, j.step, None) :
          /\ Turns(s, IF v = None THEN "unavailable" ELSE "apply", j, Nothing, v, None)
          /\ UNCHANGED <<clock, tables>>
    BY <1>1, AsksTurns
<1>3. v = None
    BY NoAttemptNoAnswer
<1>4. Working("unavailable", j, Nothing, v, None)
    BY <1>3 DEF Working, Nothing
<1>5. Ahead(j, Nothing, None) /\ \A k, n : Apart(j, Nothing, k, n)
    BY NothingLeft DEF Ahead, Apart, Nothing
<1>. QED BY <1>2, <1>3, <1>4, <1>5, NothingLeft, Local DEF Labels

LEMMA NoEffectsTyped ==
    ASSUME NEW x \in Attempts \cup {None}
    PROVE  NoEffects(x) \in Efeitos
<1>1. 0 \in 0 .. MaxRevoked /\ FALSE \in BOOLEAN
    BY Given
<1>. QED BY <1>1 DEF NoEffects, Efeitos

LEMMA GateBegins ==
    ASSUME IInv, NEW s \in Sessions, aplicar(s) \/ retomar(s) \/ exportar(s)
    PROVE  IInv'
<1>0. None \notin Steps /\ NoEffects(None) \in Efeitos /\ Vouched \subseteq Efeitos
    BY Given, NoEffectsTyped
<1>1. ASSUME NEW gate \in Gates, NEW p \in Steps, NEW text \in Texts,
             NEW kind \in {"gate", "resume"}, NEW efeitos \in Efeitos, pc[s] = "idle", kind = "resume" => gate # "g1",
             Asks(s, [kind |-> kind, gate |-> gate, step |-> IF gate = "g1" THEN None ELSE p,
                      key |-> None, text |-> text, efeitos |-> efeitos], None)
      PROVE  IInv'
  <2>. DEFINE j == [kind |-> kind, gate |-> gate, step |-> IF gate = "g1" THEN None ELSE p,
                    key |-> None, text |-> text, efeitos |-> efeitos]
  <2>1. j \in Job /\ j.gate \in Gates
      BY DEF Job, Kinds, Gates
  <2>2. j.gate = "g1" <=> j.step = None
      BY <1>0
  <2>3. CASE gate # "g3"
    <3>1. ASSUME NEW v, v = None \/ Asked(j, Nothing, v)
          PROVE  LET l == IF v = None THEN "unavailable" ELSE "apply"
                 IN  Gate(l, j, Nothing, v) \/ First(l, j, Nothing, v)
        BY <1>1, <2>1, <2>2, <2>3, <3>1 DEF Gate, Nothing
    <3>. QED BY <1>1, <2>1, <2>3, <3>1, Begins
  <2>4. CASE gate = "g3"
    <3>1. Gate("unavailable", j, Nothing, None)
        BY <1>1, <2>1, <2>2 DEF Gate, Nothing
    <3>. QED BY <1>1, <2>1, <2>4, <3>1, ThirdBegins
  <2>. QED BY <2>3, <2>4
<1>2. ASSUME NEW p \in Steps, NEW key \in Keys, NEW text \in Texts, pc[s] = "idle",
             Asks(s, [kind |-> "mcp", gate |-> "g2", step |-> p, key |-> key, text |-> text,
                      efeitos |-> NoEffects(None)], None)
      PROVE  IInv'
  <2>. DEFINE none == NoEffects(None)
              j == [kind |-> "mcp", gate |-> "g2", step |-> p, key |-> key, text |-> text,
                    efeitos |-> none]
  <2>. HIDE DEF none
  <2>1. j \in Job /\ j.gate \in Gates \ {"g3"}
      BY <1>0 DEF Job, Kinds, Gates, none
  <2>2. ASSUME NEW v, v = None \/ Asked(j, Nothing, v)
        PROVE  LET l == IF v = None THEN "unavailable" ELSE "apply"
               IN  Gate(l, j, Nothing, v) \/ First(l, j, Nothing, v)
      BY <2>2 DEF First, Nothing
  <2>3. Asks(s, j, None)
      BY <1>2 DEF none
  <2>. QED BY <1>2, <2>1, <2>2, <2>3, Begins
<1>3. CASE aplicar(s)
  <2>1. PICK gate \in {"g1", "g4"}, p \in Steps, text \in Texts, efeitos \in Vouched :
            /\ pc[s] = "idle"
            /\ Asks(s, [kind |-> "gate", gate |-> gate, step |-> IF gate = "g1" THEN None ELSE p,
                        key |-> None, text |-> text, efeitos |-> efeitos], None)
      BY <1>3 DEF aplicar, GATES_DO_B2
  <2>. QED BY <1>0, <1>1, <2>1 DEF Gates
<1>4. CASE retomar(s)
  <2>1. PICK gate \in Gates, p \in Steps, text \in Texts :
            /\ gate # "g1" /\ pc[s] = "idle"
            /\ Asks(s, [kind |-> "resume", gate |-> gate, step |-> p,
                        key |-> None, text |-> text, efeitos |-> NoEffects(None)], None)
      BY <1>4 DEF retomar, GatePosition, Gates
  <2>. QED BY <1>0, <1>1, <2>1
<1>. QED BY <1>2, <1>3, <1>4 DEF exportar

-----------------------------------------------------------------------------
(* The steps of one call that write nothing to a table. *)

(* Where a call of the client is, by its label. *)
LEMMA WhereMcp ==
    ASSUME IInv, NEW s \in Sessions
    PROVE  /\ pc[s] \in {"claim", "lock"} => First(pc[s], job[s], mine[s], view[s])
           /\ pc[s] = "seal" => Second(pc[s], job[s], mine[s], view[s])
           /\ pc[s] \in {"profile", "profile_lock"} => Manual(pc[s], job[s], mine[s])
           /\ pc[s] = "apply" => \/ Gate(pc[s], job[s], mine[s], view[s])
                                 \/ First(pc[s], job[s], mine[s], view[s])
                                 \/ Second(pc[s], job[s], mine[s], view[s])
           /\ Shape(mine[s]) /\ job[s] \in Job
           /\ \A e \in mine[s].events : Waiting(job[s], e)
           /\ \A e, f \in mine[s].events : Key(e) = Key(f) => e = f
           /\ Ahead(job[s], mine[s], answer[s])
           /\ \A t \in Sessions : t # s => Apart(job[s], mine[s], job[t], mine[t])
<1>1. /\ \A e \in mine[s].events : Waiting(job[s], e)
      /\ \A e, f \in mine[s].events : Key(e) = Key(f) => e = f
    BY DEF IInv, WorkInv, Working
<1>2. Ahead(job[s], mine[s], answer[s]) /\ Shape(mine[s]) /\ job[s] \in Job
    BY DEF IInv, AheadInv, Shapes
<1>3. \A t \in Sessions : t # s => Apart(job[s], mine[s], job[t], mine[t])
    BY DEF IInv, ApartInv
<1>4. \/ Idle(pc[s], job[s], mine[s], answer[s]) \/ Manual(pc[s], job[s], mine[s])
      \/ Gate(pc[s], job[s], mine[s], view[s])
      \/ First(pc[s], job[s], mine[s], view[s]) \/ Second(pc[s], job[s], mine[s], view[s])
    BY DEF IInv, WorkInv, Working
<1>. QED BY <1>1, <1>2, <1>3, <1>4 DEF Idle, Manual, Gate, First, Second

(* The same call, at the other gate. *)
LEMMA AsksAgain ==
    ASSUME NEW j \in Job, NEW text \in Texts, NEW efeitos \in Efeitos
    PROVE  \E k \in Job :
               /\ k = [j EXCEPT !.gate = "g3", !.text = text, !.efeitos = efeitos]
               /\ k.kind = j.kind /\ k.gate = "g3" /\ k.step = j.step /\ k.key = j.key
<1>. DEFINE i == [j EXCEPT !.gate = "g3"]
            h == [i EXCEPT !.text = text]
            k == [h EXCEPT !.efeitos = efeitos]
<1>1. /\ i \in Job /\ i.gate = "g3" /\ i.kind = j.kind /\ i.step = j.step /\ i.key = j.key
    BY DEF Job, Gates
<1>2. k = [j EXCEPT !.gate = "g3", !.text = text, !.efeitos = efeitos]
    BY DEF Job
<1>. HIDE DEF i
<1>3. h \in Job /\ h.gate = i.gate /\ h.kind = i.kind /\ h.step = i.step /\ h.key = i.key
    BY <1>1 DEF Job
<1>. HIDE DEF h
<1>4. k \in Job /\ k.gate = h.gate /\ k.kind = h.kind /\ k.step = h.step /\ k.key = h.key
    BY <1>3 DEF Job
<1>. QED BY <1>1, <1>2, <1>3, <1>4

LEMMA Locks ==
    ASSUME IInv, NEW s \in Sessions, lock_step(s)
    PROVE  IInv'
<1>. DEFINE m == mine[s]
<1>1. PICK text \in Texts :
          /\ pc[s] = "lock"
          /\ Asks(s, [job[s] EXCEPT !.gate = "g3", !.text = text,
                                    !.efeitos = NoEffects(m.claim.attempt)], m.claim.attempt)
    BY DEF lock_step
<1>2. PICK j \in Job :
          /\ j = [job[s] EXCEPT !.gate = "g3", !.text = text,
                                !.efeitos = NoEffects(m.claim.attempt)]
          /\ j.kind = job[s].kind /\ j.gate = "g3" /\ j.step = job[s].step /\ j.key = job[s].key
  <2>1. job[s] \in Job /\ m.claim # None /\ m.claim \in Claim \cup {None}
      BY <1>1, WhereMcp DEF First, Shape
  <2>2. NoEffects(m.claim.attempt) \in Efeitos
    <3>1. m.claim.attempt \in Attempts
        BY <2>1 DEF Claim
    <3>. QED BY <3>1, NoEffectsTyped
  <2>3. PICK efeitos \in Efeitos : efeitos = NoEffects(m.claim.attempt)
      BY <2>2
  <2>4. PICK i \in Job : i = job[s]
      BY <2>1
  <2>5. \E k \in Job :
            /\ k = [i EXCEPT !.gate = "g3", !.text = text, !.efeitos = efeitos]
            /\ k.kind = i.kind /\ k.gate = "g3" /\ k.step = i.step /\ k.key = i.key
      BY AsksAgain
  <2>. QED BY <2>3, <2>4, <2>5
<1>3. First("lock", job[s], m, view[s])
    BY <1>1, WhereMcp
<1>4. Shapes
    BY DEF IInv
<1>5. PICK v \in Evaluated(j.text, j.gate, j.step, m.claim.attempt) :
          /\ Turns(s, IF v = None THEN "unavailable" ELSE "apply", j, m, v, answer[s])
          /\ UNCHANGED <<clock, tables>>
    BY <1>1, <1>2, <1>4, AsksTurns
<1>6. v = None \/ Asked(j, m, v)
    BY <1>2, EvaluatedAsked
<1>7. PICK l \in {"unavailable", "apply"} : l = IF v = None THEN "unavailable" ELSE "apply"
    OBVIOUS
<1>8. \A e \in m.events : Waiting(j, e) /\ e.attempt = None /\ e.gate_position = "g2"
    BY <1>2, <1>3, WhereMcp DEF First, Waiting
<1>9. Second(l, j, m, v)
    BY <1>2, <1>3, <1>6, <1>7, <1>8 DEF First, Second
<1>10. Working(l, j, m, v, answer[s])
    BY <1>8, <1>9, WhereMcp DEF Working
<1>11. Ahead(j, m, answer[s])
    BY <1>2, WhereMcp DEF Ahead
<1>12. \A t \in Sessions : t # s => Apart(j, m, job[t], mine[t])
    BY <1>2, WhereMcp DEF Apart
<1>13. l \in Labels /\ Shape(m)
    BY WhereMcp DEF Labels
<1>. QED BY <1>5, <1>7, <1>10, <1>11, <1>12, <1>13, Local

(* An identifier nobody has taken. *)
LEMMA FreshFor ==
    ASSUME Shapes, NEW s \in Sessions, NEW a \in Attempts, Fresh(a)
    PROVE  /\ \A x \in attempts : x.id # a
           /\ \A t \in Sessions : a \notin Taken(mine[t])
BY DEF Fresh, Taken

LEMMA Claims ==
    ASSUME IInv, NEW s \in Sessions, claim_command(s)
    PROVE  IInv'
<1>. DEFINE m == mine[s]  j == job[s]
<1>1. /\ pc[s] = "claim" /\ First("claim", j, m, view[s])
      /\ \A t \in Sessions : t # s => mine[t].claim = None \/ job[t].key # j.key
    BY WhereMcp DEF claim_command, Others
<1>2. ASSUME Goes(s, "commit"), UNCHANGED <<clock, tables, job, view, answer, mine>>
      PROVE  IInv'
  <2>1. Turns(s, "commit", j, m, view[s], answer[s])
      BY <1>2, Kept DEF IInv, Turns, Goes
  <2>2. First("commit", j, m, view[s])
      BY <1>1 DEF First
  <2>3. Working("commit", j, m, view[s], answer[s])
      BY <2>2, WhereMcp DEF Working
  <2>. QED BY <1>2, <2>1, <2>3, WhereMcp, Local DEF Labels
<1>3. ASSUME NEW a \in Attempts, Fresh(a), claims[j.key] = None,
             mine' = [mine EXCEPT ![s].claim = [step |-> j.step, attempt |-> a]],
             Goes(s, "lock"), UNCHANGED <<clock, tables, job, view, answer>>
      PROVE  IInv'
  <2>. DEFINE c == [step |-> j.step, attempt |-> a]
  <2>1. PICK n : n = [m EXCEPT !.claim = c]
      OBVIOUS
  <2>2. /\ n.events = m.events /\ n.attempt = m.attempt /\ n.claim = c /\ n.state = m.state
        /\ n.profile = m.profile
      BY <2>1, WhereMcp DEF Shape
  <2>3. c \in Claim /\ c # None /\ c.attempt = a
      BY <1>1, Given DEF Claim, First
  <2>4. Shape(n)
    <3>1. n = [events |-> n.events, attempt |-> n.attempt, claim |-> n.claim, state |-> n.state,
               profile |-> n.profile]
        BY <2>1, WhereMcp DEF Shape
    <3>. QED BY <2>2, <2>3, <3>1, WhereMcp DEF Shape
  <2>5. Turns(s, "lock", j, n, view[s], answer[s])
    <3>1. mine' = [mine EXCEPT ![s] = n]
        BY <1>3, <2>1
    <3>. QED BY <1>3, <3>1, Kept DEF IInv, Turns, Goes
  <2>6. First("lock", j, n, view[s])
      BY <1>1, <2>2, <2>3 DEF First
  <2>7. \A e \in n.events : Waiting(j, e)
      BY <2>2, WhereMcp DEF Waiting
  <2>8. Working("lock", j, n, view[s], answer[s])
      BY <2>2, <2>6, <2>7, WhereMcp DEF Working
  <2>9. Taken(n) = {a}
      BY <1>1, <2>2, <2>3 DEF Taken, First
  <2>10. Ahead(j, n, answer[s])
    <3>1. \A x \in attempts : x.id \notin Taken(n)
        BY <1>3, <2>9, FreshFor DEF IInv
    <3>. QED BY <1>1, <1>3, <2>2, <3>1, WhereMcp DEF Ahead
  <2>11. ASSUME NEW t \in Sessions, t # s PROVE Apart(j, n, job[t], mine[t])
    <3>1. Taken(n) \cap Taken(mine[t]) = {}
        BY <1>3, <2>9, FreshFor DEF IInv
    <3>. QED BY <1>1, <2>2, <2>11, <3>1, WhereMcp DEF Apart
  <2>. QED BY <1>3, <2>4, <2>5, <2>8, <2>10, <2>11, WhereMcp, Local DEF Labels
<1>. QED BY <1>2, <1>3, Aborts DEF claim_command

LEMMA Seals ==
    ASSUME IInv, NEW s \in Sessions, seal_step_for_export(s)
    PROVE  IInv'
<1>. DEFINE m == mine[s]  j == job[s]
            row == [id |-> m.claim.attempt, step |-> j.step, mode |-> "supervised", state |-> "OPEN"]
<1>1. Second("seal", j, m, view[s])
    BY WhereMcp DEF seal_step_for_export
<1>2. ASSUME schedule[ScheduleOf[j.step]] = "ACTIVE", Goes(s, "commit"),
             mine' = [mine EXCEPT ![s].attempt = row],
             UNCHANGED <<clock, tables, job, view, answer>>
      PROVE  IInv'
  <2>1. PICK n : n = [m EXCEPT !.attempt = row]
      OBVIOUS
  <2>2. /\ n.events = m.events /\ n.attempt = row /\ n.claim = m.claim /\ n.state = m.state
        /\ n.profile = m.profile
      BY <2>1, WhereMcp DEF Shape
  <2>3. m.claim \in Claim /\ m.claim.attempt \in Attempts
      BY <1>1, WhereMcp DEF Second, Shape, Claim
  <2>4. row \in AttemptRow /\ row # None
      BY <1>1, <2>3, Given DEF AttemptRow, Second
  <2>5. Shape(n)
    <3>1. n = [events |-> n.events, attempt |-> n.attempt, claim |-> n.claim, state |-> n.state,
               profile |-> n.profile]
        BY <2>1, WhereMcp DEF Shape
    <3>. QED BY <2>2, <2>4, <3>1, WhereMcp DEF Shape
  <2>6. Turns(s, "commit", j, n, view[s], answer[s])
    <3>1. mine' = [mine EXCEPT ![s] = n]
        BY <1>2, <2>1
    <3>. QED BY <1>2, <3>1, Kept DEF IInv, Turns, Goes
  <2>7. Second("commit", j, n, view[s])
      BY <1>1, <2>2, <2>4 DEF Second
  <2>8. \A e \in n.events : Waiting(j, e)
      BY <2>2, WhereMcp DEF Waiting
  <2>9. Working("commit", j, n, view[s], answer[s])
      BY <2>2, <2>7, <2>8, WhereMcp DEF Working
  <2>10. Taken(n) = Taken(m)
      BY <1>1, <2>2, <2>4 DEF Taken, Second
  <2>11. Ahead(j, n, answer[s])
      BY <1>2, <2>2, <2>10, WhereMcp DEF Ahead
  <2>12. \A t \in Sessions : t # s => Apart(j, n, job[t], mine[t])
      BY <2>2, <2>10, WhereMcp DEF Apart
  <2>. QED BY <1>2, <2>5, <2>6, <2>9, <2>11, <2>12, WhereMcp, Local DEF Labels
<1>. QED BY <1>2, Aborts DEF seal_step_for_export

LEMMA Exports ==
    ASSUME IInv, NEW s \in Sessions, export_step(s)
    PROVE  IInv'
<1>1. PICK p \in Steps, a \in Attempts :
          /\ pc[s] = "idle" /\ schedule[ScheduleOf[p]] = "ACTIVE" /\ Fresh(a)
          /\ job' = [job EXCEPT ![s] = [NoJob EXCEPT !.kind = "manual", !.step = p]]
          /\ mine' = [mine EXCEPT ![s].attempt =
                 [id |-> a, step |-> p, mode |-> "manual", state |-> "OPEN"]]
          /\ Goes(s, "profile") /\ UNCHANGED <<clock, tables, view, answer>>
    BY DEF export_step
<1>. DEFINE row == [id |-> a, step |-> p, mode |-> "manual", state |-> "OPEN"]
<1>2. mine[s] = Nothing /\ answer[s] = None
    BY <1>1, IdleHas
<1>3. PICK j : /\ j = [NoJob EXCEPT !.kind = "manual", !.step = p]
    OBVIOUS
<1>4. j \in Job /\ j.kind = "manual" /\ j.step = p /\ j.gate = None
    BY <1>3 DEF NoJob, Job, Kinds
<1>5. PICK n : n = [Nothing EXCEPT !.attempt = row]
    OBVIOUS
<1>6. /\ n.events = {} /\ n.attempt = row /\ n.claim = None /\ n.state = None
      /\ n.profile = None
    BY <1>5 DEF Nothing
<1>7. row \in AttemptRow /\ row # None
    BY Given DEF AttemptRow
<1>8. Shape(n)
  <2>1. n = [events |-> n.events, attempt |-> n.attempt, claim |-> n.claim, state |-> n.state,
             profile |-> n.profile]
      BY <1>5 DEF Nothing
  <2>. QED BY <1>6, <1>7, <2>1 DEF Shape
<1>9. Turns(s, "profile", j, n, view[s], None)
  <2>1. mine' = [mine EXCEPT ![s] = n]
      BY <1>1, <1>2, <1>5
  <2>. QED BY <1>1, <1>2, <1>3, <2>1, Kept DEF IInv, Turns, Goes
<1>10. Working("profile", j, n, view[s], None)
    BY <1>4, <1>6, <1>7 DEF Working, Manual
<1>11. Taken(n) = {a}
    BY <1>6, <1>7 DEF Taken
<1>12. Ahead(j, n, None)
    BY <1>1, <1>4, <1>6, <1>11, FreshFor DEF Ahead, IInv
<1>13. \A t \in Sessions : t # s => Apart(j, n, job[t], mine[t])
    BY <1>1, <1>6, <1>11, FreshFor DEF Apart, IInv
<1>. QED BY <1>1, <1>4, <1>8, <1>9, <1>10, <1>12, <1>13, Local DEF Labels

LEMMA Connects ==
    ASSUME IInv, NEW s \in Sessions, pc[s] \in {"profile", "profile_lock"},
           NEW profile \in ConnectionProfile, Connected(s, profile),
           profile.principal = Principal, profile.method = "manual_handoff"
    PROVE  IInv'
<1>. DEFINE m == mine[s]  j == job[s]
<1>1. Manual(pc[s], j, m)
    BY WhereMcp
<1>2. PICK n : n = [m EXCEPT !.profile = profile]
    OBVIOUS
<1>3. /\ n.events = m.events /\ n.attempt = m.attempt /\ n.claim = m.claim /\ n.state = m.state
      /\ n.profile = profile
    BY <1>2, WhereMcp DEF Shape
<1>4. Shape(n)
  <2>1. n = [events |-> n.events, attempt |-> n.attempt, claim |-> n.claim, state |-> n.state,
             profile |-> n.profile]
      BY <1>2, WhereMcp DEF Shape
  <2>. QED BY <1>3, <2>1, WhereMcp DEF Shape
<1>5. Turns(s, "commit", j, n, view[s], answer[s])
  <2>1. mine' = [mine EXCEPT ![s] = n]
      BY <1>2 DEF Connected
  <2>. QED BY <2>1, Kept DEF IInv, Turns, Goes, Connected
<1>6. Working("commit", j, n, view[s], answer[s])
    BY <1>1, <1>3, Given DEF Working, Manual
<1>7. Taken(n) = Taken(m)
    BY <1>3 DEF Taken
<1>8. Ahead(j, n, answer[s])
    BY <1>3, <1>7, WhereMcp DEF Ahead
<1>9. \A t \in Sessions : t # s => Apart(j, n, job[t], mine[t])
    BY <1>3, <1>7, WhereMcp DEF Apart
<1>. QED BY <1>4, <1>5, <1>6, <1>8, <1>9, WhereMcp, Local DEF Labels, Connected

(* The manual profile that is found is one, and the one created is another.  *)
LEMMA ManualProfile ==
    ASSUME profiles \subseteq ConnectionProfile, NEW found,
           found = get_manual_profile(profiles, Principal), found # None
    PROVE  /\ found \in ConnectionProfile /\ found.principal = Principal
           /\ found.method = "manual_handoff"
<1>. DEFINE manual == {p \in profiles : /\ p.principal = Principal
                                        /\ p.method = "manual_handoff" /\ Live(p)}
<1>1. manual # {} /\ found = CHOOSE p \in manual : TRUE
    BY DEF get_manual_profile
<1>2. found \in manual
    BY <1>1
<1>. QED BY <1>2

LEMMA CreatedProfile ==
    ASSUME NEW id \in ConnectionIds
    PROVE  LET p == create_profile(id, Principal, "manual_handoff", None, None)
           IN  /\ p \in ConnectionProfile /\ p.principal = Principal
               /\ p.method = "manual_handoff"
<1>. DEFINE p == create_profile(id, Principal, "manual_handoff", None, None)
<1>1. BASELINE_METHOD_STATE["manual_handoff"] = "available"
    BY DEF BASELINE_METHOD_STATE, ConnectionMethod
<1>2. p = [id |-> id, principal |-> Principal, method |-> "manual_handoff", state |-> "available",
           endpoint |-> None, provider |-> None, credential |-> None]
    BY <1>1 DEF create_profile
<1>3. p \in ProfileRow
    BY <1>2, Given DEF ProfileRow, ConnectionMethod, ConnectionState
<1>. QED BY <1>2, <1>3 DEF ConnectionProfile

LEMMA ProfileSteps ==
    ASSUME IInv, NEW s \in Sessions, ensure_manual_profile(s) \/ acquire_manual_profile_lock(s)
    PROVE  IInv'
<1>. DEFINE m == mine[s]  j == job[s]
<1>1. profiles \subseteq ConnectionProfile
    BY DEF IInv, Tables, TypeOK
<1>2. pc[s] \in {"profile", "profile_lock"}
    BY DEF ensure_manual_profile, acquire_manual_profile_lock
<1>3. PICK found : found = get_manual_profile(profiles, Principal)
    OBVIOUS
<1>4. CASE found # None /\ Connected(s, found)
    BY <1>1, <1>2, <1>3, <1>4, ManualProfile, Connects
<1>5. ASSUME NEW id \in ConnectionIds,
             Connected(s, create_profile(id, Principal, "manual_handoff", None, None))
      PROVE  IInv'
    BY <1>2, <1>5, CreatedProfile, Connects
<1>6. CASE /\ Goes(s, "profile_lock") /\ pc[s] = "profile"
           /\ UNCHANGED <<clock, tables, job, view, answer, mine>>
  <2>1. Manual("profile", j, m)
      BY <1>6, WhereMcp
  <2>2. Turns(s, "profile_lock", j, m, view[s], answer[s])
      BY <1>6, Kept DEF IInv, Turns, Goes
  <2>3. Working("profile_lock", j, m, view[s], answer[s])
      BY <2>1, WhereMcp DEF Working, Manual
  <2>. QED BY <1>6, <2>2, <2>3, WhereMcp, Local DEF Labels
<1>. QED BY <1>3, <1>4, <1>5, <1>6 DEF ensure_manual_profile, acquire_manual_profile_lock

-----------------------------------------------------------------------------
(* The application of a gate's answer. *)

(* What is recorded of an answer is about its call, and names an attempt     *)
(* where G3 allowed it.                                                      *)
LEMMA Recording ==
    ASSUME NEW v, NEW effects, NEW a, a = montar_aplicacao(v, effects),
           HumanProtectionApplication(a)
    PROVE  /\ a.gate_position = v.binding.gate_position /\ a.step = v.binding.step
           /\ a.outcome = desfecho(v)
           /\ a.attempt # None <=> v.binding.gate_position = "g3" /\ desfecho(v) = "allowed"
           /\ a.attempt # None => a.attempt = v.binding.attempt
           /\ Key(a)[2] = v.binding.gate_position
<1>1. /\ a.gate_position = v.binding.gate_position /\ a.step = v.binding.step
      /\ a.outcome = desfecho(v) /\ a.binding_attempt = v.binding.attempt
      /\ Key(a)[2] = v.binding.gate_position
    BY DEF montar_aplicacao, Key
<1>2. /\ a.attempt # None <=> a.gate_position = "g3" /\ a.outcome = "allowed"
      /\ a.attempt # None => a.attempt = a.binding_attempt
    BY DEF HumanProtectionApplication, validar_desfecho
<1>. QED BY <1>1, <1>2

LEMMA Applies ==
    ASSUME IInv, NEW s \in Sessions, registrar_aplicacao(s)
    PROVE  IInv'
<1>. DEFINE m == mine[s]  j == job[s]  v == view[s]
<1>3. PICK label : label = AfterGate(j.kind, v)
    OBVIOUS
<1>4. CASE Abort(s)
    BY <1>4, Aborts
<1>5. CASE ~ Abort(s)
  <2>0. PICK next \in PortWrites(j.kind, v, j.efeitos), revoked \in 0 .. MaxRevoked :
            LET a == montar_aplicacao(v, Effects(v, j.efeitos, revoked))
            IN  /\ pc[s] = "apply"
                /\ \A t \in Others(s) : \A e \in mine[t].events : Key(e) # Key(a)
                /\ HumanProtectionApplication(a) /\ CHECKS_DO_EVENTO(a)
                /\ ler_aplicacao(events, Key(a)) # {} => confirmar_vencedor(events, a)
                /\ label # "refused"
                /\ mine' = [mine EXCEPT
                       ![s].events = IF ler_aplicacao(events, Key(a)) = {} THEN @ \cup {a}
                                     ELSE @,
                       ![s].state = next]
                /\ answer' = [answer EXCEPT ![s] = a]
                /\ Goes(s, label)
                /\ UNCHANGED <<clock, tables, job, view>>
      BY <1>3, <1>5 DEF registrar_aplicacao
  <2>30. PICK a : a = montar_aplicacao(v, Effects(v, j.efeitos, revoked))
      OBVIOUS
  <2>1. /\ pc[s] = "apply"
        /\ \A t \in Others(s) : \A e \in mine[t].events : Key(e) # Key(a)
        /\ HumanProtectionApplication(a) /\ CHECKS_DO_EVENTO(a)
        /\ ler_aplicacao(events, Key(a)) # {} => confirmar_vencedor(events, a)
        /\ label # "refused"
        /\ mine' = [mine EXCEPT
               ![s].events = IF ler_aplicacao(events, Key(a)) = {} THEN @ \cup {a} ELSE @,
               ![s].state = next]
        /\ answer' = [answer EXCEPT ![s] = a]
        /\ Goes(s, label)
        /\ UNCHANGED <<clock, tables, job, view>>
      BY <2>0, <2>30
  <2>. DEFINE new == ler_aplicacao(events, Key(a)) = {}
              written == IF new THEN m.events \cup {a} ELSE m.events
  <2>2. PICK n : n = [m EXCEPT !.events = written, !.state = next]
      OBVIOUS
  <2>3. /\ n.events = written /\ n.attempt = m.attempt /\ n.claim = m.claim /\ n.state = next
        /\ n.profile = m.profile
        /\ n = [events |-> n.events, attempt |-> n.attempt, claim |-> n.claim, state |-> n.state,
                profile |-> n.profile]
    <3>1. m = [events |-> m.events, attempt |-> m.attempt, claim |-> m.claim,
               state |-> m.state, profile |-> m.profile]
        BY WhereMcp DEF Shape
    <3>. HIDE DEF written, m
    <3>. DEFINE k == [m EXCEPT !.events = written]
                l == [k EXCEPT !.state = next]
    <3>3. n = l
        BY <2>2, <3>1
    <3>4. k = [events |-> written, attempt |-> m.attempt, claim |-> m.claim,
               state |-> m.state, profile |-> m.profile]
        BY <3>1
    <3>. HIDE DEF k
    <3>5. l = [events |-> written, attempt |-> m.attempt, claim |-> m.claim,
               state |-> next, profile |-> m.profile]
        BY <3>4
    <3>. HIDE DEF l
    <3>. QED BY <3>3, <3>5
  <2>4. mine' = [mine EXCEPT ![s] = n]
      BY <2>1, <2>2
  <2>5. /\ a.gate_position = v.binding.gate_position /\ a.step = v.binding.step
        /\ a.outcome = desfecho(v)
        /\ a.attempt # None <=> v.binding.gate_position = "g3" /\ desfecho(v) = "allowed"
        /\ a.attempt # None => a.attempt = v.binding.attempt
        /\ Key(a)[2] = v.binding.gate_position
    <3>1. PICK effects : a = montar_aplicacao(v, effects)
        BY <2>30
    <3>. QED BY <2>1, <3>1, Recording
  <2>6. \/ Gate("apply", j, m, v) \/ First("apply", j, m, v) \/ Second("apply", j, m, v)
      BY <2>1, WhereMcp
  <2>7. Asked(j, m, v)
      BY <2>6 DEF Gate, First, Second
  <2>8. a.gate_position = j.gate /\ a.step = j.step
      BY <2>5, <2>7 DEF Asked
  <2>9. next \in {None, "ACTIVE", "PAUSED"}
      BY DEF PortWrites
  <2>10. Shape(n)
      BY <2>3, <2>9, WhereMcp DEF Shape
  <2>11. Turns(s, label, j, n, v, a)
      BY <2>1, <2>4, Kept DEF IInv, Turns, Goes
  <2>12. new \/ a \in events
      BY <2>1 DEF confirmar_vencedor, ler_aplicacao
  <2>13. new => \A f \in events : Key(f) # Key(a)
      BY DEF ler_aplicacao
  <2>14. Taken(n) = Taken(m)
      BY <2>3 DEF Taken
  \* where the call goes on
  <2>15. /\ j.kind # "mcp" => label = "commit"
         /\ j.kind = "mcp" => /\ desfecho(v) = "allowed" /\ next = None
                              /\ label = IF j.gate = "g2" THEN "claim" ELSE "seal"
    <3>1. j.kind # "mcp" => label = "commit"
        BY <1>3 DEF AfterGate
    <3>2. j.kind = "mcp" => /\ ~ blocked(v)
                            /\ label = IF j.gate = "g2" THEN "claim" ELSE "seal"
        BY <1>3, <2>1, <2>7 DEF AfterGate, Asked
    <3>3. j.kind = "mcp" => next = None
        BY <3>2 DEF PortWrites, PauseAsked, ResumeAsked
    <3>4. ~ blocked(v) => desfecho(v) = "allowed"
        BY DEF blocked, desfecho
    <3>. QED BY <3>1, <3>2, <3>3, <3>4
  <2>16. next # None => j.step # None
    <3>1. next # None => j.gate # "g1"
      <4>1. next # None => PauseAsked(v, j.efeitos) \/ ResumeAsked(j.kind, v)
          BY DEF PortWrites
      <4>2. PauseAsked(v, j.efeitos) => j.gate # "g1"
          BY <2>7 DEF PauseAsked, Asked
      <4>3. ResumeAsked(j.kind, v) => j.gate # "g1"
          BY <2>6 DEF ResumeAsked, Gate, First, Second
      <4>. QED BY <4>1, <4>2, <4>3
    <3>. QED BY <2>6, <3>1, Given DEF Gate, First, Second
  <2>17. a.attempt # None => j.gate = "g3"
      BY <2>5, <2>7 DEF Asked
  <2>19. Waiting(j, a)
      BY <2>1, <2>17 DEF Waiting
  <2>20. \A e \in m.events : Second("apply", j, m, v) /\ Waiting(j, e) /\ Key(e) # Key(a)
    <3>1. ASSUME NEW e \in m.events
          PROVE  Second("apply", j, m, v) /\ Waiting(j, e) /\ Key(e) # Key(a)
      <4>1. Second("apply", j, m, v)
          BY <2>6, <3>1 DEF Gate, First, Nothing
      <4>2. Waiting(j, e) /\ e.gate_position = "g2"
          BY <3>1, <4>1, WhereMcp DEF Second
      <4>3. Key(e)[2] = e.gate_position
          BY DEF Key
      <4>. QED BY <2>5, <2>8, <4>1, <4>2, <4>3 DEF Second
    <3>. QED BY <3>1
  <2>21. /\ \A e \in n.events : Waiting(j, e)
         /\ \A e, f \in n.events : Key(e) = Key(f) => e = f
    <3>1. \A e \in n.events : e \in m.events \/ e = a
        BY <2>3
    <3>. QED BY <2>19, <2>20, <3>1, WhereMcp
  <2>22. Second("apply", j, m, v) => a \in n.events
    <3>1. ASSUME Second("apply", j, m, v), a \in events PROVE FALSE
      <4>1. /\ desfecho(v) = "allowed" /\ j.gate = "g3"
            /\ v.binding.attempt = m.claim.attempt /\ m.claim # None
          BY <2>7, <2>15, <3>1 DEF Second, Asked
      <4>2. m.claim \in Claim /\ m.claim.attempt \in Attempts
          BY <4>1, WhereMcp DEF Shape, Claim
      <4>3. a.attempt = m.claim.attempt /\ a.attempt # None /\ m.claim.attempt \in Taken(m)
          BY <2>5, <2>8, <4>1, <4>2, Given DEF Taken
      <4>4. PICK x \in attempts : x.id = a.attempt
          BY <3>1, <4>3 DEF IInv, Tables, EveryAttemptAccounted
      <4>. QED BY <4>3, <4>4, WhereMcp DEF Ahead
    <3>. QED BY <2>3, <2>12, <3>1
  <2>23. Working(label, j, n, v, a)
    <3>1. CASE Gate("apply", j, m, v)
      <4>1. Gate("commit", j, n, v) /\ label = "commit"
          BY <2>3, <2>15, <2>16, <3>1 DEF Gate
      <4>. QED BY <2>21, <4>1 DEF Working
    <3>2. CASE First("apply", j, m, v)
      <4>1. First("claim", j, n, v) /\ label = "claim"
          BY <2>3, <2>8, <2>15, <3>2, Given DEF First, Nothing
      <4>. QED BY <2>21, <4>1 DEF Working
    <3>3. CASE Second("apply", j, m, v)
      <4>1. label = "seal" /\ next = None
          BY <2>15, <3>3 DEF Second
      <4>2. a.attempt = m.claim.attempt /\ a.step = j.step
          BY <2>5, <2>7, <2>8, <2>15, <3>3, Given DEF Second, Asked
      <4>3. \A f \in n.events : f.attempt # None => f = a
          BY <2>3, <3>3 DEF Second
      <4>4. Second("seal", j, n, v)
          BY <2>3, <2>22, <3>3, <4>1, <4>2, <4>3 DEF Second
      <4>. QED BY <2>21, <4>1, <4>4 DEF Working
    <3>. QED BY <2>6, <3>1, <3>2, <3>3
  <2>24. Ahead(j, n, a)
    <3>1. \A e \in n.events, f \in events : Key(e) # Key(f)
        BY <2>3, <2>13, WhereMcp DEF Ahead
    <3>2. a \in events \cup n.events
        BY <2>3, <2>12
    <3>. QED BY <2>3, <2>14, <3>1, <3>2, WhereMcp DEF Ahead
  <2>25. ASSUME NEW t \in Sessions, t # s PROVE Apart(j, n, job[t], mine[t])
    <3>1. \A e \in n.events, f \in mine[t].events : Key(e) # Key(f)
      <4>1. \A f \in mine[t].events : Key(f) # Key(a)
          BY <2>1, <2>25 DEF Others
      <4>2. \A e \in m.events, f \in mine[t].events : Key(e) # Key(f)
          BY <2>25, WhereMcp DEF Apart
      <4>. QED BY <2>3, <4>1, <4>2
    <3>. QED BY <2>3, <2>14, <2>25, <3>1, WhereMcp DEF Apart
  <2>26. label \in Labels
      BY <2>15 DEF Labels
  <2>. QED BY <2>1, <2>10, <2>11, <2>23, <2>24, <2>25, <2>26, WhereMcp, Local
<1>. QED BY <1>4, <1>5

-----------------------------------------------------------------------------
(* The steps that change a table. *)

(* A session ends or stays idle, the tables take what it wrote, and what the *)
(* others wait to write is not disturbed.                                    *)
LEMMA Global ==
    ASSUME IInv, NEW s \in Sessions, NEW v, Turns(s, "idle", NoJob, Nothing, v, None), Tables',
           \A x \in attempts' : x.id \in Taken(mine[s]) \/ \E y \in attempts : y.id = x.id,
           events \subseteq events', events' \subseteq events \cup mine[s].events,
           \A k \in Keys : claims'[k] = claims[k] \/ (mine[s].claim # None /\ k = job[s].key),
           \A t \in Sessions : t # s /\ mine[t].attempt # None
                                   /\ schedule[ScheduleOf[job[t].step]] # "CANCELLED"
               => schedule'[ScheduleOf[job[t].step]] # "CANCELLED"
    PROVE  IInv'
<1>. Shapes /\ WorkInv /\ AheadInv /\ ApartInv /\ Tables
    BY DEF IInv
<1>1. /\ Shapes'
      /\ pc'[s] = "idle" /\ job'[s] = NoJob /\ mine'[s] = Nothing /\ view'[s] = v
      /\ answer'[s] = None
      /\ \A t \in Sessions : t # s =>
             /\ pc'[t] = pc[t] /\ job'[t] = job[t] /\ mine'[t] = mine[t]
             /\ view'[t] = view[t] /\ answer'[t] = answer[t]
    BY Turned, NothingLeft DEF Labels
<1>2. WorkInv'
  <2>1. Working("idle", NoJob, Nothing, v, None)
      BY NothingLeft DEF Working, Idle, Nothing
  <2>2. ASSUME NEW t \in Sessions
        PROVE  Working(pc'[t], job'[t], mine'[t], view'[t], answer'[t])
      BY <1>1, <2>1 DEF WorkInv
  <2>. QED BY <2>2 DEF WorkInv
<1>3. AheadInv'
  <2>1. Ahead(job[s], mine[s], answer[s])'
      BY <1>1, NothingLeft DEF Ahead, Nothing, Taken
  <2>2. ASSUME NEW t \in Sessions, t # s
        PROVE  Ahead(job[t], mine[t], answer[t])'
    <3>1. Ahead(job[t], mine[t], answer[t]) /\ Apart(job[s], mine[s], job[t], mine[t])
        BY <2>2 DEF AheadInv, ApartInv
    <3>2. \A x \in attempts' : x.id \notin Taken(mine[t])
        BY <3>1 DEF Ahead, Apart
    <3>3. \A e \in mine[t].events, f \in events' : Key(e) # Key(f)
        BY <3>1 DEF Ahead, Apart
    <3>4. mine[t].claim # None => claims'[job[t].key] = None
      <4>1. mine[t].claim # None => job[t].key \in Keys
          BY DEF WorkInv, Working, Idle, Manual, Gate, First, Second, Nothing
      <4>. QED BY <3>1, <4>1 DEF Ahead, Apart
    <3>5. answer[t] # None => answer[t] \in events' \cup mine[t].events
        BY <3>1 DEF Ahead
    <3>6. mine[t].attempt # None => schedule'[ScheduleOf[job[t].step]] # "CANCELLED"
        BY <2>2, <3>1 DEF Ahead
    <3>7. mine'[t] = mine[t] /\ job'[t] = job[t] /\ answer'[t] = answer[t]
        BY <1>1, <2>2
    <3>. QED BY <3>2, <3>3, <3>4, <3>5, <3>6, <3>7 DEF Ahead
  <2>. QED BY <2>1, <2>2 DEF AheadInv
<1>4. ApartInv'
  <2>1. \A k, n : Apart(NoJob, Nothing, k, n) /\ Apart(k, n, NoJob, Nothing)
      BY NothingLeft, ApartBothWays
  <2>2. ASSUME NEW t \in Sessions, NEW u \in Sessions, t # u
        PROVE  Apart(job'[t], mine'[t], job'[u], mine'[u])
    <3>1. CASE t = s
        BY <1>1, <2>1, <3>1
    <3>2. CASE u = s
        BY <1>1, <2>1, <3>2
    <3>3. CASE t # s /\ u # s
        BY <1>1, <2>2, <3>3 DEF ApartInv
    <3>. QED BY <3>1, <3>2, <3>3
  <2>. QED BY <2>2 DEF ApartInv
<1>. QED BY <1>1, <1>2, <1>3, <1>4 DEF IInv

(* What a transaction has written when it commits, by the call it belongs to.*)
LEMMA AtCommit ==
    ASSUME IInv, NEW s \in Sessions, pc[s] = "commit", NEW m, m = mine[s], NEW j, j = job[s]
    PROVE  /\ Shape(m)
           /\ \A e \in m.events : Waiting(j, e)
           /\ \A x \in attempts : x.id \notin Taken(m)
           /\ m.attempt # None =>
                  /\ m.attempt \in AttemptRow /\ m.attempt.id \in Taken(m)
                  /\ m.attempt.step = j.step /\ j.step \in Steps /\ m.state = None
                  /\ schedule[ScheduleOf[j.step]] # "CANCELLED"
                  /\ m.attempt.mode = "supervised" <=> m.claim # None
                  /\ m.attempt.mode = "manual" <=> m.profile # None
           /\ m.claim # None =>
                  /\ m.attempt # None /\ j.key \in Keys /\ claims[j.key] = None
                  /\ m.claim = [step |-> m.attempt.step, attempt |-> m.attempt.id]
                  /\ \E e \in m.events : /\ e.attempt = m.attempt.id /\ e.step = m.attempt.step
                                         /\ \A f \in m.events : f.attempt # None => f = e
           /\ m.claim = None => \A e \in m.events : e.attempt = None
           /\ m.profile # None =>
                  /\ m.attempt # None /\ m.profile \in ConnectionProfile
                  /\ m.profile.principal = Principal /\ m.profile.method = "manual_handoff"
           /\ m.state # None => m.state \in {"ACTIVE", "PAUSED"} /\ j.step \in Steps
<1>1. /\ Shape(m) /\ \A e \in m.events : Waiting(j, e)
      /\ j \in Job
      /\ Ahead(j, m, answer[s])
    BY WhereMcp
<1>2. Manual("commit", j, m) \/ Gate("commit", j, m, view[s]) \/ First("commit", j, m, view[s])
          \/ Second("commit", j, m, view[s])
    BY DEF IInv, WorkInv, Working, Idle
<1>3. \A x \in attempts : x.id \notin Taken(m)
    BY <1>1 DEF Ahead
<1>4. m.attempt # None => m.attempt \in AttemptRow /\ m.attempt.id \in Taken(m)
    BY <1>1 DEF Shape, Taken, AttemptRow
<1>5. /\ m.attempt # None => schedule[ScheduleOf[j.step]] # "CANCELLED"
      /\ m.claim # None => claims[j.key] = None
    BY <1>1 DEF Ahead
<1>6. m.claim # None => m.claim = [step |-> m.claim.step, attempt |-> m.claim.attempt]
    BY <1>1 DEF Shape, Claim
<1>7. CASE Manual("commit", j, m)
    BY <1>1, <1>3, <1>4, <1>5, <1>7, Given DEF Manual, Shape
<1>8. CASE Gate("commit", j, m, view[s])
  <2>1. \A e \in m.events : e.attempt = None
      BY <1>1, <1>8 DEF Gate, Waiting
  <2>2. m.state # None => m.state \in {"ACTIVE", "PAUSED"} /\ j.step \in Steps
      BY <1>1, <1>8 DEF Gate, Shape, Job
  <2>. QED BY <1>1, <1>3, <1>8, <2>1, <2>2 DEF Gate
<1>9. CASE First("commit", j, m, view[s])
  <2>1. \A e \in m.events : e.attempt = None
      BY <1>1, <1>9 DEF First, Waiting
  <2>. QED BY <1>1, <1>3, <1>9, <2>1 DEF First
<1>10. CASE Second("commit", j, m, view[s])
  <2>1. /\ m.attempt # None /\ m.claim # None /\ m.profile = None /\ m.state = None
        /\ m.attempt.id = m.claim.attempt /\ m.attempt.step = j.step /\ m.claim.step = j.step
        /\ m.attempt.mode = "supervised" /\ j.step \in Steps /\ j.key \in Keys
      BY <1>10 DEF Second
  <2>2. \E e \in m.events : /\ e.attempt = m.attempt.id /\ e.step = m.attempt.step
                            /\ \A f \in m.events : f.attempt # None => f = e
      BY <1>10, <2>1 DEF Second
  <2>. QED BY <1>1, <1>3, <1>4, <1>5, <1>6, <2>1, <2>2
<1>. QED BY <1>2, <1>7, <1>8, <1>9, <1>10

(* A transaction that commits. *)
Lands(s) ==
    /\ AttemptsExist(s) /\ \A e \in mine[s].events : hp_event_coherence(e)
    /\ ProfileIndexes(WithProfile(s))
    /\ events' = events \cup mine[s].events
    /\ attempts' = attempts \cup Rows(s)
    /\ step' = IF mine[s].attempt = None THEN step
               ELSE [step EXCEPT ![job[s].step] = "AWAITING_RETURN"]
    /\ claims' = IF mine[s].claim = None THEN claims
                 ELSE [claims EXCEPT ![job[s].key] = mine[s].claim]
    /\ schedule' = IF mine[s].state = None THEN schedule
                   ELSE [schedule EXCEPT ![ScheduleOf[job[s].step]] = mine[s].state]
    /\ profiles' = WithProfile(s)
    /\ receipts' = receipts \cup Recorded(mine[s])
    /\ Forget(s)
    /\ UNCHANGED clock

LEMMA LandsTypes ==
    ASSUME IInv, NEW s \in Sessions, pc[s] = "commit", Lands(s)
    PROVE  TypeOK' /\ claims' \in [Keys -> Claim \cup {None}]
<1>1. PICK m : m = mine[s]
    OBVIOUS
<1>2. PICK j : j = job[s]
    OBVIOUS
<1>. TypeOK /\ claims \in [Keys -> Claim \cup {None}]
    BY DEF IInv, Tables, Receipted
<1>3. clock' \in 0 .. MaxTime
    BY DEF Lands, TypeOK
<1>4. schedule' \in [Schedules -> {"ACTIVE", "PAUSED", "CANCELLED"}]
  <2>1. m.state # None => m.state \in {"ACTIVE", "PAUSED"}
      BY <1>1, <1>2, AtCommit
  <2>. QED BY <1>1, <2>1 DEF Lands, TypeOK
<1>5. step' \in [Steps -> {"PENDING", "AWAITING_RETURN", "RETURNED", "CANCELLED"}]
    BY DEF Lands, TypeOK
<1>6. attempts' \subseteq AttemptRow
  <2>1. m.attempt # None => m.attempt \in AttemptRow
      BY <1>1, <1>2, AtCommit
  <2>. QED BY <1>1, <2>1 DEF Lands, TypeOK, Rows
<1>8. \A e \in events' : /\ HumanProtectionApplication(e) /\ CHECKS_DO_EVENTO(e)
                         /\ hp_event_coherence(e)
  <2>1. \A e \in m.events : Waiting(j, e)
      BY <1>1, <1>2, AtCommit
  <2>. QED BY <1>1, <2>1 DEF Lands, TypeOK, Waiting
<1>9. profiles' \subseteq ConnectionProfile /\ \A r \in receipts' : r.attribution \in ExecutionAttribution
  <2>1. m.profile # None => m.profile \in ConnectionProfile
      BY <1>1, <1>2, AtCommit
  <2>2. \A id \in ConnectionIds : manual_attribution(id) \in ExecutionAttribution
      BY DEF manual_attribution, ExecutionAttribution, ConnectionMethod, ModelAttestationLevel
  <2>3. m.profile # None => m.profile.id \in ConnectionIds
      BY <2>1 DEF ConnectionProfile, ProfileRow
  <2>. QED BY <1>1, <2>1, <2>2, <2>3 DEF Lands, TypeOK, WithProfile, Recorded
<1>10. claims' \in [Keys -> Claim \cup {None}]
  <2>1. m.claim \in Claim \cup {None}
      BY <1>1, <1>2, AtCommit DEF Shape
  <2>. QED BY <1>1, <2>1 DEF Lands
<1>. QED BY <1>3, <1>4, <1>5, <1>6, <1>8, <1>9, <1>10 DEF TypeOK

(* The evidence an attempt has, before and after. *)
LEMMA LandsAttempts ==
    ASSUME IInv, NEW s \in Sessions, pc[s] = "commit", Lands(s)
    PROVE  /\ \A x, y \in attempts' : x.id = y.id => x = y
           /\ \A x \in attempts' :
                 IF x.mode = "supervised"
                 THEN /\ \E e \in AllowedG3(x)' : AllowedG3(x)' = {e} /\ e.step = x.step
                      /\ \E k \in Keys : claims'[k] = [step |-> x.step, attempt |-> x.id]
                      /\ ReceiptsOf(x)' = {}
                 ELSE AllowedG3(x)' = {} /\ \E r \in ReceiptsOf(x)' : ReceiptsOf(x)' = {r}
<1>1. PICK m : m = mine[s]
    OBVIOUS
<1>2. PICK j : j = job[s]
    OBVIOUS
<1>. EveryAttemptAccounted /\ Receipted
    BY DEF IInv, Tables
<1>3. /\ events' = events \cup m.events
      /\ attempts' = attempts \cup (IF m.attempt = None THEN {} ELSE {m.attempt})
      /\ claims' = IF m.claim = None THEN claims ELSE [claims EXCEPT ![j.key] = m.claim]
      /\ receipts' = receipts \cup Recorded(m)
    BY <1>1, <1>2 DEF Lands, Rows
<1>4. /\ \A x \in attempts : x.id \notin Taken(m)
      /\ m.attempt # None =>
             /\ m.attempt \in AttemptRow /\ m.attempt.id \in Taken(m)
             /\ m.attempt.mode = "supervised" <=> m.claim # None
             /\ m.attempt.mode = "manual" <=> m.profile # None
      /\ m.claim # None =>
             /\ m.attempt # None /\ j.key \in Keys /\ claims[j.key] = None
             /\ m.claim = [step |-> m.attempt.step, attempt |-> m.attempt.id]
             /\ \E e \in m.events : /\ e.attempt = m.attempt.id /\ e.step = m.attempt.step
                                    /\ \A f \in m.events : f.attempt # None => f = e
      /\ m.claim = None => \A e \in m.events : e.attempt = None
      /\ m.profile # None => m.attempt # None
    BY <1>1, <1>2, AtCommit
<1>5. \A e \in m.events : e.attempt = None \/ (m.attempt # None /\ e.attempt = m.attempt.id)
    BY <1>4
<1>6. \A r \in Recorded(m) : m.attempt # None /\ r.attempt = m.attempt.id
    BY <1>4 DEF Recorded
<1>7. attempts \subseteq AttemptRow /\ claims \in [Keys -> Claim \cup {None}]
    BY DEF IInv, Tables, TypeOK, Receipted
<1>8. \A x, y \in attempts' : x.id = y.id => x = y
    BY <1>3, <1>4 DEF EveryAttemptAccounted
<1>9. \A x : AllowedG3(x)' = AllowedG3(x) \cup {e \in m.events : e.attempt = x.id}
    BY <1>3 DEF AllowedG3
<1>10. \A x : ReceiptsOf(x)' = ReceiptsOf(x) \cup {r \in Recorded(m) : r.attempt = x.id}
    BY <1>3 DEF ReceiptsOf
<1>11. ASSUME NEW x \in attempts
       PROVE  /\ AllowedG3(x)' = AllowedG3(x) /\ ReceiptsOf(x)' = ReceiptsOf(x)
              /\ \A k \in Keys : claims[k] = [step |-> x.step, attempt |-> x.id]
                      => claims'[k] = [step |-> x.step, attempt |-> x.id]
  <2>1. x.id # None /\ (m.attempt # None => x.id # m.attempt.id)
      BY <1>4, <1>7, Given DEF AttemptRow
  <2>2. [step |-> x.step, attempt |-> x.id] # None
      BY <1>7, Given DEF AttemptRow, Claim
  <2>3. {e \in m.events : e.attempt = x.id} = {} /\ {r \in Recorded(m) : r.attempt = x.id} = {}
      BY <1>5, <1>6, <2>1
  <2>4. AllowedG3(x)' = AllowedG3(x) /\ ReceiptsOf(x)' = ReceiptsOf(x)
      BY <1>9, <1>10, <2>3
  <2>5. ASSUME NEW k \in Keys, claims[k] = [step |-> x.step, attempt |-> x.id]
        PROVE  claims'[k] = [step |-> x.step, attempt |-> x.id]
      BY <1>3, <1>4, <1>7, <2>2, <2>5
  <2>. QED BY <2>4, <2>5
<1>12. ASSUME NEW x, x = m.attempt, x # None
       PROVE  AllowedG3(x) = {} /\ ReceiptsOf(x) = {}
  <2>1. x.id # None /\ \A y \in attempts : y.id # x.id
      BY <1>4, <1>12, Given DEF AttemptRow
  <2>. QED BY <2>1 DEF AllowedG3, ReceiptsOf, EveryAttemptAccounted, Receipted
<1>13. ASSUME NEW x, x = m.attempt, x # None
       PROVE  IF x.mode = "supervised"
              THEN /\ \E e \in AllowedG3(x)' : AllowedG3(x)' = {e} /\ e.step = x.step
                   /\ \E k \in Keys : claims'[k] = [step |-> x.step, attempt |-> x.id]
                   /\ ReceiptsOf(x)' = {}
              ELSE AllowedG3(x)' = {} /\ \E r \in ReceiptsOf(x)' : ReceiptsOf(x)' = {r}
  <2>1. AllowedG3(x)' = {e \in m.events : e.attempt = x.id}
        /\ ReceiptsOf(x)' = {r \in Recorded(m) : r.attempt = x.id}
      BY <1>9, <1>10, <1>12, <1>13
  <2>2. x.id # None
      BY <1>4, <1>13, Given DEF AttemptRow
  <2>3. CASE x.mode = "supervised"
    <3>1. m.claim # None /\ m.profile = None
        BY <1>4, <1>13, <2>3
    <3>2. PICK e \in m.events : /\ e.attempt = x.id /\ e.step = x.step
                                /\ \A f \in m.events : f.attempt # None => f = e
        BY <1>4, <1>13, <3>1
    <3>3. {f \in m.events : f.attempt = x.id} = {e}
        BY <2>2, <3>2
    <3>4. claims'[j.key] = [step |-> x.step, attempt |-> x.id] /\ j.key \in Keys
        BY <1>3, <1>4, <1>7, <1>13, <3>1
    <3>5. Recorded(m) = {}
        BY <3>1 DEF Recorded
    <3>6. AllowedG3(x)' = {e} /\ ReceiptsOf(x)' = {}
        BY <2>1, <3>3, <3>5
    <3>. QED BY <2>3, <3>2, <3>4, <3>6
  <2>4. CASE x.mode # "supervised"
    <3>1. m.claim = None /\ m.profile # None
        BY <1>4, <1>13, <2>4 DEF AttemptRow
    <3>2. AllowedG3(x)' = {}
        BY <1>4, <2>1, <2>2, <3>1
    <3>. DEFINE r == [principal |-> Principal, step |-> m.attempt.step, attempt |-> m.attempt.id,
                      attribution |-> manual_attribution(m.profile.id)]
    <3>3. Recorded(m) = {r} /\ r.attempt = x.id
        BY <1>13, <3>1 DEF Recorded
    <3>. HIDE DEF r
    <3>4. ReceiptsOf(x)' = {r}
        BY <2>1, <3>3
    <3>. QED BY <2>4, <3>2, <3>4
  <2>. QED BY <2>3, <2>4
<1>14. ASSUME NEW x \in attempts
       PROVE  IF x.mode = "supervised"
              THEN /\ \E e \in AllowedG3(x)' : AllowedG3(x)' = {e} /\ e.step = x.step
                   /\ \E k \in Keys : claims'[k] = [step |-> x.step, attempt |-> x.id]
                   /\ ReceiptsOf(x)' = {}
              ELSE AllowedG3(x)' = {} /\ \E r \in ReceiptsOf(x)' : ReceiptsOf(x)' = {r}
    BY <1>11 DEF EveryAttemptAccounted
<1>. QED BY <1>3, <1>8, <1>13, <1>14

(* What names an attempt, and what is left open. *)
LEMMA LandsNames ==
    ASSUME IInv, NEW s \in Sessions, pc[s] = "commit", Lands(s)
    PROVE  /\ \A r \in receipts' : \E x \in attempts' : x.id = r.attempt
           /\ \A e \in events' : e.attempt # None => \E x \in attempts' : x.id = e.attempt
           /\ \A k \in Keys : claims'[k] # None =>
                 \E x \in attempts' : x.id = claims'[k].attempt /\ x.step = claims'[k].step
           /\ ReceiptKeys(receipts', profiles') /\ ProfileIndexes(profiles')
           /\ \A e, f \in events' : Key(e) = Key(f) => e = f
           /\ CancelledIsClosed'
<1>1. PICK m : m = mine[s]
    OBVIOUS
<1>2. PICK j : j = job[s]
    OBVIOUS
<1>. EveryAttemptAccounted /\ Receipted
    BY DEF IInv, Tables
<1>3. /\ events' = events \cup m.events
      /\ attempts' = attempts \cup (IF m.attempt = None THEN {} ELSE {m.attempt})
      /\ claims' = IF m.claim = None THEN claims ELSE [claims EXCEPT ![j.key] = m.claim]
      /\ receipts' = receipts \cup Recorded(m)
      /\ profiles' = IF m.profile = None THEN profiles ELSE profiles \cup {m.profile}
    BY <1>1, <1>2 DEF Lands, Rows, WithProfile
<1>4. /\ \A x \in attempts : x.id \notin Taken(m)
      /\ m.attempt # None =>
             /\ m.attempt.id \in Taken(m) /\ m.attempt.step = j.step /\ j.step \in Steps
             /\ m.state = None /\ schedule[ScheduleOf[j.step]] # "CANCELLED"
      /\ m.claim # None =>
             /\ m.attempt # None /\ j.key \in Keys
             /\ m.claim = [step |-> m.attempt.step, attempt |-> m.attempt.id]
      /\ m.profile # None =>
             /\ m.attempt # None
             /\ m.profile.principal = Principal /\ m.profile.method = "manual_handoff"
      /\ m.state # None => m.state \in {"ACTIVE", "PAUSED"}
    BY <1>1, <1>2, AtCommit
<1>5. \A r \in Recorded(m) : m.attempt # None /\ r.attempt = m.attempt.id
    BY <1>4 DEF Recorded
<1>6. \A r \in receipts' : \E x \in attempts' : x.id = r.attempt
    BY <1>3, <1>5 DEF Receipted
<1>7. \A e \in events' : e.attempt # None => \E x \in attempts' : x.id = e.attempt
  <2>1. \A e \in m.events : e.attempt # None => \E x \in attempts' : x.id = e.attempt
      BY <1>1 DEF Lands, AttemptsExist
  <2>. QED BY <1>3, <2>1 DEF EveryAttemptAccounted
<1>8. ASSUME NEW k \in Keys, claims'[k] # None
      PROVE  \E x \in attempts' : x.id = claims'[k].attempt /\ x.step = claims'[k].step
  <2>1. CASE m.claim # None /\ k = j.key
      BY <1>3, <1>4, <2>1 DEF Receipted
  <2>2. CASE claims'[k] = claims[k]
      BY <1>3, <1>8, <2>2 DEF EveryAttemptAccounted
  <2>. QED BY <1>3, <1>4, <2>1, <2>2 DEF Receipted
<1>9. ReceiptKeys(receipts', profiles')
  <2>1. \A r, q \in receipts' : r.attempt = q.attempt => r = q
    <3>1. \A r, q \in Recorded(m) : r = q
        BY DEF Recorded
    <3>2. \A r \in receipts, q \in Recorded(m) : r.attempt # q.attempt
        BY <1>4, <1>5 DEF Receipted
    <3>. QED BY <1>3, <3>1, <3>2 DEF EveryAttemptAccounted, ReceiptKeys
  <2>2. \A r \in Recorded(m) :
            /\ m.profile \in profiles' /\ m.profile.id = r.attribution.connection
            /\ m.profile.principal = r.principal /\ m.profile.method = r.attribution.method
      BY <1>3, <1>4 DEF Recorded, manual_attribution
  <2>3. \A r \in receipts : \E p \in profiles' :
            /\ p.id = r.attribution.connection /\ p.principal = r.principal
            /\ p.method = r.attribution.method
      BY <1>3 DEF EveryAttemptAccounted, ReceiptKeys
  <2>. QED BY <1>3, <2>1, <2>2, <2>3 DEF ReceiptKeys
<1>10. ProfileIndexes(profiles')
    BY DEF Lands
<1>11. \A e, f \in events' : Key(e) = Key(f) => e = f
  <2>1. \A e, f \in events : Key(e) = Key(f) => e = f
      BY DEF IInv, Tables
  <2>2. \A e \in m.events, f \in events : Key(e) # Key(f)
      BY <1>1, WhereMcp DEF Ahead
  <2>3. \A e, f \in m.events : Key(e) = Key(f) => e = f
      BY <1>1, WhereMcp
  <2>. QED BY <1>3, <2>1, <2>2, <2>3
<1>12. CancelledIsClosed'
  <2>1. \A c \in Schedules : schedule'[c] = "CANCELLED" => schedule[c] = "CANCELLED"
      BY <1>1, <1>2, <1>4 DEF Lands, IInv, Tables, TypeOK
  <2>2. \A x \in attempts : ScheduleOf[x.step] \in Schedules
      BY Given DEF IInv, Tables, TypeOK, AttemptRow
  <2>3. m.attempt # None => schedule'[ScheduleOf[m.attempt.step]] # "CANCELLED"
      BY <1>1, <1>4 DEF Lands
  <2>. QED BY <1>3, <2>1, <2>2, <2>3 DEF CancelledIsClosed, IInv, Tables
<1>. QED BY <1>6, <1>7, <1>8, <1>9, <1>10, <1>11, <1>12

LEMMA Commits ==
    ASSUME IInv, NEW s \in Sessions, Commit(s)
    PROVE  IInv'
<1>1. pc[s] = "commit" /\ (Lands(s) \/ Abort(s))
    BY DEF Commit, Lands
<1>2. CASE Lands(s)
  <2>1. Tables'
    <3>1. Receipted'
        BY <1>1, <1>2, LandsTypes, LandsNames DEF Receipted, TypeOK
    <3>2. EveryAttemptAccounted'
        BY <1>1, <1>2, LandsAttempts, LandsNames DEF EveryAttemptAccounted
    <3>. QED BY <1>1, <1>2, <3>1, <3>2, LandsTypes, LandsNames DEF Tables
  <2>2. Turns(s, "idle", NoJob, Nothing, None, None)
      BY <1>2, Forgets DEF Lands
  <2>3. \A x \in attempts' : x.id \in Taken(mine[s]) \/ \E y \in attempts : y.id = x.id
    <3>1. mine[s].attempt # None => mine[s].attempt.id \in Taken(mine[s])
        BY <1>1, AtCommit
    <3>. QED BY <1>2, <3>1 DEF Lands, Rows
  <2>4. events \subseteq events' /\ events' \subseteq events \cup mine[s].events
      BY <1>2 DEF Lands
  <2>5. \A k \in Keys : claims'[k] = claims[k] \/ (mine[s].claim # None /\ k = job[s].key)
      BY <1>2 DEF Lands, IInv, Tables, Receipted
  <2>6. \A t \in Sessions : t # s /\ mine[t].attempt # None
                                  /\ schedule[ScheduleOf[job[t].step]] # "CANCELLED"
            => schedule'[ScheduleOf[job[t].step]] # "CANCELLED"
    <3>1. mine[s].state # None => mine[s].state \in {"ACTIVE", "PAUSED"}
        BY <1>1, AtCommit
    <3>2. \A c : schedule[c] # "CANCELLED" => schedule'[c] # "CANCELLED"
        BY <1>2, <3>1 DEF Lands, IInv, Tables, TypeOK
    <3>. QED BY <3>2
  <2>. QED BY <2>1, <2>2, <2>3, <2>4, <2>5, <2>6, Global
<1>. QED BY <1>1, <1>2, Aborts

(* Attempts change their state and nothing else. *)
LEMMA Restated ==
    ASSUME IInv, UNCHANGED <<clock, events, claims, profiles, receipts>>,
           step' \in [Steps -> {"PENDING", "AWAITING_RETURN", "RETURNED", "CANCELLED"}],
           schedule' \in [Schedules -> {"ACTIVE", "PAUSED", "CANCELLED"}],
           \A y \in attempts' : /\ y \in AttemptRow
                                /\ \E x \in attempts : /\ x.id = y.id /\ x.step = y.step
                                                       /\ x.mode = y.mode,
           \A x \in attempts : \E y \in attempts' : y.id = x.id /\ y.step = x.step,
           \A x, y \in attempts' : x.id = y.id => x = y,
           CancelledIsClosed'
    PROVE  Tables'
<1>. Tables
    BY DEF IInv
<1>1. TypeOK'
    BY DEF Tables, TypeOK
<1>2. Receipted'
    BY DEF Tables, Receipted
<1>3. ASSUME NEW y \in attempts'
      PROVE  IF y.mode = "supervised"
             THEN /\ \E e \in AllowedG3(y)' : AllowedG3(y)' = {e} /\ e.step = y.step
                  /\ \E k \in Keys : claims'[k] = [step |-> y.step, attempt |-> y.id]
                  /\ ReceiptsOf(y)' = {}
             ELSE AllowedG3(y)' = {} /\ \E r \in ReceiptsOf(y)' : ReceiptsOf(y)' = {r}
  <2>1. PICK x \in attempts : x.id = y.id /\ x.step = y.step /\ x.mode = y.mode
      OBVIOUS
  <2>2. AllowedG3(y)' = AllowedG3(x) /\ ReceiptsOf(y)' = ReceiptsOf(x) /\ claims' = claims
      BY <2>1 DEF AllowedG3, ReceiptsOf
  <2>3. IF x.mode = "supervised"
        THEN /\ \E e \in AllowedG3(x) : AllowedG3(x) = {e} /\ e.step = x.step
             /\ \E k \in Keys : claims[k] = [step |-> x.step, attempt |-> x.id]
             /\ ReceiptsOf(x) = {}
        ELSE AllowedG3(x) = {} /\ \E r \in ReceiptsOf(x) : ReceiptsOf(x) = {r}
      BY DEF Tables, EveryAttemptAccounted
  <2>. QED BY <2>1, <2>2, <2>3
<1>4. /\ \A e \in events' : e.attempt # None => \E x \in attempts' : x.id = e.attempt
      /\ \A k \in Keys : claims'[k] # None =>
            \E x \in attempts' : x.id = claims'[k].attempt /\ x.step = claims'[k].step
      /\ ReceiptKeys(receipts', profiles') /\ ProfileIndexes(profiles')
  <2>1. \A e \in events : e.attempt # None => \E y \in attempts' : y.id = e.attempt
      BY DEF Tables, EveryAttemptAccounted
  <2>2. ASSUME NEW k \in Keys, claims[k] # None
        PROVE  \E y \in attempts' : y.id = claims[k].attempt /\ y.step = claims[k].step
    <3>1. PICK x \in attempts : x.id = claims[k].attempt /\ x.step = claims[k].step
        BY <2>2 DEF Tables, EveryAttemptAccounted
    <3>2. PICK y \in attempts' : y.id = x.id /\ y.step = x.step
        OBVIOUS
    <3>. QED BY <3>1, <3>2
  <2>3. ReceiptKeys(receipts, profiles) /\ ProfileIndexes(profiles)
      BY DEF Tables, EveryAttemptAccounted
  <2>. QED BY <2>1, <2>2, <2>3
<1>5. EveryAttemptAccounted'
    BY <1>3, <1>4 DEF EveryAttemptAccounted
<1>6. \A e, f \in events' : Key(e) = Key(f) => e = f
    BY DEF Tables
<1>. QED BY <1>1, <1>2, <1>5, <1>6 DEF Tables

(* A closed attempt is the same attempt. *)
LEMMA ClosedRow ==
    ASSUME NEW x \in AttemptRow, NEW state \in {"VALIDATED", "REJECTED", "CANCELLED"}
    PROVE  /\ Closed(x, state) \in AttemptRow /\ Closed(x, state).id = x.id
           /\ Closed(x, state).step = x.step /\ Closed(x, state).mode = x.mode
           /\ Closed(x, state).state = state
BY DEF Closed, AttemptRow

LEMMA Imports ==
    ASSUME IInv, NEW s \in Sessions, import_return(s)
    PROVE  IInv'
<1>1. PICK x \in attempts, state \in {"VALIDATED", "REJECTED"} :
          /\ pc[s] = "idle" /\ x.state = "OPEN"
          /\ attempts' = (attempts \ {x}) \cup {Closed(x, state)}
          /\ step' = IF state = "VALIDATED" THEN [step EXCEPT ![x.step] = "RETURNED"] ELSE step
          /\ UNCHANGED <<clock, schedule, events, claims, profiles, receipts,
                         pc, job, view, answer, mine>>
    BY DEF import_return
<1>2. PICK y : y = Closed(x, state)
    OBVIOUS
<1>3. attempts \subseteq AttemptRow /\ \A u, w \in attempts : u.id = w.id => u = w
    BY DEF IInv, Tables, TypeOK, EveryAttemptAccounted
<1>4. /\ y \in AttemptRow /\ y.id = x.id /\ y.step = x.step /\ y.mode = x.mode /\ y.state = state
    BY <1>2, <1>3, ClosedRow
<1>5. attempts' = (attempts \ {x}) \cup {y}
    BY <1>1, <1>2
<1>6. CancelledIsClosed'
  <2>1. \A u \in attempts : schedule[ScheduleOf[u.step]] = "CANCELLED" => u.state # "OPEN"
      BY DEF IInv, Tables, CancelledIsClosed
  <2>. QED BY <1>1, <1>4, <1>5, <2>1 DEF CancelledIsClosed
<1>7. Tables'
  <2>1. /\ step' \in [Steps -> {"PENDING", "AWAITING_RETURN", "RETURNED", "CANCELLED"}]
        /\ schedule' \in [Schedules -> {"ACTIVE", "PAUSED", "CANCELLED"}]
      BY <1>1 DEF IInv, Tables, TypeOK
  <2>2. \A u \in attempts' : /\ u \in AttemptRow
                             /\ \E w \in attempts : /\ w.id = u.id /\ w.step = u.step
                                                    /\ w.mode = u.mode
      BY <1>3, <1>4, <1>5
  <2>3. \A w \in attempts : \E u \in attempts' : u.id = w.id /\ u.step = w.step
      BY <1>4, <1>5
  <2>4. \A u, w \in attempts' : u.id = w.id => u = w
      BY <1>3, <1>4, <1>5
  <2>. QED BY <1>1, <1>6, <2>1, <2>2, <2>3, <2>4, Restated
<1>8. Turns(s, "idle", NoJob, Nothing, view[s], None)
    BY <1>1, IdleHas, Kept DEF IInv, Turns
<1>9. \A u \in attempts' : \E w \in attempts : w.id = u.id
    BY <1>4, <1>5
<1>. QED BY <1>1, <1>7, <1>8, <1>9, Global

(* What is still to be written under a lock is not of the Schedule that is   *)
(* cancelled, nor of a step of it.                                           *)
LEMMA LocksSpare ==
    ASSUME IInv, NEW s \in Sessions, NEW c \in Schedules, ScheduleFree(s, c),
           \A p \in Steps : ScheduleOf[p] = c => StepFree(s, p),
           NEW t \in Sessions, t # s, mine[t].attempt # None
    PROVE  ScheduleOf[job[t].step] # c
<1>1. t \in Others(s)
    BY DEF Others
<1>2. ~ ScheduleHeld(t, c) /\ \A p \in Steps : ScheduleOf[p] = c => ~ StepHeld(t, p)
    BY <1>1 DEF ScheduleFree, StepFree
<1>3. \/ Idle(pc[t], job[t], mine[t], answer[t]) \/ Manual(pc[t], job[t], mine[t])
      \/ Gate(pc[t], job[t], mine[t], view[t])
      \/ First(pc[t], job[t], mine[t], view[t]) \/ Second(pc[t], job[t], mine[t], view[t])
    BY DEF IInv, WorkInv, Working
<1>4. CASE Idle(pc[t], job[t], mine[t], answer[t]) \/ First(pc[t], job[t], mine[t], view[t])
    BY <1>4 DEF Idle, First, Nothing
<1>5. CASE Manual(pc[t], job[t], mine[t])
    BY <1>2, <1>5, Given DEF Manual, ScheduleHeld
<1>6. CASE Gate(pc[t], job[t], mine[t], view[t])
    BY <1>2, <1>6 DEF Gate, ScheduleHeld
<1>7. CASE Second(pc[t], job[t], mine[t], view[t])
    BY <1>2, <1>7 DEF Second, StepHeld
<1>. QED BY <1>3, <1>4, <1>5, <1>6, <1>7

LEMMA Cancels ==
    ASSUME IInv, NEW s \in Sessions, cancelar(s)
    PROVE  IInv'
<1>1. PICK c \in Schedules :
          /\ pc[s] = "idle" /\ ScheduleFree(s, c)
          /\ \A p \in Steps : ScheduleOf[p] = c => StepFree(s, p)
          /\ schedule' = [schedule EXCEPT ![c] = "CANCELLED"]
          /\ step' = [p \in Steps |-> IF ScheduleOf[p] = c /\ step[p] # "RETURNED"
                                      THEN "CANCELLED" ELSE step[p]]
          /\ attempts' = {IF ScheduleOf[x.step] = c /\ x.state = "OPEN" THEN Closed(x, "CANCELLED")
                          ELSE x : x \in attempts}
          /\ UNCHANGED <<clock, events, claims, profiles, receipts,
                         pc, job, view, answer, mine>>
    BY DEF cancelar
<1>. DEFINE Now(x) == IF ScheduleOf[x.step] = c /\ x.state = "OPEN" THEN Closed(x, "CANCELLED")
                      ELSE x
<1>2. attempts \subseteq AttemptRow /\ \A u, w \in attempts : u.id = w.id => u = w
    BY DEF IInv, Tables, TypeOK, EveryAttemptAccounted
<1>3. \A x \in attempts : /\ Now(x) \in AttemptRow /\ Now(x).id = x.id /\ Now(x).step = x.step
                          /\ Now(x).mode = x.mode
    BY <1>2, ClosedRow
<1>4. \A x \in attempts : /\ ScheduleOf[x.step] = c => Now(x).state # "OPEN"
                          /\ x.state # "OPEN" => Now(x).state # "OPEN"
    BY <1>2, ClosedRow
<1>5. attempts' = {Now(x) : x \in attempts}
    BY <1>1
<1>. HIDE DEF Now
<1>6. CancelledIsClosed'
  <2>1. \A u \in attempts : schedule[ScheduleOf[u.step]] = "CANCELLED" => u.state # "OPEN"
      BY DEF IInv, Tables, CancelledIsClosed
  <2>2. \A d \in Schedules : schedule'[d] = "CANCELLED" => d = c \/ schedule[d] = "CANCELLED"
      BY <1>1 DEF IInv, Tables, TypeOK
  <2>3. \A x \in attempts : ScheduleOf[x.step] \in Schedules
      BY <1>2, Given DEF AttemptRow
  <2>4. \A x \in attempts : schedule'[ScheduleOf[Now(x).step]] = "CANCELLED" => Now(x).state # "OPEN"
      BY <1>3, <1>4, <2>1, <2>2, <2>3
  <2>. QED BY <1>5, <2>4 DEF CancelledIsClosed
<1>7. Tables'
  <2>1. /\ step' \in [Steps -> {"PENDING", "AWAITING_RETURN", "RETURNED", "CANCELLED"}]
        /\ schedule' \in [Schedules -> {"ACTIVE", "PAUSED", "CANCELLED"}]
      BY <1>1 DEF IInv, Tables, TypeOK
  <2>2. \A u \in attempts' : /\ u \in AttemptRow
                             /\ \E w \in attempts : /\ w.id = u.id /\ w.step = u.step
                                                    /\ w.mode = u.mode
      BY <1>3, <1>5
  <2>3. \A w \in attempts : \E u \in attempts' : u.id = w.id /\ u.step = w.step
      BY <1>3, <1>5
  <2>4. \A u, w \in attempts' : u.id = w.id => u = w
      BY <1>2, <1>3, <1>5
  <2>. QED BY <1>1, <1>6, <2>1, <2>2, <2>3, <2>4, Restated
<1>8. Turns(s, "idle", NoJob, Nothing, view[s], None)
    BY <1>1, IdleHas, Kept DEF IInv, Turns
<1>9. \A u \in attempts' : \E w \in attempts : w.id = u.id
    BY <1>3, <1>5
<1>10. \A t \in Sessions : t # s /\ mine[t].attempt # None
                                 /\ schedule[ScheduleOf[job[t].step]] # "CANCELLED"
           => schedule'[ScheduleOf[job[t].step]] # "CANCELLED"
  <2>1. \A t \in Sessions : t # s /\ mine[t].attempt # None
            => ScheduleOf[job[t].step] # c
      BY <1>1, LocksSpare
  <2>2. \A d : d # c => schedule'[d] = schedule[d]
      BY <1>1 DEF IInv, Tables, TypeOK
  <2>. QED BY <2>1, <2>2
<1>. QED BY <1>1, <1>7, <1>8, <1>9, <1>10, Global

LEMMA Ticks ==
    ASSUME IInv, Tick \/ UNCHANGED vars
    PROVE  IInv'
<1>1. /\ UNCHANGED <<schedule, step, attempts, events, claims, profiles, receipts>>
      /\ UNCHANGED <<pc, job, view, answer, mine>>
    BY DEF Tick, vars, tables
<1>2. clock' \in 0 .. MaxTime
    BY Given DEF Tick, vars, IInv, Tables, TypeOK
<1>3. Shapes'
    BY <1>1 DEF IInv, Shapes
<1>4. WorkInv' /\ ApartInv'
    BY <1>1 DEF IInv, WorkInv, ApartInv
<1>5. AheadInv'
  <2>1. ASSUME NEW t \in Sessions PROVE Ahead(job[t], mine[t], answer[t])'
    <3>1. Ahead(job[t], mine[t], answer[t])
        BY DEF IInv, AheadInv
    <3>. QED BY <1>1, <3>1 DEF Ahead
  <2>. QED BY <2>1 DEF AheadInv
<1>6. Tables'
    BY <1>1, <1>2 DEF IInv, Tables, TypeOK, Receipted, EveryAttemptAccounted, CancelledIsClosed,
                      AllowedG3, ReceiptsOf
<1>. QED BY <1>3, <1>4, <1>5, <1>6 DEF IInv

-----------------------------------------------------------------------------
LEMMA InitIInv == Init => IInv
<1>. SUFFICES ASSUME Init PROVE IInv
    OBVIOUS
<1>1. Shapes
    BY NothingLeft DEF Init, Shapes, Labels
<1>2. \A s \in Sessions : /\ pc[s] = "idle" /\ job[s] = NoJob /\ mine[s] = Nothing
                          /\ view[s] = None /\ answer[s] = None
    BY DEF Init
<1>3. WorkInv /\ AheadInv /\ ApartInv
    BY <1>2, NothingLeft DEF WorkInv, AheadInv, ApartInv
<1>4. TypeOK
    BY Given DEF Init, TypeOK
<1>5. Receipted /\ CancelledIsClosed /\ \A e, f \in events : Key(e) = Key(f) => e = f
    BY DEF Init, Receipted, CancelledIsClosed
<1>6. EveryAttemptAccounted
    BY DEF Init, EveryAttemptAccounted, ReceiptKeys, ProfileIndexes
<1>. QED BY <1>1, <1>3, <1>4, <1>5, <1>6 DEF IInv, Tables

LEMMA NextIInv == IInv /\ [Next]_vars => IInv'
<1>. SUFFICES ASSUME IInv, [Next]_vars PROVE IInv'
    OBVIOUS
<1>1. CASE Tick \/ UNCHANGED vars
    BY <1>1, Ticks
<1>2. ASSUME NEW s \in Sessions, aplicar(s) \/ retomar(s) \/ exportar(s) PROVE IInv'
    BY <1>2, GateBegins
<1>3. ASSUME NEW s \in Sessions, Unavailable(s) \/ PortFails(s) PROVE IInv'
    BY <1>3, Aborts DEF Unavailable, PortFails
<1>4. ASSUME NEW s \in Sessions, registrar_aplicacao(s) PROVE IInv'
    BY <1>4, Applies
<1>5. ASSUME NEW s \in Sessions, claim_command(s) PROVE IInv'
    BY <1>5, Claims
<1>6. ASSUME NEW s \in Sessions, lock_step(s) PROVE IInv'
    BY <1>6, Locks
<1>7. ASSUME NEW s \in Sessions, seal_step_for_export(s) PROVE IInv'
    BY <1>7, Seals
<1>8. ASSUME NEW s \in Sessions, export_step(s) PROVE IInv'
    BY <1>8, Exports
<1>9. ASSUME NEW s \in Sessions, ensure_manual_profile(s) \/ acquire_manual_profile_lock(s)
      PROVE  IInv'
    BY <1>9, ProfileSteps
<1>10. ASSUME NEW s \in Sessions, Commit(s) PROVE IInv'
    BY <1>10, Commits
<1>11. ASSUME NEW s \in Sessions, import_return(s) PROVE IInv'
    BY <1>11, Imports
<1>12. ASSUME NEW s \in Sessions, cancelar(s) PROVE IInv'
    BY <1>12, Cancels
<1>. QED BY <1>1, <1>2, <1>3, <1>4, <1>5, <1>6, <1>7, <1>8, <1>9, <1>10, <1>11, <1>12 DEF Next

(* The tables hold only rows they accept: an event of the gates is an        *)
(* application its constructor takes and passes the checks, a receipt has an *)
(* attribution its method allows.                                            *)
THEOREM TypeCorrect == Spec => []TypeOK
<1>1. IInv => TypeOK
    BY DEF IInv, Tables
<1>. QED BY <1>1, InitIInv, NextIInv, PTL DEF Spec

(* Attempts, gates, command keys and receipts account for each other, and    *)
(* what a gate answered is what is recorded under its key.                   *)
THEOREM ExportsAreAccounted == Spec => []ExportsAccounted
<1>1. IInv => ExportsAccounted
  <2>. SUFFICES ASSUME IInv PROVE ExportsAccounted
      OBVIOUS
  <2>1. EveryAttemptAccounted /\ \A e, f \in events : Key(e) = Key(f) => e = f
      BY DEF IInv, Tables
  <2>2. \A s \in Sessions : answer[s] # None => answer[s] \in events \cup mine[s].events
      BY DEF IInv, AheadInv, Ahead
  <2>. QED BY <2>1, <2>2 DEF ExportsAccounted, AnswersRecorded
<1>. QED BY <1>1, InitIInv, NextIInv, PTL DEF Spec

(* A cancelled Schedule has no open attempt, whoever was sealing one.        *)
THEOREM CancelledStaysClosed == Spec => []CancelledIsClosed
<1>1. IInv => CancelledIsClosed
    BY DEF IInv, Tables
<1>. QED BY <1>1, InitIInv, NextIInv, PTL DEF Spec

=============================================================================
