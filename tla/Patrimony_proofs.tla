-------------------------- MODULE Patrimony_proofs --------------------------
(* Proofs about Patrimony for any number of sessions and of objects.         *)
EXTENDS Patrimony, FiniteSetTheorems, TLAPS

(* A session that revises or derives holds the row of its only source.       *)
Locking(t) == pc[t] \in {"check", "flush", "commit"} /\ call[t] # "merge"

(* What a session is about: sources that exist, a new object that does not.  *)
CallInv ==
    /\ \A t \in Txs : pc[t] = "idle" => alvo[t] = None /\ fontes[t] = {}
    /\ \A t \in Txs : pc[t] # "idle" => fontes[t] \subseteq Existing
    /\ \A t \in Txs : pc[t] # "idle" => alvo[t] \in Coids /\ object[alvo[t]] = None
    /\ \A t \in Txs : pc[t] # "idle" /\ call[t] # "merge" => \E x \in Coids : fontes[t] = {x}
    /\ \A t \in Txs : pc[t] # "idle" /\ call[t] = "merge" => Cardinality(fontes[t]) >= 2
    /\ \A t \in Txs : pc[t] \in {"check", "flush"} => call[t] = "revise"
    /\ \A t \in Txs : pc[t] = "refresh" => call[t] # "merge"
    /\ \A t \in Txs : pc[t] = "load" => call[t] = "merge"
    /\ \A t, u \in Txs : t # u /\ alvo[t] # None => alvo[t] # alvo[u]

(* What a session read: its row is still as read while it is locked; of a row *)
(* read without a lock only the CLID, once there is one, is still the same.   *)
ReadInv ==
    /\ \A t \in Txs : pc[t] = "idle" => \A x \in Coids : lido[t][x] = None
    /\ \A t \in Txs : Locking(t) => \A x \in fontes[t] : lido[t][x] = object[x]
    /\ \A t \in Txs : \A x \in fontes[t] :
           /\ pc[t] = "commit" => lido[t][x] # None
           /\ lido[t][x] # None /\ lido[t][x].clid # None => object[x].clid = lido[t][x].clid

(* The lineages: a CLID is the name of an object, no revision is without one, *)
(* and a lineage that has a superseded object has its CURRENT one.            *)
LineInv ==
    /\ \A x \in Existing : object[x].clid # None => object[x].clid \in Existing
    /\ \A x \in Existing : object[x].status # "NONE" => object[x].clid # None
    /\ \A x \in Existing : object[x].status = "SUPERSEDED" => CurrentOf(object[x].clid) # {}
    /\ OneCurrentPerClid

(* The revisions under way: their source is not superseded, and one that is   *)
(* past the index is alone under its CLID, with no other CURRENT object.      *)
RevisionInv ==
    /\ \A t \in Txs : \A x \in fontes[t] :
           pc[t] \in {"flush", "commit"} /\ call[t] = "revise" => object[x].status # "SUPERSEDED"
    /\ \A t \in Txs : \A x \in fontes[t] :
           pc[t] = "commit" /\ call[t] = "revise" => IndexAdmits(t, x)
    /\ \A t, u \in Txs : \A x \in fontes[t], y \in fontes[u] :
           /\ pc[t] = "commit" /\ call[t] = "revise"
           /\ pc[u] = "commit" /\ call[u] = "revise"
           /\ ResolvedClid(t, x) = ResolvedClid(u, y)
           => t = u

(* The records: their sources and their new object exist. *)
RecordInv ==
    /\ \A r \in records : r.inputs \subseteq Existing /\ r.output \in Existing \ r.inputs
    /\ LineageKeepsClid

IInv == TypeOK /\ CallInv /\ ReadInv /\ LineInv /\ RevisionInv /\ RecordInv

-----------------------------------------------------------------------------
(* The bounds are numbers, and None is none of what it is told from. *)
LEMMA Distinct ==
    /\ Coids \subseteq Nat /\ None \notin Coids /\ None \notin Objects /\ None \notin Txs
    /\ Clids = Coids
BY PatrimonyAssumption DEF Coids, Clids

(* A row is a record of its two columns. *)
LEMMA Row ==
    ASSUME NEW o \in Objects
    PROVE  /\ o = [clid |-> o.clid, status |-> o.status]
           /\ o.clid \in Coids \cup {None} /\ o.status \in Statuses
BY Distinct DEF Objects

LEMMA ExistingRow ==
    ASSUME TypeOK, NEW x \in Existing
    PROVE  x \in Coids /\ object[x] \in Objects
BY DEF TypeOK, Existing

(* The sessions, locks and program counters have their types, and the locks   *)
(* are those of the sessions that lock.                                       *)
Sessions ==
    /\ lock \in [Coids -> Txs \cup {None}]
    /\ pc \in [Txs -> {"idle", "refresh", "check", "flush", "load", "commit"}]
    /\ call \in [Txs -> {"derive", "revise", "merge"}]
    /\ fontes \in [Txs -> SUBSET Coids]
    /\ alvo \in [Txs -> Coids \cup {None}]
    /\ lido \in [Txs -> [Coids -> Objects \cup {None}]]
    /\ \A t \in Txs : {x \in Coids : lock[x] = t} = IF Locking(t) THEN fontes[t] ELSE {}

Tables ==
    /\ object \in [Coids -> Objects \cup {None}]
    /\ records \subseteq Records

LEMMA TypeParts == TypeOK <=> Sessions /\ Tables
BY DEF TypeOK, Sessions, Tables, Locking

(* The other sessions go on as they were. *)
Alone(t) ==
    \A u \in Txs \ {t} :
        /\ pc'[u] = pc[u] /\ call'[u] = call[u] /\ fontes'[u] = fontes[u]
        /\ alvo'[u] = alvo[u] /\ lido'[u] = lido[u]

(* The session that ends forgets its call and leaves no lock. *)
LEMMA Ended ==
    ASSUME Sessions, NEW t \in Txs, End(t)
    PROVE  /\ Sessions'
           /\ Alone(t)
           /\ pc'[t] = "idle" /\ fontes'[t] = {} /\ alvo'[t] = None
           /\ \A x \in Coids : lido'[t][x] = None
<1>1. /\ pc'[t] = "idle" /\ fontes'[t] = {} /\ alvo'[t] = None
      /\ lido'[t] = [x \in Coids |-> None]
      /\ Alone(t)
    BY DEF Sessions, End, Alone
<1>2. /\ pc' \in [Txs -> {"idle", "refresh", "check", "flush", "load", "commit"}]
      /\ call' \in [Txs -> {"derive", "revise", "merge"}]
      /\ fontes' \in [Txs -> SUBSET Coids]
      /\ alvo' \in [Txs -> Coids \cup {None}]
      /\ lido' \in [Txs -> [Coids -> Objects \cup {None}]]
    BY DEF Sessions, End
<1>3. lock' \in [Coids -> Txs \cup {None}]
    BY DEF Sessions, End
<1>4. ASSUME NEW u \in Txs
      PROVE  {x \in Coids : lock'[x] = u} = IF Locking(u)' THEN fontes'[u] ELSE {}
  <2>1. CASE u = t
    <3>1. \A x \in Coids : lock'[x] # t
        BY Distinct DEF End
    <3>. QED BY <2>1, <3>1, <1>1 DEF Locking
  <2>2. CASE u # t
    <3>1. \A x \in Coids : lock'[x] = u <=> lock[x] = u
        BY <2>2, Distinct DEF End, Sessions
    <3>2. Locking(u)' <=> Locking(u)
        BY <2>2, <1>1 DEF Locking, Alone
    <3>. QED BY <2>2, <3>1, <3>2, <1>1 DEF Sessions, Alone
  <2>. QED BY <2>1, <2>2
<1>. QED BY <1>1, <1>2, <1>3, <1>4 DEF Sessions, Locking

(* What each step that only moves a session does to it. *)
LEMMA Starts ==
    ASSUME Sessions, CallInv, NEW t \in Txs, NEW new \in Coids, Start(t, new)
    PROVE  /\ Sessions' /\ Alone(t) /\ UNCHANGED <<object, records, lock, lido>>
           /\ pc[t] = "idle" /\ new \in Unused /\ alvo'[t] = new
           /\ fontes'[t] \subseteq Existing
           /\ \/ pc'[t] = "refresh" /\ call'[t] # "merge" /\ \E x \in Coids : fontes'[t] = {x}
              \/ pc'[t] = "load" /\ call'[t] = "merge" /\ Cardinality(fontes'[t]) >= 2
<1>1. PICK operation \in {"derive", "revise", "merge"}, sources \in SUBSET Existing :
          /\ Call(t, operation, sources, new)
          /\ IF operation = "merge" THEN Cardinality(sources) >= 2
             ELSE \E x \in Coids : sources = {x}
  <2>1. CASE \E source \in Existing : \E operation \in {"derive", "revise"} :
                 Call(t, operation, {source}, new)
    <3>1. PICK source \in Existing, operation \in {"derive", "revise"} :
              Call(t, operation, {source}, new)
        BY <2>1
    <3>2. source \in Coids
        BY DEF Existing
    <3>. QED BY <3>1, <3>2
  <2>. QED BY <2>1 DEF Start
<1>2. sources \subseteq Coids
    BY DEF Existing
<1>3. /\ pc' = [pc EXCEPT ![t] = IF operation = "merge" THEN "load" ELSE "refresh"]
      /\ call' = [call EXCEPT ![t] = operation]
      /\ fontes' = [fontes EXCEPT ![t] = sources]
      /\ alvo' = [alvo EXCEPT ![t] = new]
      /\ pc[t] = "idle" /\ new \in Unused
      /\ UNCHANGED <<object, records, lock, lido>>
    BY <1>1 DEF Call, Goto
<1>4. Alone(t)
    BY <1>3 DEF Alone, Sessions
<1>5. /\ pc'[t] = IF operation = "merge" THEN "load" ELSE "refresh"
      /\ call'[t] = operation /\ fontes'[t] = sources /\ alvo'[t] = new
    BY <1>3 DEF Sessions
<1>6. /\ pc' \in [Txs -> {"idle", "refresh", "check", "flush", "load", "commit"}]
      /\ call' \in [Txs -> {"derive", "revise", "merge"}]
      /\ fontes' \in [Txs -> SUBSET Coids]
      /\ alvo' \in [Txs -> Coids \cup {None}]
      /\ lock' \in [Coids -> Txs \cup {None}]
      /\ lido' \in [Txs -> [Coids -> Objects \cup {None}]]
    BY <1>2, <1>3 DEF Sessions
<1>7. \A u \in Txs : {x \in Coids : lock'[x] = u} = IF Locking(u)' THEN fontes'[u] ELSE {}
  <2>1. ~ Locking(t) /\ ~ Locking(t)'
      BY <1>3, <1>5 DEF Locking
  <2>2. ASSUME NEW u \in Txs, u # t PROVE (Locking(u)' <=> Locking(u)) /\ fontes'[u] = fontes[u]
      BY <1>4, <2>2 DEF Locking, Alone
  <2>3. UNCHANGED lock
      BY <1>3
  <2>. QED BY <2>1, <2>2, <2>3 DEF Sessions
<1>. QED BY <1>1, <1>3, <1>4, <1>5, <1>6, <1>7 DEF Sessions, Locking

LEMMA Refreshes ==
    ASSUME Sessions, CallInv, object \in [Coids -> Objects \cup {None}],
           NEW t \in Txs, Refresh(t)
    PROVE  /\ Sessions' /\ Alone(t)
           /\ UNCHANGED <<object, records, call, fontes, alvo>>
           /\ pc[t] = "refresh" /\ ~ Locking(t)
           /\ pc'[t] = IF call[t] = "revise" THEN "check" ELSE "commit"
           /\ call[t] # "merge"
           /\ \E x \in Coids : fontes[t] = {x} /\ lido'[t][x] = object[x]
<1>1. pc[t] = "refresh" /\ call[t] # "merge"
    BY DEF Refresh, CallInv
<1>2. PICK x \in Coids : fontes[t] = {x}
    BY <1>1 DEF CallInv
<1>3. /\ lock[x] = None
      /\ lock' = [lock EXCEPT ![x] = t]
      /\ lido' = [lido EXCEPT ![t][x] = object[x]]
      /\ pc' = [pc EXCEPT ![t] = IF call[t] = "revise" THEN "check" ELSE "commit"]
      /\ UNCHANGED <<object, records, call, fontes, alvo>>
    BY <1>2 DEF Refresh, refresh_for_update, Goto
<1>4. /\ pc'[t] = IF call[t] = "revise" THEN "check" ELSE "commit"
      /\ lido'[t][x] = object[x]
      /\ Alone(t)
    BY <1>3 DEF Sessions, Alone
<1>5. /\ pc' \in [Txs -> {"idle", "refresh", "check", "flush", "load", "commit"}]
      /\ lock' \in [Coids -> Txs \cup {None}]
      /\ lido' \in [Txs -> [Coids -> Objects \cup {None}]]
    BY <1>3 DEF Sessions
<1>6. ASSUME NEW u \in Txs
      PROVE  {y \in Coids : lock'[y] = u} = IF Locking(u)' THEN fontes'[u] ELSE {}
  <2>1. CASE u = t
    <3>1. Locking(t)' /\ ~ Locking(t)
        BY <1>1, <1>3, <1>4 DEF Locking
    <3>2. \A y \in Coids : lock'[y] = t <=> y = x
        BY <3>1, <1>3 DEF Sessions
    <3>. QED BY <2>1, <3>1, <3>2, <1>2, <1>3
  <2>2. CASE u # t
    <3>1. \A y \in Coids : lock'[y] = u <=> lock[y] = u
        BY <2>2, <1>3, Distinct DEF Sessions
    <3>2. Locking(u)' <=> Locking(u)
        BY <2>2, <1>4 DEF Locking, Alone
    <3>. QED BY <2>2, <3>1, <3>2, <1>4 DEF Sessions, Alone
  <2>. QED BY <2>1, <2>2
<1>7. Sessions'
    BY <1>3, <1>5, <1>6 DEF Sessions, Locking
<1>8. ~ Locking(t)
    BY <1>1 DEF Locking
<1>. QED BY <1>1, <1>2, <1>3, <1>4, <1>7, <1>8

(* A session that goes on after a check keeps its locks and what it read. *)
LEMMA GoesOn ==
    ASSUME Sessions, NEW t \in Txs, NEW label \in {"check", "flush", "commit"},
           pc[t] \in {"check", "flush"}, Goto(t, label), UNCHANGED <<lock, call, fontes, alvo, lido>>
    PROVE  Sessions' /\ Alone(t) /\ pc'[t] = label
<1>1. pc' = [pc EXCEPT ![t] = label]
    BY DEF Goto
<1>2. pc'[t] = label /\ Alone(t)
    BY <1>1 DEF Sessions, Alone
<1>3. \A u \in Txs : Locking(u)' <=> Locking(u)
    BY <1>2 DEF Locking, Alone
<1>. QED BY <1>1, <1>2, <1>3 DEF Sessions

LEMMA Checks ==
    ASSUME Sessions, CallInv, NEW t \in Txs, Check(t)
    PROVE  /\ Sessions' /\ Alone(t) /\ UNCHANGED <<object, records>>
           /\ \/ /\ pc[t] = "check" /\ call[t] = "revise" /\ pc'[t] = "flush"
                 /\ UNCHANGED <<lock, call, fontes, alvo, lido>>
                 /\ \A x \in fontes[t] : Revisable(t, x)
              \/ End(t)
<1>1. pc[t] = "check" /\ call[t] = "revise" /\ UNCHANGED <<object, records>>
    BY DEF Check, CallInv
<1>2. PICK x \in Coids : fontes[t] = {x}
    BY <1>1 DEF CallInv
<1>3. CASE End(t)
    BY <1>1, <1>3, Ended
<1>4. CASE Revisable(t, x) /\ Goto(t, "flush") /\ UNCHANGED <<lock, call, fontes, alvo, lido>>
  <2>1. Sessions' /\ Alone(t) /\ pc'[t] = "flush"
      BY <1>1, <1>4, GoesOn
  <2>. QED BY <2>1, <1>1, <1>2, <1>4
<1>. QED BY <1>2, <1>3, <1>4 DEF Check

LEMMA Flushes ==
    ASSUME Sessions, CallInv, NEW t \in Txs, FlushCurrent(t)
    PROVE  /\ Sessions' /\ Alone(t) /\ UNCHANGED <<object, records>>
           /\ \/ /\ pc[t] = "flush" /\ call[t] = "revise" /\ pc'[t] = "commit"
                 /\ UNCHANGED <<lock, call, fontes, alvo, lido>>
                 /\ \A x \in fontes[t] :
                        Inserting(ResolvedClid(t, x)) = {} /\ IndexAdmits(t, x)
              \/ End(t)
<1>1. pc[t] = "flush" /\ call[t] = "revise" /\ UNCHANGED <<object, records>>
    BY DEF FlushCurrent, CallInv
<1>2. PICK x \in Coids : fontes[t] = {x}
    BY <1>1 DEF CallInv
<1>3. CASE End(t)
    BY <1>1, <1>3, Ended
<1>4. CASE /\ Inserting(ResolvedClid(t, x)) = {}
           /\ IndexAdmits(t, x) /\ Goto(t, "commit")
           /\ UNCHANGED <<lock, call, fontes, alvo, lido>>
  <2>1. Sessions' /\ Alone(t) /\ pc'[t] = "commit"
      BY <1>1, <1>4, GoesOn
  <2>. QED BY <2>1, <1>1, <1>2, <1>4
<1>. QED BY <1>2, <1>3, <1>4 DEF FlushCurrent

LEMMA Loads ==
    ASSUME Sessions, CallInv, object \in [Coids -> Objects \cup {None}],
           NEW t \in Txs, Load(t)
    PROVE  /\ Sessions' /\ Alone(t)
           /\ UNCHANGED <<object, records, lock, call, fontes, alvo>>
           /\ pc[t] = "load" /\ call[t] = "merge"
           /\ \E x \in fontes[t] :
                  \A y \in Coids : lido'[t][y] = IF y = x THEN object[x] ELSE lido[t][y]
           /\ \/ pc'[t] = "load"
              \/ pc'[t] = "commit" /\ \A x \in fontes[t] : lido'[t][x] # None
<1>1. pc[t] = "load" /\ call[t] = "merge"
    BY DEF Load, CallInv
<1>2. PICK x \in fontes[t] : lido' = [lido EXCEPT ![t][x] = object[x]]
    BY DEF Load
<1>3. /\ pc' = [pc EXCEPT ![t] = IF \E y \in fontes[t] : lido'[t][y] = None
                                 THEN "load" ELSE "commit"]
      /\ UNCHANGED <<object, records, lock, call, fontes, alvo>>
    BY DEF Load, Goto
<1>4. x \in Coids
    BY DEF Sessions
<1>5. \A y \in Coids : lido'[t][y] = IF y = x THEN object[x] ELSE lido[t][y]
    BY <1>2, <1>4 DEF Sessions
<1>6. Alone(t)
    BY <1>2, <1>3, <1>4 DEF Sessions, Alone
<1>7. \/ pc'[t] = "load"
      \/ pc'[t] = "commit" /\ \A y \in fontes[t] : lido'[t][y] # None
    BY <1>3 DEF Sessions
<1>8. /\ pc' \in [Txs -> {"idle", "refresh", "check", "flush", "load", "commit"}]
      /\ lido' \in [Txs -> [Coids -> Objects \cup {None}]]
    BY <1>2, <1>3, <1>4 DEF Sessions
<1>9. \A u \in Txs : Locking(u)' <=> Locking(u)
    BY <1>1, <1>3, <1>6 DEF Locking, Alone
<1>10. Sessions'
    BY <1>3, <1>8, <1>9 DEF Sessions, Locking
<1>. QED BY <1>1, <1>2, <1>3, <1>5, <1>6, <1>7, <1>10

-----------------------------------------------------------------------------
(* What a commit leaves: the new object and, but for a merge, its source too. *)
Inherits(t, x, source, target) ==
    \A y \in Coids : object'[y] =
        IF y = alvo[t] THEN [clid |-> ResolvedClid(t, x), status |-> target]
        ELSE IF y = x THEN [clid |-> ResolvedClid(t, x), status |-> source]
        ELSE object[y]

LEMMA Resolved ==
    ASSUME IInv, NEW t \in Txs, NEW x \in fontes[t], pc[t] \in {"check", "flush", "commit"},
           call[t] # "merge"
    PROVE  /\ fontes[t] = {x} /\ x \in Existing /\ alvo[t] \in Coids \ Existing
           /\ lido[t][x] = object[x] /\ object[x] \in Objects
           /\ ResolvedClid(t, x) \in Coids
           /\ ResolvedClid(t, x) = IF object[x].clid # None THEN object[x].clid ELSE alvo[t]
           /\ object[x].clid = None => ResolvedClid(t, x) \notin Existing
           /\ object[x].clid # None => ResolvedClid(t, x) \in Existing
<1>1. /\ pc[t] # "idle" /\ fontes[t] = {x} /\ x \in Existing
      /\ alvo[t] \in Coids \ Existing
    BY DEF IInv, CallInv, Existing
<1>2. lido[t][x] = object[x]
    BY DEF IInv, ReadInv, Locking
<1>3. object[x] \in Objects
    BY <1>1, ExistingRow DEF IInv
<1>4. object[x].clid # None => object[x].clid \in Existing
    BY <1>1 DEF IInv, LineInv
<1>. QED BY <1>1, <1>2, <1>3, <1>4, Row DEF ResolvedClid

LEMMA Derives ==
    ASSUME IInv, NEW t \in Txs, derive(t)
    PROVE  /\ Sessions' /\ Alone(t) /\ End(t) /\ pc[t] = "commit" /\ call[t] = "derive"
           /\ records' = records \cup {NewRecord(t, "DERIVATION")}
           /\ \E x \in fontes[t] : Inherits(t, x, object[x].status, "NONE")
<1>1. pc[t] = "commit" /\ call[t] = "derive" /\ End(t)
    BY DEF derive
<1>2. PICK x \in fontes[t] :
          object' = [object EXCEPT
            ![x].clid = ResolvedClid(t, x),
            ![alvo[t]] = [clid |-> ResolvedClid(t, x), status |-> "NONE"]]
    BY DEF derive
<1>3. object \in [Coids -> Objects \cup {None}] /\ x \in Coids /\ alvo[t] \in Coids /\ alvo[t] # x
    BY <1>1, Resolved DEF IInv, TypeOK, Existing
<1>4. object[x] = [clid |-> object[x].clid, status |-> object[x].status]
    BY <1>1, Resolved, Row
<1>5. [object[x] EXCEPT !.clid = ResolvedClid(t, x)]
          = [clid |-> ResolvedClid(t, x), status |-> object[x].status]
    BY <1>4
<1>6. Inherits(t, x, object[x].status, "NONE")
    BY <1>2, <1>3, <1>5 DEF Inherits
<1>7. records' = records \cup {NewRecord(t, "DERIVATION")}
    BY DEF derive
<1>. QED BY <1>1, <1>6, <1>7, Ended, TypeParts DEF IInv

LEMMA Revises ==
    ASSUME IInv, NEW t \in Txs, revise(t)
    PROVE  /\ Sessions' /\ Alone(t) /\ End(t) /\ pc[t] = "commit" /\ call[t] = "revise"
           /\ records' = records \cup {NewRecord(t, "REVISION")}
           /\ \E x \in fontes[t] : Inherits(t, x, "SUPERSEDED", "CURRENT")
<1>1. pc[t] = "commit" /\ call[t] = "revise" /\ End(t)
    BY DEF revise
<1>2. PICK x \in fontes[t] :
          object' = [object EXCEPT
            ![x] = [clid |-> ResolvedClid(t, x), status |-> "SUPERSEDED"],
            ![alvo[t]] = [clid |-> ResolvedClid(t, x), status |-> "CURRENT"]]
    BY DEF revise
<1>3. object \in [Coids -> Objects \cup {None}] /\ x \in Coids /\ alvo[t] \in Coids
    BY <1>1, Resolved DEF IInv, TypeOK, Existing
<1>4. Inherits(t, x, "SUPERSEDED", "CURRENT")
    BY <1>2, <1>3 DEF Inherits
<1>5. records' = records \cup {NewRecord(t, "REVISION")}
    BY DEF revise
<1>. QED BY <1>1, <1>4, <1>5, Ended, TypeParts DEF IInv

(* A merged object has the CLID of its sources, as they are now, or none. *)
LEMMA MergedClid ==
    ASSUME IInv, NEW t \in Txs, pc[t] = "commit", call[t] = "merge"
    PROVE  /\ resolver_clid_do_alvo(t) \in Coids \cup {None}
           /\ resolver_clid_do_alvo(t) # None =>
                  \A x \in fontes[t] : object[x].clid = resolver_clid_do_alvo(t)
<1>1. ASSUME NEW x \in fontes[t]
      PROVE  /\ lido[t][x].clid \in Coids \cup {None}
             /\ lido[t][x].clid # None => object[x].clid = lido[t][x].clid
  <2>1. x \in Coids /\ lido[t][x] \in Objects
      BY DEF IInv, ReadInv, TypeOK
  <2>. QED BY <2>1, Row DEF IInv, ReadInv
<1>2. ReadClids(t) \subseteq Coids \cup {None}
    BY <1>1 DEF ReadClids
<1>3. IsFiniteSet(ReadClids(t))
  <2>1. IsFiniteSet(Coids)
      BY FS_Interval, PatrimonyAssumption DEF Coids
  <2>2. IsFiniteSet(Coids \cup {None})
      BY <2>1, FS_AddElement
  <2>. QED BY <2>2, <1>2, FS_Subset
<1>4. CASE Cardinality(ReadClids(t)) = 1
  <2>1. PICK c : ReadClids(t) = {c}
      BY <1>3, <1>4, FS_Singleton
  <2>2. (CHOOSE d \in ReadClids(t) : TRUE) = c
      BY <2>1
  <2>3. resolver_clid_do_alvo(t) = c
      BY <2>2, <1>4 DEF resolver_clid_do_alvo
  <2>4. \A x \in fontes[t] : lido[t][x].clid = c
      BY <2>1 DEF ReadClids
  <2>5. c \in Coids \cup {None}
      BY <2>1, <1>2
  <2>. QED BY <2>3, <2>4, <2>5, <1>1
<1>5. CASE Cardinality(ReadClids(t)) # 1
    BY <1>5 DEF resolver_clid_do_alvo
<1>. QED BY <1>4, <1>5

LEMMA Merges ==
    ASSUME IInv, NEW t \in Txs, derive_many(t)
    PROVE  /\ Sessions' /\ Alone(t) /\ End(t) /\ pc[t] = "commit" /\ call[t] = "merge"
           /\ records' = records \cup {NewRecord(t, "DERIVATION")}
           /\ alvo[t] \in Coids \ Existing
           /\ \A y \in Coids : object'[y] =
                  IF y = alvo[t] THEN [clid |-> resolver_clid_do_alvo(t), status |-> "NONE"]
                  ELSE object[y]
<1>1. /\ pc[t] = "commit" /\ call[t] = "merge" /\ End(t)
      /\ records' = records \cup {NewRecord(t, "DERIVATION")}
      /\ object' = [object EXCEPT
             ![alvo[t]] = [clid |-> resolver_clid_do_alvo(t), status |-> "NONE"]]
    BY DEF derive_many
<1>2. alvo[t] \in Coids \ Existing
    BY <1>1 DEF IInv, CallInv, Existing
<1>3. object \in [Coids -> Objects \cup {None}]
    BY DEF IInv, TypeOK
<1>4. \A y \in Coids : object'[y] =
          IF y = alvo[t] THEN [clid |-> resolver_clid_do_alvo(t), status |-> "NONE"]
          ELSE object[y]
    BY <1>1, <1>2, <1>3
<1>. QED BY <1>1, <1>2, <1>4, Ended, TypeParts DEF IInv

LEMMA Adds ==
    ASSUME IInv, NEW x \in Coids, add(x)
    PROVE  /\ Sessions' /\ UNCHANGED <<records, lock, sessionVars>>
           /\ x \in Coids \ Existing /\ \A t \in Txs : alvo[t] # x
           /\ \A y \in Coids : object'[y] =
                  IF y = x THEN [clid |-> None, status |-> "NONE"] ELSE object[y]
<1>1. /\ x \in Unused /\ UNCHANGED <<records, lock, sessionVars>>
      /\ object' = [object EXCEPT ![x] = [clid |-> None, status |-> "NONE"]]
    BY DEF add
<1>2. Sessions'
    BY <1>1, TypeParts DEF IInv, Sessions, sessionVars, Locking
<1>. QED BY <1>1, <1>2 DEF IInv, TypeOK, Unused, Existing

(* The rollback, like a refusal, only ends the session. *)
LEMMA Stops ==
    ASSUME IInv, NEW t \in Txs, End(t), UNCHANGED <<object, records>>
    PROVE  /\ Sessions' /\ Alone(t) /\ pc'[t] = "idle" /\ fontes'[t] = {} /\ alvo'[t] = None
           /\ \A x \in Coids : lido'[t][x] = None
BY Ended, TypeParts DEF IInv

(* The writes, and the moves of a session between them. *)
Moves(t) == \/ \E x \in Coids : Start(t, x)
            \/ Refresh(t) \/ Check(t) \/ FlushCurrent(t) \/ Load(t) \/ Rollback(t)

LEMMA MovesKeep ==
    ASSUME IInv, NEW t \in Txs, Moves(t)
    PROVE  Sessions' /\ Alone(t) /\ UNCHANGED <<object, records>>
<1>1. Sessions /\ CallInv /\ object \in [Coids -> Objects \cup {None}]
    BY TypeParts DEF IInv, TypeOK
<1>2. CASE Rollback(t)
    BY <1>2, Stops DEF Rollback
<1>. QED BY <1>1, <1>2, Starts, Refreshes, Checks, Flushes, Loads DEF Moves

LEMMA Actions ==
    ASSUME Next
    PROVE  \/ \E x \in Coids : add(x)
           \/ \E t \in Txs : Moves(t) \/ derive(t) \/ revise(t) \/ derive_many(t)
BY DEF Next, Step, Moves

-----------------------------------------------------------------------------
(* No step forgets who an object is. *)
LEMMA InheritsKeeps ==
    ASSUME IInv, NEW t \in Txs, NEW x \in fontes[t], pc[t] = "commit", call[t] # "merge",
           NEW source, NEW target, Inherits(t, x, source, target),
           source \in {object[x].status, "SUPERSEDED"}
    PROVE  KeepsIdentity
<1>1. /\ x \in Existing /\ alvo[t] \in Coids \ Existing
      /\ object[x].clid # None => ResolvedClid(t, x) = object[x].clid
    BY Resolved
<1>2. ASSUME NEW y \in Existing, y # x PROVE object'[y] = object[y]
    BY <1>1, <1>2 DEF Inherits, Existing
<1>3. object'[x] = [clid |-> ResolvedClid(t, x), status |-> source]
    BY <1>1 DEF Inherits, Existing
<1>4. object'[x] # None
  <2>1. ResolvedClid(t, x) \in Coids
      BY Resolved
  <2>2. source \in Statuses
      BY <1>1, ExistingRow, Row DEF IInv, Statuses
  <2>. QED BY <1>3, <2>1, <2>2, Distinct DEF Objects
<1>. QED BY <1>1, <1>2, <1>3, <1>4 DEF KeepsIdentity, Existing

LEMMA StepKeepsIdentity == IInv /\ [Next]_vars => KeepsIdentity
<1> SUFFICES ASSUME IInv, [Next]_vars PROVE KeepsIdentity
    OBVIOUS
<1>1. CASE UNCHANGED object
    BY <1>1 DEF KeepsIdentity
<1>2. ASSUME NEW x \in Coids, add(x) PROVE KeepsIdentity
    BY <1>2, Adds DEF KeepsIdentity, Existing
<1>3. ASSUME NEW t \in Txs, derive(t) PROVE KeepsIdentity
    BY <1>3, Derives, InheritsKeeps
<1>4. ASSUME NEW t \in Txs, revise(t) PROVE KeepsIdentity
    BY <1>4, Revises, InheritsKeeps
<1>5. ASSUME NEW t \in Txs, derive_many(t) PROVE KeepsIdentity
    BY <1>5, Merges DEF KeepsIdentity, Existing
<1>. QED BY <1>1, <1>2, <1>3, <1>4, <1>5, Actions, MovesKeep DEF vars

(* What is written has the type of the table. *)
LEMMA InheritsTyped ==
    ASSUME IInv, NEW t \in Txs, NEW x \in fontes[t], pc[t] = "commit", call[t] # "merge",
           NEW source \in Statuses, NEW target \in Statuses, Inherits(t, x, source, target),
           object' \in [Coids -> {object'[y] : y \in Coids}]
    PROVE  object' \in [Coids -> Objects \cup {None}]
<1>1. ResolvedClid(t, x) \in Clids \cup {None}
    BY Resolved, Distinct
<1>2. ASSUME NEW y \in Coids PROVE object'[y] \in Objects \cup {None}
    BY <1>1 DEF Inherits, Objects, IInv, TypeOK
<1>. QED BY <1>2

LEMMA RecordTyped ==
    ASSUME IInv, NEW t \in Txs, pc[t] = "commit", NEW kind \in {"DERIVATION", "REVISION"},
           records' = records \cup {NewRecord(t, kind)}
    PROVE  records' \subseteq Records
BY DEF IInv, TypeOK, CallInv, Records, NewRecord

LEMMA NextTypeOK == IInv /\ [Next]_vars => TypeOK'
<1> SUFFICES ASSUME IInv, [Next]_vars PROVE Sessions' /\ Tables'
    BY TypeParts DEF TypeOK, Sessions, Tables, Locking
<1>. Sessions /\ Tables /\ Statuses = {"NONE", "CURRENT", "SUPERSEDED"}
    BY TypeParts DEF IInv, Statuses
<1>1. CASE UNCHANGED vars
    BY <1>1 DEF vars, Sessions, Tables, Locking
<1>2. ASSUME NEW x \in Coids, add(x) PROVE Sessions' /\ Tables'
  <2>1. object' = [object EXCEPT ![x] = [clid |-> None, status |-> "NONE"]]
      BY <1>2 DEF add
  <2>2. object' \in [Coids -> Objects \cup {None}]
      BY <2>1 DEF Tables, Objects
  <2>. QED BY <1>2, <2>2, Adds DEF Tables
<1>3. ASSUME NEW t \in Txs, derive(t) PROVE Sessions' /\ Tables'
  <2>1. PICK x \in fontes[t] : Inherits(t, x, object[x].status, "NONE")
      BY <1>3, Derives
  <2>2. object[x].status \in Statuses
      BY <1>3, Derives, Resolved, Row
  <2>3. object' \in [Coids -> {object'[y] : y \in Coids}]
      BY <1>3 DEF derive, Tables
  <2>4. object' \in [Coids -> Objects \cup {None}]
      BY <1>3, <2>1, <2>2, <2>3, Derives, InheritsTyped
  <2>. QED BY <1>3, <2>4, Derives, RecordTyped DEF Tables
<1>4. ASSUME NEW t \in Txs, revise(t) PROVE Sessions' /\ Tables'
  <2>1. PICK x \in fontes[t] : Inherits(t, x, "SUPERSEDED", "CURRENT")
      BY <1>4, Revises
  <2>3. object' \in [Coids -> {object'[y] : y \in Coids}]
      BY <1>4 DEF revise, Tables
  <2>4. object' \in [Coids -> Objects \cup {None}]
      BY <1>4, <2>1, <2>3, Revises, InheritsTyped
  <2>. QED BY <1>4, <2>4, Revises, RecordTyped DEF Tables
<1>5. ASSUME NEW t \in Txs, derive_many(t) PROVE Sessions' /\ Tables'
  <2>1. resolver_clid_do_alvo(t) \in Clids \cup {None}
      BY <1>5, Merges, MergedClid, Distinct
  <2>2. object' = [object EXCEPT
            ![alvo[t]] = [clid |-> resolver_clid_do_alvo(t), status |-> "NONE"]]
      BY <1>5 DEF derive_many
  <2>3. object' \in [Coids -> Objects \cup {None}]
      BY <2>1, <2>2 DEF Tables, Objects
  <2>. QED BY <1>5, <2>3, Merges, RecordTyped DEF Tables
<1>6. ASSUME NEW t \in Txs, Moves(t) PROVE Sessions' /\ Tables'
    BY <1>6, MovesKeep DEF Tables
<1>. QED BY <1>1, <1>2, <1>3, <1>4, <1>5, <1>6, Actions

-----------------------------------------------------------------------------
(* A session that ended has no call; the others keep theirs as long as no one *)
(* creates their new object.                                                  *)
LEMMA EndedCall ==
    ASSUME IInv, NEW t \in Txs, Alone(t), Existing \subseteq Existing',
           pc'[t] = "idle", fontes'[t] = {}, alvo'[t] = None,
           \A u \in Txs \ {t} : pc[u] # "idle" => object'[alvo[u]] = object[alvo[u]]
    PROVE  CallInv'
BY DEF IInv, CallInv, Alone

LEMMA ExistingGrows == KeepsIdentity => Existing \subseteq Existing'
BY DEF KeepsIdentity, Existing

LEMMA CommitCall ==
    ASSUME IInv, [Next]_vars, NEW t \in Txs, derive(t) \/ revise(t) \/ derive_many(t)
    PROVE  CallInv'
<1>1. /\ Alone(t) /\ End(t) /\ pc[t] = "commit"
    BY Derives, Revises, Merges
<1>2. pc'[t] = "idle" /\ fontes'[t] = {} /\ alvo'[t] = None
    BY <1>1, Ended, TypeParts DEF IInv
<1>3. ASSUME NEW u \in Txs \ {t}, pc[u] # "idle" PROVE object'[alvo[u]] = object[alvo[u]]
  <2>1. alvo[u] \in Coids \ Existing /\ alvo[u] # alvo[t]
      BY <1>1, <1>3, Distinct DEF IInv, CallInv, Existing
  <2>2. CASE derive_many(t)
      BY <2>1, <2>2, Merges
  <2>3. CASE derive(t) \/ revise(t)
    <3>1. PICK x, source, target :
              x \in fontes[t] \cap Existing /\ Inherits(t, x, source, target)
        BY <2>3, Derives, Revises, Resolved
    <3>. QED BY <2>1, <3>1 DEF Inherits
  <2>. QED BY <2>2, <2>3
<1>. QED BY <1>1, <1>2, <1>3, EndedCall, StepKeepsIdentity, ExistingGrows

LEMMA NextCall == IInv /\ [Next]_vars => CallInv'
<1> SUFFICES ASSUME IInv, [Next]_vars PROVE CallInv'
    OBVIOUS
<1>. Sessions /\ CallInv /\ object \in [Coids -> Objects \cup {None}]
    BY TypeParts DEF IInv, TypeOK
<1>1. CASE UNCHANGED vars
    BY <1>1 DEF vars, CallInv, Existing
<1>2. ASSUME NEW x \in Coids, add(x) PROVE CallInv'
  <2>1. Existing \subseteq Existing' /\ UNCHANGED sessionVars
      BY <1>2, StepKeepsIdentity, ExistingGrows, Adds
  <2>2. \A t \in Txs : pc[t] # "idle" => object'[alvo[t]] = object[alvo[t]]
      BY <1>2, Adds DEF CallInv
  <2>. QED BY <2>1, <2>2 DEF CallInv, sessionVars
<1>3. ASSUME NEW t \in Txs, derive(t) \/ revise(t) \/ derive_many(t) PROVE CallInv'
    BY <1>3, CommitCall
<1>4. ASSUME NEW t \in Txs, End(t), UNCHANGED <<object, records>> PROVE CallInv'
    BY <1>4, Stops, EndedCall DEF Existing
<1>5. ASSUME NEW t \in Txs, NEW x \in Coids, Start(t, x) PROVE CallInv'
  <2>1. x \in Coids /\ object[x] = None /\ \A u \in Txs : alvo[u] # x
      BY <1>5, Starts DEF Unused
  <2>2. fontes'[t] \subseteq Existing' /\ object' = object /\ alvo'[t] = x /\ Alone(t)
      BY <1>5, Starts DEF Existing
  <2>3. \/ pc'[t] = "refresh" /\ call'[t] # "merge" /\ \E y \in Coids : fontes'[t] = {y}
        \/ pc'[t] = "load" /\ call'[t] = "merge" /\ Cardinality(fontes'[t]) >= 2
      BY <1>5, Starts
  <2>4. Existing' = Existing
      BY <2>2 DEF Existing
  <2>. QED BY <2>1, <2>2, <2>3, <2>4, Distinct DEF CallInv, Alone
<1>6. ASSUME NEW t \in Txs, Moves(t), UNCHANGED <<call, fontes, alvo>>, pc[t] # "idle",
             pc'[t] # "idle",
             pc'[t] \in {"check", "flush"} => call[t] = "revise",
             pc'[t] = "load" => call[t] = "merge", pc'[t] # "refresh"
      PROVE  CallInv'
  <2>1. Alone(t) /\ Existing' = Existing /\ object' = object
      BY <1>6, MovesKeep DEF Existing
  <2>. QED BY <2>1, <1>6 DEF CallInv, Alone
<1>7. ASSUME NEW t \in Txs, Refresh(t) PROVE CallInv'
  <2>1. /\ UNCHANGED <<call, fontes, alvo>>
        /\ pc[t] = "refresh" /\ pc'[t] = IF call[t] = "revise" THEN "check" ELSE "commit"
      BY <1>7, Refreshes
  <2>. QED BY <1>6, <1>7, <2>1 DEF Moves
<1>8. ASSUME NEW t \in Txs, Check(t) \/ FlushCurrent(t) PROVE CallInv'
  <2>1. \/ End(t) /\ UNCHANGED <<object, records>>
        \/ /\ UNCHANGED <<call, fontes, alvo>> /\ call[t] = "revise"
           /\ pc[t] \in {"check", "flush"} /\ pc'[t] \in {"flush", "commit"}
      BY <1>8, Checks, Flushes
  <2>. QED BY <1>4, <1>6, <1>8, <2>1 DEF Moves
<1>9. ASSUME NEW t \in Txs, Load(t) PROVE CallInv'
  <2>1. /\ UNCHANGED <<call, fontes, alvo>> /\ call[t] = "merge"
        /\ pc[t] = "load" /\ pc'[t] \in {"load", "commit"}
      BY <1>9, Loads
  <2>. QED BY <1>6, <1>9, <2>1 DEF Moves
<1>. QED BY <1>1, <1>2, <1>3, <1>4, <1>5, <1>7, <1>8, <1>9, Actions DEF Moves, Rollback

(* Rows that two sessions lock are different rows. *)
LEMMA LockedApart ==
    ASSUME Sessions, NEW t \in Txs, NEW u \in Txs, t # u, Locking(t), Locking(u),
           NEW x \in fontes[t], NEW y \in fontes[u]
    PROVE  x # y
<1>1. {z \in Coids : lock[z] = t} = fontes[t] /\ {z \in Coids : lock[z] = u} = fontes[u]
    BY DEF Sessions
<1>. QED BY <1>1

(* What the others read is as they read it, unless t writes what they locked. *)
LEMMA EndedRead ==
    ASSUME IInv, NEW t \in Txs, Alone(t), KeepsIdentity,
           fontes'[t] = {}, \A x \in Coids : lido'[t][x] = None,
           \A u \in Txs \ {t} : Locking(u) => \A y \in fontes[u] : object'[y] = object[y]
    PROVE  ReadInv'
<1>1. ASSUME NEW u \in Txs, Locking(u)', NEW y \in fontes'[u] PROVE lido'[u][y] = object'[y]
  <2>1. u # t /\ Locking(u) /\ y \in fontes[u] /\ lido'[u] = lido[u]
      BY <1>1 DEF Alone, Locking
  <2>. QED BY <2>1 DEF IInv, ReadInv
<1>2. ASSUME NEW u \in Txs, NEW y \in fontes'[u]
      PROVE  /\ pc'[u] = "commit" => lido'[u][y] # None
             /\ lido'[u][y] # None /\ lido'[u][y].clid # None
                    => object'[y].clid = lido'[u][y].clid
  <2>1. /\ u # t /\ pc'[u] = pc[u] /\ y \in fontes[u] /\ lido'[u] = lido[u]
      BY <1>2 DEF Alone
  <2>2. y \in Coids /\ object[y] # None
      BY <2>1 DEF IInv, CallInv, Existing
  <2>3. object[y].clid # None => object'[y].clid = object[y].clid
      BY <2>2 DEF KeepsIdentity
  <2>. QED BY <2>1, <2>3 DEF IInv, ReadInv
<1>3. ASSUME NEW u \in Txs, pc'[u] = "idle", NEW y \in Coids PROVE lido'[u][y] = None
    BY <1>3 DEF Alone, IInv, ReadInv
<1>. QED BY <1>1, <1>2, <1>3 DEF ReadInv

(* A commit writes nothing that another session has locked. *)
LEMMA LockedStay ==
    ASSUME IInv, NEW t \in Txs, derive(t) \/ revise(t) \/ derive_many(t),
           NEW u \in Txs \ {t}, Locking(u), NEW y \in fontes[u]
    PROVE  object'[y] = object[y]
<1>1. y \in Existing /\ y \in Coids
    BY DEF IInv, CallInv, Existing, Locking
<1>2. CASE derive_many(t)
    BY <1>1, <1>2, Merges
<1>3. CASE derive(t) \/ revise(t)
  <2>1. PICK x, source, target :
            x \in fontes[t] /\ Inherits(t, x, source, target) /\ alvo[t] \in Coids \ Existing
      BY <1>3, Derives, Revises, Resolved
  <2>2. Locking(t)
      BY <1>3, Derives, Revises DEF Locking
  <2>3. x # y
      BY <2>1, <2>2, LockedApart, TypeParts DEF IInv
  <2>4. y # alvo[t]
      BY <1>1, <2>1
  <2>. QED BY <1>1, <2>1, <2>3, <2>4 DEF Inherits
<1>. QED BY <1>2, <1>3

LEMMA CommitRead ==
    ASSUME IInv, [Next]_vars, NEW t \in Txs, derive(t) \/ revise(t) \/ derive_many(t)
    PROVE  ReadInv'
<1>1. /\ Alone(t) /\ End(t) /\ pc[t] = "commit" /\ Sessions
    BY Derives, Revises, Merges, TypeParts DEF IInv
<1>2. fontes'[t] = {} /\ \A x \in Coids : lido'[t][x] = None
    BY <1>1, Ended
<1>3. \A u \in Txs \ {t} : Locking(u) => \A y \in fontes[u] : object'[y] = object[y]
    BY LockedStay
<1>. QED BY <1>1, <1>2, <1>3, EndedRead, StepKeepsIdentity

LEMMA NextRead == IInv /\ [Next]_vars => ReadInv'
<1> SUFFICES ASSUME IInv, [Next]_vars PROVE ReadInv'
    OBVIOUS
<1>. Sessions /\ CallInv /\ object \in [Coids -> Objects \cup {None}] /\ KeepsIdentity
    BY TypeParts, StepKeepsIdentity DEF IInv, TypeOK
<1>1. CASE UNCHANGED vars
    BY <1>1 DEF vars, IInv, ReadInv, Locking
<1>2. ASSUME NEW x \in Coids, add(x) PROVE ReadInv'
  <2>1. UNCHANGED sessionVars /\ \A y \in Existing : object'[y] = object[y]
      BY <1>2, Adds DEF Existing
  <2>2. \A u \in Txs : fontes[u] \subseteq Existing
      BY DEF CallInv
  <2>. QED BY <2>1, <2>2 DEF sessionVars, IInv, ReadInv, Locking
<1>3. ASSUME NEW t \in Txs, derive(t) \/ revise(t) \/ derive_many(t) PROVE ReadInv'
    BY <1>3, CommitRead
<1>4. ASSUME NEW t \in Txs, End(t), UNCHANGED <<object, records>> PROVE ReadInv'
    BY <1>4, Stops, EndedRead
<1>5. ASSUME NEW t \in Txs, Moves(t),
             Locking(t)' => \A x \in fontes'[t] : lido'[t][x] = object[x],
             \A x \in fontes'[t] :
                 /\ pc'[t] = "commit" => lido'[t][x] # None
                 /\ lido'[t][x] # None /\ lido'[t][x].clid # None
                        => object[x].clid = lido'[t][x].clid,
             pc'[t] # "idle"
      PROVE  ReadInv'
  <2>1. Alone(t) /\ object' = object
      BY <1>5, MovesKeep
  <2>. QED BY <2>1, <1>5 DEF IInv, ReadInv, Alone, Locking
<1>6. ASSUME NEW t \in Txs, NEW x \in Coids, Start(t, x) PROVE ReadInv'
  <2>1. /\ pc[t] = "idle" /\ pc'[t] \in {"refresh", "load"} /\ UNCHANGED lido
        /\ fontes'[t] \subseteq Coids
      BY <1>6, Starts DEF Existing
  <2>2. \A y \in fontes'[t] : lido'[t][y] = None
      BY <2>1 DEF IInv, ReadInv
  <2>3. ~ Locking(t)' /\ pc'[t] # "commit" /\ pc'[t] # "idle"
      BY <2>1 DEF Locking
  <2>. QED BY <1>5, <1>6, <2>2, <2>3 DEF Moves
<1>7. ASSUME NEW t \in Txs, Refresh(t) PROVE ReadInv'
  <2>1. PICK x \in Coids : fontes[t] = {x} /\ lido'[t][x] = object[x]
      BY <1>7, Refreshes
  <2>2. fontes'[t] = {x} /\ pc'[t] # "idle" /\ pc[t] = "refresh"
      BY <1>7, <2>1, Refreshes
  <2>3. object[x] # None
      BY <2>1, <2>2 DEF CallInv, Existing
  <2>. QED BY <1>5, <1>7, <2>1, <2>2, <2>3 DEF Moves
<1>8. ASSUME NEW t \in Txs, Check(t) \/ FlushCurrent(t) PROVE ReadInv'
  <2>1. CASE End(t)
      BY <1>4, <1>8, <2>1, Checks, Flushes
  <2>2. CASE ~ End(t)
    <3>1. /\ UNCHANGED <<call, fontes, lido>> /\ call[t] = "revise"
          /\ pc[t] \in {"check", "flush"} /\ pc'[t] \in {"flush", "commit"}
        BY <1>8, <2>2, Checks, Flushes
    <3>2. \A x \in fontes[t] : lido[t][x] = object[x] /\ object[x] # None
        BY <3>1 DEF IInv, ReadInv, Locking, CallInv, Existing
    <3>. QED BY <1>5, <1>8, <3>1, <3>2 DEF Moves
  <2>. QED BY <2>1, <2>2
<1>9. ASSUME NEW t \in Txs, Load(t) PROVE ReadInv'
  <2>1. /\ UNCHANGED <<call, fontes>> /\ call[t] = "merge" /\ pc'[t] \in {"load", "commit"}
        /\ pc'[t] = "commit" => \A x \in fontes[t] : lido'[t][x] # None
      BY <1>9, Loads
  <2>2. PICK x \in fontes[t] :
            \A y \in Coids : lido'[t][y] = IF y = x THEN object[x] ELSE lido[t][y]
      BY <1>9, Loads
  <2>3. ASSUME NEW y \in fontes[t], lido'[t][y] # None, lido'[t][y].clid # None
        PROVE  object[y].clid = lido'[t][y].clid
    <3>1. y \in Coids
        BY DEF Sessions
    <3>. QED BY <2>2, <2>3, <3>1 DEF IInv, ReadInv
  <2>4. ~ Locking(t)'
      BY <2>1 DEF Locking
  <2>. QED BY <1>5, <1>9, <2>1, <2>3, <2>4 DEF Moves
<1>. QED BY <1>1, <1>2, <1>3, <1>4, <1>6, <1>7, <1>8, <1>9, Actions DEF Moves, Rollback

-----------------------------------------------------------------------------
LEMMA StatusNames == "NONE" \in Statuses /\ "CURRENT" \in Statuses /\ "SUPERSEDED" \in Statuses
BY DEF Statuses

(* The superseded objects of a lineage. *)
PastOf(c) == {y \in Existing : object[y].clid = c /\ object[y].status = "SUPERSEDED"}

(* A step that makes a lineage neither of a new object nor of another's.      *)
Quiet == \A c \in Clids : CurrentOf(c)' = CurrentOf(c) /\ PastOf(c)' = PastOf(c)

(* The commit of derive or revise: the rows of all the objects there are now. *)
LEMMA Inherited ==
    ASSUME IInv, NEW t \in Txs, NEW x \in fontes[t], pc[t] = "commit", call[t] # "merge",
           NEW source \in Statuses, NEW target \in Statuses, Inherits(t, x, source, target)
    PROVE  /\ x \in Existing /\ alvo[t] \in Coids \ Existing /\ alvo[t] # x
           /\ Existing' = Existing \cup {alvo[t]}
           /\ object'[alvo[t]] = [clid |-> ResolvedClid(t, x), status |-> target]
           /\ object'[x] = [clid |-> ResolvedClid(t, x), status |-> source]
           /\ \A y \in Existing \ {x} : object'[y] = object[y]
<1>1. /\ x \in Existing /\ alvo[t] \in Coids \ Existing /\ x \in Coids
      /\ ResolvedClid(t, x) \in Coids
    BY Resolved DEF Existing
<1>2. /\ [clid |-> ResolvedClid(t, x), status |-> target] # None
      /\ [clid |-> ResolvedClid(t, x), status |-> source] # None
    BY <1>1, Distinct DEF Objects
<1>3. \A y \in Coids : y \in Existing' <=> y \in Existing \/ y = alvo[t]
    BY <1>1, <1>2 DEF Inherits, Existing
<1>4. Existing' = Existing \cup {alvo[t]}
    BY <1>1, <1>3 DEF Existing
<1>. QED BY <1>1, <1>4 DEF Inherits, Existing

(* derive leaves every line alone: its source keeps its status, and one that  *)
(* is given a CLID was neither CURRENT nor superseded.                        *)
LEMMA DeriveIsQuiet ==
    ASSUME IInv, NEW t \in Txs, derive(t)
    PROVE  Quiet
<1>1. PICK x \in fontes[t] : Inherits(t, x, object[x].status, "NONE")
    BY Derives
<1>2. pc[t] = "commit" /\ call[t] # "merge" /\ object[x].status \in Statuses
    BY Derives, Resolved, Row
<1>3. /\ x \in Existing /\ alvo[t] \notin Existing
      /\ Existing' = Existing \cup {alvo[t]}
      /\ object'[alvo[t]] = [clid |-> ResolvedClid(t, x), status |-> "NONE"]
      /\ object'[x] = [clid |-> ResolvedClid(t, x), status |-> object[x].status]
      /\ \A y \in Existing \ {x} : object'[y] = object[y]
    BY <1>1, <1>2, StatusNames, Inherited
<1>4. object[x].status # "NONE" => object[x].clid = ResolvedClid(t, x)
    BY <1>2, <1>3, Resolved DEF IInv, LineInv
<1>5. ASSUME NEW c \in Clids, NEW s \in {"CURRENT", "SUPERSEDED"}
      PROVE  {y \in Existing' : object'[y].clid = c /\ object'[y].status = s}
             = {y \in Existing : object[y].clid = c /\ object[y].status = s}
  <2>1. \A y \in Existing' : object'[y].status = s => y \in Existing
      BY <1>3
  <2>2. \A y \in Existing : object'[y].status = s <=> object[y].status = s
      BY <1>3
  <2>3. \A y \in Existing : object[y].status = s => object'[y].clid = object[y].clid
      BY <1>3, <1>4
  <2>4. Existing \subseteq Existing'
      BY <1>3
  <2>. QED BY <2>1, <2>2, <2>3, <2>4
<1>. QED BY <1>5 DEF Quiet, CurrentOf, PastOf

(* A new object without a status is in no line. *)
LEMMA NewIsQuiet ==
    ASSUME NEW new \in Coids \ Existing, NEW c \in Coids \cup {None},
           \A y \in Coids : object'[y] =
               IF y = new THEN [clid |-> c, status |-> "NONE"] ELSE object[y]
    PROVE  Quiet /\ Existing' = Existing \cup {new}
<1>1. [clid |-> c, status |-> "NONE"] # None
    BY Distinct DEF Objects, Statuses
<1>2. Existing' = Existing \cup {new}
    BY <1>1 DEF Existing
<1>3. \A y \in Existing : object'[y] = object[y]
    BY DEF Existing
<1>4. ASSUME NEW d \in Clids, NEW s \in {"CURRENT", "SUPERSEDED"}
      PROVE  {y \in Existing' : object'[y].clid = d /\ object'[y].status = s}
             = {y \in Existing : object[y].clid = d /\ object[y].status = s}
  <2>1. object'[new].status # s
      OBVIOUS
  <2>. QED BY <1>2, <1>3, <2>1
<1>. QED BY <1>2, <1>4 DEF Quiet, CurrentOf, PastOf

(* revise moves the head of one line on, and leaves the others alone. *)
LEMMA ReviseMoves ==
    ASSUME IInv, NEW t \in Txs, revise(t)
    PROVE  \E x \in fontes[t], l \in Clids :
               /\ l = ResolvedClid(t, x) /\ CurrentOf(l) \subseteq {x}
               /\ object[x].status = "CURRENT" => x \in CurrentOf(l)
               /\ object[x].status # "SUPERSEDED"
               /\ CurrentOf(l)' = {alvo[t]} /\ PastOf(l)' = PastOf(l) \cup {x}
               /\ \A d \in Clids \ {l} : CurrentOf(d)' = CurrentOf(d) /\ PastOf(d)' = PastOf(d)
<1>1. PICK x \in fontes[t] : Inherits(t, x, "SUPERSEDED", "CURRENT")
    BY Revises
<1>2. pc[t] = "commit" /\ call[t] = "revise"
    BY Revises
<1>3. PICK l \in Clids : l = ResolvedClid(t, x)
    BY <1>2, Resolved, Distinct
<1>4. /\ x \in Existing /\ alvo[t] \notin Existing
      /\ Existing' = Existing \cup {alvo[t]}
      /\ object'[alvo[t]] = [clid |-> l, status |-> "CURRENT"]
      /\ object'[x] = [clid |-> l, status |-> "SUPERSEDED"]
      /\ \A y \in Existing \ {x} : object'[y] = object[y]
    BY <1>1, <1>2, <1>3, StatusNames, Inherited
<1>5. CurrentOf(l) \subseteq {x} /\ object[x].status # "SUPERSEDED"
    BY <1>2, <1>3 DEF IInv, RevisionInv, IndexAdmits
<1>6. object[x].status = "CURRENT" => object[x].clid = l
    BY <1>2, <1>4, <1>3, Resolved DEF IInv, LineInv
<1>7. \A y : y \in CurrentOf(l)' <=> y = alvo[t]
  <2>1. \A y : y \in CurrentOf(l)' <=>
                   y \in Existing' /\ object'[y].clid = l /\ object'[y].status = "CURRENT"
      BY DEF CurrentOf
  <2>2. \A y \in Existing : object[y].clid = l /\ object[y].status = "CURRENT" => y = x
      BY <1>5 DEF CurrentOf
  <2>. QED BY <2>1, <2>2, <1>4
<1>8. \A y : y \in PastOf(l)' <=> y \in PastOf(l) \cup {x}
  <2>1. \A y : y \in PastOf(l)' <=>
                   y \in Existing' /\ object'[y].clid = l /\ object'[y].status = "SUPERSEDED"
      BY DEF PastOf
  <2>. QED BY <2>1, <1>4 DEF PastOf
<1>9. ASSUME NEW d \in Clids \ {l}, NEW s \in {"CURRENT", "SUPERSEDED"}
      PROVE  {y \in Existing' : object'[y].clid = d /\ object'[y].status = s}
             = {y \in Existing : object[y].clid = d /\ object[y].status = s}
  <2>1. object[x].status = s => object[x].clid # d
      BY <1>5, <1>6
  <2>2. object'[x].clid # d /\ object'[alvo[t]].clid # d
      BY <1>4
  <2>. QED BY <1>4, <2>1, <2>2
<1>10. \A d \in Clids \ {l} : CurrentOf(d)' = CurrentOf(d) /\ PastOf(d)' = PastOf(d)
    BY <1>9 DEF CurrentOf, PastOf
<1>11. CurrentOf(l)' = {alvo[t]} /\ PastOf(l)' = PastOf(l) \cup {x}
    BY <1>7, <1>8
<1>12. object[x].status = "CURRENT" => x \in CurrentOf(l)
    BY <1>4, <1>6 DEF CurrentOf
<1>. QED BY <1>3, <1>5, <1>10, <1>11, <1>12

(* The rows of LineInv, and what it says of each line. *)
Named == \A x \in Existing : object[x].clid # None => object[x].clid \in Existing
Placed == \A x \in Existing : object[x].status # "NONE" => object[x].clid # None
OneHead == \A c \in Clids : /\ PastOf(c) # {} => CurrentOf(c) # {}
                            /\ \A x, y \in CurrentOf(c) : x = y

LEMMA LineParts == IInv => Named /\ Placed /\ OneHead
<1> SUFFICES ASSUME IInv PROVE OneHead
    BY DEF IInv, LineInv, Named, Placed
<1>. QED BY DEF IInv, LineInv, OneCurrentPerClid, OneHead, PastOf, CurrentOf

LEMMA LineAfter ==
    ASSUME object' \in [Coids -> Objects \cup {None}], Named', Placed', OneHead'
    PROVE  LineInv'
<1>1. ASSUME NEW x \in Existing', object'[x].status # "NONE"
      PROVE  object'[x].clid \in Clids
  <2>1. object'[x] \in Objects
      BY DEF Existing
  <2>. QED BY <1>1, <2>1, Row, Distinct DEF Placed
<1>2. ASSUME NEW x \in Existing', object'[x].status = "SUPERSEDED"
      PROVE  CurrentOf(object[x].clid)' # {}
  <2>1. PICK c \in Clids : c = object'[x].clid
      BY <1>1, <1>2
  <2>2. x \in PastOf(c)'
      BY <1>2, <2>1 DEF PastOf
  <2>3. CurrentOf(c)' # {}
      BY <2>2 DEF OneHead
  <2>. QED BY <2>1, <2>3 DEF CurrentOf
<1>3. ASSUME NEW x \in Existing', NEW y \in Existing',
             object'[x].status = "CURRENT", object'[y].status = "CURRENT",
             object'[x].clid = object'[y].clid
      PROVE  x = y
  <2>1. PICK c \in Clids : c = object'[x].clid
      BY <1>1, <1>3
  <2>2. x \in CurrentOf(c)' /\ y \in CurrentOf(c)'
      BY <1>3, <2>1 DEF CurrentOf
  <2>. QED BY <2>2 DEF OneHead
<1>. QED BY <1>2, <1>3 DEF LineInv, OneCurrentPerClid, Named, Placed

LEMMA InheritedRows ==
    ASSUME IInv, NEW t \in Txs, NEW x \in fontes[t], pc[t] = "commit", call[t] # "merge",
           NEW source \in Statuses, NEW target \in Statuses, Inherits(t, x, source, target)
    PROVE  Named' /\ Placed'
<1>1. /\ Existing' = Existing \cup {alvo[t]}
      /\ object'[alvo[t]] = [clid |-> ResolvedClid(t, x), status |-> target]
      /\ object'[x] = [clid |-> ResolvedClid(t, x), status |-> source]
      /\ \A y \in Existing \ {x} : object'[y] = object[y]
    BY Inherited
<1>2. ResolvedClid(t, x) \in Coids /\ ResolvedClid(t, x) \in Existing \cup {alvo[t]}
  <2>1. object[x].clid # None => ResolvedClid(t, x) \in Existing
      BY Resolved
  <2>2. object[x].clid = None => ResolvedClid(t, x) = alvo[t]
      BY Resolved
  <2>. QED BY <2>1, <2>2, Resolved
<1>3. ResolvedClid(t, x) # None
    BY <1>2, Distinct
<1>4. Named /\ Placed
    BY LineParts
<1>. QED BY <1>1, <1>2, <1>3, <1>4 DEF Named, Placed

LEMMA NextLine == IInv /\ [Next]_vars => LineInv'
<1> SUFFICES ASSUME IInv, [Next]_vars PROVE LineInv'
    OBVIOUS
<1>. Named /\ Placed /\ OneHead
    BY LineParts
<1>1. CASE UNCHANGED object
    BY <1>1 DEF IInv, LineInv, CurrentOf, Existing, OneCurrentPerClid
<1>2. object' \in [Coids -> Objects \cup {None}]
    BY NextTypeOK DEF TypeOK
<1>3. ASSUME NEW new \in Coids \ Existing, NEW c \in Coids \cup {None},
             c # None => c \in Existing,
             \A y \in Coids : object'[y] =
                 IF y = new THEN [clid |-> c, status |-> "NONE"] ELSE object[y]
      PROVE  LineInv'
  <2>1. Quiet /\ Existing' = Existing \cup {new}
      BY <1>3, NewIsQuiet
  <2>2. Existing \subseteq Coids
      BY DEF Existing
  <2>3. Named' /\ Placed'
      BY <1>3, <2>1, <2>2 DEF Named, Placed
  <2>4. OneHead'
      BY <2>1 DEF OneHead, Quiet
  <2>. QED BY <1>2, <2>3, <2>4, LineAfter
<1>4. ASSUME NEW x \in Coids, add(x) PROVE LineInv'
    BY <1>3, <1>4, Adds
<1>5. ASSUME NEW t \in Txs, derive_many(t) PROVE LineInv'
  <2>1. resolver_clid_do_alvo(t) \in Coids \cup {None}
      BY <1>5, Merges, MergedClid
  <2>2. resolver_clid_do_alvo(t) # None => resolver_clid_do_alvo(t) \in Existing
    <3>1. \A x \in fontes[t] : resolver_clid_do_alvo(t) # None =>
              object[x].clid = resolver_clid_do_alvo(t)
        BY <1>5, Merges, MergedClid
    <3>2. fontes[t] # {} /\ fontes[t] \subseteq Existing
      <4>1. Cardinality(fontes[t]) >= 2 /\ fontes[t] \subseteq Existing
          BY <1>5, Merges DEF IInv, CallInv
      <4>2. Cardinality({}) = 0
          BY FS_EmptySet
      <4>. QED BY <4>1, <4>2
    <3>. QED BY <3>1, <3>2 DEF Named
  <2>3. PICK c \in Coids \cup {None} : c = resolver_clid_do_alvo(t)
      BY <2>1
  <2>4. /\ alvo[t] \in Coids \ Existing
        /\ \A y \in Coids : object'[y] =
               IF y = alvo[t] THEN [clid |-> c, status |-> "NONE"] ELSE object[y]
      BY <1>5, <2>3, Merges
  <2>. QED BY <1>3, <2>2, <2>3, <2>4
<1>6. ASSUME NEW t \in Txs, derive(t) PROVE LineInv'
  <2>1. PICK x \in fontes[t] : Inherits(t, x, object[x].status, "NONE")
      BY <1>6, Derives
  <2>2. pc[t] = "commit" /\ call[t] # "merge" /\ object[x].status \in Statuses
      BY <1>6, Derives, Resolved, Row
  <2>3. Named' /\ Placed'
      BY <2>1, <2>2, StatusNames, InheritedRows
  <2>4. OneHead'
      BY <1>6, DeriveIsQuiet DEF OneHead, Quiet
  <2>. QED BY <1>2, <2>3, <2>4, LineAfter
<1>7. ASSUME NEW t \in Txs, revise(t) PROVE LineInv'
  <2>1. PICK x \in fontes[t] : Inherits(t, x, "SUPERSEDED", "CURRENT")
      BY <1>7, Revises
  <2>2. Named' /\ Placed'
      BY <1>7, <2>1, StatusNames, Revises, InheritedRows
  <2>3. PICK l \in Clids :
            /\ CurrentOf(l)' = {alvo[t]}
            /\ \A d \in Clids \ {l} : CurrentOf(d)' = CurrentOf(d) /\ PastOf(d)' = PastOf(d)
      BY <1>7, ReviseMoves
  <2>4. OneHead'
      BY <2>3 DEF OneHead
  <2>. QED BY <1>2, <2>2, <2>4, LineAfter
<1>. QED BY <1>1, <1>4, <1>5, <1>6, <1>7, Actions, MovesKeep DEF vars

-----------------------------------------------------------------------------
(* Of a revision past the index, its line is what the index looked at. *)
LEMMA RevisedLine ==
    ASSUME IInv, NEW u \in Txs, NEW y \in fontes[u], pc[u] = "commit", call[u] = "revise"
    PROVE  ResolvedClid(u, y) \in Clids /\ CurrentOf(ResolvedClid(u, y)) \subseteq {y}
BY Resolved, Distinct DEF IInv, RevisionInv, IndexAdmits

LEMMA SameResolved ==
    ASSUME NEW u \in Txs, NEW y, lido'[u] = lido[u], alvo'[u] = alvo[u]
    PROVE  ResolvedClid(u, y)' = ResolvedClid(u, y)
BY DEF ResolvedClid

LEMMA EndedRevision ==
    ASSUME IInv, NEW t \in Txs, Alone(t), fontes'[t] = {},
           \A u \in Txs \ {t} : Locking(u) => \A y \in fontes[u] : object'[y] = object[y],
           \A u \in Txs \ {t} : pc[u] = "commit" /\ call[u] = "revise" =>
               \A y \in fontes[u] : \A c \in Clids :
                   c = ResolvedClid(u, y) => CurrentOf(c)' = CurrentOf(c)
    PROVE  RevisionInv'
<1>1. ASSUME NEW u \in Txs, NEW y \in fontes'[u]
      PROVE  /\ u # t /\ y \in fontes[u] /\ pc'[u] = pc[u] /\ call'[u] = call[u]
             /\ ResolvedClid(u, y)' = ResolvedClid(u, y)
    BY <1>1, SameResolved DEF Alone
<1>2. ASSUME NEW u \in Txs, NEW y \in fontes'[u], pc'[u] \in {"flush", "commit"},
             call'[u] = "revise"
      PROVE  object'[y].status # "SUPERSEDED"
  <2>1. Locking(u) /\ u # t /\ y \in fontes[u] /\ pc[u] \in {"flush", "commit"} /\ call[u] = "revise"
      BY <1>1, <1>2 DEF Locking
  <2>. QED BY <2>1 DEF IInv, RevisionInv
<1>3. ASSUME NEW u \in Txs, NEW y \in fontes'[u], pc'[u] = "commit", call'[u] = "revise"
      PROVE  IndexAdmits(u, y)'
  <2>1. /\ u # t /\ y \in fontes[u] /\ pc[u] = "commit" /\ call[u] = "revise"
        /\ ResolvedClid(u, y)' = ResolvedClid(u, y)
      BY <1>1, <1>3
  <2>2. PICK c \in Clids : c = ResolvedClid(u, y)
      BY <2>1, RevisedLine
  <2>3. CurrentOf(c)' = CurrentOf(c) /\ CurrentOf(c) \subseteq {y}
      BY <2>1, <2>2, RevisedLine
  <2>. QED BY <2>1, <2>2, <2>3 DEF IndexAdmits, CurrentOf
<1>4. ASSUME NEW u \in Txs, NEW v \in Txs, NEW y \in fontes'[u], NEW z \in fontes'[v],
             pc'[u] = "commit", call'[u] = "revise", pc'[v] = "commit", call'[v] = "revise",
             ResolvedClid(u, y)' = ResolvedClid(v, z)'
      PROVE  u = v
  <2>1. /\ y \in fontes[u] /\ pc[u] = "commit" /\ call[u] = "revise"
        /\ z \in fontes[v] /\ pc[v] = "commit" /\ call[v] = "revise"
        /\ ResolvedClid(u, y) = ResolvedClid(v, z)
      BY <1>1, <1>4
  <2>. QED BY <2>1 DEF IInv, RevisionInv
<1>. QED BY <1>2, <1>3, <1>4 DEF RevisionInv

LEMMA CommitRevision ==
    ASSUME IInv, [Next]_vars, NEW t \in Txs, derive(t) \/ revise(t) \/ derive_many(t)
    PROVE  RevisionInv'
<1>1. /\ Alone(t) /\ End(t) /\ pc[t] = "commit" /\ Sessions
    BY Derives, Revises, Merges, TypeParts DEF IInv
<1>2. fontes'[t] = {}
    BY <1>1, Ended
<1>3. \A u \in Txs \ {t} : Locking(u) => \A y \in fontes[u] : object'[y] = object[y]
    BY LockedStay
<1>4. ASSUME NEW u \in Txs \ {t}, pc[u] = "commit", call[u] = "revise",
             NEW y \in fontes[u], NEW c \in Clids, c = ResolvedClid(u, y)
      PROVE  CurrentOf(c)' = CurrentOf(c)
  <2>1. CASE derive(t)
      BY <2>1, DeriveIsQuiet DEF Quiet
  <2>2. CASE derive_many(t)
    <3>1. PICK d \in Coids \cup {None} : d = resolver_clid_do_alvo(t)
        BY <2>2, Merges, MergedClid
    <3>2. /\ alvo[t] \in Coids \ Existing
          /\ \A z \in Coids : object'[z] =
                 IF z = alvo[t] THEN [clid |-> d, status |-> "NONE"] ELSE object[z]
        BY <2>2, <3>1, Merges
    <3>3. Quiet
        BY <3>1, <3>2, NewIsQuiet
    <3>. QED BY <3>3 DEF Quiet
  <2>3. CASE revise(t)
    <3>1. PICK x \in fontes[t], l \in Clids :
              /\ l = ResolvedClid(t, x)
              /\ \A d \in Clids \ {l} : CurrentOf(d)' = CurrentOf(d)
        BY <2>3, ReviseMoves
    <3>2. call[t] = "revise"
        BY <2>3, Revises
    <3>3. l # c
        BY <1>1, <1>4, <3>1, <3>2 DEF IInv, RevisionInv
    <3>. QED BY <3>1, <3>3
  <2>. QED BY <2>1, <2>2, <2>3
<1>. QED BY <1>1, <1>2, <1>3, <1>4, EndedRevision

LEMMA MoveRevision ==
    ASSUME IInv, NEW t \in Txs, Alone(t), UNCHANGED object,
           pc'[t] \in {"flush", "commit"} /\ call'[t] = "revise" =>
               /\ UNCHANGED <<lido, alvo, call, fontes>>
               /\ \A x \in fontes[t] : object[x].status # "SUPERSEDED",
           pc'[t] = "commit" /\ call'[t] = "revise" =>
               \A x \in fontes[t] : Inserting(ResolvedClid(t, x)) = {} /\ IndexAdmits(t, x)
    PROVE  RevisionInv'
<1>1. ASSUME NEW u \in Txs, NEW y \in fontes'[u], pc'[u] \in {"flush", "commit"},
             call'[u] = "revise"
      PROVE  /\ call[u] = "revise" /\ y \in fontes[u]
             /\ ResolvedClid(u, y)' = ResolvedClid(u, y)
             /\ object[y].status # "SUPERSEDED"
             /\ u # t => pc[u] = pc'[u]
  <2>1. call[u] = "revise" /\ y \in fontes[u] /\ lido'[u] = lido[u] /\ alvo'[u] = alvo[u]
      BY <1>1 DEF Alone
  <2>2. u # t => pc[u] = pc'[u]
      BY DEF Alone
  <2>3. object[y].status # "SUPERSEDED"
      BY <1>1, <2>1, <2>2 DEF IInv, RevisionInv
  <2>. QED BY <2>1, <2>2, <2>3, SameResolved
<1>2. ASSUME NEW u \in Txs, NEW y \in fontes'[u], pc'[u] = "commit", call'[u] = "revise"
      PROVE  IndexAdmits(u, y)'
  <2>1. y \in fontes[u] /\ ResolvedClid(u, y)' = ResolvedClid(u, y)
      BY <1>1, <1>2
  <2>2. IndexAdmits(u, y)
      BY <1>1, <1>2, <2>1 DEF IInv, RevisionInv
  <2>. QED BY <2>1, <2>2 DEF IndexAdmits, CurrentOf, Existing
<1>3. ASSUME NEW u \in Txs, NEW v \in Txs, NEW y \in fontes'[u], NEW z \in fontes'[v],
             pc'[u] = "commit", call'[u] = "revise", pc'[v] = "commit", call'[v] = "revise",
             ResolvedClid(u, y)' = ResolvedClid(v, z)'
      PROVE  u = v
  <2>1. /\ y \in fontes[u] /\ call[u] = "revise" /\ (u # t => pc[u] = "commit")
        /\ z \in fontes[v] /\ call[v] = "revise" /\ (v # t => pc[v] = "commit")
        /\ ResolvedClid(u, y) = ResolvedClid(v, z)
      BY <1>1, <1>3
  <2>2. CASE u # t /\ v # t
      BY <2>1, <2>2 DEF IInv, RevisionInv
  <2>3. CASE u = t /\ v # t
      BY <1>3, <2>1, <2>3 DEF Inserting
  <2>4. CASE u # t /\ v = t
      BY <1>3, <2>1, <2>4 DEF Inserting
  <2>. QED BY <2>2, <2>3, <2>4
<1>4. \A u \in Txs : \A y \in fontes'[u] :
          pc'[u] \in {"flush", "commit"} /\ call'[u] = "revise" => object'[y].status # "SUPERSEDED"
    BY <1>1
<1>. QED BY <1>2, <1>3, <1>4 DEF RevisionInv

LEMMA NextRevision == IInv /\ [Next]_vars => RevisionInv'
<1> SUFFICES ASSUME IInv, [Next]_vars PROVE RevisionInv'
    OBVIOUS
<1>. Sessions /\ CallInv /\ object \in [Coids -> Objects \cup {None}]
    BY TypeParts DEF IInv, TypeOK
<1>1. CASE UNCHANGED vars
    BY <1>1 DEF vars, IInv, RevisionInv, IndexAdmits, ResolvedClid, CurrentOf, Existing
<1>2. ASSUME NEW x \in Coids, add(x) PROVE RevisionInv'
  <2>1. /\ UNCHANGED sessionVars /\ x \in Coids \ Existing
        /\ \A y \in Existing : object'[y] = object[y]
      BY <1>2, Adds DEF Existing
  <2>2. Quiet
      BY <1>2, Adds, NewIsQuiet
  <2>3. \A u \in Txs : fontes[u] \subseteq Existing
      BY DEF CallInv
  <2>4. ASSUME NEW u \in Txs, NEW y \in fontes[u], pc[u] = "commit", call[u] = "revise"
        PROVE  IndexAdmits(u, y)'
    <3>1. PICK c \in Clids : c = ResolvedClid(u, y)
        BY <2>4, RevisedLine
    <3>2. c = ResolvedClid(u, y)'
        BY <2>1, <3>1 DEF sessionVars, ResolvedClid
    <3>3. CurrentOf(c)' \subseteq {y}
        BY <2>2, <2>4, <3>1, RevisedLine DEF Quiet
    <3>. QED BY <3>2, <3>3 DEF IndexAdmits, CurrentOf
  <2>5. \A u \in Txs : \A y : ResolvedClid(u, y)' = ResolvedClid(u, y)
      BY <2>1 DEF sessionVars, ResolvedClid
  <2>6. UNCHANGED <<pc, call, fontes>>
      BY <2>1 DEF sessionVars
  <2>. QED BY <2>1, <2>3, <2>4, <2>5, <2>6 DEF IInv, RevisionInv
<1>3. ASSUME NEW t \in Txs, derive(t) \/ revise(t) \/ derive_many(t) PROVE RevisionInv'
    BY <1>3, CommitRevision
<1>4. ASSUME NEW t \in Txs, End(t), UNCHANGED <<object, records>> PROVE RevisionInv'
  <2>1. Alone(t) /\ pc'[t] = "idle"
      BY <1>4, Stops
  <2>. QED BY <1>4, <2>1, MoveRevision
<1>5. ASSUME NEW t \in Txs, NEW x \in Coids, Start(t, x) PROVE RevisionInv'
    BY <1>5, Starts, MoveRevision
<1>6. ASSUME NEW t \in Txs, Refresh(t) PROVE RevisionInv'
  <2>1. /\ Alone(t) /\ UNCHANGED <<object, call>>
        /\ pc'[t] = IF call[t] = "revise" THEN "check" ELSE "commit"
      BY <1>6, Refreshes
  <2>2. ~ (pc'[t] \in {"flush", "commit"} /\ call'[t] = "revise")
      BY <2>1
  <2>. QED BY <2>1, <2>2, MoveRevision
<1>7. ASSUME NEW t \in Txs, Check(t) PROVE RevisionInv'
  <2>1. CASE End(t)
      BY <1>4, <1>7, <2>1, Checks
  <2>2. CASE ~ End(t)
    <3>1. /\ Alone(t) /\ UNCHANGED <<object, lido, alvo, call, fontes>>
          /\ pc[t] = "check" /\ pc'[t] = "flush" /\ call[t] = "revise"
          /\ \A x \in fontes[t] : Revisable(t, x)
        BY <1>7, <2>2, Checks
    <3>2. \A x \in fontes[t] : object[x].status # "SUPERSEDED"
        BY <3>1, Resolved DEF Revisable
    <3>. QED BY <3>1, <3>2, MoveRevision
  <2>. QED BY <2>1, <2>2
<1>8. ASSUME NEW t \in Txs, FlushCurrent(t) PROVE RevisionInv'
  <2>1. CASE End(t)
      BY <1>4, <1>8, <2>1, Flushes
  <2>2. CASE ~ End(t)
    <3>1. /\ Alone(t) /\ UNCHANGED <<object, lido, alvo, call, fontes>>
          /\ pc[t] = "flush" /\ pc'[t] = "commit" /\ call[t] = "revise"
          /\ \A x \in fontes[t] : Inserting(ResolvedClid(t, x)) = {} /\ IndexAdmits(t, x)
        BY <1>8, <2>2, Flushes
    <3>2. \A x \in fontes[t] : object[x].status # "SUPERSEDED"
        BY <3>1 DEF IInv, RevisionInv
    <3>. QED BY <3>1, <3>2, MoveRevision
  <2>. QED BY <2>1, <2>2
<1>9. ASSUME NEW t \in Txs, Load(t) PROVE RevisionInv'
  <2>1. Alone(t) /\ UNCHANGED <<object, call>> /\ call[t] = "merge"
      BY <1>9, Loads
  <2>. QED BY <2>1, MoveRevision
<1>. QED BY <1>1, <1>2, <1>3, <1>4, <1>5, <1>6, <1>7, <1>8, <1>9, Actions DEF Moves, Rollback

-----------------------------------------------------------------------------
(* A step that keeps identities and gives only fresh or old CLIDs keeps what *)
(* the records say of those that are there.                                  *)
LEMMA RecordsKept ==
    ASSUME IInv, KeepsIdentity,
           NEW changed, NEW fresh, fresh \notin {object[y].clid : y \in Existing},
           \A y \in Existing : object[y].clid = None =>
               object'[y].clid = IF y = changed THEN fresh ELSE None
    PROVE  \A r \in records :
               /\ r.inputs \subseteq Existing' /\ r.output \in Existing' \ r.inputs
               /\ \A x, y \in r.inputs :
                      /\ Cardinality(r.inputs) = 1 => SharesClid(r, x)'
                      /\ SharesClid(r, x)' => SharesClid(r, y)'
<1> SUFFICES ASSUME NEW r \in records
    PROVE  /\ r.inputs \subseteq Existing' /\ r.output \in Existing' \ r.inputs
           /\ \A x, y \in r.inputs :
                  /\ Cardinality(r.inputs) = 1 => SharesClid(r, x)'
                  /\ SharesClid(r, x)' => SharesClid(r, y)'
    OBVIOUS
<1>1. r.inputs \subseteq Existing /\ r.output \in Existing \ r.inputs
    BY DEF IInv, RecordInv
<1>2. Existing \subseteq Existing' /\ Existing \subseteq Coids
    BY ExistingGrows DEF Existing
<1>3. \A y \in Existing : object[y].clid # None => object'[y].clid = object[y].clid
    BY <1>2 DEF KeepsIdentity, Existing
<1>4. ASSUME NEW x \in r.inputs PROVE SharesClid(r, x)' <=> SharesClid(r, x)
  <2>1. x \in Existing /\ r.output \in Existing /\ x # r.output
      BY <1>1
  <2>. QED BY <1>3, <2>1 DEF SharesClid
<1>. QED BY <1>1, <1>2, <1>4 DEF IInv, RecordInv, LineageKeepsClid

(* A record is sound once it and its rows are written. *)
RecordSound(r) ==
    /\ r.inputs \subseteq Existing /\ r.output \in Existing \ r.inputs
    /\ \A x, y \in r.inputs :
           /\ Cardinality(r.inputs) = 1 => SharesClid(r, x)
           /\ SharesClid(r, x) => SharesClid(r, y)

LEMMA RecordAdded ==
    ASSUME NEW r, records' = records \cup {r},
           \A q \in records : RecordSound(q)', RecordSound(r)'
    PROVE  RecordInv'
BY DEF RecordInv, RecordSound, LineageKeepsClid

LEMMA Fresh ==
    ASSUME IInv, NEW x \in Coids \ Existing
    PROVE  x \notin {object[y].clid : y \in Existing}
BY LineParts, Distinct DEF Named

LEMMA NewRecords ==
    ASSUME IInv, KeepsIdentity, NEW new \in Coids \ Existing,
           \A y \in Existing : object[y].clid = None => object'[y].clid \in {None, new},
           \A y, z \in Existing :
               object[y].clid = None /\ object'[y].clid = new
               /\ object[z].clid = None /\ object'[z].clid = new => y = z
    PROVE  \A r \in records : RecordSound(r)'
<1>1. new # None /\ new \notin {object[y].clid : y \in Existing}
    BY Fresh, Distinct
<1>2. PICK changed : \A y \in Existing : object[y].clid = None =>
          object'[y].clid = IF y = changed THEN new ELSE None
  <2>1. CASE \E y \in Existing : object[y].clid = None /\ object'[y].clid = new
      BY <2>1, <1>1
  <2>2. CASE ~ \E y \in Existing : object[y].clid = None /\ object'[y].clid = new
    <3>1. \A y \in Existing : y # new
        OBVIOUS
    <3>2. \A y \in Existing : object[y].clid = None =>
              object'[y].clid = IF y = new THEN new ELSE None
        BY <2>2, <3>1
    <3>. QED BY <3>2
  <2>. QED BY <2>1, <2>2
<1>. QED BY <1>1, <1>2, RecordsKept DEF RecordSound

LEMMA InheritedRecord ==
    ASSUME IInv, KeepsIdentity, NEW t \in Txs, NEW x \in fontes[t], pc[t] = "commit",
           call[t] # "merge", NEW source \in Statuses, NEW target \in Statuses,
           Inherits(t, x, source, target), NEW kind, records' = records \cup {NewRecord(t, kind)}
    PROVE  RecordInv'
<1>1. /\ x \in Existing /\ alvo[t] \in Coids \ Existing /\ alvo[t] # x
      /\ Existing' = Existing \cup {alvo[t]}
      /\ object'[alvo[t]] = [clid |-> ResolvedClid(t, x), status |-> target]
      /\ object'[x] = [clid |-> ResolvedClid(t, x), status |-> source]
      /\ \A y \in Existing \ {x} : object'[y] = object[y]
    BY Inherited
<1>2. fontes[t] = {x} /\ ResolvedClid(t, x) # None
      /\ (object[x].clid = None => ResolvedClid(t, x) = alvo[t])
    BY Resolved, Distinct
<1>3. PICK new \in Coids \ Existing : new = alvo[t]
    BY <1>1
<1>4. new # None
    BY Distinct
<1>5. \A y \in Existing : object[y].clid = None =>
          object'[y].clid = IF y = x THEN new ELSE None
    BY <1>1, <1>2, <1>3
<1>6. \A r \in records : RecordSound(r)'
    BY <1>3, <1>4, <1>5, NewRecords
<1>7. PICK r : r = NewRecord(t, kind)
    OBVIOUS
<1>8. r.inputs = {x} /\ r.output = alvo[t]
    BY <1>2, <1>7 DEF NewRecord
<1>9. SharesClid(r, x)'
    BY <1>1, <1>2, <1>8 DEF SharesClid
<1>10. RecordSound(r)'
    BY <1>1, <1>8, <1>9 DEF RecordSound
<1>. QED BY <1>6, <1>7, <1>10, RecordAdded

LEMMA MergedRecord ==
    ASSUME IInv, KeepsIdentity, NEW t \in Txs, derive_many(t)
    PROVE  RecordInv'
<1>1. /\ pc[t] = "commit" /\ call[t] = "merge"
      /\ records' = records \cup {NewRecord(t, "DERIVATION")}
    BY Merges
<1>2. PICK new \in Coids \ Existing, c \in Coids \cup {None} :
          new = alvo[t] /\ c = resolver_clid_do_alvo(t)
    BY <1>1, Merges, MergedClid
<1>3. \A y \in Coids : object'[y] =
          IF y = new THEN [clid |-> c, status |-> "NONE"] ELSE object[y]
    BY <1>2, Merges
<1>4. Existing' = Existing \cup {new} /\ \A y \in Existing : object'[y] = object[y]
    BY <1>3, NewIsQuiet DEF Existing
<1>5. \A r \in records : RecordSound(r)'
    BY <1>4, NewRecords, Distinct
<1>6. PICK r : r = NewRecord(t, "DERIVATION")
    OBVIOUS
<1>7. r.inputs = fontes[t] /\ r.output = new
    BY <1>2, <1>6 DEF NewRecord
<1>8. fontes[t] \subseteq Existing /\ Cardinality(fontes[t]) # 1
    BY <1>1 DEF IInv, CallInv
<1>9. object'[new].clid = c
    BY <1>3
<1>10. c # None => \A x \in fontes[t] : object'[x].clid = c
    BY <1>1, <1>2, <1>4, <1>8, MergedClid
<1>11. \A x, y \in r.inputs : SharesClid(r, x)' => SharesClid(r, y)'
    BY <1>7, <1>9, <1>10 DEF SharesClid
<1>12. RecordSound(r)'
    BY <1>4, <1>7, <1>8, <1>11 DEF RecordSound
<1>. QED BY <1>1, <1>5, <1>6, <1>12, RecordAdded

LEMMA NextRecords == IInv /\ [Next]_vars => RecordInv'
<1> SUFFICES ASSUME IInv, [Next]_vars PROVE RecordInv'
    OBVIOUS
<1>. KeepsIdentity
    BY StepKeepsIdentity
<1>1. CASE UNCHANGED <<object, records>>
    BY <1>1 DEF IInv, RecordInv, LineageKeepsClid, SharesClid, Existing
<1>2. ASSUME NEW x \in Coids, add(x) PROVE RecordInv'
  <2>1. x \in Coids \ Existing /\ (\A y \in Existing : object'[y] = object[y]) /\ UNCHANGED records
      BY <1>2, Adds DEF Existing
  <2>2. \A r \in records : RecordSound(r)'
      BY <2>1, NewRecords, Distinct
  <2>. QED BY <2>1, <2>2 DEF RecordInv, RecordSound, LineageKeepsClid
<1>3. ASSUME NEW t \in Txs, derive(t) PROVE RecordInv'
  <2>1. PICK x \in fontes[t] : Inherits(t, x, object[x].status, "NONE")
      BY <1>3, Derives
  <2>2. pc[t] = "commit" /\ call[t] # "merge" /\ object[x].status \in Statuses
      BY <1>3, Derives, Resolved, Row
  <2>. QED BY <1>3, <2>1, <2>2, StatusNames, Derives, InheritedRecord
<1>4. ASSUME NEW t \in Txs, revise(t) PROVE RecordInv'
    BY <1>4, StatusNames, Revises, InheritedRecord
<1>5. ASSUME NEW t \in Txs, derive_many(t) PROVE RecordInv'
    BY <1>5, MergedRecord
<1>. QED BY <1>1, <1>2, <1>3, <1>4, <1>5, Actions, MovesKeep DEF vars

-----------------------------------------------------------------------------
LEMMA InitIInv == Init => IInv
<1> SUFFICES ASSUME Init PROVE IInv
    OBVIOUS
<1>1. Existing = {} /\ records = {} /\ \A t \in Txs : fontes[t] = {} /\ pc[t] = "idle"
    BY DEF Init, Existing
<1>2. TypeOK
  <2>1. \A t \in Txs : {x \in Coids : lock[x] = t} = {}
      BY Distinct DEF Init
  <2>. QED BY <1>1, <2>1 DEF Init, TypeOK
<1>3. CallInv /\ ReadInv
    BY <1>1 DEF Init, CallInv, ReadInv, Locking
<1>4. LineInv /\ RevisionInv /\ RecordInv
    BY <1>1 DEF LineInv, OneCurrentPerClid, RevisionInv, RecordInv, LineageKeepsClid
<1>. QED BY <1>2, <1>3, <1>4 DEF IInv

LEMMA NextIInv == IInv /\ [Next]_vars => IInv'
BY NextTypeOK, NextCall, NextRead, NextLine, NextRevision, NextRecords DEF IInv

(* However many sessions derive, revise and merge at once: the rows keep     *)
(* their types and the locks their holders, a CLID has one CURRENT object,   *)
(* and an object shares the CLID of its one source, a merged one of all its  *)
(* sources or of none.                                                       *)
THEOREM LineagesHold == Spec => []LineagesSound
<1>1. IInv => LineagesSound
    BY DEF IInv, LineInv, RecordInv, LineagesSound
<1>. QED BY <1>1, InitIInv, NextIInv, PTL DEF Spec

(* No step of any session removes an object, changes a CLID once given, or   *)
(* moves a revision status backwards.                                        *)
THEOREM IdentityHolds == Spec => IdentityKept
<1>1. IInv /\ [Next]_vars => [KeepsIdentity]_vars
    BY StepKeepsIdentity
<1>. QED BY <1>1, InitIInv, NextIInv, PTL DEF Spec, IdentityKept

(* The head and the past of the lines, as RevisionLine sees them. *)
HeadOf(S) == IF S = {} THEN None ELSE CHOOSE x \in S : TRUE
Heads == [c \in Clids |-> HeadOf(CurrentOf(c))]
Pasts == [c \in Clids |-> PastOf(c)]

LEMMA QuietStutters ==
    ASSUME Quiet
    PROVE  UNCHANGED <<Heads, Pasts>>
BY DEF Quiet, Heads, Pasts

(* A revision is the move of one line. *)
LEMMA MovesHead ==
    ASSUME IInv, NEW t \in Txs, revise(t)
    PROVE  \E l \in Clids, x \in Coids, new \in Coids :
               /\ \/ Heads[l] = x
                  \/ Heads[l] = None /\ Pasts[l] = {}
               /\ new \notin Pasts[l] \cup {Heads[l], x}
               /\ Heads' = [Heads EXCEPT ![l] = new]
               /\ Pasts' = [Pasts EXCEPT ![l] = @ \cup {x}]
<1>1. PICK x \in fontes[t], l \in Clids :
          /\ CurrentOf(l) \subseteq {x} /\ l = ResolvedClid(t, x)
          /\ CurrentOf(l)' = {alvo[t]} /\ PastOf(l)' = PastOf(l) \cup {x}
          /\ \A d \in Clids \ {l} : CurrentOf(d)' = CurrentOf(d) /\ PastOf(d)' = PastOf(d)
    BY ReviseMoves
<1>2. x \in Existing /\ alvo[t] \in Coids \ Existing
    BY Revises, Resolved
<1>3. PICK new \in Coids \ Existing : new = alvo[t]
    BY <1>2
<1>4. new # None /\ x \in Coids /\ x # None /\ x # new
    BY <1>2, <1>3, Distinct DEF Existing
<1>5. Heads[l] = x \/ (Heads[l] = None /\ Pasts[l] = {})
  <2>1. CASE CurrentOf(l) = {}
    <3>1. PastOf(l) = {}
        BY <2>1, LineParts DEF OneHead
    <3>. QED BY <2>1, <3>1 DEF Heads, Pasts, HeadOf
  <2>2. CASE CurrentOf(l) = {x}
      BY <2>2 DEF Heads, HeadOf
  <2>. QED BY <1>1, <2>1, <2>2
<1>6. new \notin Pasts[l]
    BY <1>3 DEF Pasts, PastOf
<1>7. Heads' = [Heads EXCEPT ![l] = new]
  <2>1. HeadOf(CurrentOf(l)') = new
      BY <1>1, <1>3 DEF HeadOf
  <2>2. Heads' = [d \in Clids |-> HeadOf(CurrentOf(d)')]
      BY DEF Heads
  <2>. QED BY <1>1, <2>1, <2>2 DEF Heads
<1>8. Pasts' = [Pasts EXCEPT ![l] = @ \cup {x}]
  <2>1. Pasts' = [d \in Clids |-> PastOf(d)']
      BY DEF Pasts
  <2>2. Pasts = [d \in Clids |-> PastOf(d)]
      BY DEF Pasts
  <2>. QED BY <1>1, <2>1, <2>2
<1>. QED BY <1>3, <1>4, <1>5, <1>6, <1>7, <1>8

(* revise implements a line of versions with one head that only moves on, by *)
(* versions that never were in it; nothing else touches a line.              *)
THEOREM RevisionLineRefined == Spec => ImplementsRevisionLine
<1>1. Init => Line!Init
    BY DEF Init, Line!Init, CurrentOf, Existing
<1>2. IInv /\ [Next]_vars => [Line!Next]_(Line!vars)
  <2> SUFFICES ASSUME IInv, [Next]_vars PROVE Line!Next \/ UNCHANGED <<Heads, Pasts>>
      BY DEF Line!vars, Heads, HeadOf, Pasts, PastOf
  <2>1. CASE UNCHANGED object
      BY <2>1 DEF Heads, Pasts, CurrentOf, PastOf, Existing
  <2>2. ASSUME NEW x \in Coids, add(x) PROVE UNCHANGED <<Heads, Pasts>>
      BY <2>2, Adds, NewIsQuiet, QuietStutters
  <2>3. ASSUME NEW t \in Txs, derive(t) PROVE UNCHANGED <<Heads, Pasts>>
      BY <2>3, DeriveIsQuiet, QuietStutters
  <2>4. ASSUME NEW t \in Txs, derive_many(t) PROVE UNCHANGED <<Heads, Pasts>>
    <3>1. PICK new \in Coids \ Existing, c \in Coids \cup {None} :
              new = alvo[t] /\ c = resolver_clid_do_alvo(t)
        BY <2>4, Merges, MergedClid
    <3>2. \A y \in Coids : object'[y] =
              IF y = new THEN [clid |-> c, status |-> "NONE"] ELSE object[y]
        BY <2>4, <3>1, Merges
    <3>. QED BY <3>2, NewIsQuiet, QuietStutters
  <2>5. ASSUME NEW t \in Txs, revise(t) PROVE Line!Next
    <3>1. PICK l \in Clids, x \in Coids, new \in Coids :
              /\ \/ Heads[l] = x
                 \/ Heads[l] = None /\ Pasts[l] = {}
              /\ new \notin Pasts[l] \cup {Heads[l], x}
              /\ Heads' = [Heads EXCEPT ![l] = new]
              /\ Pasts' = [Pasts EXCEPT ![l] = @ \cup {x}]
        BY <2>5, MovesHead
    <3>2. Line!Move(l, x, new)
        BY <3>1 DEF Line!Move, Heads, HeadOf, Pasts, PastOf
    <3>3. CASE Heads[l] = x
      <4>1. Heads[l] # None
          BY <3>3, Distinct
      <4>2. Line!Advance(l, new)
          BY <3>1, <3>3, <4>1 DEF Line!Advance, Line!Move, Heads, HeadOf, Pasts, PastOf
      <4>. QED BY <4>2 DEF Line!Next
    <3>4. CASE Heads[l] = None /\ Pasts[l] = {}
      <4>1. Line!Start(l, x, new)
          BY <3>2, <3>4 DEF Line!Start, Heads, HeadOf, Pasts, PastOf
      <4>. QED BY <4>1 DEF Line!Next
    <3>. QED BY <3>1, <3>3, <3>4
  <2>. QED BY <2>1, <2>2, <2>3, <2>4, <2>5, Actions, MovesKeep DEF vars
<1>. QED BY <1>1, <1>2, InitIInv, NextIInv, PTL DEF Spec, ImplementsRevisionLine, Line!Spec

(* Both: a lineage has one history, and nothing in it is forgotten.          *)
THEOREM LineagesHaveOneHistory == Spec => LineagesEvolve
BY IdentityHolds, RevisionLineRefined DEF LineagesEvolve

=============================================================================
