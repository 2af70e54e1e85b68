----------------------------- MODULE Patrimony -----------------------------
(***************************************************************************)
(* Versions of cognitive objects (app/cognitive): VersionManager derives   *)
(* and revises an object, ClidManager hands its lineage identity (CLID) to *)
(* the new one, and MultiInputTransformationManager merges several.  Each  *)
(* writes the new object, a lineage edge per source and a transformation   *)
(* record, and leaves the commit to its caller.                            *)
(*                                                                         *)
(* A session runs one of them per transaction.  derive and revise hold the *)
(* row lock of their source (refresh_for_update) until it ends; merging    *)
(* reads its sources one by one without a lock and only waits for the      *)
(* lockers when its edges reference them.  A partial unique index allows   *)
(* one CURRENT object per CLID; an insertion waits for an uncommitted one  *)
(* under the same CLID before it succeeds or fails.                        *)
(***************************************************************************)
EXTENDS Integers, FiniteSets

CONSTANTS Txs,         \* sessions
          MaxObjects,  \* bound of the objects created
          None         \* NULL, an absent row, a free lock

Coids    == 1 .. MaxObjects
Clids    == Coids  \* a generated CLID is fresh, so it is named after the new object
Statuses == {"NONE", "CURRENT", "SUPERSEDED"}
Objects  == [clid : Clids \cup {None}, status : Statuses]
Records  == [kind : {"DERIVATION", "REVISION"}, inputs : SUBSET Coids, output : Coids]

ASSUME PatrimonyAssumption ==
    MaxObjects \in Nat /\ None \notin Nat /\ None \notin Objects /\ None \notin Txs

VARIABLES
    object,   \* cognitive_objects
    records,  \* transformation_records, each with its lineage edges
    lock,     \* row locks of cognitive_objects
    pc, call, \* where a session is, and which service it called
    fontes,   \* the sources of its call
    alvo,     \* the COID of its new object
    lido      \* what it read of its sources, as refreshed or as loaded

sessionVars == <<pc, call, fontes, alvo, lido>>
vars == <<object, records, lock, pc, call, fontes, alvo, lido>>

Init ==
    /\ object = [x \in Coids |-> None]
    /\ records = {}
    /\ lock = [x \in Coids |-> None]
    /\ pc = [t \in Txs |-> "idle"]
    /\ call = [t \in Txs |-> "derive"]
    /\ fontes = [t \in Txs |-> {}]
    /\ alvo = [t \in Txs |-> None]
    /\ lido = [t \in Txs |-> [x \in Coids |-> None]]

Existing == {x \in Coids : object[x] # None}
Unused   == {x \in Coids : object[x] = None /\ \A t \in Txs : alvo[t] # x}
Goto(t, label) == pc' = [pc EXCEPT ![t] = label]

(* Mutant: the locks of an aborted transaction remain. *)
EndKeepingLocks(t) ==
    /\ pc' = [pc EXCEPT ![t] = "idle"]
    /\ fontes' = [fontes EXCEPT ![t] = {}]
    /\ alvo' = [alvo EXCEPT ![t] = None]
    /\ lido' = [lido EXCEPT ![t] = [x \in Coids |-> None]]
    /\ UNCHANGED <<lock, call>>

(* The transaction of t ends: its locks go, its session forgets. *)
End(t) ==
    /\ pc' = [pc EXCEPT ![t] = "idle"]
    /\ lock' = [x \in Coids |-> IF lock[x] = t THEN None ELSE lock[x]]
    /\ fontes' = [fontes EXCEPT ![t] = {}]
    /\ alvo' = [alvo EXCEPT ![t] = None]
    /\ lido' = [lido EXCEPT ![t] = [x \in Coids |-> None]]
    /\ UNCHANGED call

-----------------------------------------------------------------------------
(* ObjectRepository.add of a new object, committed: no CLID, no status. *)
add(x) ==
    /\ x \in Unused
    /\ object' = [object EXCEPT ![x] = [clid |-> None, status |-> "NONE"]]
    /\ UNCHANGED <<records, lock, sessionVars>>

(* A call starts with its sources and the COID of its new object. *)
Call(t, operation, sources, x) ==
    /\ pc[t] = "idle"
    /\ x \in Unused
    /\ sources \subseteq Existing
    /\ call' = [call EXCEPT ![t] = operation]
    /\ fontes' = [fontes EXCEPT ![t] = sources]
    /\ alvo' = [alvo EXCEPT ![t] = x]
    /\ Goto(t, IF operation = "merge" THEN "load" ELSE "refresh")
    /\ UNCHANGED <<object, records, lock, lido>>

(* derive_many takes two sources or more; the others take one. *)
Start(t, x) ==
    \/ \E source \in Existing : \E operation \in {"derive", "revise"} :
           Call(t, operation, {source}, x)
    \/ \E sources \in SUBSET Existing :
           Cardinality(sources) >= 2 /\ Call(t, "merge", sources, x)

(* SELECT ... FOR UPDATE, and the row as it is then. *)
refresh_for_update(t, x) ==
    /\ lock[x] = None
    /\ lock' = [lock EXCEPT ![x] = t]
    /\ lido' = [lido EXCEPT ![t][x] = object[x]]

Refresh(t) ==
    /\ pc[t] = "refresh"
    /\ \E x \in fontes[t] : refresh_for_update(t, x)
    /\ Goto(t, IF call[t] = "revise" THEN "check" ELSE "commit")
    /\ UNCHANGED <<object, records, call, fontes, alvo>>

-----------------------------------------------------------------------------
(* ClidManager.inherit: the CLID of the parent, or a new one for both. *)
ResolvedClid(t, x) ==
    IF lido[t][x].clid # None THEN lido[t][x].clid ELSE alvo[t]

CurrentOf(c) ==
    {y \in Existing : object[y].clid = c /\ object[y].status = "CURRENT"}

(* The checks of revise under the lock: not superseded, and no other CURRENT *)
(* object in its lineage (get_current_by_clid).                              *)
Revisable(t, x) ==
    /\ lido[t][x].status # "SUPERSEDED"
    /\ lido[t][x].clid # None => CurrentOf(lido[t][x].clid) \subseteq {x}

Check(t) ==
    /\ pc[t] = "check"
    /\ \E x \in fontes[t] :
        \/ Revisable(t, x) /\ Goto(t, "flush") /\ UNCHANGED <<lock, call, fontes, alvo, lido>>
        \/ ~Revisable(t, x) /\ End(t)
    /\ UNCHANGED <<object, records>>

(* Sessions whose uncommitted CURRENT object has the CLID c. *)
Inserting(c) ==
    {u \in Txs : pc[u] = "commit" /\ call[u] = "revise"
                 /\ \E y \in fontes[u] : ResolvedClid(u, y) = c}

IndexAdmits(t, x) == CurrentOf(ResolvedClid(t, x)) \subseteq {x}

(* The flush of the new CURRENT object: it waits for an uncommitted entry of *)
(* the index, and fails on a committed one.                                  *)
FlushCurrent(t) ==
    /\ pc[t] = "flush"
    /\ \E x \in fontes[t] :
        /\ Inserting(ResolvedClid(t, x)) = {}
        /\ \/ IndexAdmits(t, x) /\ Goto(t, "commit") /\ UNCHANGED <<lock, call, fontes, alvo, lido>>
           \/ ~IndexAdmits(t, x) /\ End(t)
    /\ UNCHANGED <<object, records>>

NewRecord(t, kind) == [kind |-> kind, inputs |-> fontes[t], output |-> alvo[t]]

(* derive commits: the source keeps its status, the new object has none. *)
derive(t) ==
    /\ pc[t] = "commit" /\ call[t] = "derive"
    /\ \E x \in fontes[t] :
        object' = [object EXCEPT
            ![x].clid = ResolvedClid(t, x),
            ![alvo[t]] = [clid |-> ResolvedClid(t, x), status |-> "NONE"]]
    /\ records' = records \cup {NewRecord(t, "DERIVATION")}
    /\ End(t)

(* Mutant: the source of a revision keeps its status. *)
ReviseKeepingSource(t) ==
    /\ pc[t] = "commit" /\ call[t] = "revise"
    /\ \E x \in fontes[t] :
        object' = [object EXCEPT
            ![x].clid = ResolvedClid(t, x),
            ![alvo[t]] = [clid |-> ResolvedClid(t, x), status |-> "CURRENT"]]
    /\ records' = records \cup {NewRecord(t, "REVISION")}
    /\ End(t)

(* revise commits: the source is superseded and the new object CURRENT. *)
revise(t) ==
    /\ pc[t] = "commit" /\ call[t] = "revise"
    /\ \E x \in fontes[t] :
        object' = [object EXCEPT
            ![x] = [clid |-> ResolvedClid(t, x), status |-> "SUPERSEDED"],
            ![alvo[t]] = [clid |-> ResolvedClid(t, x), status |-> "CURRENT"]]
    /\ records' = records \cup {NewRecord(t, "REVISION")}
    /\ End(t)

-----------------------------------------------------------------------------
(* _carregar_fontes reads the sources in the order of their COIDs. *)
Load(t) ==
    /\ pc[t] = "load"
    /\ \E x \in fontes[t] :
        /\ \A y \in fontes[t] : lido[t][y] = None => x <= y
        /\ lido[t][x] = None
        /\ lido' = [lido EXCEPT ![t][x] = object[x]]
    /\ Goto(t, IF \E x \in fontes[t] : lido'[t][x] = None THEN "load" ELSE "commit")
    /\ UNCHANGED <<object, records, lock, call, fontes, alvo>>

ReadClids(t) == {lido[t][x].clid : x \in fontes[t]}

(* Mutant: the sources without a CLID are ignored. *)
ClidOfAnySource(t) ==
    IF Cardinality(ReadClids(t) \ {None}) = 1 THEN CHOOSE c \in ReadClids(t) : c # None
    ELSE None

(* The new object has the CLID of its sources if they all have the same one. *)
resolver_clid_do_alvo(t) ==
    IF Cardinality(ReadClids(t)) = 1 THEN CHOOSE c \in ReadClids(t) : TRUE ELSE None

(* derive_many commits: its edges reference the sources, so it waits for     *)
(* whoever holds their rows for update.                                      *)
derive_many(t) ==
    /\ pc[t] = "commit" /\ call[t] = "merge"
    /\ \A x \in fontes[t] : lock[x] = None
    /\ object' = [object EXCEPT
            ![alvo[t]] = [clid |-> resolver_clid_do_alvo(t), status |-> "NONE"]]
    /\ records' = records \cup {NewRecord(t, "DERIVATION")}
    /\ End(t)

(* The caller's unit of work fails or is abandoned. *)
Rollback(t) ==
    /\ pc[t] # "idle"
    /\ End(t)
    /\ UNCHANGED <<object, records>>

-----------------------------------------------------------------------------
(* The call goes on by itself. *)
Step(t) ==
    \/ Refresh(t) \/ Check(t) \/ FlushCurrent(t) \/ Load(t)
    \/ derive(t) \/ revise(t) \/ derive_many(t)

Next ==
    \/ \E x \in Coids : add(x)
    \/ \E t \in Txs :
        \/ \E x \in Coids : Start(t, x)
        \/ Step(t)
        \/ Rollback(t)

Spec == Init /\ [][Next]_vars /\ \A t \in Txs : SF_vars(Step(t))

-----------------------------------------------------------------------------
(* The rows and the sessions keep their shape; a session holds the lock of   *)
(* its source exactly while it derives or revises it.                        *)
TypeOK ==
    /\ object \in [Coids -> Objects \cup {None}]
    /\ records \subseteq Records
    /\ lock \in [Coids -> Txs \cup {None}]
    /\ pc \in [Txs -> {"idle", "refresh", "check", "flush", "load", "commit"}]
    /\ call \in [Txs -> {"derive", "revise", "merge"}]
    /\ fontes \in [Txs -> SUBSET Coids]
    /\ alvo \in [Txs -> Coids \cup {None}]
    /\ lido \in [Txs -> [Coids -> Objects \cup {None}]]
    /\ \A t \in Txs :
           {x \in Coids : lock[x] = t} =
               IF pc[t] \in {"check", "flush", "commit"} /\ call[t] # "merge"
               THEN fontes[t] ELSE {}

(* COUNT(CURRENT) <= 1 per CLID, whichever objects of a lineage are revised  *)
(* at the same time.                                                         *)
OneCurrentPerClid ==
    \A x, y \in Existing :
        /\ object[x].status = "CURRENT" /\ object[y].status = "CURRENT"
        /\ object[x].clid = object[y].clid
        => x = y

SharesClid(r, x) ==
    object[x].clid # None /\ object[x].clid = object[r.output].clid

(* Continuity follows the lineage: an object derived or revised from one     *)
(* source shares its CLID, and a merged object never joins the lineage of    *)
(* some of its sources only, although they were read one by one, unlocked.   *)
LineageKeepsClid ==
    \A r \in records : \A x, y \in r.inputs :
        /\ Cardinality(r.inputs) = 1 => SharesClid(r, x)
        /\ SharesClid(r, x) => SharesClid(r, y)

(* Whatever is revised, derived and merged at once, lineages are whole: one  *)
(* CURRENT object, one CLID, and locks held only by the calls that use them. *)
LineagesSound == TypeOK /\ OneCurrentPerClid /\ LineageKeepsClid

KeepsIdentity ==
    \A x \in Coids : object[x] # None =>
        /\ object'[x] # None
        /\ object[x].clid # None => object'[x].clid = object[x].clid
        /\ object[x].status = "CURRENT" => object'[x].status # "NONE"
        /\ object[x].status = "SUPERSEDED" => object'[x].status = "SUPERSEDED"

(* CLID is written once, a revision status only moves forward, and no object *)
(* disappears (SUPERSEDED != DELETED).                                       *)
IdentityKept == [][KeepsIdentity]_vars

(* Every call ends: waiting for a row or for the index entry of another      *)
(* transaction is never in a circle.                                         *)
CallsEnd == \A t \in Txs : pc[t] # "idle" ~> pc[t] = "idle"

(* What revisions promise of one lineage: a head that moves on. *)
Line == INSTANCE RevisionLine WITH
    Lines <- Clids, Versions <- Coids,
    head <- [c \in Clids |-> IF CurrentOf(c) = {} THEN None
                             ELSE CHOOSE x \in CurrentOf(c) : TRUE],
    past <- [c \in Clids |-> {x \in Existing : object[x].clid = c
                                               /\ object[x].status = "SUPERSEDED"}]

(* revise implements a line of versions with one head; deriving and merging  *)
(* leave every line alone.                                                   *)
ImplementsRevisionLine == Line!Spec

(* A lineage has one history: its head moves on, its identity does not, and  *)
(* what was superseded stays (RevisionService.revise, ClidService).          *)
LineagesEvolve == IdentityKept /\ ImplementsRevisionLine
=============================================================================
