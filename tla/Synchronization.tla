-------------------------- MODULE Synchronization --------------------------
(***************************************************************************)
(* Transmission of the cognitive patrimony between instances               *)
(* (app/cognitive): export_package reads the tables one statement after    *)
(* the other, in the order of their foreign keys, while services commit    *)
(* derivations, revisions and causal events; import_package compares a     *)
(* package with what the instance has, row by row and by id, and inserts   *)
(* what is new unless something differs.                                   *)
(*                                                                         *)
(* The export is not one snapshot: at READ COMMITTED every statement sees  *)
(* what is committed when it runs.  A transformation record names its      *)
(* objects in JSON, without a foreign key.  An import is one transaction,  *)
(* but others commit between its reads and its insertions.                 *)
(***************************************************************************)
EXTENDS Integers, FiniteSets

CONSTANTS Instances,   \* installations of PIA-OS, each with its database
          Exporters,   \* those that export
          Importers,   \* those that import
          Imports,     \* sessions that import
          MaxObjects,  \* bound of the objects created anywhere
          Subjects,    \* bound: the objects that causal events are about
          MaxEvents,   \* bound of the causal events of an instance
          Absent       \* an absent row, an idle session

Coids    == 1 .. MaxObjects
Clids    == Coids       \* a generated CLID is named after the new object
Writes   == 0 .. MaxObjects
Statuses == {"NONE", "CURRENT", "SUPERSEDED"}
Objects  == [clid : Clids \cup {Absent}, status : Statuses, updated_at : Writes]

\* the tables, parents before children
ordered_tables == <<"objects", "transformations", "causal_histories", "lineage", "causal_events">>

\* APPLIED and CONFLICT are results, ERROR is whatever raises
Reports == {"APPLIED", "CONFLICT", "ERROR"}

Sections == {ordered_tables[n] : n \in 1 .. 5}

ASSUME SynchronizationAssumption ==
    /\ MaxObjects \in Nat \ {0, 1} /\ MaxEvents \in Nat
    /\ Absent \notin Nat /\ Absent \notin Objects /\ Absent \notin Instances
    /\ Exporters \subseteq Instances /\ Importers \subseteq Instances

VARIABLES
    db,        \* the tables of each instance, each a set of rows with an id
    package,   \* the package each instance last exported, or is exporting
    read,      \* how many tables the export has read, Absent before the first one
    importing, \* what an import has planned to insert, and where
    report     \* how the last import of a session ended

synchronizationVars == <<db, package, read, importing, report>>

(* An object's row with the write that last stamped updated_at; the rows of  *)
(* the other tables are never updated.                                       *)
ObjectRow(x, clid, status, at) ==
    [id |-> x, clid |-> clid, status |-> status, updated_at |-> at]

Empty == [s \in Sections |-> {}]
Ids(rows) == {r.id : r \in rows}
RowOf(rows, id) == CHOOSE r \in rows : r.id = id

Unused == Coids \ UNION {Ids(db[i]["objects"]) : i \in Instances}
\* the COID of the next object: its name does not matter
NewCoid(x) == x \in Unused /\ \A y \in Unused : x <= y

(* Every instance holds object 1, to which ClidManager.assign gave a CLID,   *)
(* and those that only import have already derived object 2 from it.         *)
SynchronizationInit ==
    /\ db = [i \in Instances |->
               IF i \in Exporters THEN [Empty EXCEPT !["objects"] = {ObjectRow(1, 1, "NONE", 0)}]
               ELSE [Empty EXCEPT
                        !["objects"] = {ObjectRow(1, 1, "NONE", 0), ObjectRow(2, 1, "NONE", 2)},
                        !["transformations"] = {[id |-> 2, input |-> 1, kind |-> "DERIVATION"]},
                        !["lineage"] = {[id |-> <<1, 2>>]}]]
    /\ package = [i \in Exporters |-> Empty]
    /\ read = [i \in Exporters |-> Absent]
    /\ importing = [m \in Imports |-> Absent]
    /\ report = [m \in Imports |-> Absent]

-----------------------------------------------------------------------------
(* What the services commit at one instance; Patrimony models how. *)

Insert(i, rows) ==
    db' = [db EXCEPT ![i] = [s \in Sections |-> @[s] \cup rows[s]]]

(* The rows of a new object y made from x: the source is written again if it *)
(* gets its CLID or its status from it.                                      *)
MakeFrom(i, x, y, kind, sourceStatus, newStatus) ==
    LET source == RowOf(db[i]["objects"], x)
        clid   == IF source.clid = Absent THEN y ELSE source.clid
        after  == IF source.clid = clid /\ source.status = sourceStatus THEN source
                  ELSE ObjectRow(x, clid, sourceStatus, y)
    IN  db' = [db EXCEPT
            ![i]["objects"] = (@ \ {source}) \cup {after, ObjectRow(y, clid, newStatus, y)},
            ![i]["transformations"] = @ \cup {[id |-> y, input |-> x, kind |-> kind]},
            ![i]["lineage"] = @ \cup {[id |-> <<x, y>>]}]

derive(i, x, y) ==
    /\ MakeFrom(i, x, y, "DERIVATION", RowOf(db[i]["objects"], x).status, "NONE")
    /\ UNCHANGED <<package, read, importing, report>>

CurrentOf(rows, c) == {r.id : r \in {r \in rows : r.clid = c /\ r.status = "CURRENT"}}

revise(i, x, y) ==
    LET source == RowOf(db[i]["objects"], x) IN
    /\ source.status # "SUPERSEDED"
    /\ source.clid # Absent => CurrentOf(db[i]["objects"], source.clid) \subseteq {x}
    /\ MakeFrom(i, x, y, "REVISION", "SUPERSEDED", "CURRENT")
    /\ UNCHANGED <<package, read, importing, report>>

(* The history of a subject, a new one if it has none. *)
ensure_history(i, x) ==
    LET mine == {h \in db[i]["causal_histories"] : h.subject = x}
    IN  IF mine = {} THEN {[id |-> <<x, i>>, subject |-> x]} ELSE mine

(* CausalHistoryManager.record: the history, if need be, and the event. *)
record(i, x) ==
    LET made == {e \in db[i]["causal_events"] : e.id[1] = i}
    IN  /\ Cardinality(made) < MaxEvents
        /\ \E h \in ensure_history(i, x) :
            Insert(i, [Empty EXCEPT
                !["causal_histories"] = {h},
                !["causal_events"] = {[id |-> <<i, Cardinality(made)>>, history |-> h.id]}])
        /\ UNCHANGED <<package, read, importing, report>>

Write(i) ==
    \E x \in Ids(db[i]["objects"]) :
        \/ x \in Subjects /\ record(i, x)
        \/ \E y \in Coids : NewCoid(y) /\ (derive(i, x, y) \/ revise(i, x, y))

-----------------------------------------------------------------------------
(* export_package, one statement per table. *)

ExportBegins(i) ==
    /\ read[i] \in {Absent, 5}
    /\ package' = [package EXCEPT ![i] = Empty]
    /\ read' = [read EXCEPT ![i] = 0]
    /\ UNCHANGED <<db, importing, report>>

(* Mutant: the tables are read in the order children before parents. *)
ReadTableBackwards(i) ==
    /\ read[i] # Absent /\ read[i] < 5
    /\ package' = [package EXCEPT ![i][ordered_tables[5 - read[i]]] =
                                       db[i][ordered_tables[5 - read[i]]]]
    /\ read' = [read EXCEPT ![i] = @ + 1]
    /\ UNCHANGED <<db, importing, report>>

read_table(i) ==
    /\ read[i] # Absent /\ read[i] < 5
    /\ package' = [package EXCEPT ![i][ordered_tables[read[i] + 1]] =
                                       db[i][ordered_tables[read[i] + 1]]]
    /\ read' = [read EXCEPT ![i] = @ + 1]
    /\ UNCHANGED <<db, importing, report>>

-----------------------------------------------------------------------------
(* import_package. *)

\* the rows of a package whose id the instance does not have
NewRows(i, p) ==
    [s \in Sections |-> {r \in p[s] : r.id \notin Ids(db[i][s])}]

\* rows that differ from the one with their id
Conflicts(i, p) ==
    {r \in p["objects"] : \E q \in db[i]["objects"] : q.id = r.id /\ q # r}

(* _classify, table by table: a conflict ends the import before it writes.   *)
classify(m, i, j) ==
    /\ importing[m] = Absent
    /\ read[j] = 5
    /\ \/ /\ Conflicts(i, package[j]) = {}
          /\ importing' = [importing EXCEPT ![m] = [to |-> i, rows |-> NewRows(i, package[j])]]
          /\ UNCHANGED report
       \/ /\ Conflicts(i, package[j]) # {}
          /\ report' = [report EXCEPT ![m] = "CONFLICT"]
          /\ UNCHANGED importing
    /\ UNCHANGED <<db, package, read>>

(* The foreign keys of the inserted rows. *)
ReferencesExist(i, rows) ==
    LET coids == Ids(db[i]["objects"] \cup rows["objects"]) IN
    /\ \A h \in rows["causal_histories"] : h.subject \in coids
    /\ \A e \in rows["lineage"] : e.id[1] \in coids /\ e.id[2] \in coids
    /\ \A e \in rows["causal_events"] :
           e.history \in Ids(db[i]["causal_histories"] \cup rows["causal_histories"])

(* The primary keys, one CURRENT object per CLID, one history per subject. *)
Unique(i, rows) ==
    /\ \A s \in Sections : Ids(rows[s]) \cap Ids(db[i][s]) = {}
    /\ \A r \in rows["objects"] :
           r.status = "CURRENT" =>
               CurrentOf(db[i]["objects"] \cup rows["objects"], r.clid) = {r.id}
    /\ \A h \in rows["causal_histories"] : \A g \in db[i]["causal_histories"] :
           g.subject # h.subject

(* The insertions and the commit, or an IntegrityError and the rollback.     *)
ImportEnds(m) ==
    /\ importing[m] # Absent
    /\ LET i == importing[m].to
           rows == importing[m].rows
       IN  \/ /\ ReferencesExist(i, rows) /\ Unique(i, rows)
              /\ Insert(i, rows)
              /\ report' = [report EXCEPT ![m] = "APPLIED"]
           \/ /\ ~(ReferencesExist(i, rows) /\ Unique(i, rows))
              /\ report' = [report EXCEPT ![m] = "ERROR"]
              /\ UNCHANGED db
    /\ importing' = [importing EXCEPT ![m] = Absent]
    /\ UNCHANGED <<package, read>>

-----------------------------------------------------------------------------
SynchronizationNext ==
    \/ \E i \in Instances : Write(i)
    \/ \E i \in Exporters : ExportBegins(i) \/ read_table(i)
    \/ \E m \in Imports :
        ImportEnds(m) \/ \E i \in Importers, j \in Exporters : classify(m, i, j)

SynchronizationSpec == SynchronizationInit /\ [][SynchronizationNext]_synchronizationVars

-----------------------------------------------------------------------------
(* An id names one row of a table. *)
Keyed(rows) == \A q, r \in rows : q.id = r.id => q = r

(* The tables and packages keep their shape and their primary keys. *)
SynchronizationTypeOK ==
    /\ \A i \in Instances : \A s \in Sections : Keyed(db[i][s])
    /\ \A j \in Exporters : \A s \in Sections : Keyed(package[j][s])
    /\ \A i \in Instances :
           \A r \in db[i]["objects"] :
               r.id \in Coids
               /\ [clid |-> r.clid, status |-> r.status, updated_at |-> r.updated_at] \in Objects
    /\ read \in [Exporters -> 0 .. 5 \cup {Absent}]
    /\ report \in [Imports -> Reports \cup {Absent}]

(* COUT-P1, COUT-P5: nobody's lineage arrives in part.  At every instance a  *)
(* record has its objects (no foreign key says so) and its edge, an edge its *)
(* record, and an object is SUPERSEDED exactly when one revision says so,    *)
(* although packages are read while their objects are revised.               *)
LineageWhole ==
    \A i \in Instances :
        /\ \A t \in db[i]["transformations"] :
               {t.id, t.input} \subseteq Ids(db[i]["objects"])
        /\ {e.id : e \in db[i]["lineage"]} =
               {<<t.input, t.id>> : t \in db[i]["transformations"]}
        /\ \A r \in db[i]["objects"] :
               LET revisions == {t \in db[i]["transformations"] :
                                     t.kind = "REVISION" /\ t.input = r.id}
               IN  Cardinality(revisions) = IF r.status = "SUPERSEDED" THEN 1 ELSE 0

(* COUT-P2: after any import there is at most one CURRENT object per CLID. *)
OneCurrentPerClid ==
    \A i \in Instances : \A c \in Clids :
        Cardinality(CurrentOf(db[i]["objects"], c)) <= 1

(* What import_package leaves behind, at every instance and at any moment:   *)
(* keyed tables, whole lineages and one head per CLID.                       *)
PatrimonyWhole == SynchronizationTypeOK /\ LineageWhole /\ OneCurrentPerClid
=============================================================================
