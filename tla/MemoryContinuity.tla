-------------------------- MODULE MemoryContinuity --------------------------
(***************************************************************************)
(* Sessions that consolidate objects, record causal events and append      *)
(* validated experiences.  Each leaves the commit to its caller's unit of  *)
(* work, so a session sees what is committed and what it wrote itself; an  *)
(* insertion under a key another session inserted and did not commit waits *)
(* for it.  An exception leaves the unit of work, which rolls back.        *)
(*                                                                         *)
(* ConsolidationManager only knows a port: besides derive_many the model   *)
(* lets it answer what the rows do not bear out, in one respect at a time. *)
(***************************************************************************)
EXTENDS Consolidation, ValidatedExperience

CONSTANTS Sessions,               \* database sessions
          Sources,                \* the objects there are at first
          ConsolidationRequests,  \* what consolidations are asked
          Entries,                \* what is appended, well formed or not
          EventSubjects,          \* the objects events are recorded about
          MaxEvents               \* bound of the events recorded about one

ASSUME ContinuityAssumption ==
    /\ Sources \subseteq CognitiveObject
    /\ \A o, p \in Sources : o.coid = p.coid => o = p
    /\ \A e \in Entries : e.evidence_refs \in Seq([kind : STRING, ref : Nat])
    /\ ConsolidationRequests \subseteq ConsolidationRequest
    /\ MaxEvents \in Ordinals

Tables == DOMAIN NoRows \cup {"experiences"}
Empty  == [table \in Tables |-> {}]
Nothing == [results |-> {}, entries |-> {}]

VARIABLES
    db,     \* the committed tables
    own,    \* the rows a session has written and not committed
    place,  \* where a session is
    pedido, \* the entry or the subject it is busy with
    given,  \* the results and the entries its unit of work was answered
    kept    \* those of the committed ones

continuityVars == <<db, own, place, pedido, given, kept>>

ContinuityInit ==
    /\ db = [Empty EXCEPT !.objects = Sources]
    /\ own = [t \in Sessions |-> Empty]
    /\ place = [t \in Sessions |-> "open"]
    /\ pedido = [t \in Sessions |-> Null]
    /\ given = [t \in Sessions |-> Nothing]
    /\ kept = Nothing

Joined(a, b) == [table \in DOMAIN a |-> a[table] \cup b[table]]
Visible(t)   == Joined(db, own[t])
Anywhere(table) == db[table] \cup UNION {own[t][table] : t \in Sessions}

MoveTo(t, label) == place' = [place EXCEPT ![t] = label]
Write(t, table, rows) == own' = [own EXCEPT ![t][table] = @ \cup rows]
Others(t) == Sessions \ {t}

(* The unit of work of t ends; unless it commits, its rows are gone. *)
End(t) ==
    /\ own' = [own EXCEPT ![t] = Empty]
    /\ pedido' = [pedido EXCEPT ![t] = Null]
    /\ given' = [given EXCEPT ![t] = Nothing]
    /\ MoveTo(t, "open")

-----------------------------------------------------------------------------
(* Consolidation.                                                            *)
Acceptable(seen, request) ==
    /\ Preflight(request)
    /\ carregar_fontes(seen, request)
    /\ carregar_predecessores(seen, request)

(* What the port may answer: the rows and the receipt of derive_many, or     *)
(* something else in one respect.                                            *)
PortAnswers(seen, q, target) ==
    LET d     == derive_many(seen, q, target)
        edge  == CHOOSE e \in d.rows.edges : TRUE
        event == CHOOSE e \in d.rows.events : TRUE
        other == CHOOSE o \in seen.objects : o.coid \notin ToSet(q.source_coids)
    IN  {d,
         [d EXCEPT !.rows.edges = (@ \ {edge}) \cup {[edge EXCEPT !.relation_type = "branch"]}],
         [d EXCEPT !.rows.edges = @ \ {edge}],
         [d EXCEPT !.receipt.lineage_edge_ids = Reverse(@)],
         [d EXCEPT !.rows.events = (@ \ {event}) \cup {[event EXCEPT !.event_type = "COMPARED"]}],
         [d EXCEPT !.rows.events = @ \cup {[event EXCEPT !.id = <<target, 4>>]}],
         [d EXCEPT !.rows.records = {}],
         [d EXCEPT !.receipt.target_clid = IF @ = Null THEN 1 ELSE Null],
         [d EXCEPT !.rows.objects = {[o EXCEPT !.deleted = TRUE] : o \in @}],
         [d EXCEPT !.receipt.target_coid = other.coid],
         derive_many(seen, [q EXCEPT !.source_coids[1] = other.coid], target),
         derive_many(seen, [q EXCEPT !.predecessors = <<>>], target)}

(* The next new object: its name does not matter. *)
Unused    == Coids \ {o.coid : o \in Anywhere("objects")}
NewObject == CHOOSE x \in Unused : TRUE

consolidate(t, request) ==
    /\ place[t] = "open"
    /\ Unused # {}
    /\ LET seen   == Visible(t)
           target == NewObject
           q      == Canonical(request)
       IN  \/ ~Acceptable(seen, request) /\ End(t)
           \/ /\ Acceptable(seen, request)
              /\ \E answer \in PortAnswers(seen, q, target) :
                  LET written == [table \in Tables |->
                                     own[t][table] \cup (IF table \in DOMAIN NoRows
                                                         THEN answer.rows[table] ELSE {})]
                      result  == [request |-> request, receipt |-> answer.receipt]
                  IN  \/ /\ Verified(Joined(db, written), q, answer.receipt)
                         /\ own' = [own EXCEPT ![t] = written]
                         /\ given' = [given EXCEPT ![t].results = @ \cup {result}]
                         /\ UNCHANGED <<place, pedido>>
                      \/ ~Verified(Joined(db, written), q, answer.receipt) /\ End(t)
    /\ UNCHANGED <<db, kept>>

-----------------------------------------------------------------------------
(* Causal events (CausalHistoryManager.record): the first one of a subject   *)
(* creates its history.                                                      *)
HistoriesOf(rows, subject) == {h \in rows.histories : h.subject = subject}

Unrecorded(subject) ==
    {k \in 1 .. MaxEvents : <<subject, k>> \notin {e.id : e \in Anywhere("events")}}

NewEvent(subject, predecessor) ==
    [id |-> <<subject, CHOOSE k \in Unrecorded(subject) : TRUE>>, subject |-> subject,
     event_type |-> "ACCESSED", predecessor |-> predecessor]

(* ensure_history finds one, or goes on to insert one. *)
record(t, subject, predecessor) ==
    /\ place[t] = "open"
    /\ subject \in EventSubjects \cap {o.coid : o \in Visible(t).objects}
    /\ predecessor \in {e.id : e \in Visible(t).events} \cup {Null}
    /\ Unrecorded(subject) # {}
    /\ \/ /\ HistoriesOf(Visible(t), subject) # {}
          /\ Write(t, "events", {NewEvent(subject, predecessor)})
          /\ UNCHANGED <<place, pedido>>
       \/ /\ HistoriesOf(Visible(t), subject) = {}
          /\ MoveTo(t, "history")
          /\ pedido' = [pedido EXCEPT ![t] = [subject |-> subject, predecessor |-> predecessor]]
          /\ UNCHANGED own
    /\ UNCHANGED <<db, given, kept>>

(* Mutant: no unique index on the subject of a history. *)
SubjectTakenByNobody(subject) == FALSE

SubjectTaken(subject) == HistoriesOf(db, subject) # {}

(* The insertion of a history waits for an uncommitted one of the subject;   *)
(* on a committed one it fails, with everything the session has written.     *)
ensure_history(t) ==
    /\ place[t] = "history"
    /\ \A u \in Others(t) : HistoriesOf(own[u], pedido[t].subject) = {}
    /\ \/ SubjectTaken(pedido[t].subject) /\ End(t)
       \/ /\ ~SubjectTaken(pedido[t].subject)
          /\ Unrecorded(pedido[t].subject) # {}
          /\ LET first == NewEvent(pedido[t].subject, pedido[t].predecessor)
             IN  own' = [own EXCEPT
                     ![t].histories = @ \cup {[id |-> first.id, subject |-> first.subject]},
                     ![t].events = @ \cup {first}]
          /\ MoveTo(t, "open")
          /\ pedido' = [pedido EXCEPT ![t] = Null]
          /\ UNCHANGED given
    /\ UNCHANGED <<db, kept>>

-----------------------------------------------------------------------------
(* Validated experiences (ValidatedExperienceRepository).                    *)
RowsOf(rows, id) == {r \in rows : r.id = id}

(* The row on record is answered if it says the same; otherwise it is a      *)
(* conflict, which names the entry.                                          *)
Reconciliar(t, row, e) ==
    \/ /\ Divergentes(row, e) = {}
       /\ given' = [given EXCEPT ![t].entries = @ \cup {e}]
       /\ MoveTo(t, "open")
       /\ pedido' = [pedido EXCEPT ![t] = Null]
    \/ /\ Divergentes(row, e) # {}
       /\ MoveTo(t, "conflict")
       /\ pedido' = [pedido EXCEPT ![t] = e]
       /\ UNCHANGED given

append(t, e) ==
    /\ place[t] = "open"
    /\ ValidatedExperienceAppend(e)
    /\ LET existing == RowsOf(Visible(t).experiences, e.experience_id)
       IN  \/ \E row \in existing : Reconciliar(t, row, e)
           \/ /\ existing = {}
              /\ MoveTo(t, "insert")
              /\ pedido' = [pedido EXCEPT ![t] = e]
              /\ UNCHANGED given
    /\ UNCHANGED <<db, own, kept>>

(* The insertion, in a savepoint, waits for an uncommitted row under the     *)
(* identity.  Only a collision on the identity is read again and reconciled. *)
insert(t) ==
    /\ place[t] = "insert"
    /\ FitsColumn(Materializar(pedido[t]))
    /\ \A u \in Others(t) : RowsOf(own[u].experiences, pedido[t].experience_id) = {}
    /\ LET committed == RowsOf(db.experiences, pedido[t].experience_id)
       IN  \/ \E row \in committed : Reconciliar(t, row, pedido[t]) /\ UNCHANGED own
           \/ /\ committed = {}
              /\ Write(t, "experiences", {Materializar(pedido[t])})
              /\ given' = [given EXCEPT ![t].entries = @ \cup {pedido[t]}]
              /\ MoveTo(t, "open")
              /\ pedido' = [pedido EXCEPT ![t] = Null]
    /\ UNCHANGED <<db, kept>>

(* A value its column cannot hold is an error before any wait, and no        *)
(* collision: it leaves append and the unit of work.                         *)
insert_refused(t) ==
    /\ place[t] = "insert"
    /\ ~FitsColumn(Materializar(pedido[t]))
    /\ End(t)
    /\ UNCHANGED <<db, kept>>

-----------------------------------------------------------------------------
(* The end of a unit of work.                                                *)
Waits(t, u) ==
    \/ place[t] = "history" /\ HistoriesOf(own[u], pedido[t].subject) # {}
    \/ /\ place[t] = "insert"
       /\ FitsColumn(Materializar(pedido[t]))
       /\ RowsOf(own[u].experiences, pedido[t].experience_id) # {}

(* Two sessions that wait for each other: the database ends one of the calls *)
(* with an error that is no violation of a constraint.                       *)
Deadlock(t) ==
    /\ \E u \in Others(t) : Waits(t, u) /\ Waits(u, t)
    /\ End(t)
    /\ UNCHANGED <<db, kept>>

commit(t) ==
    /\ place[t] = "open"
    /\ given[t] # Nothing \/ own[t] # Empty
    /\ db' = Visible(t)
    /\ kept' = Joined(kept, given[t])
    /\ End(t)

rollback(t) ==
    /\ place[t] = "conflict" \/ (place[t] = "open" /\ own[t] # Empty)
    /\ End(t)
    /\ UNCHANGED <<db, kept>>

ContinuityNext ==
    \E t \in Sessions :
        \/ \E request \in ConsolidationRequests : consolidate(t, request)
        \/ \E subject \in Coids, p \in EventIds \cup {Null} : record(t, subject, p)
        \/ ensure_history(t)
        \/ \E e \in Entries : append(t, e)
        \/ insert(t)
        \/ insert_refused(t)
        \/ Deadlock(t)
        \/ commit(t)
        \/ rollback(t)

ContinuitySpec == ContinuityInit /\ [][ContinuityNext]_continuityVars

-----------------------------------------------------------------------------
(* The sessions have their shape, and the rows together are ones the tables  *)
(* accept: what the constructors let through no check refuses, and a subject *)
(* gets one history however many sessions record its first event.            *)
Committable(rows) == TablesAccept(rows) /\ ExperienceTableAccepts(rows.experiences)

ContinuityTypeOK ==
    /\ place \in [Sessions -> {"open", "insert", "history", "conflict"}]
    /\ \A t \in Sessions :
           /\ Committable(Visible(t))
           /\ given[t].entries \subseteq Entries
           /\ \A u \in Others(t), h \in own[t].histories : HistoriesOf(own[u], h.subject) = {}
    /\ Committable(db)
    /\ db.objects \subseteq CognitiveObject
    /\ db.edges \subseteq LineageEdge
    /\ db.records \subseteq TransformationRecord
    /\ db.histories \subseteq CausalHistory
    /\ db.events \subseteq CausalHistoryEvent

(* The rows are the consolidation that was asked for: the new object has one *)
(* MERGE edge from each requested source and no other parent, the edge the   *)
(* result names for it, one record made it, and its events say so.           *)
Whole(rows, result) ==
    LET receipt == result.receipt
        target  == receipt.target_coid
    IN  /\ ToSet(receipt.source_coids) = ToSet(result.request.source_coids)
        /\ ToSet(receipt.predecessor_event_ids) = ToSet(result.request.predecessors)
        /\ {e \in rows.edges : e.child = target} =
               {[id |-> lineage_edge_for(receipt, s), parent |-> s, child |-> target,
                 relation_type |-> "merge"] : s \in ToSet(result.request.source_coids)}
        /\ {r.id : r \in {r \in rows.records : target \in r.output_refs}}
               = {receipt.transformation_id}
        /\ \A id \in ToSet(receipt.causal_event_ids) :
               \E e \in rows.events : /\ e.id = id /\ e.subject = target
                                      /\ e.event_type = "TRANSFORMED"
        /\ \E o \in rows.objects : o.coid = target /\ o.clid = receipt.target_clid /\ ~o.deleted

(* Whatever the port answered, a result stands for a whole consolidation, in *)
(* its session and for everybody once committed; and the kernel's own answer *)
(* is never refused.  (ConsolidationManager.consolidate)                     *)
ConsolidationsWhole ==
    /\ \A result \in kept.results : Whole(db, result)
    /\ \A t \in Sessions :
           /\ \A result \in given[t].results : Whole(Visible(t), result)
           /\ \A request \in ConsolidationRequests :
                  Unused # {} /\ Acceptable(Visible(t), request) =>
                      LET q == Canonical(request)
                          d == derive_many(Visible(t), q, NewObject)
                      IN  Verified(Joined(d.rows, Visible(t)), q, d.receipt)

(* An entry that was answered is on record as it was asked, for good once    *)
(* its unit of work commits; an entry refused as a conflict really differs   *)
(* from the row under its identity.  (append, _reconciliar)                  *)
ExperiencesAgree ==
    /\ \A e \in kept.entries : Materializar(e) \in db.experiences
    /\ \A t \in Sessions :
           /\ \A e \in given[t].entries : Materializar(e) \in Visible(t).experiences
           /\ place[t] = "conflict" =>
                  \E row \in RowsOf(Visible(t).experiences, pedido[t].experience_id) :
                      row # Materializar(pedido[t])
=============================================================================
