--------------------------- MODULE Consolidation ---------------------------
(***************************************************************************)
(* What a consolidation writes and how it is verified.  The cognitive      *)
(* kernel merges several objects into a new one and answers with a receipt *)
(* (derive_many); the memory layer, which only knows a port, reads the     *)
(* rows of the new object back (PersistenceManager) and refuses a receipt  *)
(* they do not bear out (ConsolidationManager, ConsolidationResult).       *)
(*                                                                         *)
(* A database is a record of tables, as one session sees it.               *)
(***************************************************************************)
EXTENDS Integers, FiniteSets, Sequences, SequencesExt

CONSTANTS MaxCoid, \* bound of the objects that exist
          Null     \* no value

Coids     == 1 .. MaxCoid
Clids     == {1, 2}
LineageRelation == {"parent", "child", "branch", "merge", "derived_from", "transformed_from"}
CausalEventType == {"CREATED", "TRANSFORMED", "COMPARED", "ACCESSED"}

(* Identifiers are named after what they are about: the k-th edge, the       *)
(* record or the k-th event of an object; a history after its first event.   *)
Ordinals == 1 .. 4
EdgeIds  == Coids \X Ordinals
EventIds == Coids \X Ordinals

CognitiveObject      == [coid : Coids, clid : Clids \cup {Null}, deleted : BOOLEAN]
LineageEdge          == [id : EdgeIds, parent : Coids, child : Coids, relation_type : LineageRelation]
TransformationRecord == [id : Coids, input_refs : SUBSET Coids, output_refs : SUBSET Coids]
CausalHistory        == [id : EventIds, subject : Coids]
CausalHistoryEvent   == [id : EventIds, subject : Coids, event_type : CausalEventType,
                         predecessor : EventIds \cup {Null}]

(* What the tables accept: identities are unique, references exist, an edge  *)
(* is there once and never from an object to itself, a subject has one       *)
(* history, and no event precedes itself.                                    *)
Keyed(rows) == \A r, q \in rows : r.id = q.id => r = q

TablesAccept(db) ==
    LET Known == {o.coid : o \in db.objects}
    IN  /\ \A o, p \in db.objects : o.coid = p.coid => o = p
        /\ Keyed(db.edges) /\ Keyed(db.records) /\ Keyed(db.events)
        /\ \A e \in db.edges : /\ e.parent # e.child
                               /\ {e.parent, e.child} \subseteq Known
        /\ \A e, f \in db.edges :
               [e EXCEPT !.id = Null] = [f EXCEPT !.id = Null] => e = f
        /\ \A h \in db.histories : h.subject \in Known
        /\ \A h, g \in db.histories : h.subject = g.subject => h = g
        /\ \A e \in db.events :
               /\ \E h \in db.histories : h.subject = e.subject
               /\ e.predecessor # Null =>
                      /\ e.predecessor # e.id
                      /\ \E p \in db.events : p.id = e.predecessor

-----------------------------------------------------------------------------
(* derive_many: a request is checked, then its rows are written.             *)
ConsolidationRequest ==
    [source_coids : BoundedSeq(Coids, 3), predecessors : BoundedSeq(EventIds, 2),
     declares_losses : BOOLEAN]

Distinct(s) == Cardinality(ToSet(s)) = Len(s)

(* The order of UUIDs; events are ordered as their identifiers are named.    *)
Before(e, f) == e[1] < f[1] \/ (e[1] = f[1] /\ e[2] < f[2])

validar_fontes(request) ==
    /\ Len(request.source_coids) >= 2
    /\ Distinct(request.source_coids)

Preflight(request) ==
    /\ validar_fontes(request)
    /\ Distinct(request.predecessors)
    /\ request.declares_losses

\* distinct elements in an order
Sorted(s, precedes(_, _)) ==
    CHOOSE r \in [DOMAIN s -> ToSet(s)] :
        /\ ToSet(r) = ToSet(s)
        /\ \A j, k \in DOMAIN s : j < k => precedes(r[j], r[k])

Canonical(request) ==
    [source_coids |-> Sorted(request.source_coids, <),
     predecessors |-> Sorted(request.predecessors, Before)]

(* Every source exists, deleted or not, and every predecessor is an event of *)
(* a source.                                                                 *)
carregar_fontes(db, request) ==
    ToSet(request.source_coids) \subseteq {o.coid : o \in db.objects}

carregar_predecessores(db, request) ==
    \A id \in ToSet(request.predecessors) :
        \E e \in db.events : e.id = id /\ e.subject \in ToSet(request.source_coids)

resolver_clid_do_alvo(db, sources) ==
    LET clids == {o.clid : o \in {o \in db.objects : o.coid \in sources}}
    IN  IF Cardinality(clids) = 1 THEN CHOOSE c \in clids : TRUE ELSE Null

(* One TRANSFORMED event for each predecessor, or a root without one. *)
registrar_causalidade(target, predecessors) ==
    [k \in 1 .. (IF predecessors = <<>> THEN 1 ELSE Len(predecessors)) |->
        [id |-> <<target, k>>, subject |-> target, event_type |-> "TRANSFORMED",
         predecessor |-> IF predecessors = <<>> THEN Null ELSE predecessors[k]]]

NoRows == [objects |-> {}, edges |-> {}, records |-> {}, histories |-> {}, events |-> {}]

(* The rows of a merge and the receipt that describes them; q is canonical.  *)
derive_many(db, q, target) ==
    LET sources == ToSet(q.source_coids)
        clid    == resolver_clid_do_alvo(db, sources)
        events  == registrar_causalidade(target, q.predecessors)
        edges   == [k \in DOMAIN q.source_coids |->
                       [id |-> <<target, k>>, parent |-> q.source_coids[k], child |-> target,
                        relation_type |-> "merge"]]
    IN  [rows |-> [objects   |-> {[coid |-> target, clid |-> clid, deleted |-> FALSE]},
                   edges     |-> ToSet(edges),
                   records   |-> {[id |-> target, input_refs |-> sources,
                                   output_refs |-> {target}]},
                   histories |-> {[id |-> events[1].id, subject |-> target]},
                   events    |-> ToSet(events)],
         receipt |-> [source_coids |-> q.source_coids, target_coid |-> target,
                      target_clid |-> clid, transformation_id |-> target,
                      lineage_edge_ids |-> [k \in DOMAIN edges |-> edges[k].id],
                      causal_event_ids |-> [k \in DOMAIN events |-> events[k].id],
                      predecessor_event_ids |-> q.predecessors]]

-----------------------------------------------------------------------------
(* PersistenceManager.assess: what is on record about an object.             *)
(* Evidence is sorted and said once: a set.                                  *)
PersistenceEvidence ==
    [kind : {"clid"}, reference : Clids, related_coid : {Null}, qualifier : {Null}]
        \cup [kind : {"lineage_parent", "lineage_child"}, reference : EdgeIds,
              related_coid : Coids, qualifier : LineageRelation]
        \cup [kind : {"transformation_input", "transformation_output"}, reference : Coids,
              related_coid : {Null}, qualifier : {Null}]
        \cup [kind : {"causal_event"}, reference : EventIds, related_coid : {Null},
              qualifier : CausalEventType]

PersistenceOutcome ==
    {"subject_not_found", "no_recorded_continuity_evidence", "recorded_continuity_evidence"}

Evidence(kind, reference, related, qualifier) ==
    [kind |-> kind, reference |-> reference, related_coid |-> related, qualifier |-> qualifier]

lineage_as_child(db, coid) ==
    {Evidence("lineage_parent", e.id, e.parent, e.relation_type) :
        e \in {e \in db.edges : e.child = coid}}

lineage_as_parent(db, coid) ==
    {Evidence("lineage_child", e.id, e.child, e.relation_type) :
        e \in {e \in db.edges : e.parent = coid}}

transformations_citing(db, coid) ==
    {Evidence("transformation_input", r.id, Null, Null) :
        r \in {r \in db.records : coid \in r.input_refs}}
    \cup {Evidence("transformation_output", r.id, Null, Null) :
        r \in {r \in db.records : coid \in r.output_refs}}

causal_events(db, coid) ==
    {Evidence("causal_event", e.id, Null, e.event_type) :
        e \in {e \in db.events : e.subject = coid}}

assess(db, coid) ==
    LET rows == {o \in db.objects : o.coid = coid}
        row  == CHOOSE o \in rows : TRUE
        clid == IF row.clid = Null THEN {} ELSE {Evidence("clid", row.clid, Null, Null)}
        all  == clid \cup lineage_as_child(db, coid) \cup lineage_as_parent(db, coid)
                     \cup transformations_citing(db, coid) \cup causal_events(db, coid)
    IN  IF rows = {}
        THEN [coid |-> coid, outcome |-> "subject_not_found", evidence |-> {}, clid |-> Null,
              subject_deleted |-> FALSE]
        ELSE [coid |-> coid, evidence |-> all, clid |-> row.clid,
              subject_deleted |-> row.deleted,
              outcome |-> IF all = {} THEN "no_recorded_continuity_evidence"
                          ELSE "recorded_continuity_evidence"]

evidence_of(assessment, kind) == {e \in assessment.evidence : e.kind = kind}

(* What the constructor of an assessment accepts. *)
validate_clid_coherence(a) ==
    {e.reference : e \in evidence_of(a, "clid")} = IF a.clid = Null THEN {} ELSE {a.clid}

validate_coherence(a) ==
    /\ a.evidence \subseteq PersistenceEvidence
    /\ a.outcome = "subject_not_found" => ~a.subject_deleted /\ a.clid = Null
    /\ a.evidence # {} <=> a.outcome = "recorded_continuity_evidence"

-----------------------------------------------------------------------------
(* The receipt is about what was asked ... *)
verificar_fidelidade(q, receipt) ==
    /\ receipt.source_coids = q.source_coids
    /\ receipt.predecessor_event_ids = q.predecessors

(* Mutant: the edges are compared as a set only. *)
AnyPairing(receipt, lineage) == TRUE

(* The k-th edge of a receipt comes from its k-th source. *)
Pairing(receipt, lineage) ==
    \A k \in DOMAIN receipt.source_coids \cap DOMAIN receipt.lineage_edge_ids : \A e \in lineage :
        e.reference = receipt.lineage_edge_ids[k] => e.related_coid = receipt.source_coids[k]

(* ... and the rows on record are those it describes, edge by edge.          *)
verificar_coerencia_consolidacao(receipt, a) ==
    LET lineage == evidence_of(a, "lineage_parent")
        outputs == evidence_of(a, "transformation_output")
        causal  == evidence_of(a, "causal_event")
    IN  /\ a.coid = receipt.target_coid
        /\ a.outcome = "recorded_continuity_evidence"
        /\ ~a.subject_deleted
        /\ Cardinality(lineage) = Len(receipt.source_coids)
        /\ {e.related_coid : e \in lineage} = ToSet(receipt.source_coids)
        /\ {e.reference : e \in lineage} = ToSet(receipt.lineage_edge_ids)
        /\ Pairing(receipt, lineage)
        /\ \A e \in lineage : e.qualifier = "merge"
        /\ {e.reference : e \in outputs} = {receipt.transformation_id}
        /\ Cardinality(causal) = Len(receipt.causal_event_ids)
        /\ {e.reference : e \in causal} = ToSet(receipt.causal_event_ids)
        /\ \A e \in causal : e.qualifier = "TRANSFORMED"
        /\ a.clid = receipt.target_clid

(* What the constructor of the result requires besides. *)
validar_estrutura(receipt) ==
    LET sources == receipt.source_coids
    IN  /\ Len(sources) >= 2 /\ Distinct(sources)
        /\ \A j, k \in DOMAIN sources : j < k => sources[j] < sources[k]
        /\ receipt.target_coid \notin ToSet(sources)
        /\ Len(receipt.lineage_edge_ids) = Len(sources) /\ Distinct(receipt.lineage_edge_ids)
        /\ receipt.causal_event_ids # <<>> /\ Distinct(receipt.causal_event_ids)
        /\ Distinct(receipt.predecessor_event_ids)
        /\ Len(receipt.causal_event_ids) =
               (IF receipt.predecessor_event_ids = <<>> THEN 1
                ELSE Len(receipt.predecessor_event_ids))

(* consolidate answers with a result only if all of it holds. *)
Verified(db, q, receipt) ==
    LET a == assess(db, receipt.target_coid)
    IN  /\ validate_coherence(a) /\ validate_clid_coherence(a)
        /\ verificar_fidelidade(q, receipt)
        /\ verificar_coerencia_consolidacao(receipt, a)
        /\ validar_estrutura(receipt)

lineage_edge_for(receipt, source) ==
    receipt.lineage_edge_ids[CHOOSE k \in DOMAIN receipt.source_coids :
                                 receipt.source_coids[k] = source]
=============================================================================
