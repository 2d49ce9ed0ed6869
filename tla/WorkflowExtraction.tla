------------------------- MODULE WorkflowExtraction -------------------------
(***************************************************************************)
(* Saving a part of the project's lineage graph as a workflow and running  *)
(* it.  Lineage connects artifacts (documents) and operations in turn.  The *)
(* workspace passes on the nodes the user selected, extract_workflow turns *)
(* what the selected operations consume from outside into input slots and  *)
(* their selected artifacts into output declarations, and validates the    *)
(* result; the planner and the executor of WorkflowPlanner take it from    *)
(* there.                                                                  *)
(***************************************************************************)
EXTENDS WorkflowPlanner, SequencesExt

CONSTANTS Requests,    \* lineage graphs with a selection
          Tables       \* tables a slot may be bound to: column -> its type
                       \* and extras
VARIABLE request
all == <<request, vars>>

Requires(r, op, port) == {q \in r.requirements : q.op = op /\ q.port = port}
Ids(s) == {s[i].id : i \in DOMAIN s}
ById(s, id) == s[CHOOSE i \in DOMAIN s : s[i].id = id]
PositionIn(S, x) == Cardinality({y \in S : y <= x})
Nth(S, i) == CHOOSE x \in S : PositionIn(S, x) = i

-----------------------------------------------------------------------------
\* The workspace's selection

\* A selected artifact that a selected operation consumes is left out, so that
\* it becomes an input; the edges between what is left are selected with it.
SelectedNodes(r) ==
    r.selected \ {e.source.node : e \in {d \in ToSet(r.edges) :
                    /\ r.workspace /\ d.kind = "consumes"
                    /\ {d.source.node, d.target.node} \subseteq r.selected}}
SelectedEdges(r) ==
    SelectSeq(r.edges, LAMBDA e :
        {e.source.node, e.target.node} \subseteq SelectedNodes(r))

-----------------------------------------------------------------------------
\* extract_workflow

SelectedOperations(r) == Ids(r.operations) \cap r.nodes
SelectedArtifacts(r) == Ids(r.artifacts) \cap r.nodes
\* The order in which the dependencies are sorted shows only in edge ids.
ExternalDependencies(r) ==
    {e \in ToSet(r.edges) : /\ e.kind = "consumes"
                            /\ e.target.node \in r.nodes
                            /\ e.source.node \notin r.nodes}
Inputs(r) == {e.source.node : e \in ExternalDependencies(r)}

\* Ids of a workflow: workflow-input-1, workflow-operation-1, workflow-output-1,
\* numbered in the order of the lineage ids; a boundary port is named after its
\* node.
LocalInput(r, a) == PositionIn(Inputs(r), a)
LocalOperation(r, op) == 10 + PositionIn(SelectedOperations(r), op)
LocalOutput(r, a) == 20 + PositionIn(SelectedArtifacts(r), a)
InputPort(id) == 100 + id
OutputPort(id) == 200 + id

\* The columns consumed over dependency e, and the extras of one of them.
Consumed(r, e) ==
    UNION {DOMAIN (IF q.complete THEN r.schema[e.source.node] ELSE q.columns) :
             q \in Requires(r, e.target.node, e.target.port)}
Extras(r, e, c) ==
    UNION {IF q.complete THEN {} ELSE q.columns[c] :
             q \in Requires(r, e.target.node, e.target.port)}
        \cap DOMAIN r.schema[e.source.node][c].extras
SlotsBuildable(r) ==
    /\ ExternalDependencies(r) # {}
    /\ \A e \in ExternalDependencies(r) :
          /\ e.source.node \in Ids(r.artifacts)
          /\ e.target.node \in Ids(r.operations)
          /\ ById(r.artifacts, e.source.node).kind = "table"
          /\ e.source.node \in DOMAIN r.schema
          /\ \E q \in Requires(r, e.target.node, e.target.port) :
                q.columns # <<>> \/ q.complete
          /\ Consumed(r, e) \subseteq DOMAIN r.schema[e.source.node]
    /\ \A a \in Inputs(r) :
          \E e \in ExternalDependencies(r) :
              e.source.node = a /\ Consumed(r, e) # {}

\* The contract of a slot: the columns some operation consumes, with the type
\* and the extras the source table has.
\* Mutant: a second consumer of a column does not add to its extras.
ContractFirst(r, a) ==
    LET deps == {e \in ExternalDependencies(r) : e.source.node = a}
        least(c) == CHOOSE e \in deps : c \in Consumed(r, e) /\
                       \A d \in deps : c \in Consumed(r, d) =>
                           e.target.node <= d.target.node
    IN  [c \in UNION {Consumed(r, e) : e \in deps} |->
           [type |-> r.schema[a][c].type,
            extras |-> [k \in Extras(r, least(c), c) |->
                          r.schema[a][c].extras[k]]]]
Contract(r, a) ==
    LET deps == {e \in ExternalDependencies(r) : e.source.node = a}
    IN  [c \in UNION {Consumed(r, e) : e \in deps} |->
           [type |-> r.schema[a][c].type,
            extras |-> [k \in UNION {Extras(r, e, c) :
                                e \in {d \in deps : c \in Consumed(r, d)}} |->
                          r.schema[a][c].extras[k]]]]

InputSlot(r, a) ==
    LET id == LocalInput(r, a)
    IN  [id |-> id, kind |-> "inputSlot", contract |-> Contract(r, a),
         ins |-> <<>>, outs |-> <<[id |-> OutputPort(id), payload |-> "table"]>>]
OperationNode(r, op) ==
    LET n == ById(r.operations, op)
    IN  [id |-> LocalOperation(r, op), kind |-> "operation", op |-> n.op,
         version |-> n.version, ins |-> n.ins, outs |-> n.outs]

\* The selected edge that makes artifact a: the last one in the list.
Producers(r, a) ==
    {i \in DOMAIN r.internal : /\ r.internal[i].kind = "produces"
                                /\ r.internal[i].target.node = a}
Producer(r, a) ==
    r.internal[CHOOSE i \in Producers(r, a) : \A j \in Producers(r, a) : j <= i]
OutputDeclaration(r, a) ==
    LET id == LocalOutput(r, a)
        kind == ById(r.artifacts, a).kind
        from == Producer(r, a).source
    IN  [id |-> id, kind |-> "output", artifact |-> kind,
         source |-> [node |-> LocalOperation(r, from.node), port |-> from.port],
         ins |-> <<[id |-> InputPort(id), payload |-> kind]>>,
         outs |-> <<[id |-> OutputPort(id), payload |-> kind]>>]

FromInput(r, e) ==
    [kind |-> "consumes",
     source |-> [node |-> LocalInput(r, e.source.node),
                 port |-> OutputPort(LocalInput(r, e.source.node))],
     target |-> [node |-> LocalOperation(r, e.target.node), port |-> e.target.port]]
Between(r, e) ==
    IF e.kind = "consumes"
    THEN [kind |-> "consumes",
          source |-> [node |-> LocalOutput(r, e.source.node),
                      port |-> OutputPort(LocalOutput(r, e.source.node))],
          target |-> [node |-> LocalOperation(r, e.target.node),
                      port |-> e.target.port]]
    ELSE [kind |-> "produces",
          source |-> [node |-> LocalOperation(r, e.source.node),
                      port |-> e.source.port],
          target |-> [node |-> LocalOutput(r, e.target.node),
                      port |-> InputPort(LocalOutput(r, e.target.node))]]
WorkflowEdges(r) ==
    LET from == SelectSeq(r.edges, LAMBDA e : e \in ExternalDependencies(r))
        list == [i \in DOMAIN from |-> FromInput(r, from[i])]
                \o [i \in DOMAIN r.internal |-> Between(r, r.internal[i])]
    IN  [i \in DOMAIN list |-> [id |-> i] @@ list[i]]

\* The selection is of nodes that exist, operations among them, and every
\* selected artifact is made by a selected operation.
Extractable(r) ==
    /\ Distinct(r.artifacts, IdOf) /\ Distinct(r.operations, IdOf)
    /\ Distinct(r.edges, IdOf)
    /\ \A p, q \in r.requirements : p.op = q.op /\ p.port = q.port => p = q
    /\ r.nodes # {} /\ r.nodes \subseteq Ids(r.artifacts) \cup Ids(r.operations)
    /\ SelectedOperations(r) # {}
    /\ SlotsBuildable(r)
    /\ \A a \in SelectedArtifacts(r) : Producers(r, a) # {}
Extracted(r) ==
    [version |-> "1",
     nodes |-> [i \in 1..Cardinality(Inputs(r)) |->
                  InputSlot(r, Nth(Inputs(r), i))]
               \o [i \in 1..Cardinality(SelectedOperations(r)) |->
                  OperationNode(r, Nth(SelectedOperations(r), i))]
               \o [i \in 1..Cardinality(SelectedArtifacts(r)) |->
                  OutputDeclaration(r, Nth(SelectedArtifacts(r), i))],
     edges |-> WorkflowEdges(r)]

-----------------------------------------------------------------------------
\* validate_extracted_workflow

OfKind(w, kind) == {w.nodes[i] : i \in {j \in DOMAIN w.nodes : w.nodes[j].kind = kind}}
\* Registered once: no two ports of slots and outputs share an id.
BoundaryPorts(w) ==
    LET ports == {<<n.id, p>> : n \in OfKind(w, "inputSlot") \cup OfKind(w, "output"),
                                p \in 1..2}
        of(x) == Ports(NodeOf(w, x[1]))
    IN  \A x, y \in {z \in ports : z[2] \in DOMAIN of(z)} :
            x # y => of(x)[x[2]].id # of(y)[y[2]].id
BoundaryPayloads(w) ==
    /\ \A n \in OfKind(w, "inputSlot") : n.outs[1].payload = "table"
    /\ \A n \in OfKind(w, "output") :
          /\ n.ins[1].payload = n.artifact /\ n.outs[1].payload = n.artifact
          /\ n.source.node \in Operations(w)
          /\ EndAt(w, n.source, Outs)
          /\ Match(PortOf(Outs(NodeOf(w, n.source.node)), n.source.port).payload,
                   n.artifact)
\* A consumes edge leads from a slot or an output declaration to an operation,
\* a produces edge from an operation to an output declaration.
EdgeDirection(w, e) ==
    LET from == NodeOf(w, e.source.node).kind
        to == NodeOf(w, e.target.node).kind
    IN  CASE e.kind = "consumes" ->
                 from \in {"inputSlot", "output"} /\ to = "operation"
          [] e.kind = "produces" -> from = "operation" /\ to = "output"
ValidEdges(w) ==
    /\ Distinct(w.edges, IdOf)
    /\ \A e \in Edges(w) :
          /\ {e.source.node, e.target.node} \subseteq NodeIds(w)
          /\ EdgeDirection(w, e)
          /\ EndAt(w, e.source, Outs) /\ EndAt(w, e.target, Ins)
          /\ Match(PortOf(Outs(NodeOf(w, e.source.node)), e.source.port).payload,
                   PortOf(Ins(NodeOf(w, e.target.node)), e.target.port).payload)
    /\ \A n \in OfKind(w, "output") :
          Cardinality({i \in DOMAIN w.edges : /\ w.edges[i].kind = "produces"
                                              /\ w.edges[i].target.node = n.id}) = 1

\* What a search that follows Step from S reaches.
Search(S, Step(_), bound_) ==
    LET reach[k \in Nat] ==
            IF k = 0 THEN S
            ELSE LET R == reach[k - 1] IN R \cup UNION {Step(n) : n \in R}
    IN  reach[bound_]
\* A second Kahn's loop, over whole layers: what is left has a cycle.
Acyclic(w) ==
    LET left[k \in Nat] ==
            IF k = 0 THEN NodeIds(w)
            ELSE LET S == left[k - 1] IN {n \in S : Sources(w, n) \cap S # {}}
    IN  left[Cardinality(NodeIds(w))] = {}
Connected(w) ==
    Search({w.nodes[1].id}, LAMBDA n : Sources(w, n) \cup Targets(w, n),
           Cardinality(NodeIds(w))) = NodeIds(w)
ReachedFromSlots(w) ==
    Operations(w) \subseteq
        Search(Slots(w), LAMBDA n : Targets(w, n), Cardinality(NodeIds(w)))
Validated(w) ==
    /\ OfKind(w, "inputSlot") # {}
    /\ Distinct(w.nodes, IdOf)
    /\ BoundaryPorts(w) /\ BoundaryPayloads(w)
    /\ ValidEdges(w)
    /\ Acyclic(w) /\ Connected(w) /\ ReachedFromSlots(w)

-----------------------------------------------------------------------------
\* A request: extract, then run what was extracted

ExtractionInit ==
    /\ request \in Requests
    /\ wf = <<>> /\ phase = "selection" /\ bound = <<>>
    /\ indegree = <<>> /\ ready = {} /\ ordered = <<>>
    /\ position = 1 /\ staged = {} /\ stale = FALSE /\ crossed = FALSE
\* handleSaveWorkflowSelection sends the selection with the graph.
Select ==
    /\ phase = "selection" /\ phase' = "request"
    /\ request' = [nodes |-> SelectedNodes(request),
                   internal |-> SelectedEdges(request)] @@ request
    /\ UNCHANGED <<wf, plan, bound, run>>
\* extract_workflow builds the definition and validates it.
Extract ==
    /\ phase = "request"
    /\ IF Extractable(request)
       THEN wf' = Extracted(request) /\ phase' = "built"
       ELSE wf' = wf /\ phase' = "rejected"
    /\ UNCHANGED <<request, plan, bound, run>>
Validate ==
    /\ phase = "built"
    /\ phase' = IF Validated(wf) THEN "check" ELSE "rejected"
    /\ bound' = [s \in Slots(wf) |-> 0]
    /\ UNCHANGED <<request, wf, plan, run>>
ExtractionNext ==
    Select \/ Extract \/ Validate \/ (Next /\ UNCHANGED request)

-----------------------------------------------------------------------------
\* Properties

\* The definition has been saved.
Valid == phase \notin {"selection", "request", "built", "rejected"}

\* The planner accepts whatever extraction lets through: the two validations
\* agree, cycles included.  The planner alone asks for one producer of an input
\* and for known versions.
OneProducer(w) == Distinct(w.edges, Target)
KnownVersions(w) == \A n \in OfKind(w, "operation") : n.version = "1"
ExtractedIsPlanned ==
    /\ phase # "cyclic"
    /\ phase = "refused" => ~OneProducer(wf) \/ ~KnownVersions(wf)

\* No input of a selected operation is lost: every artifact it consumes in the
\* lineage graph reaches it in the workflow, over the same port, as a slot or
\* as the declared output of another operation.
InputsSurvive ==
    Valid =>
        \A e \in ToSet(request.edges) :
            (e.kind = "consumes" /\ e.target.node \in SelectedOperations(request))
               => Cardinality({d \in Edges(wf) :
                     /\ d.target = [node |-> LocalOperation(request, e.target.node),
                                    port |-> e.target.port]
                     /\ d.source.node \in
                          IF e.source.node \in request.nodes
                          THEN {LocalOutput(request, e.source.node)}
                          ELSE {LocalInput(request, e.source.node)}}) = 1

\* A table passes the contract of a slot exactly if each of the operations
\* that read the slot finds what it consumes there: the columns with the types
\* and extras of the table the workflow was made from.
Passes(contract, table) ==
    \A c \in DOMAIN contract :
        /\ c \in DOMAIN table
        /\ table[c].type = contract[c].type
        /\ \A k \in DOMAIN contract[c].extras :
              k \in DOMAIN table[c].extras
              /\ table[c].extras[k] = contract[c].extras[k]
Serves(r, e, table) ==
    \A c \in Consumed(r, e) :
        /\ c \in DOMAIN table
        /\ table[c].type = r.schema[e.source.node][c].type
        /\ \A k \in Extras(r, e, c) :
              k \in DOMAIN table[c].extras
              /\ table[c].extras[k] = r.schema[e.source.node][c].extras[k]
ContractsAreExact ==
    Valid =>
        \A a \in Inputs(request) : \A table \in Tables :
            Passes(NodeOf(wf, LocalInput(request, a)).contract, table) <=>
                \A e \in ExternalDependencies(request) :
                    e.source.node = a => Serves(request, e, table)

\* What extraction and planning accept can be carried out, chains of
\* operations included, as long as every operation has its inputs, an executor
\* and a declared output.
PlannedRuns ==
    phase = "unresolved" =>
        \E op \in Operations(wf) :
            \/ ~Produces(wf, op) \/ NodeOf(wf, op).op = "other"
            \/ \E i \in DOMAIN NodeOf(wf, op).ins :
                  ~\E e \in Edges(wf) : e.target = [node |-> op,
                                             port |-> NodeOf(wf, op).ins[i].id]
=============================================================================
