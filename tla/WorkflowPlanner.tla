-------------------------- MODULE WorkflowPlanner --------------------------
(***************************************************************************)
(* How a workflow becomes a run: the planner checks the definition and     *)
(* orders its nodes, the executor resolves what each operation reads, and  *)
(* the table operations are staged in the plan's order.  A staged          *)
(* operation reads another's output from its staging table if that is      *)
(* there and from the stable table of the last run otherwise, which is why *)
(* the order matters.                                                      *)
(*                                                                         *)
(* A stable id is a natural number, in the order of the strings; 0 stands  *)
(* for an empty one.                                                       *)
(***************************************************************************)
EXTENDS Integers, Sequences, FiniteSets

CONSTANTS Workflows,    \* the definitions a caller may ask to run
          Reuses        \* an input may be bound to an output's stable table

\* A node is an input slot, an operation or an output declaration.
NodeIds(w) == {w.nodes[i].id : i \in DOMAIN w.nodes}
Edges(w) == {w.edges[i] : i \in DOMAIN w.edges}
NodeOf(w, id) == w.nodes[CHOOSE i \in DOMAIN w.nodes : w.nodes[i].id = id]
Sources(w, id) == {e.source.node : e \in {d \in Edges(w) : d.target.node = id}}
Targets(w, id) == {e.target.node : e \in {d \in Edges(w) : d.source.node = id}}

ASSUME WorkflowsAssumption ==
    /\ \A w \in Workflows : IsFiniteSet(NodeIds(w)) /\ NodeIds(w) \subseteq Nat
    /\ Reuses \in BOOLEAN

VARIABLES wf,          \* the definition of the request
          phase,       \* how far the request is
          indegree, ready, ordered,    \* the planner's loop
          position,    \* the next node of the plan to stage
          bound,       \* slot -> the operation whose table it reads, or 0
          staged,      \* the table operations with a staging table
          stale,       \* auxiliary: an operation read the last run's output
          crossed      \* auxiliary: a slot was read from a staging table
plan == <<indegree, ready, ordered>>
run == <<position, staged, stale, crossed>>
vars == <<wf, phase, plan, bound, run>>

-----------------------------------------------------------------------------
\* What the planner checks

Ports(node) == node.ins \o node.outs
Distinct(s, Key(_)) ==
    \A i, j \in DOMAIN s : i # j => Key(s[i]) # Key(s[j])
IdOf(x) == x.id

InsertNode(w) ==
    /\ \A i \in DOMAIN w.nodes : w.nodes[i].id # 0
    /\ Distinct(w.nodes, IdOf)
InsertPorts(w) ==
    \A i \in DOMAIN w.nodes :
        /\ \A j \in DOMAIN Ports(w.nodes[i]) : Ports(w.nodes[i])[j].id # 0
        /\ Distinct(Ports(w.nodes[i]), IdOf)
NodesAccepted(w) ==
    /\ w.version = "1"
    /\ InsertNode(w)
    /\ InsertPorts(w)
    /\ \A i \in DOMAIN w.nodes :
          LET n == w.nodes[i]
          IN  /\ n.kind = "operation" => n.version = "1"
              /\ n.kind = "output" =>
                    \A j \in DOMAIN Ports(n) :
                        Ports(n)[j].payload = n.artifact

Match(p, q) == p = "any" \/ q = "any" \/ p = q
PortOf(ports, id) == ports[CHOOSE j \in DOMAIN ports : ports[j].id = id]
EndAt(w, end, Side(_)) ==
    /\ end.node \in NodeIds(w)
    /\ \E j \in DOMAIN Side(NodeOf(w, end.node)) :
          Side(NodeOf(w, end.node))[j].id = end.port
Ins(node) == node.ins
Outs(node) == node.outs
Target(e) == e.target
EdgesAccepted(w) ==
    /\ Distinct(w.edges, IdOf)
    /\ \A e \in Edges(w) :
          /\ EndAt(w, e.source, Outs)
          /\ EndAt(w, e.target, Ins)
          /\ Match(PortOf(Outs(NodeOf(w, e.source.node)), e.source.port).payload,
                   PortOf(Ins(NodeOf(w, e.target.node)), e.target.port).payload)
    /\ Distinct(w.edges, Target)           \* one producer for an input
OutputsAccepted(w) ==
    \A i \in DOMAIN w.nodes :
        LET n == w.nodes[i]
        IN  n.kind = "output" =>
              \E e \in Edges(w) : /\ e.target = [node |-> n.id,
                                                 port |-> n.ins[1].id]
                                  /\ e.source = n.source
Accepted(w) == NodesAccepted(w) /\ EdgesAccepted(w) /\ OutputsAccepted(w)

Operations(w) ==
    {w.nodes[i].id : i \in {j \in DOMAIN w.nodes : w.nodes[j].kind = "operation"}}
IsTable(w, id) == id \in Operations(w) /\ NodeOf(w, id).op = "tableTransform"
Slots(w) ==
    {w.nodes[i].id : i \in {j \in DOMAIN w.nodes : w.nodes[j].kind = "inputSlot"}}
\* output_by_operation has the key.
Produces(w, op) ==
    \E i \in DOMAIN w.nodes : w.nodes[i].kind = "output"
                              /\ w.nodes[i].source.node = op

\* The bindings name every slot and every output once; an output's table is
\* its own, but a slot may be bound to one.
Init ==
    /\ wf \in Workflows
    /\ bound \in [Slots(wf) -> {0} \cup IF Reuses THEN {op \in Operations(wf) :
                                                IsTable(wf, op) /\ Produces(wf, op)}
                                        ELSE {}]
    /\ phase = "check"
    /\ indegree = <<>> /\ ready = {} /\ ordered = <<>>
    /\ position = 1 /\ staged = {} /\ stale = FALSE /\ crossed = FALSE

\* The first half of plan_workflow: refuse, or count each node's producers.
Prepare ==
    /\ phase = "check" /\ Accepted(wf)
    /\ indegree' = [id \in NodeIds(wf) |-> Cardinality(Sources(wf, id))]
    /\ ready' = {id \in NodeIds(wf) : Sources(wf, id) = {}}
    /\ phase' = "order"
    /\ UNCHANGED <<wf, ordered, bound, run>>
Refuse ==
    /\ phase = "check" /\ ~Accepted(wf)
    /\ phase' = "refused"
    /\ UNCHANGED <<wf, plan, bound, run>>

\* Mutant: any ready id, as a hash set would give them.
PopReadyUnordered ==
    /\ phase = "order"
    /\ \E id \in ready :
          /\ ordered' = Append(ordered, id)
          /\ indegree' = [n \in DOMAIN indegree |->
                            IF n \in Targets(wf, id) THEN indegree[n] - 1
                                                     ELSE indegree[n]]
          /\ ready' = (ready \ {id})
                \cup {n \in Targets(wf, id) : indegree[n] = 1}
    /\ UNCHANGED <<wf, phase, bound, run>>

\* One turn of the planner's loop: the smallest ready id is ordered next, and
\* a target whose last producer it was becomes ready.
PopReady ==
    /\ phase = "order"
    /\ \E id \in ready :
          /\ \A other \in ready : id <= other
          /\ ordered' = Append(ordered, id)
          /\ indegree' = [n \in DOMAIN indegree |->
                            IF n \in Targets(wf, id) THEN indegree[n] - 1
                                                     ELSE indegree[n]]
          /\ ready' = (ready \ {id})
                \cup {n \in Targets(wf, id) : indegree[n] = 1}
    /\ UNCHANGED <<wf, phase, bound, run>>
\* Mutant: what the loop has ordered is not compared with the nodes.
EndOrderUnchecked ==
    /\ phase = "order" /\ ready = {}
    /\ phase' = "planned"
    /\ UNCHANGED <<wf, plan, bound, run>>
EndOrder ==
    /\ phase = "order" /\ ready = {}
    /\ phase' = IF Len(ordered) = Cardinality(NodeIds(wf)) THEN "planned"
                                                           ELSE "cyclic"
    /\ UNCHANGED <<wf, plan, bound, run>>

-----------------------------------------------------------------------------
\* What the executor resolves and stages

\* The node an input reads is an input slot or an operation with an output.
Resolved(w, id) == id \in Slots(w) \/ (id \in Operations(w) /\ Produces(w, id))
TableStepResolves(w, op) ==
    /\ Produces(w, op)
    /\ \A j \in DOMAIN NodeOf(w, op).ins :
          LET end == [node |-> op, port |-> NodeOf(w, op).ins[j].id]
          IN  /\ \E e \in Edges(w) : e.target = end
              /\ \A e \in Edges(w) : e.target = end => Resolved(w, e.source.node)
TableSteps ==
    /\ phase = "planned"
    /\ phase' = IF \A op \in Operations(wf) :
                       IsTable(wf, op) => TableStepResolves(wf, op)
                THEN "stage" ELSE "unresolved"
    /\ UNCHANGED <<wf, plan, bound, run>>

\* stage_with_transaction_owner: one table operation after the other.
\* Mutant: a staging table is not noted for the operations that follow.
StageNextUnnoted ==
    /\ phase = "stage" /\ position <= Len(ordered)
    /\ stale' = (stale \/ \E s \in Sources(wf, ordered[position]) :
                   IsTable(wf, ordered[position]) /\ IsTable(wf, s))
    /\ position' = position + 1
    /\ UNCHANGED <<wf, phase, plan, bound, staged, crossed>>
StageNext ==
    /\ phase = "stage" /\ position <= Len(ordered)
    /\ LET op == ordered[position]
       IN  IF IsTable(wf, op)
           THEN /\ staged' = staged \cup {op}
                /\ stale' = (stale \/ \E s \in Sources(wf, op) :
                                        IsTable(wf, s) /\ s \notin staged)
                /\ crossed' = (crossed \/ \E s \in Sources(wf, op) :
                                  s \in Slots(wf) /\ bound[s] \in staged)
           ELSE UNCHANGED <<staged, stale, crossed>>
    /\ position' = position + 1
    /\ UNCHANGED <<wf, phase, plan, bound>>

\* A document operation other than a report reads the first edge that enters
\* it: a slot, or an operation that has a staging table.
DocumentResolves(w, op) ==
    LET into == {i \in DOMAIN w.edges : w.edges[i].target.node = op}
        from(i) == w.edges[i].source.node
    IN  /\ Produces(w, op)
        /\ CASE NodeOf(w, op).op = "report" ->
                    \A i \in into : Resolved(w, from(i))
             [] NodeOf(w, op).op = "other" -> FALSE
             [] OTHER ->
                    /\ into # {}
                    /\ LET first == CHOOSE i \in into : \A j \in into : i <= j
                       IN  \/ from(first) \in Slots(w)
                           \/ Produces(w, from(first)) /\ from(first) \in staged
ComputeDocuments ==
    /\ phase = "stage" /\ position > Len(ordered)
    /\ phase' = IF \A op \in Operations(wf) :
                       ~IsTable(wf, op) => DocumentResolves(wf, op)
                THEN "computed" ELSE "unresolved"
    /\ UNCHANGED <<wf, plan, bound, run>>

Next ==
    \/ Prepare \/ Refuse \/ PopReady \/ EndOrder
    \/ TableSteps \/ StageNext \/ ComputeDocuments
Spec == Init /\ [][Next]_vars /\ WF_vars(Next)

-----------------------------------------------------------------------------
\* Properties

TypeOK ==
    /\ wf \in Workflows
    /\ phase \in {"check", "refused", "order", "planned", "cyclic", "stage",
                  "unresolved", "computed"}
    /\ phase \notin {"check", "refused"} => indegree \in [NodeIds(wf) -> Nat]
    /\ ready \subseteq NodeIds(wf)
    /\ ordered \in Seq(NodeIds(wf))
    /\ position \in Nat \ {0}
    /\ staged \subseteq NodeIds(wf)
    /\ stale \in BOOLEAN /\ crossed \in BOOLEAN

\* Whatever the planner has ordered so far, everything a node depends on is
\* ordered before it.
Topological ==
    \A i \in DOMAIN ordered : \A s \in Sources(wf, ordered[i]) :
        \E j \in 1..(i - 1) : ordered[j] = s

\* The plan ends in an order of all the nodes, each once, exactly if no node
\* reaches itself; a definition that is refused for a cycle has one.
Below(w, S) == S \cup UNION {Targets(w, id) : id \in S}
OnCycle(w, id) ==
    LET reach[k \in Nat] ==
            IF k = 0 THEN Targets(w, id) ELSE Below(w, reach[k - 1])
    IN  id \in reach[Cardinality(NodeIds(w))]
CyclesAreFound ==
    phase \notin {"check", "refused", "order"} =>
        ((phase = "cyclic") <=> \E id \in NodeIds(wf) : OnCycle(wf, id))

\* The order is the one the definition alone determines: among the orders that
\* respect the edges, the next id is always the smallest possible.  The order
\* in which the definition lists its nodes and edges has no part in it.
Possible(w, before) ==
    {id \in NodeIds(w) \ before : Sources(w, id) \subseteq before}
Canonical ==
    \A i \in DOMAIN ordered :
        LET before == {ordered[j] : j \in 1..(i - 1)}
        IN  /\ ordered[i] \in Possible(wf, before)
            /\ \A id \in Possible(wf, before) : ordered[i] <= id

\* No operation of a run reads what the last run left in a stable table when
\* the operation that makes the table is part of the run.
ReadsThisRun == ~stale

\* An operation reads a slot's table as the inputs were frozen, never what the
\* run itself has staged.
ReadsFrozen == ~crossed

=============================================================================
