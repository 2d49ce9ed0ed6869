------------------------------ MODULE MCWorkflow ------------------------------
(* Instance of WorkflowExtraction and of the planner it extends for TLC.  A  *)
(* behaviour starts with a workflow that was saved, whatever its definition, *)
(* or with the request to make one out of a lineage graph.                   *)
EXTENDS WorkflowExtraction, SequencesExt

\* Definitions of one slot, up to three operations and two outputs, with every
\* set of edges over a few candidates.
Port(id, payload) == [id |-> id, payload |-> payload]
End(node, port) == [node |-> node, port |-> port]
Edge(id, a, p, b, q) == [id |-> id, source |-> End(a, p), target |-> End(b, q)]
Slot(id) ==
    [id |-> id, kind |-> "inputSlot", ins |-> <<>>, outs |-> <<Port(9, "table")>>]
Op(id, op, version, out) ==
    [id |-> id, kind |-> "operation", op |-> op, version |-> version,
     ins |-> <<Port(1, "table"), Port(2, "any")>>, outs |-> <<Port(9, out)>>]
\* A port to spare is left out where the operation has one input.
Op1(id, op, version, out) == [Op(id, op, version, out) EXCEPT !.ins = <<Port(1, "table")>>]
Output(id, from, kind) ==
    [id |-> id, kind |-> "output", artifact |-> kind, source |-> End(from, 9),
     ins |-> <<Port(1, kind)>>, outs |-> <<Port(9, kind)>>]

\* Three operations in a diamond, with back edges and a doubled edge.
Candidates ==
    << Edge(1, 5, 9, 3, 1), Edge(2, 5, 9, 1, 1), Edge(3, 3, 9, 2, 1),
       Edge(4, 1, 9, 2, 2), Edge(5, 1, 9, 3, 2), Edge(6, 2, 9, 1, 2),
       Edge(7, 3, 9, 2, 2), Edge(8, 6, 9, 2, 1) >>
Chosen(S) == [i \in 1..Cardinality(S) |->
                Candidates[CHOOSE k \in S : Cardinality({l \in S : l < k}) = i - 1]]
Produced == << Edge(11, 1, 9, 7, 1), Edge(12, 2, 9, 8, 1), Edge(13, 3, 9, 6, 1) >>
Kinds == {<<"tableTransform", "table">>, <<"graph", "graph">>, <<"report", "any">>}
Diamond(kind, S, back) ==
    LET nodes == <<Slot(5), Op(3, "tableTransform", "1", "table"),
                   Op(1, "tableTransform", "1", "table"),
                   Op(2, kind[1], "1", kind[2]),
                   Output(6, 3, "table"), Output(7, 1, "table"),
                   Output(8, 2, IF kind[2] = "any" THEN "report" ELSE kind[2])>>
        edges == Chosen(S) \o Produced
    IN  [version |-> "1", nodes |-> IF back THEN Reverse(nodes) ELSE nodes,
         edges |-> IF back THEN Reverse(edges) ELSE edges]
Diamonds == {Diamond(k, S, b) : k \in Kinds, S \in SUBSET (1..8), b \in BOOLEAN}

\* Operations of one input each, so that all of them resolve.
Chain(last, out, a, b) ==
    [version |-> "1",
     nodes |-> <<Slot(5), Slot(4), Op1(3, "tableTransform", "1", "table"),
                 Op1(1, "tableTransform", "1", "table"), Op1(2, last, "1", out),
                 Output(6, 3, "table"), Output(7, 1, "table"), Output(8, 2, out)>>,
     edges |-> <<Edge(1, 5, 9, 3, 1), Edge(2, a, 9, 1, 1), Edge(3, b, 9, 2, 1)>>
               \o Produced]
Chains == {Chain(k[1], k[2], a, b) :
             k \in {<<"tableTransform", "table">>, <<"graph", "graph">>,
                    <<"other", "table">>},
             a \in {4, 3, 2}, b \in {4, 3, 1}}

\* Definitions the planner refuses, one for each check.
Good == Chain("graph", "graph", 3, 1)
Bad == { [Good EXCEPT !.version = "2"],
         [Good EXCEPT !.nodes[1].id = 0],
         [Good EXCEPT !.nodes[1].id = 3],
         [Good EXCEPT !.nodes[3].version = "2"],
         [Good EXCEPT !.nodes[3].ins[1].id = 9],
         [Good EXCEPT !.nodes[6].artifact = "graph"],
         [Good EXCEPT !.edges[2].id = 1],
         [Good EXCEPT !.edges[2].source.node = 99],
         [Good EXCEPT !.edges[2].target.port = 5],
         [Good EXCEPT !.nodes[5].ins[1].payload = "graph"],
         [Good EXCEPT !.edges[5] = Edge(9, 3, 9, 6, 1)] }
MCWorkflows == Diamonds \cup Chains \cup Bad

-----------------------------------------------------------------------------
\* A lineage graph of four artifacts and two operations, with any of eight
\* edges and any selection of its nodes.
Artifact(id, kind) == [id |-> id, kind |-> kind]
LPort(id, payload) == [id |-> id, payload |-> payload]
Uses(id, a, op, port) ==
    [id |-> id, kind |-> "consumes", source |-> [node |-> a, port |-> 0],
     target |-> [node |-> op, port |-> port]]
Makes(id, op, port, a) ==
    [id |-> id, kind |-> "produces", source |-> [node |-> op, port |-> port],
     target |-> [node |-> a, port |-> 0]]
LineageEdges ==
    << Uses(1, 1, 11, 31), Uses(2, 2, 12, 34), Makes(3, 11, 33, 2),
       Makes(4, 12, 36, 3), Uses(5, 1, 12, 35), Uses(6, 3, 11, 32),
       Uses(7, 1, 12, 34), Makes(8, 12, 36, 2) >>
Column(type, extras) == [type |-> type, extras |-> extras]
None == <<>>
Spec1 == ("spec" :> 1)
Schema == 1 :> ("x" :> Column("number", Spec1) @@ "y" :> Column("text", None))
       @@ 2 :> ("x" :> Column("number", None))
       @@ 3 :> ("x" :> Column("number", Spec1))
Needs(op, port, columns, complete) ==
    [op |-> op, port |-> port, columns |-> columns, complete |-> complete]
Requirements ==
    {Needs(11, 31, "x" :> {}, FALSE), Needs(11, 32, None, TRUE),
     Needs(12, 34, "x" :> {"spec"}, FALSE),
     Needs(12, 35, "x" :> {"spec"}, FALSE)}
MCTables ==
    {[c \in S |-> Column(t, k)] : S \in SUBSET {"x", "y"}, t \in {"number", "text"},
                                  k \in {None, Spec1, "spec" :> 2}}
Shapes == {<<"tableTransform", "table", 1>>, <<"graph", "graph", 1>>,
           <<"tableTransform", "table", 2>>}
Ask(shape, S, selected, workspace, version) ==
    [artifacts |-> <<Artifact(1, "table"), Artifact(2, "table"),
                     Artifact(3, shape[2]), Artifact(4, "graph")>>,
     operations |->
        <<[id |-> 12, op |-> shape[1], version |-> version,
           ins |-> IF shape[3] = 1 THEN <<LPort(34, "table")>>
                                   ELSE <<LPort(34, "table"), LPort(35, "any")>>,
           outs |-> <<LPort(36, shape[2])>>],
          [id |-> 11, op |-> "tableTransform", version |-> "1",
           ins |-> IF shape[3] = 1 THEN <<LPort(31, "table")>>
                                   ELSE <<LPort(31, "table"), LPort(32, "table")>>,
           outs |-> <<LPort(33, "table")>>]>>,
     edges |-> SelectSeq(LineageEdges, LAMBDA e : e.id \in S),
     selected |-> selected, workspace |-> workspace,
     schema |-> Schema, requirements |-> Requirements]
MCRequests ==
    {Ask(sh, S, n, b, v) : sh \in Shapes,
        S \in {T \in SUBSET (1..8) : 1 \in T \/ 2 \in T},
        n \in {N \in SUBSET {1, 2, 3, 11, 12} : {11, 12} \cap N # {}},
        b \in BOOLEAN, v \in {"1"}}
    \cup {Ask(<<"tableTransform", "table", 1>>, {2, 4}, {12, 3}, TRUE, "2")}

-----------------------------------------------------------------------------
MCInit == ExtractionInit \/ (Init /\ request = <<>>)
MCSpec == MCInit /\ [][ExtractionNext]_all

\* A definition is refused for a cycle exactly if it has one (WorkflowPlanner).
CyclesAreTold == request = <<>> => CyclesAreFound

\* What is saved for a selection does what the selected operations did: each
\* of them gets all it consumed, over the same port, the contract of a slot
\* lets a table pass exactly if every reader finds in it what it consumes, and
\* the planner takes whatever extraction let through (WorkflowExtraction).
ExtractionIsExact ==
    request # <<>> => InputsSurvive /\ ContractsAreExact /\ ExtractedIsPlanned
=============================================================================
