----------------------- MODULE WorkflowPlannerProofs -----------------------
(***************************************************************************)
(* Proofs of the planner's order and of what the staging reads, for every  *)
(* set of definitions.  The order is right because the planner's counts    *)
(* are: the degree of a node is the number of its sources that are not yet *)
(* ordered, and the ready nodes are exactly those that could come next.    *)
(***************************************************************************)
EXTENDS WorkflowPlanner, FiniteSetTheorems, TLAPS

Past == phase \notin {"check", "refused"}
Done == {ordered[j] : j \in 1..Len(ordered)}

\* Past the checks, an edge connects nodes of the definition.
EndsKnown ==
    Past => \A e \in Edges(wf) : /\ e.source.node \in NodeIds(wf)
                                 /\ e.target.node \in NodeIds(wf)
\* The counts of the loop.
Counts ==
    phase = "order" =>
        /\ \A n \in NodeIds(wf) :
              indegree[n] = Cardinality(Sources(wf, n) \ Done)
        /\ ready = Possible(wf, Done)
\* The staging keeps pace with its position in the plan.
KeepsPace ==
    /\ phase \in {"check", "refused", "order", "planned", "cyclic"} => position = 1
    /\ \A j \in 1..(position - 1) :
          j <= Len(ordered) /\ IsTable(wf, ordered[j]) => ordered[j] \in staged
\* Nothing is ordered before the loop.
NotBegun == ~Past => ordered = <<>> /\ ready = {}

IInv == TypeOK /\ EndsKnown /\ Counts /\ Canonical /\ KeepsPace /\ NotBegun
        /\ ReadsThisRun

-----------------------------------------------------------------------------
\* Past the checks a node's sources are finitely many nodes.
LEMMA SourcesFinite ==
    ASSUME TypeOK, EndsKnown, Past, NEW n \in NodeIds(wf), NEW S
    PROVE  /\ Sources(wf, n) \subseteq NodeIds(wf)
           /\ Targets(wf, n) \subseteq NodeIds(wf)
           /\ IsFiniteSet(Sources(wf, n) \ S)
           /\ Cardinality(Sources(wf, n) \ S) \in Nat
<1>1. /\ Sources(wf, n) \subseteq NodeIds(wf)
      /\ Targets(wf, n) \subseteq NodeIds(wf)
  BY DEF Sources, Targets, EndsKnown
<1>2. IsFiniteSet(NodeIds(wf))
  BY WorkflowsAssumption DEF TypeOK
<1>3. IsFiniteSet(Sources(wf, n) \ S)
  BY <1>1, <1>2, FS_Subset
<1> QED BY <1>1, <1>3, FS_CardinalityType

\* An edge is seen from both of its ends.
LEMMA EdgeEnds ==
    ASSUME NEW a, NEW b
    PROVE  b \in Targets(wf, a) <=> a \in Sources(wf, b)
BY DEF Targets, Sources

\* A canonical order is a topological one.
LEMMA CanonicalIsTopological == Canonical => Topological
<1> SUFFICES ASSUME Canonical, NEW i \in DOMAIN ordered,
                    NEW s \in Sources(wf, ordered[i])
             PROVE  \E j \in 1..(i - 1) : ordered[j] = s
  BY DEF Topological
<1>1. ordered[i] \in Possible(wf, {ordered[j] : j \in 1..(i - 1)})
  BY DEF Canonical
<1> QED BY <1>1 DEF Possible

\* The initial states.
LEMMA InitIInv == Init => IInv
<1> SUFFICES ASSUME Init PROVE IInv
  OBVIOUS
<1>1. TypeOK
  <2>1. /\ wf \in Workflows /\ phase = "check" /\ ready = {} /\ ordered = <<>>
        /\ position = 1 /\ staged = {} /\ stale = FALSE /\ crossed = FALSE
    BY DEF Init
  <2>2. ordered \in Seq(NodeIds(wf))
    BY <2>1
  <2>3. /\ ready \subseteq NodeIds(wf) /\ staged \subseteq NodeIds(wf)
        /\ position \in Nat \ {0}
    BY <2>1
  <2>4. /\ stale \in BOOLEAN /\ crossed \in BOOLEAN
        /\ phase \in {"check", "refused", "order", "planned", "cyclic",
                      "stage", "unresolved", "computed"}
    BY <2>1
  <2> QED BY <2>1, <2>2, <2>3, <2>4 DEF TypeOK
<1>2. EndsKnown /\ Counts /\ NotBegun /\ ReadsThisRun
  BY DEF Init, EndsKnown, Counts, Past, NotBegun, ReadsThisRun
<1>3. Canonical BY DEF Init, Canonical
<1>4. KeepsPace BY DEF Init, KeepsPace
<1> QED BY <1>1, <1>2, <1>3, <1>4 DEF IInv

\* The checks establish the counts.
LEMMA PrepareStep == ASSUME IInv, Prepare PROVE IInv'
<1> USE DEF Prepare
<1>1. /\ wf' = wf /\ ordered' = ordered /\ ordered = <<>> /\ phase' = "order"
      /\ phase = "check" /\ bound' = bound
      /\ position' = position /\ staged' = staged /\ stale' = stale
      /\ crossed' = crossed
  BY DEF IInv, NotBegun, Past, run
<1>2. EndsKnown'
  <2>1. \A e \in Edges(wf) : /\ e.source.node \in NodeIds(wf)
                             /\ e.target.node \in NodeIds(wf)
    BY DEF Accepted, EdgesAccepted, EndAt
  <2> QED BY <2>1, <1>1 DEF EndsKnown, Edges, NodeIds
<1>3. Done' = {} /\ Done = {}
  BY <1>1 DEF Done
<1>4. \A n \in NodeIds(wf) : /\ IsFiniteSet(Sources(wf, n))
                             /\ Cardinality(Sources(wf, n)) \in Nat
  <2>1. \A n \in NodeIds(wf) : Sources(wf, n) \subseteq NodeIds(wf)
    BY <1>1, <1>2 DEF EndsKnown, Past, Sources, Edges, NodeIds
  <2>2. IsFiniteSet(NodeIds(wf))
    BY WorkflowsAssumption DEF IInv, TypeOK
  <2> QED BY <2>1, <2>2, FS_Subset, FS_CardinalityType
<1>5. TypeOK'
  <2>1. indegree' \in [NodeIds(wf) -> Nat]
    BY <1>4
  <2>2. ready' \subseteq NodeIds(wf)
    OBVIOUS
  <2> QED BY <2>1, <2>2, <1>1 DEF IInv, TypeOK
<1>6. Counts'
  <2>1. \A n \in NodeIds(wf) : indegree'[n] = Cardinality(Sources(wf, n) \ {})
    <3>1. \A n \in NodeIds(wf) : Sources(wf, n) \ {} = Sources(wf, n)
      OBVIOUS
    <3> QED BY <3>1
  <2>2. ready' = Possible(wf, {})
    BY DEF Possible
  <2> QED BY <2>1, <2>2, <1>1, <1>3 DEF Counts
<1>7. Canonical' BY <1>1 DEF Canonical
<1>8. KeepsPace' BY <1>1 DEF IInv, KeepsPace
<1>9. NotBegun' /\ ReadsThisRun'
  BY <1>1 DEF NotBegun, Past, IInv, ReadsThisRun
<1> QED BY <1>2, <1>5, <1>6, <1>7, <1>8, <1>9 DEF IInv

\* One turn of the loop keeps the counts and extends the order by the
\* smallest node that could come next.
LEMMA PopReadyStep == ASSUME IInv, PopReady PROVE IInv'
<1> USE DEF PopReady
<1>1. /\ wf' = wf /\ phase' = phase /\ phase = "order" /\ bound' = bound
      /\ position' = position /\ position = 1 /\ staged' = staged
      /\ stale' = stale /\ crossed' = crossed
  BY DEF run, IInv, KeepsPace
<1>2. PICK id \in ready :
         /\ \A other \in ready : id <= other
         /\ ordered' = Append(ordered, id)
         /\ indegree' = [n \in DOMAIN indegree |->
                           IF n \in Targets(wf, id) THEN indegree[n] - 1
                                                    ELSE indegree[n]]
         /\ ready' = (ready \ {id})
               \cup {n \in Targets(wf, id) : indegree[n] = 1}
  OBVIOUS
<1>3. /\ TypeOK /\ EndsKnown /\ Past /\ Canonical
      /\ ready = Possible(wf, Done)
      /\ \A n \in NodeIds(wf) : indegree[n] = Cardinality(Sources(wf, n) \ Done)
      /\ indegree \in [NodeIds(wf) -> Nat]
      /\ ordered \in Seq(NodeIds(wf))
  BY <1>1 DEF IInv, Past, Counts, TypeOK
<1>4. id \in NodeIds(wf) /\ id \notin Done /\ Sources(wf, id) \subseteq Done
  BY <1>2, <1>3 DEF Possible
<1>5. /\ ordered' \in Seq(NodeIds(wf))
      /\ Len(ordered') = Len(ordered) + 1
      /\ \A j \in 1..Len(ordered) : ordered'[j] = ordered[j]
      /\ ordered'[Len(ordered) + 1] = id
  BY <1>2, <1>3, <1>4
<1>6. Done' = Done \cup {id}
  BY <1>5, <1>3 DEF Done
<1>7. ASSUME NEW n \in Done PROVE Sources(wf, n) \subseteq Done
  <2>1. PICK i \in 1..Len(ordered) : n = ordered[i]
    BY DEF Done
  <2>2. i \in DOMAIN ordered
    BY <1>3
  <2>3. ASSUME NEW s \in Sources(wf, n) PROVE s \in Done
    <3>1. PICK j \in 1..(i - 1) : ordered[j] = s
      BY <2>1, <2>2, <1>3, CanonicalIsTopological DEF Topological
    <3>2. j \in 1..Len(ordered)
      BY <1>3
    <3> QED BY <3>1, <3>2 DEF Done
  <2> QED BY <2>3
<1>8. ASSUME NEW n \in NodeIds(wf)
      PROVE  indegree'[n] = Cardinality(Sources(wf, n) \ (Done \cup {id}))
  <2>1. IsFiniteSet(Sources(wf, n) \ Done)
    BY <1>3, SourcesFinite
  <2>2. Sources(wf, n) \ (Done \cup {id}) = (Sources(wf, n) \ Done) \ {id}
    OBVIOUS
  <2>3. id \in Sources(wf, n) \ Done <=> n \in Targets(wf, id)
    BY <1>4, EdgeEnds
  <2>4. indegree'[n] = IF n \in Targets(wf, id) THEN indegree[n] - 1
                                                ELSE indegree[n]
    BY <1>2, <1>3
  <2>5. Cardinality((Sources(wf, n) \ Done) \ {id}) =
          IF id \in Sources(wf, n) \ Done
          THEN Cardinality(Sources(wf, n) \ Done) - 1
          ELSE Cardinality(Sources(wf, n) \ Done)
    BY <2>1, FS_RemoveElement
  <2>6. indegree[n] = Cardinality(Sources(wf, n) \ Done)
    BY <1>3
  <2> QED BY <2>2, <2>3, <2>4, <2>5, <2>6
<1>9. ready' = Possible(wf, Done \cup {id})
  <2>1. ASSUME NEW n \in ready' PROVE n \in Possible(wf, Done \cup {id})
    <3>1. CASE n \in ready \ {id}
      BY <3>1, <1>3 DEF Possible
    <3>2. CASE n \in Targets(wf, id) /\ indegree[n] = 1
      <4>1. n \in NodeIds(wf) /\ id \in Sources(wf, n)
        BY <3>2, <1>3, <1>4, SourcesFinite, EdgeEnds
      <4>2. n \notin Done /\ n # id
        BY <4>1, <1>4, <1>7
      <4>3. PICK x : Sources(wf, n) \ Done = {x}
        <5>1. IsFiniteSet(Sources(wf, n) \ Done)
          BY <4>1, <1>3, SourcesFinite
        <5>2. Cardinality(Sources(wf, n) \ Done) = 1
          BY <3>2, <4>1, <1>3
        <5> QED BY <5>1, <5>2, FS_Singleton
      <4>4. Sources(wf, n) \subseteq Done \cup {id}
        BY <4>1, <4>3, <1>4
      <4> QED BY <4>1, <4>2, <4>4 DEF Possible
    <3> QED BY <3>1, <3>2, <1>2
  <2>2. ASSUME NEW n \in Possible(wf, Done \cup {id}) PROVE n \in ready'
    <3>0. n \in NodeIds(wf) /\ n \notin Done /\ n # id
          /\ Sources(wf, n) \subseteq Done \cup {id}
      BY DEF Possible
    <3>1. CASE id \in Sources(wf, n)
      <4>1. Sources(wf, n) \ Done = {id}
        BY <3>0, <3>1, <1>4
      <4>2. indegree[n] = 1
        BY <4>1, <3>0, <1>3, FS_Singleton
      <4> QED BY <4>2, <3>1, <1>2, EdgeEnds
    <3>2. CASE id \notin Sources(wf, n)
      BY <3>0, <3>2, <1>2, <1>3 DEF Possible
    <3> QED BY <3>1, <3>2
  <2> QED BY <2>1, <2>2
<1>10. TypeOK'
  <2>1. ASSUME NEW n \in NodeIds(wf) PROVE indegree'[n] \in Nat
    <3>1. Cardinality(Sources(wf, n) \ (Done \cup {id})) \in Nat
      BY <1>3, SourcesFinite
    <3> QED BY <3>1, <1>8
  <2>2. DOMAIN indegree' = NodeIds(wf) /\ indegree' = [n \in NodeIds(wf) |-> indegree'[n]]
    BY <1>2, <1>3
  <2>3. indegree' \in [NodeIds(wf) -> Nat]
    BY <2>1, <2>2
  <2>4. ready' \subseteq NodeIds(wf)
    BY <1>9 DEF Possible
  <2> QED BY <2>3, <2>4, <1>1, <1>3, <1>5 DEF TypeOK
<1>11. Counts'
  BY <1>1, <1>6, <1>8, <1>9 DEF Counts
<1>12. Canonical'
  <2> DEFINE Before(o, i) == {o[j] : j \in 1..(i - 1)}
             Next1(o, i) == /\ o[i] \in Possible(wf, Before(o, i))
                            /\ \A n \in Possible(wf, Before(o, i)) : o[i] <= n
  <2>0. \A i \in DOMAIN ordered : Next1(ordered, i)
    BY <1>3 DEF Canonical
  <2>1. ASSUME NEW i \in DOMAIN ordered' PROVE Next1(ordered', i)
    <3>1. i \in 1..(Len(ordered) + 1)
      BY <1>5
    <3>2. Before(ordered', i) = Before(ordered, i)
      BY <3>1, <1>5, <1>3
    <3>3. CASE i \in 1..Len(ordered)
      <4>1. ordered'[i] = ordered[i] /\ i \in DOMAIN ordered
        BY <3>3, <1>3, <1>5
      <4> QED BY <4>1, <3>2, <2>0
    <3>4. CASE i = Len(ordered) + 1
      <4>1. Before(ordered, i) = Done
        BY <3>4, <1>3 DEF Done
      <4>2. ordered'[i] = id
        BY <3>4, <1>5
      <4> QED BY <4>1, <4>2, <3>2, <1>2, <1>3
    <3>5. Len(ordered) \in Nat
      BY <1>3
    <3>6. i \in 1..Len(ordered) \/ i = Len(ordered) + 1
      BY <3>1, <3>5
    <3> HIDE DEF Next1
    <3> QED BY <3>3, <3>4, <3>6
  <2> QED BY <2>1, <1>1 DEF Canonical
<1>13. EndsKnown' /\ NotBegun' /\ ReadsThisRun'
  BY <1>1 DEF IInv, EndsKnown, Past, NotBegun, ReadsThisRun
<1>14. KeepsPace'
  BY <1>1 DEF IInv, KeepsPace
<1> QED BY <1>10, <1>11, <1>12, <1>13, <1>14 DEF IInv

\* The staging reads nothing the plan has not staged before.
LEMMA StageStep == ASSUME IInv, StageNext PROVE IInv'
<1> USE DEF StageNext
<1>1. /\ wf' = wf /\ phase' = phase /\ phase = "stage" /\ bound' = bound
      /\ indegree' = indegree /\ ready' = ready /\ ordered' = ordered
      /\ position' = position + 1 /\ position <= Len(ordered)
      /\ position \in Nat \ {0}
      /\ ordered \in Seq(NodeIds(wf))
  BY DEF plan, IInv, TypeOK
<1>2. ordered[position] \in NodeIds(wf) /\ position \in DOMAIN ordered
  BY <1>1
<1>3. staged' = IF IsTable(wf, ordered[position])
                THEN staged \cup {ordered[position]} ELSE staged
  OBVIOUS
<1>4. ASSUME IsTable(wf, ordered[position]),
             NEW s \in Sources(wf, ordered[position]), IsTable(wf, s)
      PROVE  s \in staged
  <2>1. PICK j \in 1..(position - 1) : ordered[j] = s
    BY <1>2, CanonicalIsTopological DEF IInv, Topological
  <2> QED BY <2>1, <1>1, <1>4 DEF IInv, KeepsPace
<1>5. ReadsThisRun'
  BY <1>4 DEF IInv, ReadsThisRun
<1>6. stale' \in BOOLEAN /\ crossed' \in BOOLEAN
  BY DEF IInv, TypeOK
<1>7. TypeOK'
  BY <1>1, <1>2, <1>3, <1>6 DEF IInv, TypeOK
<1>8. KeepsPace'
  <2> SUFFICES ASSUME NEW j \in 1..position, IsTable(wf, ordered[j])
               PROVE  ordered[j] \in staged'
    BY <1>1 DEF KeepsPace
  <2>1. CASE j = position
    BY <2>1, <1>3
  <2>2. CASE j \in 1..(position - 1)
    BY <2>2, <1>1, <1>3 DEF IInv, KeepsPace
  <2> QED BY <2>1, <2>2, <1>1
<1>9. EndsKnown' /\ Counts' /\ Canonical' /\ NotBegun'
  BY <1>1 DEF IInv, EndsKnown, Past, Counts, Canonical, NotBegun
<1> QED BY <1>5, <1>7, <1>8, <1>9 DEF IInv

\* The other actions move the phase on and change nothing else.
LEMMA PhaseStep ==
    ASSUME IInv, UNCHANGED <<wf, plan, bound, run>>,
           phase' \in {"check", "refused", "order", "planned", "cyclic",
                       "stage", "unresolved", "computed"},
           phase' = "order" => phase = "order",
           ~Past => phase' \in {"check", "refused"},
           phase' \in {"check", "refused", "order", "planned", "cyclic"} =>
               phase \in {"check", "refused", "order", "planned", "cyclic"},
           phase' \in {"check", "refused"} => ~Past
    PROVE  IInv'
<1>1. /\ wf' = wf /\ indegree' = indegree /\ ready' = ready
      /\ ordered' = ordered /\ bound' = bound /\ position' = position
      /\ staged' = staged /\ stale' = stale /\ crossed' = crossed
  BY DEF plan, run
<1>2. TypeOK' BY <1>1 DEF IInv, TypeOK, Past
<1>3. EndsKnown' /\ NotBegun' /\ ReadsThisRun'
  BY <1>1 DEF IInv, EndsKnown, NotBegun, ReadsThisRun, Past
<1>4. Done' = Done BY <1>1 DEF Done
<1>5. Counts' BY <1>1, <1>4 DEF IInv, Counts
<1>6. Canonical' BY <1>1 DEF IInv, Canonical
<1>7. KeepsPace' BY <1>1 DEF IInv, KeepsPace
<1> QED BY <1>2, <1>3, <1>5, <1>6, <1>7 DEF IInv

LEMMA NextIInv == IInv /\ [Next]_vars => IInv'
<1> SUFFICES ASSUME IInv, [Next]_vars PROVE IInv'
  OBVIOUS
<1>1. CASE Prepare BY <1>1, PrepareStep
<1>2. CASE Refuse
  BY <1>2, PhaseStep DEF Refuse, Past
<1>3. CASE PopReady BY <1>3, PopReadyStep
<1>4. CASE EndOrder
  BY <1>4, PhaseStep DEF EndOrder, Past
<1>5. CASE TableSteps
  BY <1>5, PhaseStep DEF TableSteps, Past
<1>6. CASE StageNext BY <1>6, StageStep
<1>7. CASE ComputeDocuments
  BY <1>7, PhaseStep DEF ComputeDocuments, Past
<1>8. CASE UNCHANGED vars
  <2>1. phase' = phase /\ UNCHANGED <<wf, plan, bound, run>>
    BY <1>8 DEF vars
  <2>2. phase \in {"check", "refused", "order", "planned", "cyclic",
                   "stage", "unresolved", "computed"}
    BY DEF IInv, TypeOK
  <2> QED BY <2>1, <2>2, PhaseStep DEF Past
<1> QED BY <1>1, <1>2, <1>3, <1>4, <1>5, <1>6, <1>7, <1>8 DEF Next

\* The strengthened invariant holds in every reachable state: the planner's
\* counts and its ready nodes are those of the order it has so far.
THEOREM PlannerInvariant == Spec => []IInv
BY InitIInv, NextIInv, PTL DEF Spec

\* The planner's loop keeps its types: a count never goes below zero.
THEOREM PlannerTypes == Spec => []TypeOK
<1>1. IInv => TypeOK BY DEF IInv
<1> QED BY <1>1, PlannerInvariant, PTL

\* Everything a node depends on is ordered before it.
THEOREM PlanIsTopological == Spec => []Topological
<1>1. IInv => Topological BY CanonicalIsTopological DEF IInv
<1> QED BY <1>1, PlannerInvariant, PTL

\* The plan is determined by the definition, not by the order of its lists.
THEOREM PlanIsCanonical == Spec => []Canonical
<1>1. IInv => Canonical BY DEF IInv
<1> QED BY <1>1, PlannerInvariant, PTL

\* No staged operation reads what the last run left in a stable table.
THEOREM StagingReadsThisRun == Spec => []ReadsThisRun
<1>1. IInv => ReadsThisRun BY DEF IInv
<1> QED BY <1>1, PlannerInvariant, PTL
=============================================================================
