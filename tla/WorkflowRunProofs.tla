------------------------- MODULE WorkflowRunProofs -------------------------
(***************************************************************************)
(* Proofs about workflow runs, for any number of runs, edits and sessions. *)
(* That runs agree rests on the revision of the project: a run compares    *)
(* its outputs before it commits, but what it compared them with cannot    *)
(* have changed if the revision is still the one of its request.           *)
(***************************************************************************)
EXTENDS WorkflowRun, WellFoundedInduction, TLAPS

Content == [of : Nat, variant : Variants] \cup {None}
Places == {"idle", "begun", "frozen", "staged", "computed", "compared",
           "discarding", "failing", "ended"}

Outcomes == [run : Runs, status : {"succeeded", "failed"}, content : Content]

\* The types the steps rest on.
RunTypes ==
    /\ at \in [Runs -> Places]
    /\ request \in [Runs -> [epoch : Nat, revision : Nat]]
    /\ frozen \in [Runs -> Nat]
    /\ stage \in [Runs -> [content : Content, replaces : Int, session : Nat]]
ProjectTypes ==
    /\ revision \in Nat /\ input \in Nat /\ session \in Nat /\ output.gen \in Int
    /\ record \in Seq(Outcomes)
Types == RunTypes /\ ProjectTypes
\* No request is ahead of the project.
RequestsArePast == \A r \in Runs : request[r].revision <= revision
\* What a run has staged is of the input as it was frozen.
StagedOfFrozen ==
    \A r \in Runs : at[r] \in {"staged", "computed", "compared"} =>
                        stage[r].content.of = frozen[r]
\* While the revision stands, what the comparison found stands.
ComparedAgrees ==
    \A r \in Runs : at[r] = "compared" /\ revision = request[r].revision =>
        \A i \in Baselines(r) : record[i].content = stage[r].content

IInv == /\ Types /\ RequestsArePast /\ StagedOfFrozen /\ ComparedAgrees
        /\ Deterministic

-----------------------------------------------------------------------------
\* A set of numbers that is not empty has a least element.
LEMMA Least ==
    ASSUME NEW T, T \subseteq Nat, T # {}
    PROVE  \E x \in T : \A y \in T : x <= y
<1>1. PICK x \in T : \A y \in T : ~(<<y, x>> \in OpToRel(<, Nat))
  BY NatLessThanWellFounded, WFMin, Zenon
<1>2. OpToRel(<, Nat) = {p \in Nat \X Nat : p[1] < p[2]}
  BY Zenon DEF OpToRel
<1>3. \A y \in T : ~(<<y, x>> \in {p \in Nat \X Nat : p[1] < p[2]})
  BY <1>1, <1>2, Zenon
<1>4. ASSUME NEW y \in T PROVE x <= y
  <2>1. <<y, x>> \in Nat \X Nat OBVIOUS
  <2> QED BY <1>3, <2>1
<1> QED BY <1>4

\* If a run agrees with its first baseline it agrees with all of them.
LEMMA AgreesWithAll ==
    ASSUME IInv, NEW r \in Runs, AgreesWithBaseline(r)
    PROVE  \A i \in Baselines(r) : record[i].content = stage[r].content
<1> SUFFICES ASSUME NEW i \in Baselines(r)
             PROVE  record[i].content = stage[r].content
    OBVIOUS
<1>1. Baselines(r) \subseteq Nat
  <2>1. record \in Seq(Outcomes)
    BY DEF IInv, Types, RunTypes, ProjectTypes
  <2> QED BY <2>1 DEF Baselines, Succeeded
<1>2. PICK j \in Baselines(r) : \A k \in Baselines(r) : j <= k
  BY <1>1, Least
<1>3. record[j].content = stage[r].content
  BY <1>2 DEF AgreesWithBaseline
<1>4. record[i].content = record[j].content
  BY <1>2 DEF IInv, Deterministic, Baselines, Comparable
<1> QED BY <1>3, <1>4

\* A record of a failure, or of a success that agrees, keeps the runs
\* deterministic.
LEMMA AppendOutcome ==
    ASSUME IInv, NEW r \in Runs, NEW s \in {"succeeded", "failed"},
           record' = Append(record, Outcome(r, s)),
           s = "succeeded" =>
               \A i \in Baselines(r) : record[i].content = stage[r].content
    PROVE  /\ Deterministic'
           /\ record' \in Seq(Outcomes)
<1> USE DEF IInv, Types, RunTypes, ProjectTypes
<1>1. /\ Outcome(r, s) \in Outcomes
      /\ Outcome(r, s).status = s /\ Outcome(r, s).content = stage[r].content
  BY DEF Outcome, Outcomes, RunTypes
<1>2. /\ Len(record') = Len(record) + 1
      /\ \A i \in 1..Len(record) : record'[i] = record[i]
      /\ record'[Len(record) + 1] = Outcome(r, s)
      /\ DOMAIN record = 1..Len(record) /\ DOMAIN record' = 1..(Len(record) + 1)
      /\ Len(record) \in Nat
      /\ record' \in Seq(Outcomes)
  <2>1. record \in Seq(Outcomes)
    BY DEF ProjectTypes
  <2> QED BY <1>1, <2>1
<1>3. ASSUME NEW i \in Succeeded', i # Len(record) + 1
      PROVE  i \in Succeeded /\ record'[i] = record[i]
  BY <1>2, <1>3, SMTT(30) DEF Succeeded
<1>4. ASSUME NEW i \in Succeeded', i # Len(record) + 1, Len(record) + 1 \in Succeeded',
             record'[i].content.of = record'[Len(record) + 1].content.of
      PROVE  record'[i].content = record'[Len(record) + 1].content
  <2>1. s = "succeeded"
    BY <1>1, <1>2, <1>4 DEF Succeeded
  <2>2. i \in Baselines(r)
    BY <1>1, <1>2, <1>3, <1>4 DEF Baselines, Comparable
  <2> QED BY <1>1, <1>2, <1>3, <1>4, <2>1, <2>2
<1>5. ASSUME NEW i \in Succeeded', NEW j \in Succeeded',
             record'[i].content.of = record'[j].content.of
      PROVE  record'[i].content = record'[j].content
  <2>1. CASE i = Len(record) + 1 BY <2>1, <1>4, <1>5
  <2>2. CASE j = Len(record) + 1 BY <2>2, <1>4, <1>5
  <2>3. CASE i # Len(record) + 1 /\ j # Len(record) + 1
    <3>1. i \in Succeeded /\ j \in Succeeded /\ record'[i] = record[i] /\ record'[j] = record[j]
      BY <2>3, <1>3, <1>5
    <3>2. Deterministic OBVIOUS
    <3> HIDE DEF IInv, Types, RunTypes, ProjectTypes
    <3> QED BY <3>1, <3>2, <1>5 DEF Deterministic
  <2> QED BY <2>1, <2>2, <2>3
<1> QED BY <1>2, <1>5 DEF Deterministic

-----------------------------------------------------------------------------
\* The steps that neither commit nor compare.
LEMMA QuietStep ==
    ASSUME IInv, NEW r \in Runs,
           Begin(r) \/ Freeze(r) \/ Stage(r) \/ Compute(r) \/ Discard(r)
    PROVE  IInv'
<1> USE DEF IInv, Types
<1>1. UNCHANGED <<revision, input, session, output, record>>
  BY DEF Begin, Freeze, Stage, Compute, Discard, project
<1>2. RunTypes'
  <2>1. CASE Begin(r)
    BY <2>1 DEF RunTypes, ProjectTypes, Begin, Move, Places
  <2>2. CASE Freeze(r)
    BY <2>2 DEF RunTypes, ProjectTypes, Freeze, Move, Places
  <2>3. CASE Stage(r)
    <3>1. UNCHANGED <<request, frozen>>
      BY <2>3 DEF Stage
    <3>2. CASE ~(open /\ input = frozen[r])
      BY <2>3, <3>1, <3>2 DEF RunTypes, Stage, Move, Places
    <3>3. CASE open /\ input = frozen[r]
      <4>1. PICK v \in Variants :
              /\ stage' = [stage EXCEPT ![r] =
                     [content |-> [of |-> input, variant |-> v],
                      replaces |-> OutputGeneration, session |-> session]]
              /\ at' = [at EXCEPT ![r] = "staged"]
        BY <2>3, <3>3, Zenon DEF Stage, Move
      <4>2. OutputGeneration \in Int
        BY DEF ProjectTypes, OutputGeneration
      <4> QED BY <3>1, <4>1, <4>2 DEF RunTypes, ProjectTypes, Places, Content
    <3> QED BY <3>2, <3>3
  <2>4. CASE Compute(r) \/ Discard(r)
    BY <2>4 DEF RunTypes, Compute, Discard, Move, Places, held
  <2> QED BY <2>1, <2>2, <2>3, <2>4
<1>3. RequestsArePast'
  <2>1. \A q \in Runs : \/ request'[q] = request[q]
                        \/ request'[q] = [epoch |-> session, revision |-> revision]
    BY DEF RunTypes, Begin, Freeze, Stage, Compute, Discard, held
  <2> QED BY <1>1, <2>1 DEF RequestsArePast, ProjectTypes
<1>4. \A q \in Runs : at'[q] = "compared" =>
          at[q] = at'[q] /\ request'[q] = request[q] /\ stage'[q] = stage[q]
  <2>1. CASE Begin(r) BY <2>1 DEF RunTypes, Begin, Move
  <2>2. CASE Freeze(r) BY <2>2 DEF RunTypes, Freeze, Move
  <2>3. CASE Stage(r) BY <2>3 DEF RunTypes, Stage, Move
  <2>4. CASE Compute(r) \/ Discard(r) BY <2>4 DEF RunTypes, Compute, Discard, Move, held
  <2> QED BY <2>1, <2>2, <2>3, <2>4
<1>5. StagedOfFrozen'
  <2>1. CASE Begin(r) BY <2>1 DEF StagedOfFrozen, RunTypes, Begin, Move
  <2>2. CASE Freeze(r) BY <2>2 DEF StagedOfFrozen, RunTypes, Freeze, Move
  <2>3. CASE Stage(r) BY <2>3 DEF StagedOfFrozen, RunTypes, Stage, Move
  <2>4. CASE Compute(r) \/ Discard(r)
    BY <2>4 DEF StagedOfFrozen, RunTypes, Compute, Discard, Move, held
  <2> QED BY <2>1, <2>2, <2>3, <2>4
<1>6. ComparedAgrees'
  BY <1>1, <1>4 DEF ComparedAgrees, Baselines, Comparable, Succeeded
<1>7. Deterministic'
  BY <1>1 DEF Deterministic, Succeeded
<1> QED BY <1>1, <1>2, <1>3, <1>5, <1>6, <1>7 DEF ProjectTypes

\* The comparison.
LEMMA CompareStep ==
    ASSUME IInv, NEW r \in Runs, Compare(r)
    PROVE  IInv'
<1> USE DEF IInv
<1>1. Types' /\ RequestsArePast' /\ StagedOfFrozen'
  BY DEF Types, RunTypes, ProjectTypes, RequestsArePast, StagedOfFrozen, Compare, Move,
         Places, project, held
<1>2. UNCHANGED <<revision, record>>
  BY DEF Compare, project, held
<1>3. Deterministic'
  BY <1>2 DEF Deterministic, Succeeded
<1>4. UNCHANGED <<request, stage>>
  BY DEF Compare, held
<1>5. \A q \in Runs : Baselines(q)' = Baselines(q)
  BY <1>2, <1>4 DEF Baselines, Comparable, Succeeded
<1>6. at'[r] = "compared" => AgreesWithBaseline(r)
  BY DEF Compare, Move, Types, RunTypes, ProjectTypes
<1>7. \A q \in Runs : q # r => at'[q] = at[q]
  BY DEF Compare, Move, Types, RunTypes, ProjectTypes
<1>8. ComparedAgrees'
  BY <1>2, <1>4, <1>5, <1>6, <1>7, AgreesWithAll DEF ComparedAgrees
<1> QED BY <1>1, <1>3, <1>8

\* The commits: after one of them no request is current.
LEMMA CommitStep ==
    ASSUME IInv, NEW r \in Runs, Publish(r) \/ RecordFailure(r)
    PROVE  IInv'
<1> USE DEF IInv
<1>1. CASE revision' = revision
  <2>1. /\ UNCHANGED <<record, revision, input, session, output, held>>
        /\ \E place \in {"ended", "discarding"} : at' = [at EXCEPT ![r] = place]
    BY <1>1 DEF Publish, RecordFailure, Types, ProjectTypes, Move, held
  <2>2. Types' /\ RequestsArePast' /\ StagedOfFrozen'
    BY <2>1 DEF Types, RunTypes, ProjectTypes, RequestsArePast, StagedOfFrozen, Places,
                held
  <2>3. \A q \in Runs : at'[q] = "compared" =>
            at[q] = at'[q] /\ request'[q] = request[q] /\ stage'[q] = stage[q]
    BY <2>1 DEF Types, RunTypes, held
  <2> QED BY <1>1, <2>1, <2>2, <2>3
      DEF ComparedAgrees, Baselines, Comparable, Succeeded, Deterministic
<1>2. CASE revision' # revision
  <2>1. /\ revision' = revision + 1 /\ input' = input
        /\ UNCHANGED <<open, session>>
        /\ at' = [at EXCEPT ![r] = "ended"] /\ UNCHANGED held
        /\ \/ record' = Append(record, Outcome(r, "failed"))
              /\ UNCHANGED <<output, document, staging>>
           \/ /\ record' = Append(record, Outcome(r, "succeeded"))
              /\ at[r] = "compared" /\ ContextIsCurrent(r)
              /\ output' = [gen |-> output.gen + 1, content |-> stage[r].content]
              /\ document' = stage[r].content /\ staging' = Unstaged(r)
    BY <1>2 DEF Publish, RecordFailure, Move, Publishable
  <2>2. /\ Deterministic'
        /\ record' \in Seq(Outcomes)
    BY <2>1, AppendOutcome DEF ContextIsCurrent, ComparedAgrees
  <2>3. Types'
    <3>1. RunTypes' BY <2>1 DEF Types, RunTypes, Places, held
    <3>2. output'.gen \in Int BY <2>1 DEF Types, ProjectTypes
    <3>3. ProjectTypes' BY <2>1, <2>2, <3>2 DEF Types, ProjectTypes
    <3> QED BY <3>1, <3>3 DEF Types
  <2>4. RequestsArePast' /\ StagedOfFrozen'
    BY <2>1, SMTT(30) DEF Types, RunTypes, ProjectTypes, RequestsArePast, StagedOfFrozen, held
  <2>5. \A q \in Runs : revision' # request'[q].revision
    BY <2>1 DEF Types, RunTypes, ProjectTypes, RequestsArePast, held
  <2>6. ComparedAgrees'
    BY <2>5 DEF ComparedAgrees
  <2> QED BY <2>2, <2>3, <2>4, <2>6
<1> QED BY <1>1, <1>2

\* Edits, closing, opening and a crash.
LEMMA AroundStep ==
    ASSUME IInv, Edit \/ Close \/ Open \/ Crash
    PROVE  IInv'
<1> USE DEF IInv
<1>1. Types'
  <2>1. CASE Edit
    BY <2>1 DEF Types, RunTypes, ProjectTypes, Edit, Content, held
  <2>2. CASE Close
    BY <2>2 DEF Types, RunTypes, ProjectTypes, Close, project, held
  <2>3. CASE Open
    BY <2>3 DEF Types, RunTypes, ProjectTypes, Open, project, held
  <2>4. CASE Crash
    BY <2>4 DEF Types, RunTypes, ProjectTypes, Crash, Places, project, held
  <2> QED BY <2>1, <2>2, <2>3, <2>4
<1>2. /\ UNCHANGED record
      /\ revision' = revision \/ revision' = revision + 1
      /\ \A q \in Runs : /\ request'[q].revision = request[q].revision
                         /\ stage'[q].content = stage[q].content
                         /\ frozen'[q] = frozen[q]
                         /\ at'[q] # "ended" => at'[q] = at[q]
  BY DEF Edit, Close, Open, Crash, Types, RunTypes, ProjectTypes, project, held
<1>3. RequestsArePast' /\ StagedOfFrozen'
  BY <1>1, <1>2, SMTT(30) DEF Types, RunTypes, ProjectTypes, RequestsArePast, StagedOfFrozen
<1>4. ComparedAgrees'
  <2> SUFFICES ASSUME NEW q \in Runs, at'[q] = "compared",
                      revision' = request'[q].revision, NEW i \in Baselines(q)'
               PROVE  record'[i].content = stage'[q].content
      BY DEF ComparedAgrees
  <2>1. revision = request[q].revision /\ at[q] = "compared"
    BY <1>2 DEF Types, RunTypes, ProjectTypes, RequestsArePast
  <2>2. i \in Baselines(q)
    BY <1>2 DEF Baselines, Comparable, Succeeded
  <2> QED BY <1>2, <2>1, <2>2 DEF ComparedAgrees
<1>5. Deterministic'
  BY <1>2 DEF Deterministic, Succeeded
<1> QED BY <1>1, <1>3, <1>4, <1>5

-----------------------------------------------------------------------------
\* The strengthened invariant holds in every reachable state.
THEOREM InductiveInvariant == Spec => []IInv
<1>1. Init => IInv
  BY DEF Init, IInv, Types, RunTypes, ProjectTypes, RequestsArePast, StagedOfFrozen,
         ComparedAgrees, Deterministic, Succeeded, Absent, Content, Places
<1>2. IInv /\ [Next]_vars => IInv'
  <2> SUFFICES ASSUME IInv, [Next]_vars PROVE IInv' OBVIOUS
  <2>1. CASE UNCHANGED vars
    BY <2>1 DEF vars, project, held, IInv, Types, RunTypes, ProjectTypes,
                RequestsArePast, StagedOfFrozen,
                ComparedAgrees, Baselines, Comparable, Deterministic, Succeeded
  <2>2. CASE Next
    BY <2>2, QuietStep, CompareStep, CommitStep, AroundStep DEF Next, Step
  <2> QED BY <2>1, <2>2
<1> QED BY <1>1, <1>2, PTL DEF Spec

\* publish_project_workflow and persisted_determinism_baseline: runs with the
\* same input publish the same content, however many go on at the same time.
THEOREM RunsAgree == Spec => []Deterministic
<1>1. IInv => Deterministic
  BY DEF IInv
<1> QED BY <1>1, InductiveInvariant, PTL

\* publish_project_workflow: no run publishes what it computed from an input
\* that has been edited since.
THEOREM PublishesTheCurrent == Spec => PublishedFromCurrent
<1> DEFINE A == record' # record /\ record'[Len(record')].status = "succeeded" =>
                    record'[Len(record')].content.of = input
<1>1. IInv /\ Next => A
  <2> SUFFICES ASSUME IInv, Next, record' # record PROVE A
      BY DEF IInv
  <2>1. PICK r \in Runs : Publish(r) \/ RecordFailure(r)
    BY DEF Next, Step, Begin, Freeze, Stage, Compute, Compare, Discard, Edit, Close,
           Open, Crash, project, held
  <2>2. CASE record' = Append(record, Outcome(r, "failed"))
    <3>1. record'[Len(record')] = Outcome(r, "failed")
      BY <2>2 DEF IInv, Types, RunTypes, ProjectTypes
    <3> QED BY <3>1 DEF Outcome
  <2>3. CASE /\ record' = Append(record, Outcome(r, "succeeded"))
             /\ at[r] = "compared" /\ Publishable(r)
    <3>1. record'[Len(record')] = Outcome(r, "succeeded")
      BY <2>3 DEF IInv, Types, RunTypes, ProjectTypes
    <3>2. stage[r].content.of = input
      BY <2>3 DEF IInv, StagedOfFrozen, Publishable, StageIsCurrent
    <3> QED BY <3>1, <3>2 DEF Outcome
  <2> QED BY <2>1, <2>2, <2>3 DEF Publish, RecordFailure
<1>2. IInv /\ [Next]_vars => [A]_vars
  BY <1>1
<1> QED BY <1>2, InductiveInvariant, PTL DEF Spec, PublishedFromCurrent
=============================================================================
