---------------------------- MODULE WorkflowRun ----------------------------
(***************************************************************************)
(* Running a workflow in a native project.  A run freezes its input table, *)
(* stages its output tables in one transaction, computes its documents and *)
(* compares the outputs with an earlier run of the same inputs, each step  *)
(* under a lock of its own, and publishes everything in one commit.  Edits, *)
(* other runs, a switch of sessions and a crash come in between.           *)
(*                                                                         *)
(* The workflow has one input table, one output table and one document.    *)
(* A content names the input generation and, for operations that are not   *)
(* deterministic, a variant.                                               *)
(***************************************************************************)
EXTENDS Integers, Sequences, FiniteSets

CONSTANTS Runs, Variants, MaxRevision, MaxSessions

ASSUME RunAssumption ==
    /\ IsFiniteSet(Runs) /\ Variants # {}
    /\ {MaxRevision, MaxSessions} \subseteq Nat

None == [of |-> -1, variant |-> 0]   \* no content, or one of another origin
Absent == [gen |-> -1, content |-> None]

VARIABLES open, session,  \* whether a session is open, and its epoch
          revision,       \* committed revision of the project
          input,          \* generation of the input table
          output,         \* generation and content of the output table
          document,       \* content of the output document
          staging,        \* run -> content of its staging table
          record,         \* the runs the project has recorded
          at,             \* where each run is, and what it holds:
          request,        \*   the session and the revision it was asked for
          frozen,         \*   the generation of its input
          stage           \*   what it staged, and where
project == <<revision, input, output, document, record>>
held == <<request, frozen, stage>>
vars == <<open, session, project, staging, at, held>>

Active(r) == at[r] \notin {"idle", "ended"}
Succeeded == {i \in DOMAIN record : record[i].status = "succeeded"}

Init ==
    /\ open = TRUE /\ session = 1
    /\ revision = 0 /\ input = 0 /\ output = Absent /\ document = None
    /\ staging = <<>> /\ record = <<>>
    /\ at = [r \in Runs |-> "idle"]
    /\ request = [r \in Runs |-> [epoch |-> 0, revision |-> 0]]
    /\ frozen = [r \in Runs |-> 0]
    /\ stage = [r \in Runs |-> [content |-> None, replaces |-> 0, session |-> 0]]

Move(r, place) == at' = [at EXCEPT ![r] = place]

-----------------------------------------------------------------------------
\* A run

\* NativeProjectService::run_workflow: the request names the revision of the
\* project it was made from.
Begin(r) ==
    /\ at[r] = "idle" /\ open
    /\ Move(r, "begun")
    /\ request' = [request EXCEPT ![r] = [epoch |-> session, revision |-> revision]]
    /\ UNCHANGED <<open, session, project, staging, frozen, stage>>

\* Freezing and staging use the engine of whatever session is open.
Freeze(r) ==
    /\ at[r] = "begun"
    /\ IF open THEN Move(r, "frozen") /\ frozen' = [frozen EXCEPT ![r] = input]
               ELSE Move(r, "failing") /\ UNCHANGED frozen
    /\ UNCHANGED <<open, session, project, staging, request, stage>>

\* The generation a replacement of the output expects: 0 if there is none.
OutputGeneration == IF output = Absent THEN 0 ELSE output.gen

\* The staging tables and their owner are committed together, if the inputs
\* are still as they were frozen.
Stage(r) ==
    /\ at[r] = "frozen"
    /\ IF open /\ input = frozen[r]
       THEN \E v \in Variants :
              LET c == [of |-> input, variant |-> v]
              IN  /\ staging' = [x \in DOMAIN staging \cup {r} |->
                                    IF x = r THEN c ELSE staging[x]]
                  /\ stage' = [stage EXCEPT ![r] =
                        [content |-> c, replaces |-> OutputGeneration,
                         session |-> session]]
                  /\ Move(r, "staged")
       ELSE Move(r, "failing") /\ UNCHANGED <<staging, stage>>
    /\ UNCHANGED <<open, session, project, request, frozen>>

\* The document is computed from the staged table, found by its name in the
\* open session.
Compute(r) ==
    /\ at[r] = "staged"
    /\ Move(r, IF open /\ r \in DOMAIN staging THEN "computed" ELSE "discarding")
    /\ UNCHANGED <<open, session, project, staging, held>>

\* From here on a run goes through the database of its own session.
OwnSession(r) == open /\ session = request[r].epoch

\* persisted_determinism_baseline: the recorded runs that a run is compared
\* with; the first one counts.
Comparable(r, i) == record[i].content.of = stage[r].content.of
Baselines(r) == {i \in Succeeded : Comparable(r, i)}
AgreesWithBaseline(r) ==
    \A i \in Baselines(r) :
        (\A j \in Baselines(r) : i <= j) => record[i].content = stage[r].content
Compare(r) ==
    /\ at[r] = "computed"
    /\ Move(r, IF OwnSession(r) /\ AgreesWithBaseline(r)
               THEN "compared" ELSE "discarding")
    /\ UNCHANGED <<open, session, project, staging, held>>

\* commit_with_effects: every commit of a run is for the session and the
\* revision of the request.
ContextIsCurrent(r) == OwnSession(r) /\ revision = request[r].revision
StageIsCurrent(r) ==
    /\ r \in DOMAIN staging
    /\ frozen[r] = input /\ stage[r].replaces = OutputGeneration
\* Mutant: the frozen inputs and the output are checked again, the revision is
\* not.
PublishableUnordered(r) == OwnSession(r) /\ StageIsCurrent(r)
\* Mutant: only the output is checked again.
PublishableStale(r) ==
    OwnSession(r) /\ r \in DOMAIN staging /\ stage[r].replaces = OutputGeneration
Publishable(r) == ContextIsCurrent(r) /\ StageIsCurrent(r)

Outcome(r, status) == [run |-> r, status |-> status, content |-> stage[r].content]
Unstaged(r) == [x \in DOMAIN staging \ {r} |-> staging[x]]

\* publish_project_workflow: one commit replaces the table, writes the document
\* and records the run.
Publish(r) ==
    /\ at[r] = "compared"
    /\ IF Publishable(r)
       THEN /\ output' = [gen |-> output.gen + 1, content |-> stage[r].content]
            /\ document' = stage[r].content
            /\ record' = Append(record, Outcome(r, "succeeded"))
            /\ staging' = Unstaged(r) /\ revision' = revision + 1
            /\ Move(r, "ended")
       ELSE Move(r, "discarding")
            /\ UNCHANGED <<revision, output, document, record, staging>>
    /\ UNCHANGED <<open, session, input, held>>

\* discard_staged_operation works in the run's own session only.
Discard(r) ==
    /\ at[r] = "discarding"
    /\ staging' = IF OwnSession(r) THEN Unstaged(r) ELSE staging
    /\ Move(r, "failing")
    /\ UNCHANGED <<open, session, project, held>>

\* A failed run is recorded if the request is still current, and an error is
\* returned if not.
\* Mutant: the failure is recorded, or nothing more is heard of the run.
RecordFailureSilent(r) ==
    /\ at[r] = "failing" /\ ContextIsCurrent(r)
    /\ record' = Append(record, Outcome(r, "failed")) /\ revision' = revision + 1
    /\ Move(r, "ended")
    /\ UNCHANGED <<open, session, input, output, document, staging, held>>
RecordFailure(r) ==
    /\ at[r] = "failing"
    /\ IF ContextIsCurrent(r)
       THEN record' = Append(record, Outcome(r, "failed")) /\ revision' = revision + 1
       ELSE UNCHANGED <<record, revision>>
    /\ Move(r, "ended")
    /\ UNCHANGED <<open, session, input, output, document, staging, held>>

-----------------------------------------------------------------------------
\* What happens around it

\* MaxRevision bounds the edits.
Edit ==
    /\ open /\ revision < MaxRevision /\ revision' = revision + 1
    /\ \/ input' = input + 1 /\ UNCHANGED output
       \/ /\ output # Absent /\ UNCHANGED input
          /\ output' = [gen |-> output.gen + 1, content |-> None]
    /\ UNCHANGED <<open, session, document, record, staging, at, held>>

\* Nothing waits for runs when a session is closed.
Close ==
    /\ open /\ session < MaxSessions /\ open' = FALSE
    /\ UNCHANGED <<session, project, staging, at, held>>
\* recover_staged_operations discards what any operation has staged, before
\* the session is published.
Open ==
    /\ ~open /\ open' = TRUE /\ session' = session + 1
    /\ staging' = <<>>
    /\ UNCHANGED <<project, at, held>>
\* The process dies with its runs.
Crash ==
    /\ open /\ session < MaxSessions /\ open' = FALSE
    /\ at' = [r \in Runs |-> IF Active(r) THEN "ended" ELSE at[r]]
    /\ UNCHANGED <<session, project, staging, held>>

Step(r) ==
    \/ Freeze(r) \/ Stage(r) \/ Compute(r) \/ Compare(r)
    \/ Publish(r) \/ Discard(r) \/ RecordFailure(r)
Next ==
    \/ \E r \in Runs : Begin(r) \/ Step(r)
    \/ Edit \/ Close \/ Open \/ Crash
Spec == Init /\ [][Next]_vars /\ \A r \in Runs : WF_vars(Step(r))

-----------------------------------------------------------------------------
\* Properties

\* The range of every variable; a run is recorded once.
TypeOK ==
    /\ open \in BOOLEAN /\ session \in Nat /\ {revision, input} \subseteq Nat
    /\ {output.content, document} \subseteq [of : Nat, variant : Variants] \cup {None}
    /\ DOMAIN staging \subseteq Runs
    /\ \A i, j \in DOMAIN record : record[i].run = record[j].run => i = j
    /\ \A r \in Runs : frozen[r] \in 0..input

\* The output document, and the output table unless it was edited since, are
\* those of the last run that succeeded, whatever has failed after it.
OutputsOfOneRun ==
    LET latest == {record[i].content : i \in {i \in Succeeded :
                                                \A j \in Succeeded : j <= i}}
    IN  /\ document \in latest \cup (IF latest = {} THEN {None} ELSE {})
        /\ output.content \in {document, None}

\* What a run publishes was computed from the input as it is when the run
\* publishes it.
PublishedFromCurrent ==
    [][record' # record /\ record'[Len(record')].status = "succeeded" =>
          record'[Len(record')].content.of = input]_vars

\* Runs with the same input that succeed publish the same content, also when
\* they go on at the same time.
Deterministic ==
    \A i, j \in Succeeded :
        record[i].content.of = record[j].content.of =>
            record[i].content = record[j].content

\* A table staged in the open session was staged in this session, for a run
\* that is going on or by a run that began in an earlier session.
StagedIsOwned ==
    open => \A r \in DOMAIN staging :
                /\ stage[r].session = session
                /\ Active(r) \/ request[r].epoch # session

\* project_staging.rs: recovery runs "when no compute is active", so in an open
\* session each staged table belongs to a run that is going on.
StagedIsActive == open => \A r \in DOMAIN staging : Active(r)

\* A run ends, with its outputs published, its failure recorded or an error.
RunsEnd == \A r \in Runs : at[r] = "begun" ~> at[r] = "ended"
=============================================================================
