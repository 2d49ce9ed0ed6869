--------------------------- MODULE MCProjectStorage ---------------------------
(* Where a project is stored: the session a process has (NativeSession) and  *)
(* the files several processes share (ProjectFiles), each at a size of its   *)
(* own.  They have no variable in common, so no property of one can depend   *)
(* on a step of the other, and a behaviour of this module is one of the      *)
(* component chosen at the start, the others as they were initially.         *)
EXTENDS Integers, FiniteSets, TLC

CONSTANTS a, b,       \* instances of the program
          n1, n2,     \* files a user named
          d1, None, c1

VARIABLES component,
          disk, registry, owned, external, live, slot, services, native, tx, cmd,
          nextEpoch, nextId, faults, acked,                    \* NativeSession
          file, dir, kept, registered, keptRegistry, session, work, saved,
          replaced, losses                                     \* ProjectFiles

Session == INSTANCE NativeSession WITH
    Paths <- {"draft", "a", "b"}, Drafts <- {"draft"}, Commands <- {c1},
    Kinds <- {"edit", "tabulate", "checkpoint"}, CloneFails <- FALSE,
    MaxEpoch <- 4, MaxRev <- 1, MaxId <- 4, MaxFaults <- 2
\* One instance, which may lose power ...
Alone == INSTANCE ProjectFiles WITH
    registry <- registered, acked <- saved,
    Instances <- {a}, Drafts <- {d1}, Named <- {n1, n2},
    MaxEdits <- 2, MaxFiles <- 4, MaxLosses <- 2
\* ... and two that are given the same files.
Shared == INSTANCE ProjectFiles WITH
    registry <- registered, acked <- saved,
    Instances <- {a, b}, Drafts <- {d1}, Named <- {n1},
    MaxEdits <- 1, MaxFiles <- 4, MaxLosses <- 1

ASSUME StorageAssumption ==
    Session!SessionAssumption /\ Alone!FilesAssumption /\ Shared!FilesAssumption

-----------------------------------------------------------------------------
sessionVars == <<disk, registry, owned, external, live, slot, services, native,
                 tx, cmd, nextEpoch, nextId, faults, acked>>
fileVars == <<file, dir, kept, registered, keptRegistry, session, work, saved,
              replaced, losses>>
vars == <<component, sessionVars, fileVars>>

Init ==
    /\ component \in {"session", "alone", "shared"}
    /\ Session!Init
    /\ IF component = "shared" THEN Shared!Init ELSE Alone!Init

Next ==
    /\ UNCHANGED component
    /\ \/ component = "session" /\ Session!Next /\ UNCHANGED fileVars
       \/ component = "alone" /\ Alone!Next /\ UNCHANGED sessionVars
       \/ component = "shared" /\ Shared!Next /\ UNCHANGED sessionVars

Spec == Init /\ [][Next]_vars

Symmetry == Permutations({n1, n2})

-----------------------------------------------------------------------------
\* The properties are stated, with the code they are about, in the modules of
\* the components.

\* The live database, the engine and the read services are of one project, and
\* a transition that fails reports the session it leaves behind.
SessionIsAccurate == Session!SessionIsWhole /\ Session!OutcomeIsAccurate
\* A commit that was acknowledged is in the file the session has or had open, and
\* no acknowledged edit is lost but from a file a user replaced, a draft that
\* left the list has a complete copy under its user's name, and no program sees
\* half a project, not even a copy made while another instance commits.
EditsSurvive ==
    /\ Session!AckedIsStored
    /\ component = "alone" =>
          Alone!EditsSurvive /\ Alone!HiddenDraftsAreCopied /\ Alone!NothingTorn
    /\ component = "shared" => Shared!GuardedIsComplete
\* A file another instance has open is not overwritten.
OverwritesIdle == [][component = "shared" => Shared!OnlyIdleIsOverwritten]_vars
=============================================================================
