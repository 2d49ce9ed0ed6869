---------------------------- MODULE ProjectFiles ----------------------------
(***************************************************************************)
(* Project files on disk: drafts and their registry (project_drafts.rs),   *)
(* opening and closing (project_database.rs), Save As and the naming of a  *)
(* draft (project_snapshot.rs, snapshot_enabled of                         *)
(* project_native_service.rs) and the publication of a migrated project    *)
(* (publish_migrated_with_hook).                                           *)
(*                                                                         *)
(* Several instances of the program run on one file system.  An instance   *)
(* or the whole machine can stop between any two steps.  A commit is       *)
(* durable in the database's log (DuckDB); a file that was only written, a *)
(* rename and a new name are not, until the file or its directory is       *)
(* synced; when an operation stopped half way, the system has written its  *)
(* names back before the next power loss.  The engine locks the files it   *)
(* has open against other processes.  Platform: POSIX.                     *)
(***************************************************************************)
EXTENDS Integers, FiniteSets, TLC

CONSTANTS
    Instances,  \* of the program
    Drafts,     \* files of drafts, by recovery id
    Named,      \* files a user named
    None,
    MaxEdits, MaxFiles, MaxLosses  \* bounds on commits, files ever made and power losses

\* What the constants must be; the module that instantiates this one assumes it.
FilesAssumption ==
    /\ IsFiniteSet(Instances \cup Drafts \cup Named) /\ Drafts \cap Named = {}
    /\ None \notin Instances \cup Drafts \cup Named
    /\ {MaxEdits, MaxFiles, MaxLosses} \subseteq Nat

Paths == Drafts \cup Named
Edits == 1..MaxEdits
Inodes == 1..MaxFiles
Closed == [path |-> None, inode |-> 0]
NoWork == [step |-> "none", how |-> "none", src |-> None, dest |-> None, old |-> 0, copy |-> 0]
NoFile == [main |-> {}, log |-> {}, disk |-> "none", id |-> None]

VARIABLES
    file,       \* Inodes -> contents: main file, log, how safe the main file is, project
    dir, kept,  \* Paths -> inode: as programs see it, as it survives a power loss
    registry, keptRegistry,  \* Drafts -> entry of the draft registry
    session,    \* Instances -> the project that is open
    work,       \* Instances -> creation, Save As or migration under way
    acked,      \* edits that were acknowledged
    replaced,   \* edits of files a user chose to replace
    losses      \* power losses so far

names == <<dir, kept>>
drafts == <<registry, keptRegistry>>
ghosts == <<acked, replaced, losses>>
vars == <<file, names, drafts, session, work, ghosts>>

Init ==
    /\ file = [j \in Inodes |-> NoFile]
    /\ dir = [p \in Paths |-> 0] /\ kept = dir
    /\ registry = [d \in Drafts |-> "none"] /\ keptRegistry = registry
    /\ session = [i \in Instances |-> Closed]
    /\ work = [i \in Instances |-> NoWork]
    /\ acked = {} /\ replaced = {} /\ losses = 0

-----------------------------------------------------------------------------
(* Files and locks *)

Contents(j) == IF j = 0 \/ file[j].disk = "torn" THEN {} ELSE file[j].main \cup file[j].log
Unused == {j \in Inodes : file[j].disk = "none"}
Fresh == CHOOSE j \in Unused : \A k \in Unused : j <= k

\* Files an instance has open for writing: its project, a draft it creates, the
\* destination of a Save As, which has the save guard from "retired" to "synced".
Writing(i) == {session[i].inode}
              \cup (IF work[i].step \in {"created", "registered", "owned", "guarded",
                                        "copied", "flushed", "checked"}
                    THEN {work[i].old} ELSE {})

\* The source of a Save As, while it is copied.
Reading(i) == IF work[i].step = "guarded" THEN {dir[work[i].src]} ELSE {}

MayWrite(i, j) == \A k \in Instances : j \notin Writing(k) \cup Reading(k)
MayRead(i, j) == \A k \in Instances : j \notin Writing(k)

\* ProjectDatabase::open, for writing: the log is replayed by the engine.
Opens(i, p) == dir[p] # 0 /\ file[dir[p]].disk # "torn" /\ MayWrite(i, dir[p])

WriteBack == kept' = dir /\ keptRegistry' = registry

Checkpointed(j) == [file EXCEPT ![j].main = @ \cup file[j].log, ![j].log = {}]

To(i, step) == work' = [work EXCEPT ![i].step = step]

-----------------------------------------------------------------------------
(* Drafts *)

\* ProjectDatabase::create: the new file is synced, and its directory.
CreateDraft(i, d) ==
    /\ session[i] = Closed /\ work[i] = NoWork
    /\ dir[d] = 0 /\ Unused # {}
    /\ file' = [file EXCEPT ![Fresh] = [NoFile EXCEPT !.disk = "stored", !.id = d]]
    /\ dir' = [dir EXCEPT ![d] = Fresh] /\ kept' = [kept EXCEPT ![d] = Fresh]
    /\ work' = [work EXCEPT ![i] = [NoWork EXCEPT !.step = "created", !.src = d, !.old = Fresh]]
    /\ UNCHANGED <<drafts, session, ghosts>>

\* The registry entry is written to a synced temporary file and renamed.
Register(i) ==
    /\ work[i].step = "created"
    /\ registry' = [registry EXCEPT ![work[i].src] = "draft"]
    /\ To(i, "registered")
    /\ UNCHANGED <<file, names, keptRegistry, session, ghosts>>

\* Mutant of RegistrySynced: the rename of an entry is not made durable.
RegistryUnsynced == keptRegistry

\* The directory of the registry is synced.
RegistrySynced == registry

PublishDraft(i) ==
    /\ work[i].step = "registered"
    /\ keptRegistry' = RegistrySynced
    /\ session' = [session EXCEPT ![i] = [path |-> work[i].src, inode |-> work[i].old]]
    /\ work' = [work EXCEPT ![i] = NoWork]
    /\ UNCHANGED <<file, names, registry, ghosts>>

-----------------------------------------------------------------------------
(* Sessions *)

\* open_project_v5, recover_project_draft_v5
Open(i, p) ==
    /\ session[i] = Closed /\ work[i] = NoWork
    /\ p \in Drafts => registry[p] = "draft"
    /\ Opens(i, p)
    /\ session' = [session EXCEPT ![i] = [path |-> p, inode |-> dir[p]]]
    /\ UNCHANGED <<file, names, drafts, work, ghosts>>

\* A commit: it is in the log when it is acknowledged.
Edit(i) ==
    /\ session[i] # Closed
    /\ work[i].how = "migration" => work[i].step = "checked"
    /\ Cardinality(acked) < MaxEdits
    /\ LET e == Cardinality(acked) + 1
       IN  /\ file' = [file EXCEPT ![session[i].inode].log = @ \cup {e}]
           /\ acked' = acked \cup {e}
    /\ UNCHANGED <<names, drafts, session, work, replaced, losses>>

\* close_project_v5; prepare_close ends with a checkpoint.  mark_named runs
\* without the save guard.
Close(i) ==
    /\ session[i] # Closed /\ work[i].step \in {"none", "reopened", "marked"}
    /\ file' = Checkpointed(session[i].inode)
    /\ session' = [session EXCEPT ![i] = Closed]
    /\ UNCHANGED <<names, drafts, work, ghosts>>

-----------------------------------------------------------------------------
(* Save As and the naming of a draft *)

\* retire_database
Retired(i) == [session EXCEPT ![i] = Closed]

\* snapshot_enabled: the user has agreed to replace the destination.
BeginSaveAs(i, p) ==
    /\ session[i] # Closed /\ work[i] = NoWork
    /\ dir[p] # session[i].inode
    /\ file' = Checkpointed(session[i].inode)
    /\ session' = Retired(i)
    /\ work' = [work EXCEPT ![i] =
          [NoWork EXCEPT !.step = "retired", !.src = session[i].path, !.dest = p,
                         !.how = IF session[i].path \in Drafts THEN "naming" ELSE "copy"]]
    /\ replaced' = replaced \cup Contents(dir[p])
    /\ UNCHANGED <<names, drafts, acked, losses>>

\* Mutant of DestinationFree: the destination is not locked.
DestinationFreeAlways(i) == TRUE

\* A destination that is a project is opened, and must have no log to recover.
DestinationFree(i) ==
    LET j == dir[work[i].dest]
    IN  (j # 0 /\ file[j].disk # "torn") => (MayWrite(i, j) /\ file[j].log = {})

OwnDestination(i) ==
    /\ work[i].step = "retired" /\ DestinationFree(i)
    /\ work' = [work EXCEPT ![i].step = "owned", ![i].old = dir[work[i].dest]]
    /\ UNCHANGED <<file, names, drafts, session, ghosts>>

\* The source has no log, and is opened for reading; nobody opens it in between.
SourceReadable(i) ==
    LET j == dir[work[i].src]
    IN  j # 0 /\ file[j].disk # "torn" /\ file[j].log = {} /\ MayRead(i, j)

GuardSource(i) ==
    /\ work[i].step = "owned" /\ SourceReadable(i)
    /\ To(i, "guarded")
    /\ UNCHANGED <<file, names, drafts, session, ghosts>>

\* The source's main file is copied, then the source is let go.  A copy that is
\* not the naming of a draft is another project.
Copy(i) ==
    /\ work[i].step = "guarded" /\ Unused # {}
    /\ file' = [file EXCEPT ![Fresh] =
          [NoFile EXCEPT !.main = file[dir[work[i].src]].main, !.disk = "cached",
                         !.id = IF work[i].how = "naming" THEN file[dir[work[i].src]].id ELSE None]]
    /\ work' = [work EXCEPT ![i].step = "copied", ![i].copy = Fresh]
    /\ UNCHANGED <<names, drafts, session, ghosts>>

Stored(j) == [file EXCEPT ![j].disk = "stored"]

Flush(i) ==
    /\ work[i].step = "copied"
    /\ file' = Stored(work[i].copy)
    /\ To(i, "flushed")
    /\ UNCHANGED <<names, drafts, session, ghosts>>

CheckDestination(i) ==
    /\ work[i].step = "flushed" /\ dir[work[i].dest] = work[i].old
    /\ To(i, "checked")
    /\ UNCHANGED <<file, names, drafts, session, ghosts>>

\* replace_archive_atomically_os; persist_noclobber, when a project was migrated.
Rename(i) ==
    /\ work[i].step = "checked"
    /\ work[i].how = "migration" => dir[work[i].dest] = 0
    /\ dir' = [dir EXCEPT ![work[i].dest] = work[i].copy]
    /\ To(i, "renamed")
    /\ UNCHANGED <<file, kept, drafts, session, ghosts>>

Synced(p) == [kept EXCEPT ![p] = dir[p]]

SyncDirectory(i) ==
    /\ work[i].step = "renamed"
    /\ kept' = Synced(work[i].dest)
    /\ To(i, "synced")
    /\ UNCHANGED <<file, dir, drafts, session, ghosts>>

\* Whatever is at the destination now is opened, and the session it replaces is closed.
Reopen(i) ==
    /\ work[i].step = "synced" /\ Opens(i, work[i].dest)
    /\ file' = IF session[i] = Closed THEN file ELSE Checkpointed(session[i].inode)
    /\ session' = [session EXCEPT ![i] = [path |-> work[i].dest, inode |-> dir[work[i].dest]]]
    /\ work' = [work EXCEPT ![i] = IF @.how = "naming"
                                          THEN [@ EXCEPT !.step = "reopened", !.copy = dir[work[i].dest]]
                                          ELSE NoWork]
    /\ UNCHANGED <<names, drafts, ghosts>>

\* When the draft of a project is marked as named.
Marked == {"reopened"}

\* mark_named: every draft of the project that is now open.
MarkNamed(i) ==
    /\ work[i].step \in Marked /\ work[i].how = "naming"
    /\ LET id == file[work[i].copy].id
       IN  registry' = [d \in Drafts |-> IF d = id /\ registry[d] = "draft" THEN "named" ELSE registry[d]]
    /\ To(i, "marked")
    /\ UNCHANGED <<file, names, keptRegistry, session, ghosts>>

FinishNaming(i) ==
    /\ work[i].step = "marked"
    /\ keptRegistry' = RegistrySynced
    /\ work' = [work EXCEPT ![i] = NoWork]
    /\ UNCHANGED <<file, names, registry, session, ghosts>>

\* A step fails: a Save As reopens its source, if it can; a migration leaves
\* the session as it is.
Fail(i) ==
    /\ work[i].step # "none"
    /\ work' = [work EXCEPT ![i] = NoWork]
    /\ IF work[i].how \in {"naming", "copy"} /\ work[i].step \notin {"reopened", "marked"}
          /\ Opens(i, work[i].src)
       THEN session' = [session EXCEPT ![i] = [path |-> work[i].src, inode |-> dir[work[i].src]]]
       ELSE UNCHANGED session
    /\ WriteBack
    /\ UNCHANGED <<file, dir, registry, ghosts>>

-----------------------------------------------------------------------------
(* Migration of a legacy project, whose own file is only read *)

\* The staged project is built, closed and synced; the session stays open.
StageMigration(i, p) ==
    /\ work[i] = NoWork /\ dir[p] = 0 /\ Unused # {}
    /\ file' = [file EXCEPT ![Fresh] = [NoFile EXCEPT !.disk = "stored"]]
    /\ work' = [work EXCEPT ![i] = [NoWork EXCEPT !.step = "checked", !.how = "migration",
                                                  !.dest = p, !.copy = Fresh]]
    /\ UNCHANGED <<names, drafts, session, ghosts>>

-----------------------------------------------------------------------------
(* Stops *)

Crash(i) ==
    /\ session[i] # Closed \/ work[i] # NoWork
    /\ session' = [session EXCEPT ![i] = Closed]
    /\ work' = [work EXCEPT ![i] = NoWork]
    /\ WriteBack
    /\ UNCHANGED <<file, dir, registry, ghosts>>

\* What was not synced may be lost, name by name; what was only written is torn.
PowerLoss ==
    /\ losses < MaxLosses
    /\ losses' = losses + 1
    /\ \E lost \in SUBSET Paths, forgotten \in SUBSET Drafts :
          /\ dir' = [p \in Paths |-> IF p \in lost THEN kept[p] ELSE dir[p]]
          /\ registry' = [d \in Drafts |-> IF d \in forgotten THEN keptRegistry[d] ELSE registry[d]]
    /\ kept' = dir' /\ keptRegistry' = registry'
    /\ file' = [j \in Inodes |-> IF file[j].disk = "cached" THEN [file[j] EXCEPT !.disk = "torn"] ELSE file[j]]
    /\ session' = [i \in Instances |-> Closed]
    /\ work' = [i \in Instances |-> NoWork]
    /\ UNCHANGED <<acked, replaced>>

Step(i) ==
    \/ \E d \in Drafts : CreateDraft(i, d)
    \/ Register(i) \/ PublishDraft(i)
    \/ \E p \in Paths : Open(i, p)
    \/ Edit(i) \/ Close(i)
    \/ \E p \in Named : BeginSaveAs(i, p) \/ StageMigration(i, p)
    \/ OwnDestination(i) \/ GuardSource(i) \/ Copy(i) \/ Flush(i) \/ CheckDestination(i)
    \/ Rename(i) \/ SyncDirectory(i) \/ Reopen(i) \/ MarkNamed(i) \/ FinishNaming(i)
    \/ Fail(i) \/ Crash(i)

Next == PowerLoss \/ \E i \in Instances : Step(i)

Spec == Init /\ [][Next]_vars

-----------------------------------------------------------------------------
(* Properties *)

\* Between retiring its session and reopening, a Save As has no session.
SaveAsSteps == {"retired", "owned", "guarded", "copied", "flushed", "checked", "renamed", "synced"}

\* The variables have their types, and a Save As has closed its session (snapshot_enabled).
TypeOK ==
    /\ file \in [Inodes -> [main : SUBSET Edits, log : SUBSET Edits,
                            disk : {"none", "cached", "stored", "torn"}, id : Drafts \cup {None}]]
    /\ {dir, kept} \subseteq [Paths -> {0} \cup Inodes]
    /\ {registry, keptRegistry} \subseteq [Drafts -> {"none", "draft", "named"}]
    /\ session \in [Instances -> [path : Paths \cup {None}, inode : {0} \cup Inodes]]
    /\ acked \subseteq Edits /\ replaced \subseteq acked /\ losses \in 0..MaxLosses
    /\ \A i \in Instances :
          /\ work[i].dest \in Named \cup {None} /\ {work[i].old, work[i].copy} \subseteq {0} \cup Inodes
          /\ work[i].how \in {"naming", "copy"} /\ work[i].step \in SaveAsSteps => session[i] = Closed

\* What a user can get at after a restart: named files, drafts that are offered.
Reachable == Named \cup {d \in Drafts : registry[d] = "draft"}

\* Whatever stops or fails at any step, an edit that was acknowledged is in a
\* file the user can open, unless the user replaced it (save_as, create,
\* mark_named).
EditsSurvive == acked \subseteq replaced \cup UNION {Contents(dir[p]) : p \in Reachable}

\* No power loss leaves half of a copy at a name the user knows (save_as).
NothingTorn == \A p \in Paths : dir[p] # 0 => file[dir[p]].disk # "torn"

\* While a source is being copied, nothing that was committed is outside of the
\* file that is copied, whatever other instances do (save_as: source_guard).
GuardedIsComplete ==
    \A i \in Instances : work[i].step = "guarded" => file[dir[work[i].src]].log = {}

\* A Save As over an existing project never removes it while another instance
\* works in it (save_as: destination_engine).
InUse(j) == \E k \in Instances : session[k].inode = j
OnlyIdleIsOverwritten ==
    \A i \in Instances :
        (work[i].step = "checked" /\ work'[i].step = "renamed" /\ work[i].old # 0) => ~InUse(work[i].old)
OverwritesIdle == [][OnlyIdleIsOverwritten]_vars

\* No Save As removes a project that another instance works in, also when there
\* was none at its destination when it began (save_as: current_identity).
ReplacesIdle ==
    [][\A i \in Instances :
          (work[i].step = "checked" /\ work'[i].step = "renamed" /\ dir[work[i].dest] # 0)
              => ~InUse(dir[work[i].dest])]_vars

\* A draft that is no longer offered has nothing that is not in a named file.
HiddenDraftsAreCopied ==
    \A d \in Drafts : registry[d] = "named" =>
        Contents(dir[d]) \subseteq replaced \cup UNION {Contents(dir[p]) : p \in Named}
=============================================================================
