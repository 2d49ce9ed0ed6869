--------------------------- MODULE NativeSession ---------------------------
(***************************************************************************)
(* The life of the native (v5) project session: NativeProjectService       *)
(* (open, create and recover a draft, close, Save As), ProjectDatabase     *)
(* (ownership of a file, the shared writer slot, prepare_close, Drop) and  *)
(* ProjectSnapshotService.save_as.                                         *)
(*                                                                         *)
(*  - One transition at a time: project_transition and begin_save are      *)
(*    verified in SaveCoordinator; here they are "tx is idle".             *)
(*  - AppState.db is a slot shared by every ProjectDatabase that was ever  *)
(*    installed in it; the epoch in the slot is all that keeps a retired   *)
(*    database from writing to, or clearing, its successor's engine.       *)
(*  - Commands take the Arc of the live database, then the lifecycle lock; *)
(*    they hold no mutation permit, so a transition runs against them.     *)
(*  - Another process may open, write and create project files; DuckDB's   *)
(*    file lock and OWNED_FILES exclude it from the files this one has.    *)
(*  - The process may crash at any step.  Files survive.                   *)
(***************************************************************************)
EXTENDS Integers, FiniteSets

CONSTANTS Paths,        \* project files
          Drafts,       \* those that belong to the draft registry
          Commands,     \* concurrent commands of the frontend
          Kinds,        \* what they do: "edit", "tabulate", "checkpoint"
          CloneFails,   \* may building new read services fail?
          MaxEpoch, MaxRev, MaxId, MaxFaults

\* What the constants must be; the module that instantiates this one assumes it.
SessionAssumption ==
    /\ Drafts \subseteq Paths
    /\ Kinds \subseteq {"edit", "tabulate", "checkpoint"}
    /\ CloneFails \in BOOLEAN
    /\ {MaxEpoch, MaxRev, MaxId, MaxFaults} \subseteq Nat

VARIABLES disk,      \* Paths -> [id, rev, wal]; id 0 is "no such file"
          registry,  \* Drafts -> "none" | "draft" | "named"
          owned,     \* OWNED_FILES: files this process has open
          external,  \* files another process has open
          live,      \* AppState.project_database
          slot,      \* AppState.db: the engine [epoch, path] it holds
          services,  \* epoch that graph, navigation and tabulate read, or Shut
          native,    \* SaveCoordinator: legacy writers are refused
          tx,        \* the transition under way
          cmd,       \* Commands -> the Arc it holds and where it is
          nextEpoch, nextId, faults,
          acked      \* Paths -> [id, rev]: the last acknowledged commit
vars == <<disk, registry, owned, external, live, slot, services, native, tx,
          cmd, nextEpoch, nextId, faults, acked>>

Shut == -1
NoPath == "none"
NoDatabase == [path |-> NoPath, epoch |-> 0, readOnly |-> FALSE]
Temporary == [epoch |-> 0, path |-> NoPath]   \* an in-memory engine
Cleared == [epoch |-> Shut, path |-> NoPath]  \* no engine at all
NoFile == [id |-> 0, rev |-> 0, wal |-> FALSE]
Idle == [pc |-> "idle", kind |-> "none", db |-> NoDatabase,
         source |-> NoDatabase, dest |-> NoPath, seen |-> 0, first |-> FALSE,
         temp |-> NoFile, published |-> FALSE, error |-> FALSE]
Rest == [pc |-> "idle", kind |-> "none", db |-> NoDatabase]

Present(p) == disk[p].id # 0
Inside(c) == cmd[c].pc \in {"inside", "ready"}  \* lifecycle.read, writer.lock
\* The write locks on project_database, table_navigation, tabulate_sessions,
\* column_display and project, from publish_database or retire_database.
PublicationLocked == tx.pc \in {"locked", "drained", "refused", "closed"}

Init ==
    /\ disk \in [Paths -> {NoFile, [id |-> 1, rev |-> 0, wal |-> FALSE]}]
    /\ \A p \in Paths : Present(p) <=> p = CHOOSE q \in Paths \ Drafts : TRUE
    /\ registry = [d \in Drafts |-> "none"]
    /\ owned = {} /\ external = {}
    /\ live = NoDatabase /\ slot = Temporary /\ native = FALSE
    /\ services = 0
    /\ tx = Idle
    /\ cmd = [c \in Commands |-> Rest]
    /\ nextEpoch = 1 /\ nextId = 2 /\ faults = 0
    /\ acked = [p \in Paths |-> [id |-> disk[p].id, rev |-> 0]]

Fault == faults < MaxFaults /\ faults' = faults + 1
Advance(pc) == tx' = [tx EXCEPT !.pc = pc]
\* An error before publish_database took its locks: open, create and recover
\* return it, Save As turns to its recovery, which gives up on a second one.
AfterFailure ==
    IF tx.kind # "saveAs" THEN Idle
    ELSE [tx EXCEPT !.pc = IF tx.source = tx.db THEN "lost" ELSE "failed",
                    !.db = NoDatabase, !.error = TRUE]

-----------------------------------------------------------------------------
(* ProjectDatabase::open and publish_database.                             *)

\* FileOwner::acquire, then DuckDB's own lock; a file with a WAL can only be
\* opened for writing, which replays it.
CanOpen(p, readOnly) ==
    /\ Present(p) /\ p \notin owned \cup external
    /\ ~(disk[p].wal /\ readOnly)

OpenDatabase(p, readOnly) ==
    /\ owned' = owned \cup {p}
    /\ nextEpoch' = nextEpoch + 1

Opened(p, readOnly) ==
    [path |-> p, epoch |-> nextEpoch, readOnly |-> readOnly]

Open(p, readOnly) ==
    /\ tx.pc = "idle" /\ CanOpen(p, readOnly) /\ nextEpoch < MaxEpoch
    /\ p \in Drafts => registry[p] = "draft" /\ ~readOnly  \* recover_draft
    /\ OpenDatabase(p, readOnly)
    /\ tx' = [Idle EXCEPT !.pc = "staged", !.kind = "open",
                          !.db = Opened(p, readOnly)]
    /\ UNCHANGED <<disk, registry, external, live, slot, services, native, cmd,
                   nextId, faults, acked>>

\* ProjectDraftRegistry::create; the registry entry is written after the file.
CreateDraft(d) ==
    /\ tx.pc = "idle" /\ ~Present(d) /\ nextId <= MaxId /\ nextEpoch < MaxEpoch
    /\ disk' = [disk EXCEPT ![d] = [id |-> nextId, rev |-> 0, wal |-> FALSE]]
    /\ nextId' = nextId + 1
    /\ acked' = [acked EXCEPT ![d] = [id |-> nextId, rev |-> 0]]
    /\ OpenDatabase(d, FALSE)
    /\ tx' = [Idle EXCEPT !.pc = "register", !.kind = "open",
                          !.db = Opened(d, FALSE)]
    /\ UNCHANGED <<registry, external, live, slot, services, native, cmd,
                   faults>>

Register ==
    /\ tx.pc = "register"
    /\ registry' = [registry EXCEPT ![tx.db.path] = "draft"]
    /\ Advance("staged")
    /\ UNCHANGED <<disk, owned, external, live, slot, services, native, cmd,
                   nextEpoch, nextId, faults, acked>>

\* An error while the new database is validated and its readers are built: it
\* is dropped, and its file released.
StageFails ==
    /\ tx.pc = "staged" /\ Fault
    /\ owned' = owned \ {tx.db.path}
    /\ tx' = AfterFailure
    /\ UNCHANGED <<disk, registry, external, live, slot, services, native, cmd,
                   nextEpoch, nextId, acked>>

LockPublication ==
    /\ tx.pc \in {"staged", "retire"}
    /\ Advance("locked")
    /\ UNCHANGED <<disk, registry, owned, external, live, slot, services,
                   native, cmd, nextEpoch, nextId, faults, acked>>

\* graph_new, navigation and tabulate are shut down and joined, in this order.
ShutdownServices ==
    /\ tx.pc = "locked"
    /\ services' = Shut
    /\ Advance(IF live = NoDatabase THEN "closed" ELSE "drained")
    /\ UNCHANGED <<disk, registry, owned, external, live, slot, native, cmd,
                   nextEpoch, nextId, faults, acked>>

\* ProjectDatabase::prepare_close waits for lifecycle.write and the writer:
\* no command is inside.  It checkpoints and lets go of the engine and file.
PrepareClose ==
    /\ tx.pc = "drained" /\ \A c \in Commands : ~Inside(c)
    /\ disk' = IF live.readOnly THEN disk
               ELSE [disk EXCEPT ![live.path].wal = FALSE]
    /\ slot' = IF slot.epoch = live.epoch THEN Cleared ELSE slot
    /\ owned' = owned \ {live.path}
    /\ Advance("closed")
    /\ UNCHANGED <<registry, external, live, services, native, cmd, nextEpoch,
                   nextId, faults, acked>>

\* Someone still has a connection (project_readers_still_active), or the
\* checkpoint failed: nothing was released.
PrepareCloseRefused ==
    /\ tx.pc = "drained" /\ \A c \in Commands : ~Inside(c)
    /\ Fault
    /\ Advance("refused")
    /\ UNCHANGED <<disk, registry, owned, external, live, slot, services,
                   native, cmd, nextEpoch, nextId, acked>>

\* The services of the session that stays are rebuilt, and the staged database
\* is dropped.  When rebuilding fails, `?` leaves them shut down.
RestoreServices ==
    /\ tx.pc = "refused"
    /\ services' \in {live.epoch} \cup {e \in {Shut} : CloneFails}
    /\ owned' = owned \ {tx.db.path}
    /\ tx' = Idle
    /\ UNCHANGED <<disk, registry, external, live, slot, native, cmd,
                   nextEpoch, nextId, faults, acked>>

\* install_writer moves the engine into AppState.db, and the rest follows; a
\* Save As returns the session and says what became of the destination.
PublishDatabase ==
    /\ tx.pc = "closed" /\ tx.db # NoDatabase
    /\ slot' = [epoch |-> tx.db.epoch, path |-> tx.db.path]
    /\ services' = tx.db.epoch
    /\ live' = tx.db
    /\ native' = TRUE
    /\ tx' = IF tx.kind = "saveAs"
             THEN [tx EXCEPT !.pc = "returned", !.db = NoDatabase,
                             !.source = NoDatabase]
             ELSE Idle
    /\ UNCHANGED <<disk, registry, owned, external, cmd, nextEpoch, nextId,
                   faults, acked>>

-----------------------------------------------------------------------------
(* close and Save As.                                                      *)

Close ==
    /\ tx.pc = "idle" /\ live # NoDatabase
    /\ tx' = [Idle EXCEPT !.pc = "retire", !.kind = "close"]
    /\ UNCHANGED <<disk, registry, owned, external, live, slot, services,
                   native, cmd, nextEpoch, nextId, faults, acked>>

\* first_naming is the mode of a session without a path of its own.
Snapshot(d) ==
    /\ tx.pc = "idle" /\ live # NoDatabase /\ d # live.path /\ d \notin Drafts
    /\ nextEpoch + 2 <= MaxEpoch /\ nextId <= MaxId
    /\ tx' = [Idle EXCEPT !.pc = "retire", !.kind = "saveAs", !.source = live,
                          !.dest = d, !.first = live.path \in Drafts]
    /\ UNCHANGED <<disk, registry, owned, external, live, slot, services,
                   native, cmd, nextEpoch, nextId, faults, acked>>

\* The end of retire_database: a temporary engine and services of its own.
\* close then releases the native context; Save As goes on to the copy.
RetireDatabase ==
    /\ tx.pc = "closed" /\ tx.db = NoDatabase
    /\ slot' = Temporary
    /\ services' = 0
    /\ live' = NoDatabase
    /\ IF tx.kind = "close" THEN tx' = Idle /\ native' = FALSE
       ELSE Advance("retired") /\ UNCHANGED native
    /\ UNCHANGED <<disk, registry, owned, external, cmd, nextEpoch, nextId,
                   faults, acked>>

Source == tx.source.path

CanGuard ==
    /\ Present(tx.dest) => /\ tx.dest \notin owned \cup external
                           /\ ~disk[tx.dest].wal
    /\ CanOpen(Source, TRUE)

\* save_as: the destination, when it exists, is owned and locked until it is
\* replaced; the source is opened read-only so that nobody changes it.  (The
\* epochs of this guard and of the staged copy are seen by nobody.)
GuardFiles ==
    /\ tx.pc = "retired" /\ CanGuard
    /\ owned' = owned \cup {Source} \cup {d \in {tx.dest} : Present(d)}
    /\ tx' = [tx EXCEPT !.pc = "guarded", !.seen = disk[tx.dest].id]
    /\ UNCHANGED <<disk, registry, external, live, slot, services, native, cmd,
                   nextEpoch, nextId, faults, acked>>

\* Copy to a sibling file and fsync it; the guard on the source is closed.
CopySource ==
    /\ tx.pc = "guarded"
    /\ owned' = owned \ {Source}
    /\ tx' = [tx EXCEPT !.pc = "copied", !.temp = disk[Source]]
    /\ UNCHANGED <<disk, registry, external, live, slot, services, native, cmd,
                   nextEpoch, nextId, faults, acked>>

\* A copy gets an identity of its own, and none of the receipts.
RewriteIdentity ==
    /\ tx.pc = "copied"
    /\ IF tx.first THEN Advance("rewritten") /\ UNCHANGED nextId
       ELSE /\ tx' = [tx EXCEPT !.pc = "rewritten", !.temp.id = nextId]
            /\ nextId' = nextId + 1
    /\ UNCHANGED <<disk, registry, owned, external, live, slot, services,
                   native, cmd, nextEpoch, faults, acked>>

CheckDestination ==
    /\ tx.pc = "rewritten" /\ disk[tx.dest].id = tx.seen
    /\ Advance("checked")
    /\ UNCHANGED <<disk, registry, owned, external, live, slot, services,
                   native, cmd, nextEpoch, nextId, faults, acked>>

\* replace_archive_atomically_os.
ReplaceDestination ==
    /\ tx.pc = "checked"
    /\ disk' = [disk EXCEPT ![tx.dest] = tx.temp]
    /\ acked' = [acked EXCEPT ![tx.dest] =
                    [id |-> tx.temp.id, rev |-> tx.temp.rev]]
    /\ owned' = owned \ {tx.dest}
    /\ tx' = [tx EXCEPT !.pc = "published", !.published = TRUE]
    /\ UNCHANGED <<registry, external, live, slot, services, native, cmd,
                   nextEpoch, nextId, faults>>

\* Every one of these steps may fail; what save_as held is dropped.
SaveAsFails ==
    /\ tx.pc \in {"retired", "guarded", "copied", "rewritten", "checked",
                  "published"}
    /\ Fault
    /\ owned' = owned \ {Source, tx.dest}
    /\ tx' = [tx EXCEPT !.pc = "failed", !.error = TRUE]
    /\ UNCHANGED <<disk, registry, external, live, slot, services, native, cmd,
                   nextEpoch, nextId, acked>>

\* project_snapshot_destination_changed, files another process has open, and a
\* WAL it left behind.
SaveAsRefused ==
    /\ \/ tx.pc = "rewritten" /\ disk[tx.dest].id # tx.seen
       \/ tx.pc = "retired" /\ ~CanGuard
       \/ tx.pc = "published" /\ ~CanOpen(tx.dest, FALSE)
    /\ owned' = owned \ {Source, tx.dest}
    /\ tx' = [tx EXCEPT !.pc = "failed", !.error = TRUE]
    /\ UNCHANGED <<disk, registry, external, live, slot, services, native, cmd,
                   nextEpoch, nextId, faults, acked>>

ReopenDestination ==
    /\ tx.pc = "published" /\ CanOpen(tx.dest, FALSE)
    /\ OpenDatabase(tx.dest, FALSE)
    /\ tx' = [tx EXCEPT !.pc = "staged", !.db = Opened(tx.dest, FALSE)]
    /\ UNCHANGED <<disk, registry, external, live, slot, services, native, cmd,
                   nextId, faults, acked>>

\* snapshot_enabled: the source is opened again, in the mode it had.
RecoverSource ==
    /\ tx.pc = "failed" /\ CanOpen(Source, tx.source.readOnly)
    /\ OpenDatabase(Source, tx.source.readOnly)
    /\ tx' = [tx EXCEPT !.pc = "staged",
                        !.db = Opened(Source, tx.source.readOnly),
                        !.source = Opened(Source, tx.source.readOnly)]
    /\ UNCHANGED <<disk, registry, external, live, slot, services, native, cmd,
                   nextId, faults, acked>>

RecoverySkipped ==
    /\ tx.pc = "failed"
    /\ \/ ~CanOpen(Source, tx.source.readOnly) /\ UNCHANGED faults
       \/ Fault
    /\ Advance("lost")
    /\ UNCHANGED <<disk, registry, owned, external, live, slot, services,
                   native, cmd, nextEpoch, nextId, acked>>

\* project_recovery_failed: there is no session, and legacy writers may run.
ReleaseNativeContext ==
    /\ tx.pc = "lost"
    /\ native' = FALSE
    /\ tx' = [tx EXCEPT !.pc = "returned", !.source = NoDatabase]
    /\ UNCHANGED <<disk, registry, owned, external, live, slot, services, cmd,
                   nextEpoch, nextId, faults, acked>>

\* snapshot_project_v5: mark_named retires every draft of this project from
\* the registry once its named copy is the session.
ReturnSnapshot ==
    /\ tx.pc = "returned"
    /\ \/ /\ tx.first /\ ~tx.error
          /\ registry' = [d \in Drafts |->
                            IF registry[d] = "draft" /\ disk[d].id = tx.temp.id
                            THEN "named" ELSE registry[d]]
          /\ UNCHANGED faults
       \/ ~(tx.first /\ ~tx.error) /\ UNCHANGED <<registry, faults>>
       \/ tx.first /\ ~tx.error /\ Fault /\ UNCHANGED registry
    /\ tx' = Idle
    /\ UNCHANGED <<disk, owned, external, live, slot, services, native, cmd,
                   nextEpoch, nextId, acked>>

-----------------------------------------------------------------------------
(* Commands on the live database.                                          *)

\* NativeProjectService::database: clone the Arc.
TakeDatabase(c, kind) ==
    /\ cmd[c].pc = "idle" /\ ~PublicationLocked
    /\ live # NoDatabase /\ ~live.readOnly
    /\ cmd' = [cmd EXCEPT ![c] = [pc |-> "taken", kind |-> kind, db |-> live]]
    /\ UNCHANGED <<disk, registry, owned, external, live, slot, services,
                   native, tx, nextEpoch, nextId, faults, acked>>

\* Mutant: the slot is taken to hold this database's engine.
EpochUnchecked(c) == slot.path # NoPath

\* The slot must still hold this database's engine.
EpochMatches(c) == slot.epoch = cmd[c].db.epoch

\* with_engine: lifecycle.read, writer.lock, then the epoch in the slot.
EnterEngine(c) ==
    /\ cmd[c].pc = "taken" /\ \A d \in Commands : ~Inside(d)
    /\ cmd' = [cmd EXCEPT ![c].pc =
                  IF EpochMatches(c) THEN "inside" ELSE "leaving"]
    /\ UNCHANGED <<disk, registry, owned, external, live, slot, services,
                   native, tx, nextEpoch, nextId, faults, acked>>

\* materialize_tabulate: inside the commit it reads tabulate_sessions.
ReadTabulate(c) ==
    /\ cmd[c].pc = "inside" /\ cmd[c].kind = "tabulate" /\ ~PublicationLocked
    /\ cmd' = [cmd EXCEPT ![c].pc =
                  IF services = Shut THEN "leaving" ELSE "ready"]
    /\ UNCHANGED <<disk, registry, owned, external, live, slot, services,
                   native, tx, nextEpoch, nextId, faults, acked>>

\* COMMIT goes to whatever engine the slot holds; the answer names the project
\* the command was for.
CommitEffects(c) ==
    /\ \/ cmd[c].pc = "inside" /\ cmd[c].kind = "edit"
       \/ cmd[c].pc = "ready"
    /\ slot.path # NoPath /\ disk[slot.path].rev < MaxRev
    /\ disk' = [disk EXCEPT ![slot.path].rev = @ + 1, ![slot.path].wal = TRUE]
    /\ acked' = [acked EXCEPT ![cmd[c].db.path] =
                    [id |-> @.id, rev |-> @.rev + 1]]
    /\ cmd' = [cmd EXCEPT ![c].pc = "leaving"]
    /\ UNCHANGED <<registry, owned, external, live, slot, services, native, tx,
                   nextEpoch, nextId, faults>>

\* checkpoint_if_revision does nothing once the revision has moved on.
CheckpointIfRevision(c) ==
    /\ cmd[c].pc = "inside" /\ cmd[c].kind = "checkpoint" /\ slot.path # NoPath
    /\ \/ disk' = [disk EXCEPT ![slot.path].wal = FALSE]
       \/ UNCHANGED disk
    /\ cmd' = [cmd EXCEPT ![c].pc = "leaving"]
    /\ UNCHANGED <<registry, owned, external, live, slot, services, native, tx,
                   nextEpoch, nextId, faults, acked>>

\* A transaction that fails rolls back.
CommandFails(c) ==
    /\ Inside(c)
    /\ cmd[c].pc = "inside" /\ cmd[c].kind = "tabulate" => ~PublicationLocked
    /\ cmd' = [cmd EXCEPT ![c].pc = "leaving"]
    /\ UNCHANGED <<disk, registry, owned, external, live, slot, services,
                   native, tx, nextEpoch, nextId, faults, acked>>

\* Mutant: a retired database clears whatever the slot holds.
ClearNativeOfAnyone(epoch) == Cleared

\* SharedDatabase::clear_native lets go of the engine of this epoch only.
ClearNative(epoch) == IF slot.epoch = epoch THEN Cleared ELSE slot

\* The last Arc of a retired database runs Drop, which runs shutdown.
DropDatabase(c) ==
    /\ cmd[c].pc = "leaving"
    /\ cmd' = [cmd EXCEPT ![c] = Rest]
    /\ slot' = IF cmd[c].db.epoch
                    \in {live.epoch, tx.source.epoch, tx.db.epoch}
                       \cup {cmd[d].db.epoch : d \in Commands \ {c}}
               THEN slot ELSE ClearNative(cmd[c].db.epoch)
    /\ UNCHANGED <<disk, registry, owned, external, live, services, native, tx,
                   nextEpoch, nextId, faults, acked>>

-----------------------------------------------------------------------------
(* Other processes, and the end of this one.                               *)

ExternalOpen(p) ==
    /\ Present(p) /\ p \notin owned \cup external /\ Fault
    /\ external' = external \cup {p}
    /\ UNCHANGED <<disk, registry, owned, live, slot, services, native, tx,
                   cmd, nextEpoch, nextId, acked>>

\* It may have committed, and may have left a WAL.
ExternalClose(p) ==
    /\ p \in external
    /\ external' = external \ {p}
    /\ \E wal \in BOOLEAN : disk' = [disk EXCEPT ![p].wal = wal]
    /\ UNCHANGED <<registry, owned, live, slot, services, native, tx, cmd,
                   nextEpoch, nextId, faults, acked>>

ExternalCreate(p) ==
    /\ ~Present(p) /\ p \notin Drafts /\ nextId <= MaxId /\ Fault
    /\ disk' = [disk EXCEPT ![p] = [id |-> nextId, rev |-> 0, wal |-> FALSE]]
    /\ acked' = [acked EXCEPT ![p] = [id |-> nextId, rev |-> 0]]
    /\ nextId' = nextId + 1
    /\ UNCHANGED <<registry, owned, external, live, slot, services, native, tx,
                   cmd, nextEpoch>>

\* A crash loses the process, never what was committed to a file or its WAL.
Crash ==
    /\ Fault
    /\ owned' = {} /\ live' = NoDatabase /\ slot' = Temporary
    /\ native' = FALSE /\ tx' = Idle
    /\ services' = 0
    /\ cmd' = [c \in Commands |-> Rest]
    /\ UNCHANGED <<disk, registry, external, nextEpoch, nextId, acked>>

-----------------------------------------------------------------------------
TransitionStep ==
    \/ Register \/ StageFails \/ LockPublication \/ ShutdownServices
    \/ PrepareClose \/ PrepareCloseRefused \/ RestoreServices
    \/ PublishDatabase \/ RetireDatabase \/ GuardFiles \/ CopySource
    \/ RewriteIdentity \/ CheckDestination \/ ReplaceDestination
    \/ SaveAsFails \/ SaveAsRefused \/ ReopenDestination \/ RecoverSource
    \/ RecoverySkipped \/ ReleaseNativeContext \/ ReturnSnapshot

CommandStep(c) ==
    \/ EnterEngine(c) \/ ReadTabulate(c) \/ CommitEffects(c)
    \/ CheckpointIfRevision(c) \/ CommandFails(c) \/ DropDatabase(c)

Next ==
    \/ \E p \in Paths, readOnly \in BOOLEAN : Open(p, readOnly)
    \/ \E d \in Drafts : CreateDraft(d)
    \/ Close
    \/ \E d \in Paths : Snapshot(d)
    \/ TransitionStep
    \/ \E c \in Commands, kind \in Kinds : TakeDatabase(c, kind)
    \/ \E c \in Commands : CommandStep(c)
    \/ \E p \in Paths :
          ExternalOpen(p) \/ ExternalClose(p) \/ ExternalCreate(p)
    \/ Crash

Spec == Init /\ [][Next]_vars

\* Each thread is scheduled: it takes its next step when it can.
Fairness == /\ WF_vars(TransitionStep)
            /\ \A c \in Commands : WF_vars(CommandStep(c))
FairSpec == Spec /\ Fairness

-----------------------------------------------------------------------------
(* Properties.                                                             *)

Files == [id : 0..MaxId + 1, rev : 0..MaxRev, wal : BOOLEAN]
Databases == [path : Paths \cup {NoPath}, epoch : 0..MaxEpoch,
              readOnly : BOOLEAN]

\* Types of the variables; two processes never have the same file open.
TypeOK ==
    /\ disk \in [Paths -> Files] /\ tx.temp \in Files
    /\ registry \in [Drafts -> {"none", "draft", "named"}]
    /\ owned \subseteq Paths /\ external \subseteq Paths \ owned
    /\ {live, tx.db, tx.source} \subseteq Databases
    /\ slot \in [epoch : -1..MaxEpoch, path : Paths \cup {NoPath}]
    /\ services \in -1..MaxEpoch
    /\ native \in BOOLEAN /\ tx.published \in BOOLEAN /\ tx.error \in BOOLEAN
    /\ nextEpoch \in 1..MaxEpoch /\ faults \in 0..MaxFaults

\* Whenever no transition holds the publication locks, the session, the engine
\* in AppState.db, the owner of its file and all three read services belong
\* together, whatever was refused, failed or dropped before; and the frontend's
\* legacy writers are refused exactly while there is a session.
SessionIsWhole ==
    ~PublicationLocked =>
        /\ slot = [epoch |-> live.epoch, path |-> live.path]
        /\ services = live.epoch
        /\ live # NoDatabase => live.path \in owned
        /\ tx.pc = "idle" => (native <=> live # NoDatabase)

\* An acknowledged commit is in the file of the project it was for: a command
\* that outlives its session writes to no other project, and neither close,
\* Save As, a switch nor a crash loses a commit.
AckedIsStored ==
    \A p \in Paths : /\ disk[p].id = acked[p].id
                     /\ disk[p].rev = acked[p].rev

\* What Save As reports is true: destination_published exactly when the
\* destination is the copy, a session exactly when there is one, and with a
\* session it is the destination's when nothing failed and the source's else.
OutcomeIsAccurate ==
    tx.pc = "returned" =>
        /\ tx.published => disk[tx.dest].id = tx.temp.id
        /\ ~tx.published /\ ~tx.first => disk[tx.dest].id \notin
                                            {tx.temp.id} \ {0}
        /\ ~tx.error => tx.published /\ live.path = tx.dest
        /\ tx.error /\ live # NoDatabase => live.path # tx.dest
        /\ native <=> live # NoDatabase

\* "A refused close keeps its writer; restore read services for that session."
RefusedCloseRestores == tx.pc = "idle" => services = live.epoch

\* A transition ends: close, open and Save As come back to the caller.
TransitionEnds == (tx.pc # "idle") ~> (tx.pc = "idle")

=============================================================================
