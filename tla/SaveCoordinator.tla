--------------------------- MODULE SaveCoordinator ---------------------------
(***************************************************************************)
(* The backend's gate between data mutations and whole-project work        *)
(* (services/save_coordinator.rs), with the three kinds of caller that     *)
(* take it:                                                                *)
(*                                                                         *)
(*   - a legacy data command takes a MutationPermit;                       *)
(*   - a legacy project save (project_service.rs) checks that the project  *)
(*     is a legacy one, waits in begin_save, and checks again;             *)
(*   - a native transition (project_native_service.rs: open, close,        *)
(*     snapshot) owns project_transition, waits in begin_save and then     *)
(*     publishes or retires the native database under the SaveGuard.       *)
(*                                                                         *)
(* Each critical section of the state mutex is one step.  Dropping a       *)
(* permit or a guard is two: the state is released first and notify_all    *)
(* follows, outside the mutex.  A condvar may also wake spuriously.        *)
(***************************************************************************)
EXTENDS Integers, FiniteSets

CONSTANTS
    Threads,      \* command threads of the backend
    NoThread,     \* nobody owns project_transition
    MaxMutations  \* usize::MAX, where checked_add refuses another permit

ASSUME ThreadsAssumption == IsFiniteSet(Threads) /\ NoThread \notin Threads
ASSUME MaxMutationsAssumption == MaxMutations \in Nat

VARIABLES
    saving,           \* CoordinatorState.saving
    saveWaiting,      \* CoordinatorState.save_waiting
    activeMutations,  \* CoordinatorState.active_mutations
    nativeRequired,   \* native_context_required
    nativeOpen,       \* AppState.project_database is Some
    transition,       \* owner of AppState.project_transition
    role,             \* what a thread past idle is doing
    pc                \* where it is

vars == <<saving, saveWaiting, activeMutations, nativeRequired, nativeOpen,
          transition, role, pc>>

Roles == {"none", "mutation", "legacySave", "open", "close", "snapshot"}
Transitions == {"open", "close", "snapshot"}
Waiting == {"parked", "woken"}
\* The thread holds a SaveGuard.
Guarded == {"guard", "writing", "staging", "published", "retired", "done"}
Locations == {"idle", "permit", "permitDropped", "ready", "guardDropped"}
               \union Waiting \union Guarded

TypeOK ==
    /\ saving \in BOOLEAN
    /\ saveWaiting \in BOOLEAN
    /\ activeMutations \in Nat
    /\ nativeRequired \in BOOLEAN
    /\ nativeOpen \in BOOLEAN
    /\ transition \in Threads \union {NoThread}
    /\ role \in [Threads -> Roles]
    /\ pc \in [Threads -> Locations]

Init ==
    /\ saving = FALSE
    /\ saveWaiting = FALSE
    /\ activeMutations = 0
    /\ nativeRequired = FALSE
    /\ nativeOpen = FALSE
    /\ transition = NoThread
    /\ role = [t \in Threads |-> "none"]
    /\ pc = [t \in Threads |-> "idle"]

Goto(t, l) == pc' = [pc EXCEPT ![t] = l]

\* Condvar::notify_all, with t itself moving on to l.
NotifyAll(t, l) ==
    pc' = [u \in Threads |->
             IF u = t THEN l ELSE IF pc[u] = "parked" THEN "woken" ELSE pc[u]]

-----------------------------------------------------------------------------
(* Data commands *)

\* The permit is refused (nothing changes) for a native project, while a save
\* waits or runs, and when the counter is full.
MutationPermit(t) ==
    /\ pc[t] = "idle"
    /\ ~nativeRequired
    /\ ~saveWaiting /\ ~saving
    /\ activeMutations < MaxMutations
    /\ activeMutations' = activeMutations + 1
    /\ role' = [role EXCEPT ![t] = "mutation"]
    /\ Goto(t, "permit")
    /\ UNCHANGED <<saving, saveWaiting, nativeRequired, nativeOpen, transition>>

DropPermit(t) ==
    /\ pc[t] = "permit"
    /\ activeMutations' = IF activeMutations = 0 THEN 0 ELSE activeMutations - 1
    /\ Goto(t, "permitDropped")
    /\ UNCHANGED <<saving, saveWaiting, nativeRequired, nativeOpen, transition, role>>

\* Mutant of NotifyPermit: the dropped permit notifies nobody.
NotifyPermitMissing(t) ==
    /\ pc[t] = "permitDropped"
    /\ role' = [role EXCEPT ![t] = "none"]
    /\ Goto(t, "idle")
    /\ UNCHANGED <<saving, saveWaiting, activeMutations, nativeRequired,
                   nativeOpen, transition>>

NotifyPermit(t) ==
    /\ pc[t] = "permitDropped"
    /\ role' = [role EXCEPT ![t] = "none"]
    /\ NotifyAll(t, "idle")
    /\ UNCHANGED <<saving, saveWaiting, activeMutations, nativeRequired,
                   nativeOpen, transition>>

-----------------------------------------------------------------------------
(* Reaching begin_save *)

\* save_project_with_write_impl: the first of two checks, before the wait.
LegacySaveRequest(t) ==
    /\ pc[t] = "idle"
    /\ ~nativeRequired
    /\ role' = [role EXCEPT ![t] = "legacySave"]
    /\ Goto(t, "ready")
    /\ UNCHANGED <<saving, saveWaiting, activeMutations, nativeRequired,
                   nativeOpen, transition>>

\* open_enabled, close_enabled, snapshot_enabled: project_transition.lock().
TransitionRequest(t, r) ==
    /\ pc[t] = "idle"
    /\ transition = NoThread
    /\ transition' = t
    /\ role' = [role EXCEPT ![t] = r]
    /\ Goto(t, "ready")
    /\ UNCHANGED <<saving, saveWaiting, activeMutations, nativeRequired, nativeOpen>>

BeginSaveBusy(t) ==
    /\ pc[t] = "ready"
    /\ saveWaiting \/ saving
    /\ transition' = IF transition = t THEN NoThread ELSE transition
    /\ role' = [role EXCEPT ![t] = "none"]
    /\ Goto(t, "idle")
    /\ UNCHANGED <<saving, saveWaiting, activeMutations, nativeRequired, nativeOpen>>

\* The end of begin_save: intent becomes the running save.
StartSave(t) ==
    /\ activeMutations = 0
    /\ saveWaiting' = FALSE
    /\ saving' = TRUE
    /\ Goto(t, "guard")

\* Intent is registered before waiting, in the critical section that parks.
BeginSave(t) ==
    /\ pc[t] = "ready"
    /\ ~saveWaiting /\ ~saving
    /\ \/ StartSave(t)
       \/ /\ activeMutations > 0
          /\ saveWaiting' = TRUE
          /\ Goto(t, "parked")
          /\ UNCHANGED saving
    /\ UNCHANGED <<activeMutations, nativeRequired, nativeOpen, transition, role>>

SpuriousWakeup(t) ==
    /\ pc[t] = "parked"
    /\ Goto(t, "woken")
    /\ UNCHANGED <<saving, saveWaiting, activeMutations, nativeRequired,
                   nativeOpen, transition, role>>

\* Mutant of RetestWait: a wakeup is taken for the condition itself.
RetestWaitUnchecked(t) ==
    /\ pc[t] = "woken"
    /\ saveWaiting' = FALSE
    /\ saving' = TRUE
    /\ Goto(t, "guard")
    /\ UNCHANGED <<activeMutations, nativeRequired, nativeOpen, transition, role>>

\* The wait loop takes the mutex back and tests its condition again.
RetestWait(t) ==
    /\ pc[t] = "woken"
    /\ \/ StartSave(t)
       \/ /\ activeMutations > 0
          /\ Goto(t, "parked")
          /\ UNCHANGED <<saving, saveWaiting>>
    /\ UNCHANGED <<activeMutations, nativeRequired, nativeOpen, transition, role>>

-----------------------------------------------------------------------------
(* Work under the SaveGuard *)

GuardStep(t, from, to) == pc[t] = from /\ Goto(t, to)

UnchangedGate == UNCHANGED <<saving, saveWaiting, activeMutations, transition, role>>

\* Mutant of LegacySaveRecheck: the check made before the wait is trusted.
LegacySaveUnchecked(t) ==
    /\ role[t] = "legacySave"
    /\ GuardStep(t, "guard", "writing")
    /\ UnchangedGate
    /\ UNCHANGED <<nativeRequired, nativeOpen>>

\* The second ensure_legacy_project, after the wait.
LegacySaveRecheck(t) ==
    /\ role[t] = "legacySave"
    /\ GuardStep(t, "guard", IF nativeRequired THEN "done" ELSE "writing")
    /\ UnchangedGate
    /\ UNCHANGED <<nativeRequired, nativeOpen>>

LegacySaveWritten(t) ==
    /\ GuardStep(t, "writing", "done")
    /\ UnchangedGate
    /\ UNCHANGED <<nativeRequired, nativeOpen>>

\* Any transition may fail before it changes the session.
TransitionFails(t) ==
    /\ role[t] \in Transitions
    /\ GuardStep(t, "guard", "done")
    /\ UnchangedGate
    /\ UNCHANGED <<nativeRequired, nativeOpen>>

\* publish_database: the new database becomes live, replacing any other.
PublishDatabase(t) ==
    /\ \/ role[t] = "open" /\ GuardStep(t, "guard", "published")
       \/ role[t] = "snapshot" /\ GuardStep(t, "staging", "published")
    /\ nativeOpen' = TRUE
    /\ UnchangedGate
    /\ UNCHANGED nativeRequired

RequireNativeContext(t) ==
    /\ GuardStep(t, "published", "done")
    /\ nativeRequired' = TRUE
    /\ UnchangedGate
    /\ UNCHANGED nativeOpen

\* retire_database: close goes on to release the context; a snapshot copies
\* the closed file and publishes the copy or, failing that, the source again.
RetireDatabase(t) ==
    /\ nativeOpen
    /\ \/ role[t] = "close" /\ GuardStep(t, "guard", "retired")
       \/ role[t] = "snapshot" /\ GuardStep(t, "guard", "staging")
    /\ nativeOpen' = FALSE
    /\ UnchangedGate
    /\ UNCHANGED nativeRequired

\* Neither the copy nor the source could be published.
SnapshotRecoveryFails(t) ==
    /\ GuardStep(t, "staging", "retired")
    /\ UnchangedGate
    /\ UNCHANGED <<nativeRequired, nativeOpen>>

ReleaseNativeContext(t) ==
    /\ GuardStep(t, "retired", "done")
    /\ nativeRequired' = FALSE
    /\ UnchangedGate
    /\ UNCHANGED nativeOpen

DropGuard(t) ==
    /\ GuardStep(t, "done", "guardDropped")
    /\ saving' = FALSE
    /\ saveWaiting' = FALSE
    /\ UNCHANGED <<activeMutations, nativeRequired, nativeOpen, transition, role>>

\* The guard notifies, then project_transition is unlocked.
NotifyGuard(t) ==
    /\ pc[t] = "guardDropped"
    /\ NotifyAll(t, "idle")
    /\ role' = [role EXCEPT ![t] = "none"]
    /\ transition' = IF transition = t THEN NoThread ELSE transition
    /\ UNCHANGED <<saving, saveWaiting, activeMutations, nativeRequired, nativeOpen>>

-----------------------------------------------------------------------------
Request(t) ==
    \/ MutationPermit(t)
    \/ LegacySaveRequest(t)
    \/ \E r \in Transitions : TransitionRequest(t, r)

Progress(t) ==
    \/ DropPermit(t) \/ NotifyPermit(t)
    \/ BeginSaveBusy(t) \/ BeginSave(t) \/ RetestWait(t)
    \/ LegacySaveRecheck(t) \/ LegacySaveWritten(t)
    \/ TransitionFails(t) \/ PublishDatabase(t) \/ RequireNativeContext(t)
    \/ RetireDatabase(t) \/ SnapshotRecoveryFails(t) \/ ReleaseNativeContext(t)
    \/ DropGuard(t) \/ NotifyGuard(t)

Next == \E t \in Threads : Request(t) \/ Progress(t) \/ SpuriousWakeup(t)

\* A command that was started is scheduled until it returns; nothing obliges a
\* caller to start one, or the platform to wake a waiter spuriously.
Fairness == \A t \in Threads : WF_vars(Progress(t))

Spec == Init /\ [][Next]_vars /\ Fairness

-----------------------------------------------------------------------------
(* Properties *)

\* begin_save: while a SaveGuard exists no mutation permit is held and no
\* second guard exists, whatever order permits, waits and wakeups come in.
SaveExcludesMutations ==
    \A t \in Threads : pc[t] \in Guarded =>
        \A u \in Threads \ {t} : pc[u] # "permit" /\ pc[u] \notin Guarded

\* native_context_required: work on the legacy project (a permit, or a legacy
\* save that is writing) never runs while a native database is published, even
\* if the publication happened while the save was waiting in begin_save.
LegacyWorkExcludesNative ==
    nativeOpen => \A t \in Threads : pc[t] \notin {"permit", "writing"}

\* begin_save's wait: a registered save intent is never stranded.  Its wakeup
\* cannot be lost between the counter's decrement and notify_all, and new
\* permits cannot starve it.
SaveEventuallyStarts ==
    \A t \in Threads : pc[t] \in Waiting ~> pc[t] \in Guarded

=============================================================================
