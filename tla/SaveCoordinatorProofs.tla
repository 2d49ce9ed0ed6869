------------------------ MODULE SaveCoordinatorProofs ------------------------
(***************************************************************************)
(* Machine-checked proofs of SaveCoordinator's safety, for every finite    *)
(* set of threads and every width of the mutation counter.                 *)
(*                                                                         *)
(* SaveExcludesMutations is not inductive: begin_save looks at a counter   *)
(* and at two flags, not at the other threads.  The strengthening ties     *)
(* them together: the counter is the number of permits, each flag says     *)
(* whether a thread waits or holds the guard, and only one thread does     *)
(* either.  The native facts then follow the guard around.                 *)
(***************************************************************************)
EXTENDS SaveCoordinator, FiniteSetTheorems, TLAPS

Permits == {t \in Threads : pc[t] = "permit"}

\* Each flag and counter of CoordinatorState tells what the threads are doing.
StateMatchesThreads ==
    /\ activeMutations = Cardinality(Permits)
    /\ \A t \in Threads : pc[t] \in Waiting => saveWaiting
    /\ \A t \in Threads : pc[t] \in Guarded => saving
    /\ saving => Permits = {}

\* begin_save admits one thread at a time, from registering its intent on.
OneSaver ==
    \A t, u \in Threads : /\ pc[t] \in Waiting \union Guarded
                          /\ pc[u] \in Waiting \union Guarded
                          => t = u

\* A published database demands native contexts, except just before its
\* publisher says so; none is published while a thread is between retiring
\* one and publishing or releasing.
NativeMatchesThreads ==
    /\ nativeOpen => nativeRequired \/ \E t \in Threads : pc[t] = "published"
    /\ \A t \in Threads : pc[t] \in {"staging", "retired", "writing", "permit"}
                          => ~nativeOpen

IInv == TypeOK /\ StateMatchesThreads /\ OneSaver /\ NativeMatchesThreads

-----------------------------------------------------------------------------
\* The permits are a finite set, so an empty count means there are none.
LEMMA PermitsFinite ==
    /\ IsFiniteSet(Permits)
    /\ Cardinality(Permits) \in Nat
    /\ Cardinality(Permits) = 0 <=> Permits = {}
<1>1. IsFiniteSet(Permits)
  BY ThreadsAssumption, FS_Subset, Permits \subseteq Threads DEF Permits
<1> QED BY <1>1, FS_CardinalityType, FS_EmptySet

\* A step that gives and takes no permit leaves the count alone.
LEMMA SamePermits ==
    ASSUME IInv, \A t \in Threads : pc'[t] = "permit" <=> pc[t] = "permit"
    PROVE  Permits' = Permits /\ Cardinality(Permits)' = Cardinality(Permits)
BY DEF Permits

\* Type correctness is preserved by every step.
LEMMA TypeStep == ASSUME TypeOK, [Next]_vars PROVE TypeOK'
<1> USE DEF TypeOK, Locations, Waiting, Guarded, Roles, Transitions, Goto,
            NotifyAll, GuardStep, UnchangedGate, StartSave
<1>1. CASE UNCHANGED vars BY <1>1 DEF vars
<1>2. ASSUME NEW t \in Threads, Request(t) PROVE TypeOK'
  BY <1>2, SMTT(30) DEF Request, MutationPermit, LegacySaveRequest, TransitionRequest
<1>3. ASSUME NEW t \in Threads, SpuriousWakeup(t) PROVE TypeOK'
  BY <1>3 DEF SpuriousWakeup
<1>4. ASSUME NEW t \in Threads, Progress(t) PROVE TypeOK'
  <2>1. CASE DropPermit(t) BY <2>1 DEF DropPermit
  <2>2. CASE NotifyPermit(t) BY <2>2 DEF NotifyPermit
  <2>3. CASE BeginSaveBusy(t) BY <2>3 DEF BeginSaveBusy
  <2>4. CASE BeginSave(t) BY <2>4 DEF BeginSave
  <2>5. CASE RetestWait(t) BY <2>5 DEF RetestWait
  <2>6. CASE LegacySaveRecheck(t) BY <2>6 DEF LegacySaveRecheck
  <2>7. CASE LegacySaveWritten(t) BY <2>7 DEF LegacySaveWritten
  <2>8. CASE TransitionFails(t) BY <2>8 DEF TransitionFails
  <2>9. CASE PublishDatabase(t) BY <2>9 DEF PublishDatabase
  <2>10. CASE RequireNativeContext(t) BY <2>10 DEF RequireNativeContext
  <2>11. CASE RetireDatabase(t) BY <2>11 DEF RetireDatabase
  <2>12. CASE SnapshotRecoveryFails(t) BY <2>12 DEF SnapshotRecoveryFails
  <2>13. CASE ReleaseNativeContext(t) BY <2>13 DEF ReleaseNativeContext
  <2>14. CASE DropGuard(t) BY <2>14 DEF DropGuard
  <2>15. CASE NotifyGuard(t) BY <2>15 DEF NotifyGuard
  <2> QED BY <1>4, <2>1, <2>2, <2>3, <2>4, <2>5, <2>6, <2>7, <2>8, <2>9, <2>10,
             <2>11, <2>12, <2>13, <2>14, <2>15 DEF Progress
<1> QED BY <1>1, <1>2, <1>3, <1>4 DEF Next

\* Taking a permit: nobody waits or saves, so the session is a legacy one and
\* nobody is publishing a native database.
LEMMA TakePermitStep ==
    ASSUME IInv, NEW t \in Threads, MutationPermit(t) PROVE IInv'
<1> USE DEF IInv, MutationPermit
<1>1. TypeOK'
  BY TypeStep DEF Next, Request
<1>2. Permits' = Permits \union {t} /\ t \notin Permits
  BY DEF Permits, TypeOK, Goto
<1>3. Cardinality(Permits') = Cardinality(Permits) + 1
  BY <1>2, PermitsFinite, FS_AddElement
<1>4. StateMatchesThreads'
  BY <1>3 DEF StateMatchesThreads, TypeOK, Goto, Waiting, Guarded
<1>5. OneSaver'
  BY DEF OneSaver, TypeOK, Goto, Waiting, Guarded
<1>6. ~nativeOpen
  BY DEF NativeMatchesThreads, StateMatchesThreads, TypeOK, Guarded
<1>7. NativeMatchesThreads'
  BY <1>6 DEF NativeMatchesThreads, TypeOK, Goto
<1> QED BY <1>1, <1>4, <1>5, <1>7

\* Dropping a permit takes exactly one off a count that is not zero.
LEMMA DropPermitStep ==
    ASSUME IInv, NEW t \in Threads, DropPermit(t) PROVE IInv'
<1> USE DEF IInv, DropPermit
<1>1. TypeOK'
  BY TypeStep DEF Next, Progress
<1>2. Permits' = Permits \ {t} /\ t \in Permits
  BY DEF Permits, TypeOK, Goto
<1>3. Cardinality(Permits') = Cardinality(Permits) - 1 /\ Cardinality(Permits) # 0
  BY <1>2, PermitsFinite, FS_RemoveElement
<1>4. StateMatchesThreads'
  BY <1>2, <1>3, PermitsFinite DEF StateMatchesThreads, TypeOK, Goto, Waiting, Guarded
<1>5. OneSaver'
  BY DEF OneSaver, TypeOK, Goto, Waiting, Guarded
<1>6. NativeMatchesThreads'
  BY DEF NativeMatchesThreads, TypeOK, Goto
<1> QED BY <1>1, <1>4, <1>5, <1>6

\* begin_save and its wait loop: the thread that gets the guard found no permit,
\* and was the only one with a registered intent.
LEMMA BeginSaveStep ==
    ASSUME IInv, NEW t \in Threads, BeginSave(t) \/ RetestWait(t) PROVE IInv'
<1> USE DEF IInv
<1>1. TypeOK'
  BY TypeStep DEF Next, Progress
<1>2. \A u \in Threads : pc'[u] = "permit" <=> pc[u] = "permit"
  BY DEF BeginSave, RetestWait, StartSave, TypeOK, Goto
<1>3. Permits' = Permits /\ Cardinality(Permits') = Cardinality(Permits)
  BY <1>2, SamePermits
<1>4. \A u \in Threads : u # t => pc'[u] = pc[u] /\ pc[u] \notin Waiting \union Guarded
  <2>1. CASE BeginSave(t)
    BY <2>1 DEF BeginSave, StartSave, StateMatchesThreads, TypeOK, Goto, Waiting, Guarded
  <2>2. CASE RetestWait(t)
    BY <2>2 DEF RetestWait, StartSave, OneSaver, TypeOK, Goto, Waiting, Guarded
  <2> QED BY <2>1, <2>2
<1>5. StateMatchesThreads'
  <2>1. CASE saving'
    BY <1>1, <1>3, <1>4, <2>1, PermitsFinite
    DEF BeginSave, RetestWait, StartSave, StateMatchesThreads, TypeOK, Goto, Waiting, Guarded
  <2>2. CASE ~saving'
    BY <1>1, <1>3, <1>4, <2>2
    DEF BeginSave, RetestWait, StartSave, StateMatchesThreads, TypeOK, Goto, Waiting, Guarded
  <2> QED BY <2>1, <2>2
<1>6. OneSaver'
  BY <1>1, <1>4 DEF OneSaver, TypeOK
<1>7. NativeMatchesThreads'
  BY <1>4 DEF BeginSave, RetestWait, StartSave, NativeMatchesThreads, TypeOK, Goto
<1> QED BY <1>1, <1>5, <1>6, <1>7

\* Work under the guard: nobody else can be waiting, writing or publishing.
LEMMA GuardedStep ==
    ASSUME IInv, NEW t \in Threads,
           \/ LegacySaveRecheck(t) \/ LegacySaveWritten(t) \/ TransitionFails(t)
           \/ PublishDatabase(t) \/ RequireNativeContext(t) \/ RetireDatabase(t)
           \/ SnapshotRecoveryFails(t) \/ ReleaseNativeContext(t)
    PROVE  IInv'
<1> USE DEF IInv
<1>1. TypeOK'
  BY TypeStep DEF Next, Progress
<1>2. /\ pc[t] \in Guarded /\ pc'[t] \in Guarded
      /\ \A u \in Threads : u # t => pc'[u] = pc[u]
      /\ UNCHANGED <<saving, saveWaiting, activeMutations>>
  BY DEF LegacySaveRecheck, LegacySaveWritten, TransitionFails, PublishDatabase,
         RequireNativeContext, RetireDatabase, SnapshotRecoveryFails,
         ReleaseNativeContext, GuardStep, UnchangedGate, TypeOK, Goto, Guarded
<1>3. \A u \in Threads : pc'[u] = "permit" <=> pc[u] = "permit"
  BY <1>2 DEF Guarded
<1>4. Permits' = Permits /\ Cardinality(Permits') = Cardinality(Permits)
  BY <1>3, SamePermits
<1>5. StateMatchesThreads'
  BY <1>2, <1>4 DEF StateMatchesThreads, Waiting, Guarded
<1>6. OneSaver'
  BY <1>2 DEF OneSaver
<1>7. \A u \in Threads : u # t => pc[u] \notin Guarded /\ pc[u] # "permit"
  BY <1>2 DEF OneSaver, StateMatchesThreads, Permits
<1>8. NativeMatchesThreads'
  BY <1>2, <1>7
  DEF LegacySaveRecheck, LegacySaveWritten, TransitionFails, PublishDatabase,
      RequireNativeContext, RetireDatabase, SnapshotRecoveryFails,
      ReleaseNativeContext, GuardStep, UnchangedGate, TypeOK, Goto, Guarded,
      NativeMatchesThreads
<1> QED BY <1>1, <1>5, <1>6, <1>8

\* Requests, refusals, notifications and the drop of the guard move no permit
\* and touch no native state.
LEMMA OtherStep ==
    ASSUME IInv, NEW t \in Threads,
           \/ LegacySaveRequest(t) \/ (\E r \in Transitions : TransitionRequest(t, r))
           \/ BeginSaveBusy(t) \/ NotifyPermit(t) \/ DropGuard(t) \/ NotifyGuard(t)
           \/ SpuriousWakeup(t)
    PROVE  IInv'
<1> USE DEF IInv
<1>1. TypeOK'
  BY TypeStep DEF Next, Progress, Request
<1>2. \A u \in Threads : /\ pc'[u] = "permit" <=> pc[u] = "permit"
                         /\ pc'[u] \in Waiting => pc[u] \in Waiting
                         /\ pc'[u] \in Guarded => pc'[u] = pc[u]
                         /\ pc[u] = "published" => pc'[u] = "published"
  BY DEF LegacySaveRequest, TransitionRequest, BeginSaveBusy, NotifyPermit, DropGuard,
         NotifyGuard, SpuriousWakeup, NotifyAll, GuardStep, TypeOK, Goto, Waiting, Guarded
<1>3. Permits' = Permits /\ Cardinality(Permits') = Cardinality(Permits)
  BY <1>2, SamePermits
<1>4. StateMatchesThreads'
  <2>1. CASE DropGuard(t)
    BY <1>2, <1>3, <2>1 DEF DropGuard, GuardStep, Goto, TypeOK, StateMatchesThreads,
                            OneSaver, Waiting, Guarded
  <2>2. CASE ~DropGuard(t)
    BY <1>2, <1>3, <2>2
    DEF LegacySaveRequest, TransitionRequest, BeginSaveBusy, NotifyPermit, NotifyGuard,
        SpuriousWakeup, StateMatchesThreads
  <2> QED BY <2>1, <2>2
<1>5. OneSaver'
  BY <1>2 DEF OneSaver
<1>6. UNCHANGED <<nativeOpen, nativeRequired>>
  BY DEF LegacySaveRequest, TransitionRequest, BeginSaveBusy, NotifyPermit, DropGuard,
         NotifyGuard, SpuriousWakeup
<1>7. NativeMatchesThreads'
  BY <1>2, <1>6 DEF NativeMatchesThreads, Guarded
<1> QED BY <1>1, <1>4, <1>5, <1>7

-----------------------------------------------------------------------------
\* The strengthened invariant holds in every reachable state.
THEOREM InductiveInvariant == Spec => []IInv
<1>1. Init => IInv
  <2> SUFFICES ASSUME Init PROVE IInv OBVIOUS
  <2>1. Permits = {} BY DEF Init, Permits
  <2> QED BY <2>1, PermitsFinite
      DEF Init, IInv, TypeOK, StateMatchesThreads, OneSaver, NativeMatchesThreads,
          Waiting, Guarded, Locations, Roles
<1>2. IInv /\ [Next]_vars => IInv'
  <2> SUFFICES ASSUME IInv, [Next]_vars PROVE IInv' OBVIOUS
  <2>1. CASE UNCHANGED vars
    BY <2>1 DEF vars, IInv, TypeOK, StateMatchesThreads, Permits, OneSaver, NativeMatchesThreads
  <2>2. ASSUME NEW t \in Threads, Request(t) PROVE IInv'
    BY <2>2, TakePermitStep, OtherStep DEF Request
  <2>3. ASSUME NEW t \in Threads, Progress(t) PROVE IInv'
    BY <2>3, DropPermitStep, BeginSaveStep, GuardedStep, OtherStep DEF Progress
  <2>4. ASSUME NEW t \in Threads, SpuriousWakeup(t) PROVE IInv'
    BY <2>4, OtherStep
  <2> QED BY <2>1, <2>2, <2>3, <2>4 DEF Next
<1> QED BY <1>1, <1>2, PTL DEF Spec

\* Type correctness: among others, dropped permits never make the count of
\* active mutations negative.
THEOREM TypeCorrectness == Spec => []TypeOK
<1>1. IInv => TypeOK
  BY DEF IInv
<1> QED BY <1>1, InductiveInvariant, PTL

\* begin_save: a SaveGuard excludes every permit and every other guard, for any
\* number of threads.
THEOREM SaveExclusion == Spec => []SaveExcludesMutations
<1>1. IInv => SaveExcludesMutations
  BY DEF IInv, SaveExcludesMutations, StateMatchesThreads, OneSaver, Permits
<1> QED BY <1>1, InductiveInvariant, PTL

\* native_context_required: legacy work never overlaps a published native
\* database, for any number of threads.
THEOREM LegacyExclusion == Spec => []LegacyWorkExcludesNative
<1>1. IInv => LegacyWorkExcludesNative
  BY DEF IInv, LegacyWorkExcludesNative, NativeMatchesThreads
<1> QED BY <1>1, InductiveInvariant, PTL

=============================================================================
