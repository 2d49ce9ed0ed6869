-------------------------- MODULE ProjectLifecycle --------------------------
(***************************************************************************)
(* How the frontend follows the backend's sessions: the lifecycle owner    *)
(* (projectPersistence/lifecycle.ts over nativeLifecycle.ts) and the       *)
(* window's close handler (windowClose.ts).                                *)
(*                                                                         *)
(* A transition suspends the writes of the installed coordinator, flushes  *)
(* it, calls the backend, which replaces or ends its session, and only     *)
(* then closes the old coordinator and installs one for the new session.   *)
(* Commits of other clients arrive as events throughout; those that arrive *)
(* while a session is being replaced are kept and delivered to the         *)
(* coordinator that is installed at the end.                               *)
(*                                                                         *)
(* The coordinator is what the lifecycle needs of it: its queue, the call  *)
(* under way, the commits it received and projected (Autosave has the      *)
(* rest).  NativeSession has the backend's side of a transition.           *)
(***************************************************************************)
EXTENDS Integers, FiniteSets

CONSTANTS
    MaxEpoch,         \* bound on the sessions of the backend
    MaxEdits,         \* bound on the user's edits
    MaxCommits,       \* bound on the commits of a session
    MaxFaults,        \* bound on failures of calls and projections
    ProjectionsFail   \* may a store refuse a commit?

ASSUME LifecycleAssumption ==
    /\ MaxEpoch \in Nat \ {0}
    /\ {MaxEdits, MaxCommits, MaxFaults} \subseteq Nat
    /\ ProjectionsFail \in BOOLEAN

Epochs == 1..MaxEpoch
Edits == 1..MaxEdits
Revisions == 1..MaxCommits + MaxEdits

VARIABLES
    live,       \* the epoch of the backend's session, 0 if it has none
    opened,     \* how many sessions the backend had
    revision,   \* Epochs -> revision of the session
    stored,     \* Epochs -> the edits its file has
    events,     \* project-committed events under way: [epoch, revision]
    madeIn,     \* a history variable: the session each edit was made in
    owner,      \* the installed coordinator
    transition, \* the transition under way
    window,     \* the close handler: "open", "effects", "closing", "destroyed"
    asked,      \* the epoch of the owner when the window was asked to close
    faults

vars == <<live, opened, revision, stored, events, madeIn, owner, transition,
          window, asked, faults>>
backend == <<live, opened, revision, stored>>

\* createProjectPersistenceCoordinator.  Revisions count from the one the
\* session was opened at.
Coordinator(epoch) ==
    [epoch |-> epoch, queue |-> {}, sent |-> {}, call |-> "none", committed |-> 0,
     error |-> FALSE, received |-> {}, projected |-> {},
     suspended |-> FALSE, closed |-> FALSE]

NoOwner == Coordinator(0)
Rest == [step |-> "idle", kind |-> "none", epoch |-> 0, early |-> {}]

Init ==
    /\ live = 0
    /\ opened = 0
    /\ revision = [e \in Epochs |-> 0]
    /\ stored = [e \in Epochs |-> {}]
    /\ events = {}
    /\ madeIn = [x \in {} |-> 0]
    /\ owner = NoOwner
    /\ transition = Rest
    /\ window = "open"
    /\ asked = 0
    /\ faults = 0

Installed == owner # NoOwner
Unprojected(c) == c.received \ c.projected
Fault == faults < MaxFaults /\ faults' = faults + 1

\* drainExternalProjections: the waiting commits are projected, or a store
\* refuses one and they stay.
Drained(c, after) ==
    \/ after = [c EXCEPT !.projected = c.received] /\ UNCHANGED faults
    \/ ProjectionsFail /\ Unprojected(c) # {} /\ after = c /\ Fault

-----------------------------------------------------------------------------
(* The coordinator *)

Edit ==
    /\ Installed /\ ~owner.suspended /\ ~owner.closed
    /\ Cardinality(DOMAIN madeIn) < MaxEdits
    /\ LET edit == Cardinality(DOMAIN madeIn) + 1
       IN  /\ owner' = [owner EXCEPT !.queue = @ \cup {edit}]
           /\ madeIn' = [x \in 1..edit |-> IF x = edit THEN owner.epoch ELSE madeIn[x]]
    /\ UNCHANGED <<backend, events, transition, window, asked, faults>>

\* pump
Send ==
    /\ Installed /\ owner.queue # {} /\ owner.call = "none"
    /\ ~owner.error /\ Unprojected(owner) = {}
    /\ owner' = [owner EXCEPT !.sent = owner.queue, !.call = "sent"]
    /\ UNCHANGED <<backend, events, madeIn, transition, window, asked, faults>>

\* The backend executes the call; a context of another epoch is refused.
CommitOwn ==
    /\ owner.call = "sent" /\ live = owner.epoch
    /\ LET r == revision[live] + 1
       IN  /\ revision' = [revision EXCEPT ![live] = r]
           /\ stored' = [stored EXCEPT ![live] = @ \cup owner.sent]
           /\ events' = events \cup {[epoch |-> live, revision |-> r]}
           /\ owner' = [owner EXCEPT !.call = "committed", !.committed = r]
    /\ UNCHANGED <<live, opened, madeIn, transition, window, asked, faults>>

\* fail: the entry stays in the queue.
CallFails ==
    /\ owner.call = "sent"
    /\ IF live = owner.epoch THEN Fault ELSE UNCHANGED faults
    /\ owner' = [owner EXCEPT !.call = "none", !.sent = {}, !.error = TRUE]
    /\ UNCHANGED <<backend, events, madeIn, transition, window, asked>>

Accepted(c) ==
    [c EXCEPT !.queue = @ \ c.sent, !.sent = {}, !.call = "none", !.error = FALSE,
              !.received = @ \cup {c.committed}, !.projected = @ \cup {c.committed}]

\* The reply of the own commit.
Accept ==
    /\ owner.call = "committed"
    /\ owner' = Accepted(owner)
    /\ UNCHANGED <<backend, events, madeIn, transition, window, asked, faults>>

\* A commit of another client.
CommitExternal ==
    /\ live # 0 /\ revision[live] < MaxCommits
    /\ revision' = [revision EXCEPT ![live] = @ + 1]
    /\ events' = events \cup {[epoch |-> live, revision |-> revision[live] + 1]}
    /\ UNCHANGED <<live, opened, stored, madeIn, owner, transition, window, asked, faults>>

\* receive
Received(c, event, after) ==
    IF c = NoOwner \/ c.closed \/ event.epoch # c.epoch \/ event.revision \in c.received
    THEN after = c /\ UNCHANGED faults
    ELSE IF c.call = "committed" /\ c.committed = event.revision
    THEN after = Accepted(c) /\ UNCHANGED faults
    ELSE Drained([c EXCEPT !.received = @ \cup {event.revision}], after)

\* Replacing a session listens before it asks the backend.
Listening == transition.step \in {"opening", "closing", "installing"} /\ transition.kind # "close"

\* Mutant of Early: the events that come before the coordinator are lost.
EarlyDropped(event) == transition

Early(event) ==
    IF Listening THEN [transition EXCEPT !.early = @ \cup {event}] ELSE transition

Deliver(event) ==
    /\ events' = events \ {event}
    /\ transition' = Early(event)
    /\ \E after \in {owner, Accepted(owner),
                     [owner EXCEPT !.received = @ \cup {event.revision}],
                     [owner EXCEPT !.received = @ \cup {event.revision},
                                   !.projected = owner.received \cup {event.revision}]} :
          Received(owner, event, after) /\ owner' = after
    /\ UNCHANGED <<backend, madeIn, window, asked>>

-----------------------------------------------------------------------------
(* Transitions *)

\* finally: writes are resumed if the coordinator is still the installed one.
Release(c) ==
    /\ owner' = [c EXCEPT !.suspended = FALSE]
    /\ transition' = Rest
    /\ window' = IF transition.kind = "close" THEN "open" ELSE window

\* suspendWrites, captureBarrier and the start of flushThrough, which retries
\* a failed projection first and then a failed entry.
Begin(kind) ==
    \E c \in {[owner EXCEPT !.suspended = TRUE],
              [owner EXCEPT !.suspended = TRUE, !.projected = owner.received]} :
        /\ Drained([owner EXCEPT !.suspended = TRUE], c)
        /\ IF Unprojected(c) # {}
           THEN owner' = owner /\ UNCHANGED transition
           ELSE /\ owner' = IF Installed THEN [c EXCEPT !.error = FALSE] ELSE NoOwner
                /\ transition' = [Rest EXCEPT !.step = "flushing", !.kind = kind]

\* switchProject, migrateProject, createDraft, recoverDraft; saveAs
BeginReplace(kind) ==
    /\ transition = Rest /\ opened < MaxEpoch
    /\ kind = "saveAs" => Installed
    /\ Begin(kind)
    /\ UNCHANGED <<backend, events, madeIn, window, asked>>

\* Mutant of Flushed: the barrier is not awaited.
FlushedAtOnce == transition.step = "flushing"

\* The flush ends when the queue is empty; the transition is applied.
Flushed == transition.step = "flushing" /\ owner.queue = {}

Apply ==
    /\ Flushed
    /\ transition' = [transition EXCEPT !.step = "opening"]
    /\ UNCHANGED <<backend, events, madeIn, owner, window, asked, faults>>

FlushFails ==
    /\ transition.step = "flushing" /\ owner.error
    /\ Release(owner)
    /\ UNCHANGED <<backend, events, madeIn, asked, faults>>

NewSession ==
    /\ opened' = opened + 1
    /\ live' = opened + 1
    /\ transition' = [transition EXCEPT !.step = "closing", !.epoch = opened + 1]
    /\ UNCHANGED <<revision, stored>>

\* The backend opens the project, the draft or the migrated copy, or writes the
\* copy of Save As, and has a new session.
OpenSucceeds ==
    /\ transition.step = "opening" /\ transition.kind # "close"
    /\ transition.kind = "saveAs" => live = owner.epoch
    /\ NewSession
    /\ UNCHANGED <<events, madeIn, owner, window, asked, faults>>

\* ProjectLifecycleRecoveryError: Save As failed after the source was retired.
\* The backend could open the source again, or not.
SaveAsLosesSession ==
    /\ transition.step = "opening" /\ transition.kind = "saveAs" /\ live = owner.epoch
    /\ Fault
    /\ \/ NewSession
       \/ /\ live' = 0
          /\ transition' = [transition EXCEPT !.step = "closing"]
          /\ UNCHANGED <<opened, revision, stored>>
    /\ UNCHANGED <<events, madeIn, owner, window, asked>>

CloseBackend ==
    /\ transition.step = "opening" /\ transition.kind = "close"
    /\ live = owner.epoch
    /\ live' = 0
    /\ transition' = [transition EXCEPT !.step = "closing"]
    /\ UNCHANGED <<opened, revision, stored, events, madeIn, owner, window, asked, faults>>

\* The backend refuses and keeps its session: the call failed, or names an
\* epoch that is not the live one.
BackendRefuses ==
    /\ transition.step = "opening"
    /\ IF transition.kind = "replace" \/ live = owner.epoch THEN Fault ELSE UNCHANGED faults
    /\ Release(owner)
    /\ UNCHANGED <<backend, events, madeIn, asked>>

\* owner.close(): its flush projects the commits that wait, and fails if a store
\* refuses one.
CloseOwner ==
    /\ transition.step = "closing"
    /\ \E c \in {owner, [owner EXCEPT !.projected = owner.received]} :
        /\ Drained(owner, c)
        /\ IF Unprojected(c) # {}
           THEN Release(c)
           ELSE /\ owner' = [c EXCEPT !.closed = Installed]
                /\ transition' = [transition EXCEPT !.step = "installing"]
                /\ UNCHANGED window
    /\ UNCHANGED <<backend, events, madeIn, asked>>

\* The early commits the new coordinator takes: those of its session.
Fresh == {e.revision : e \in {f \in transition.early : f.epoch = transition.epoch}}

\* The coordinator of the new session, if there is one, gets the early commits.
Install ==
    /\ transition.step = "installing"
    /\ IF transition.epoch = 0
       THEN owner' = NoOwner /\ UNCHANGED faults
       ELSE LET new == [Coordinator(transition.epoch) EXCEPT !.received = @ \cup Fresh]
            IN  \E c \in {new, [new EXCEPT !.projected = new.received]} :
                   Drained(new, c) /\ owner' = c
    /\ transition' = Rest
    /\ window' = IF transition.kind = "close" THEN "destroyed" ELSE window
    /\ UNCHANGED <<backend, events, madeIn, asked>>

-----------------------------------------------------------------------------
(* The window *)

\* Without an owner nothing keeps the window from closing.
RequestClose ==
    /\ window = "open"
    /\ window' = IF Installed THEN "effects" ELSE "destroyed"
    /\ asked' = owner.epoch
    /\ UNCHANGED <<backend, events, madeIn, owner, transition, faults>>

\* project_changed_during_close
OwnerChanged == ~Installed \/ owner.epoch # asked

\* The effects are flushed; closeProject, unless the project changed or another
\* transition is in progress.
EffectsFlushed ==
    /\ window = "effects"
    /\ IF OwnerChanged \/ transition # Rest
       THEN window' = "open" /\ UNCHANGED <<owner, transition, faults>>
       ELSE /\ Begin("close")
            /\ window' = IF transition' = Rest THEN "open" ELSE "closing"
    /\ UNCHANGED <<backend, events, madeIn, asked>>

-----------------------------------------------------------------------------
CoordinatorStep == Send \/ CommitOwn \/ CallFails \/ Accept

TransitionStep ==
    \/ Apply \/ FlushFails \/ OpenSucceeds \/ SaveAsLosesSession \/ CloseBackend
    \/ BackendRefuses \/ CloseOwner \/ Install

\* Nothing of the frontend is left when the window is destroyed.
Next ==
    /\ window # "destroyed"
    /\ \/ Edit
       \/ CoordinatorStep
       \/ CommitExternal
       \/ \E e \in events : Deliver(e)
       \/ \E k \in {"replace", "saveAs"} : BeginReplace(k)
       \/ TransitionStep
       \/ RequestClose
       \/ EffectsFlushed

Spec == Init /\ [][Next]_vars

\* Handlers run, calls are answered and events are delivered, and the user who
\* wants to close asks again.
Fairness ==
    /\ WF_vars(Send) /\ WF_vars(CommitOwn \/ CallFails) /\ WF_vars(Accept)
    /\ WF_vars(\E e \in events : Deliver(e))
    /\ WF_vars(TransitionStep)
    /\ WF_vars(RequestClose) /\ WF_vars(EffectsFlushed)

FairSpec == Spec /\ Fairness

-----------------------------------------------------------------------------
(* Properties *)

Coordinators ==
    [epoch : 0..MaxEpoch, queue : SUBSET Edits, sent : SUBSET Edits,
     call : {"none", "sent", "committed"}, committed : Revisions \cup {0},
     error : BOOLEAN, received : SUBSET Revisions, projected : SUBSET Revisions,
     suspended : BOOLEAN, closed : BOOLEAN]

Events == [epoch : Epochs, revision : Revisions]

\* The types of the variables.
TypeOK ==
    /\ live \in 0..MaxEpoch /\ opened \in 0..MaxEpoch
    /\ revision \in [Epochs -> Revisions \cup {0}]
    /\ stored \in [Epochs -> SUBSET Edits]
    /\ events \subseteq Events
    /\ DOMAIN madeIn \subseteq Edits /\ \A x \in DOMAIN madeIn : madeIn[x] \in Epochs
    /\ owner \in Coordinators
    /\ transition.step \in {"idle", "flushing", "opening", "closing", "installing"}
    /\ transition.kind \in {"none", "replace", "saveAs", "close"}
    /\ transition.epoch \in 0..MaxEpoch /\ transition.early \subseteq Events
    /\ window \in {"open", "effects", "closing", "destroyed"}
    /\ asked \in 0..MaxEpoch
    /\ faults \in 0..MaxFaults

\* An edit the user made is in the file of the project it was made in, or waits
\* in the coordinator of that project, which is still installed: no switch, no
\* Save As and no close of the window drops one.
EditsAreKept ==
    \A x \in DOMAIN madeIn :
        \/ x \in stored[madeIn[x]]
        \/ owner.epoch = madeIn[x] /\ x \in owner.queue /\ ~owner.closed

\* A frontend at rest shows every commit of its session, those made while the
\* session was being opened and installed included, unless an event is under way
\* or a store refused one.
CommitsArrive ==
    (/\ transition = Rest /\ Installed /\ live = owner.epoch
     /\ owner.call # "committed" /\ Unprojected(owner) = {}
     /\ ~ \E e \in events : e.epoch = live)
    => owner.projected = 1..revision[live]

\* Between transitions the frontend's session is the backend's.
SessionsAgree == transition = Rest => owner.epoch = live

\* A window that was asked to close with one project open never closes another
\* one that replaced it while the effects were flushed.
ClosesWhatWasAsked == window = "destroyed" /\ asked # 0 => opened = asked

=============================================================================
