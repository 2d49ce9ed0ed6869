------------------------ MODULE ProjectLifecycleProofs ------------------------
(***************************************************************************)
(* Proofs about the sessions the frontend follows, for every number of     *)
(* sessions, edits, commits and faults, whether or not a store can refuse  *)
(* a commit.                                                               *)
(*                                                                         *)
(* That no edit is lost rests on the order of a transition: the queue is   *)
(* empty and suspended before the backend is asked, and stays so until the *)
(* coordinator is replaced.  That no commit is missed rests on following   *)
(* each one: it is received, it is the reply under way, or its event is;   *)
(* and until the coordinator of a session is installed, the early commits  *)
(* stand for what that coordinator received.                               *)
(***************************************************************************)
EXTENDS ProjectLifecycle, FiniteSetTheorems, TLAPS

Steps == {"idle", "flushing", "opening", "closing", "installing"}
Kinds == {"none", "replace", "saveAs", "close"}
Transitions == [step : Steps, kind : Kinds, epoch : 0..MaxEpoch, early : SUBSET Events]

\* The types, with what they take to be preserved: edits are numbered as they
\* are made, in a session there was, and a revision past the bound on the
\* commits of others is the revision of an edit.
Types ==
    /\ TypeOK /\ transition \in Transitions
    /\ \E n \in 0..MaxEdits : DOMAIN madeIn = 1..n
    /\ \A x \in DOMAIN madeIn : madeIn[x] <= opened
    /\ \A e \in Epochs : stored[e] \subseteq DOMAIN madeIn
    /\ transition.step \in {"flushing", "opening"} /\ transition.kind # "close" =>
          opened < MaxEpoch
    /\ \A e \in Epochs : revision[e] <= MaxCommits + Cardinality(stored[e])

\* The live session is the last one; an event is of a commit there was.
SessionsAreInOrder ==
    /\ live \in {0, opened}
    /\ owner.epoch <= opened
    /\ \A e \in Epochs : e > opened => revision[e] = 0
    /\ \A e \in events \cup transition.early : e.revision <= revision[e.epoch]

\* What waits is unsaved and of the coordinator's session, unless the reply of
\* the call that saved it is under way.
QueueIsOwn ==
    /\ owner.epoch = 0 => owner = NoOwner
    /\ owner.sent \subseteq owner.queue
    /\ owner.call = "none" <=> owner.sent = {}
    /\ \A x \in owner.queue :
          /\ x \in DOMAIN madeIn /\ madeIn[x] = owner.epoch
          /\ x \in stored[owner.epoch] => owner.call = "committed" /\ x \in owner.sent
    /\ owner.call = "committed" =>
          /\ owner.sent \subseteq stored[owner.epoch]
          /\ owner.committed \in 1..revision[owner.epoch]

\* The coordinator shows only commits there were.
ShownWasReceived ==
    /\ owner.projected \subseteq owner.received
    /\ \A r \in owner.received : r <= revision[owner.epoch]

\* Once the backend is asked nothing waits and nothing is added, and once it has
\* answered the installed coordinator is of another session than the live one.
TransitionsAreQuiet ==
    /\ transition.step = "idle" => transition = Rest
    /\ transition.step # "idle" /\ Installed => owner.suspended
    /\ transition.step \in {"opening", "closing", "installing"} => owner.queue = {}
    /\ transition.step \in {"closing", "installing"} =>
          live = transition.epoch /\ (Installed => live # owner.epoch)
    /\ transition.step \in {"flushing", "opening"} => transition.epoch = 0
    /\ owner.closed => transition.step = "installing"
    /\ transition.kind = "saveAs" => owner.epoch # 0

\* The transition of the window's close is that of the session it asked about.
WindowIsClosing ==
    /\ transition.kind = "close" <=> window = "closing"
    /\ window = "closing" => owner.epoch = asked /\ asked # 0
    /\ window = "closing" /\ transition.step \in {"closing", "installing"} =>
          live = 0 /\ opened = asked

\* Every commit of the coordinator's session was received or is on its way ...
CommitsAreFollowed ==
    Installed /\ live = owner.epoch =>
        \A r \in 1..revision[live] :
            \/ r \in owner.received
            \/ [epoch |-> live, revision |-> r] \in events
            \/ owner.call = "committed" /\ owner.committed = r

\* ... and of a session without one, it is early or on its way.
CommitsAreEarly ==
    transition.step \in {"closing", "installing"} /\ live # 0 =>
        \A r \in 1..revision[live] :
            [epoch |-> live, revision |-> r] \in events \cup transition.early

IInv ==
    /\ Types /\ SessionsAreInOrder /\ QueueIsOwn /\ ShownWasReceived
    /\ TransitionsAreQuiet /\ WindowIsClosing /\ CommitsAreFollowed
    /\ CommitsAreEarly /\ EditsAreKept /\ ClosesWhatWasAsked

-----------------------------------------------------------------------------
(* What an action does to the fields of the coordinator and the transition. *)

Queues(epoch, queue, sent, call, committed) ==
    /\ owner' \in Coordinators
    /\ owner'.epoch = epoch /\ owner'.queue = queue /\ owner'.sent = sent
    /\ owner'.call = call /\ owner'.committed = committed
Shows(received, projected) == owner'.received = received /\ owner'.projected = projected
Stands(suspended, closed) == owner'.suspended = suspended /\ owner'.closed = closed

\* The fields the transition of a session does not touch.
SameQueue == Queues(owner.epoch, owner.queue, owner.sent, owner.call, owner.committed)
SameStand == Stands(owner.suspended, owner.closed)

Goes(step, kind, epoch, early) ==
    /\ transition' \in Transitions
    /\ transition'.step = step /\ transition'.kind = kind
    /\ transition'.epoch = epoch /\ transition'.early = early

\* There is a coordinator exactly when the owner has an epoch.
LEMMA InstalledHasEpoch == ASSUME QueueIsOwn PROVE Installed <=> owner.epoch # 0
BY DEF QueueIsOwn, Installed, NoOwner, Coordinator

LEMMA RestFields ==
    /\ Rest \in Transitions
    /\ Rest.step = "idle" /\ Rest.kind = "none" /\ Rest.epoch = 0 /\ Rest.early = {}
BY LifecycleAssumption DEF Rest, Transitions, Steps, Kinds, Events

\* Resuming the writes of a coordinator of which there is none does nothing.
LEMMA NoOwnerFields ==
    /\ NoOwner \in Coordinators
    /\ NoOwner.epoch = 0 /\ NoOwner.queue = {} /\ NoOwner.sent = {}
    /\ NoOwner.call = "none" /\ NoOwner.committed = 0
    /\ NoOwner.received = {} /\ NoOwner.projected = {}
    /\ ~NoOwner.suspended /\ ~NoOwner.closed
    /\ [NoOwner EXCEPT !.suspended = FALSE] = NoOwner
    /\ [NoOwner EXCEPT !.closed = FALSE] = NoOwner
    /\ [NoOwner EXCEPT !.projected = NoOwner.received] = NoOwner
<1>1. NoOwner = [epoch |-> 0, queue |-> {}, sent |-> {}, call |-> "none", committed |-> 0,
                 error |-> FALSE, received |-> {}, projected |-> {},
                 suspended |-> FALSE, closed |-> FALSE]
  BY DEF NoOwner, Coordinator
<1>2. NoOwner \in Coordinators
  BY <1>1, LifecycleAssumption DEF Coordinators
<1>3. [NoOwner EXCEPT !.suspended = FALSE] = NoOwner
  <2>1. [NoOwner EXCEPT !.suspended = NoOwner.suspended] = NoOwner BY <1>1
  <2>2. NoOwner.suspended = FALSE BY <1>1
  <2> QED BY <2>1, <2>2, Zenon
<1>4. [NoOwner EXCEPT !.closed = FALSE] = NoOwner
  <2>1. [NoOwner EXCEPT !.closed = NoOwner.closed] = NoOwner BY <1>1
  <2>2. NoOwner.closed = FALSE BY <1>1
  <2> QED BY <2>1, <2>2, Zenon
<1>5. [NoOwner EXCEPT !.projected = NoOwner.received] = NoOwner
  BY <1>1
<1> QED BY <1>1, <1>2, <1>3, <1>4, <1>5

\* The backend's part and the edits are typed when they stand.
SameBackend == live' = live /\ opened' = opened /\ revision' = revision /\ stored' = stored

\* What a file can have of the edits is finite.
LEMMA StoredIsFinite ==
    ASSUME NEW S \in SUBSET Edits
    PROVE  IsFiniteSet(S) /\ Cardinality(S) \in Nat /\ Cardinality(S) <= MaxEdits
<1>1. MaxEdits \in Nat BY LifecycleAssumption
<1>2. IsFiniteSet(Edits) /\ Cardinality(Edits) = MaxEdits
  BY <1>1, FS_Interval DEF Edits
<1> QED BY <1>2, FS_Subset, FS_CardinalityType

\* What the reply of the own commit does, wherever it is found.
AcceptsOwn ==
    /\ Queues(owner.epoch, owner.queue \ owner.sent, {}, "none", owner.committed)
    /\ Shows(owner.received \cup {owner.committed}, owner.projected \cup {owner.committed})
    /\ SameStand
    /\ owner.committed \in 1..revision[owner.epoch]
    /\ owner.sent \subseteq stored[owner.epoch]

LEMMA AcceptedFields ==
    ASSUME Types, QueueIsOwn, owner.call = "committed", owner.epoch \in Epochs,
           owner' = Accepted(owner)
    PROVE  AcceptsOwn
<1>1. owner \in Coordinators /\ revision[owner.epoch] \in Revisions \cup {0}
  BY DEF Types, TypeOK
<1>2. owner.committed \in 1..revision[owner.epoch] /\ owner.sent \subseteq stored[owner.epoch]
  BY DEF QueueIsOwn
<1>3. owner.committed \in Revisions
  BY <1>1, <1>2, LifecycleAssumption DEF Revisions
<1>4. Queues(owner.epoch, owner.queue \ owner.sent, {}, "none", owner.committed)
  BY <1>1, <1>3 DEF Accepted, Coordinators, Queues
<1>5. /\ Shows(owner.received \cup {owner.committed}, owner.projected \cup {owner.committed})
      /\ SameStand
  BY <1>1 DEF Accepted, Coordinators, Shows, SameStand, Stands
<1> QED BY <1>2, <1>4, <1>5 DEF AcceptsOwn

\* A transition that begins suspends the coordinator, or a store refuses a
\* commit and nothing begins.
LEMMA BeginFields ==
    ASSUME Types, QueueIsOwn, transition = Rest, NEW kind \in Kinds \ {"none"}, Begin(kind)
    PROVE  /\ faults' \in 0..MaxFaults
           /\ \/ owner' = owner /\ transition' = transition
              \/ /\ Goes("flushing", kind, 0, {}) /\ transition' # Rest
                 /\ SameQueue /\ owner'.closed = owner.closed
                 /\ owner'.received = owner.received
                 /\ owner'.projected \in {owner.projected, owner.received}
                 /\ Installed => owner'.suspended
                 /\ ~Installed => owner' = NoOwner
<1>1. owner \in Coordinators BY DEF Types, TypeOK
<1> DEFINE base == [owner EXCEPT !.suspended = TRUE]
<1>2. PICK c : /\ Drained(base, c)
               /\ IF Unprojected(c) # {}
                  THEN owner' = owner /\ UNCHANGED transition
                  ELSE /\ owner' = IF Installed THEN [c EXCEPT !.error = FALSE] ELSE NoOwner
                       /\ transition' = [Rest EXCEPT !.step = "flushing", !.kind = kind]
  BY DEF Begin
<1>3. /\ base \in Coordinators /\ base.suspended = TRUE /\ base.closed = owner.closed
      /\ base.epoch = owner.epoch /\ base.queue = owner.queue /\ base.sent = owner.sent
      /\ base.call = owner.call /\ base.committed = owner.committed
      /\ base.received = owner.received /\ base.projected = owner.projected
  BY <1>1 DEF Coordinators
<1> HIDE DEF base
<1>4. c \in {base, [base EXCEPT !.projected = base.received]} /\ faults' \in 0..MaxFaults
  BY <1>2, LifecycleAssumption DEF Drained, Fault, Types, TypeOK
<1>5. /\ c \in Coordinators /\ c.suspended = TRUE /\ c.closed = owner.closed
      /\ c.epoch = owner.epoch /\ c.queue = owner.queue /\ c.sent = owner.sent
      /\ c.call = owner.call /\ c.committed = owner.committed
      /\ c.received = owner.received /\ c.projected \in {owner.projected, owner.received}
  BY <1>3, <1>4 DEF Coordinators
<1>6. CASE Unprojected(c) # {}
  BY <1>2, <1>4, <1>6
<1>7. CASE ~(Unprojected(c) # {})
  <2>1. transition' = [Rest EXCEPT !.step = "flushing", !.kind = kind]
    BY <1>2, <1>7
  <2>2. Goes("flushing", kind, 0, {}) /\ transition' # Rest
    BY <2>1, RestFields DEF Goes, Transitions, Steps, Kinds
  <2>3. CASE Installed
    <3>1. owner' = [c EXCEPT !.error = FALSE] BY <1>2, <1>7, <2>3
    <3>2. owner' \in Coordinators BY <1>5, <3>1 DEF Coordinators
    <3>3. /\ owner'.epoch = c.epoch /\ owner'.queue = c.queue /\ owner'.sent = c.sent
          /\ owner'.call = c.call /\ owner'.committed = c.committed
          /\ owner'.suspended = c.suspended /\ owner'.closed = c.closed
          /\ owner'.received = c.received /\ owner'.projected = c.projected
      BY <1>5, <3>1 DEF Coordinators
    <3> QED BY <1>4, <1>5, <2>2, <2>3, <3>2, <3>3 DEF SameQueue, Queues
  <2>4. CASE ~Installed
    BY <1>2, <1>4, <1>7, <2>2, <2>4, NoOwnerFields DEF SameQueue, Queues, Installed
  <2> QED BY <2>3, <2>4
<1> QED BY <1>6, <1>7

\* A transition that ends without effect resumes the coordinator.
LEMMA ReleaseFields ==
    ASSUME NEW c, Release(c), c \in Coordinators
    PROVE  /\ Queues(c.epoch, c.queue, c.sent, c.call, c.committed)
           /\ Shows(c.received, c.projected) /\ Stands(FALSE, c.closed)
           /\ transition' = Rest /\ (c = NoOwner => owner' = NoOwner)
           /\ Goes("idle", "none", 0, {})
           /\ window' = IF transition.kind = "close" THEN "open" ELSE window
<1>1. owner' = [c EXCEPT !.suspended = FALSE] /\ transition' = Rest
  BY DEF Release
<1>2. Queues(c.epoch, c.queue, c.sent, c.call, c.committed) /\ Shows(c.received, c.projected)
  BY <1>1 DEF Coordinators, Queues, Shows
<1>3. Stands(FALSE, c.closed)
  BY <1>1 DEF Coordinators, Stands
<1>4. c = NoOwner => owner' = NoOwner
  BY <1>1, NoOwnerFields
<1>5. Goes("idle", "none", 0, {}) BY <1>1, RestFields DEF Goes
<1> QED BY <1>1, <1>2, <1>3, <1>4, <1>5 DEF Release

\* The state of the invariant does not change.
LEMMA StutterKeeps == ASSUME IInv, UNCHANGED vars PROVE IInv'
<1>1. Types' BY DEF IInv, vars, Types, TypeOK, Coordinators, Transitions
<1>2. SessionsAreInOrder' BY DEF IInv, vars, SessionsAreInOrder
<1>3. QueueIsOwn' BY DEF IInv, vars, QueueIsOwn
<1>4. ShownWasReceived' BY DEF IInv, vars, ShownWasReceived
<1>5. TransitionsAreQuiet' BY DEF IInv, vars, TransitionsAreQuiet, Installed
<1>6. WindowIsClosing' BY DEF IInv, vars, WindowIsClosing
<1>7. CommitsAreFollowed' BY DEF IInv, vars, CommitsAreFollowed, Installed
<1>8. CommitsAreEarly' BY DEF IInv, vars, CommitsAreEarly
<1>9. EditsAreKept' BY DEF IInv, vars, EditsAreKept
<1>10. ClosesWhatWasAsked' BY DEF IInv, vars, ClosesWhatWasAsked
<1> QED BY <1>1, <1>2, <1>3, <1>4, <1>5, <1>6, <1>7, <1>8, <1>9, <1>10 DEF IInv

\* pump
LEMMA SendStep == ASSUME IInv, Send, window # "destroyed" PROVE IInv'
<1> USE LifecycleAssumption DEF Queues, Shows, Stands, SameQueue, SameStand, SameBackend, Goes
<1>1. owner \in Coordinators BY DEF IInv, Types, TypeOK
<1>2. Queues(owner.epoch, owner.queue, owner.queue, "sent", owner.committed)
  BY <1>1 DEF Send, Coordinators
<1>3. Shows(owner.received, owner.projected) /\ SameStand
  BY <1>1 DEF Send, Coordinators
<1>4. SameBackend /\ UNCHANGED <<events, madeIn, transition, window, asked, faults>>
  BY DEF Send, backend
<1>5. owner.queue # {} /\ owner.call = "none" /\ Installed
  BY DEF Send
<1>6. owner.epoch # 0
  BY <1>5, InstalledHasEpoch DEF IInv
<1>7. Types'
  BY <1>2, <1>3, <1>4, <1>5, <1>6 DEF IInv, Types, TypeOK, Transitions
<1>8. SessionsAreInOrder'
  BY <1>2, <1>3, <1>4, <1>5, <1>6 DEF IInv, SessionsAreInOrder
<1>9. QueueIsOwn'
  BY <1>2, <1>3, <1>4, <1>5, <1>6 DEF IInv, QueueIsOwn
<1>10. ShownWasReceived'
  BY <1>2, <1>3, <1>4, <1>5, <1>6 DEF IInv, ShownWasReceived
<1>11. TransitionsAreQuiet'
  BY <1>2, <1>3, <1>4, <1>5, <1>6 DEF IInv, TransitionsAreQuiet, Installed
<1>12. WindowIsClosing'
  BY <1>2, <1>3, <1>4, <1>5, <1>6 DEF IInv, WindowIsClosing
<1>13. CommitsAreFollowed'
  BY <1>2, <1>3, <1>4, <1>5, <1>6 DEF IInv, CommitsAreFollowed, Installed
<1>14. CommitsAreEarly'
  BY <1>3, <1>4, <1>5, <1>6 DEF IInv, CommitsAreEarly
<1>15. EditsAreKept'
  BY <1>2, <1>3, <1>4, <1>5, <1>6 DEF IInv, EditsAreKept
<1>16. ClosesWhatWasAsked'
  BY <1>3, <1>4, <1>5, <1>6 DEF IInv, ClosesWhatWasAsked
<1> QED BY <1>7, <1>8, <1>9, <1>10, <1>11, <1>12, <1>13, <1>14, <1>15, <1>16 DEF IInv

\* Edit: it is the next number, and its session is the coordinator's.
LEMMA EditStep == ASSUME IInv, Edit, window # "destroyed" PROVE IInv'
<1> USE LifecycleAssumption DEF Queues, Shows, Stands, SameQueue, SameStand, SameBackend, Goes
<1>1. owner \in Coordinators BY DEF IInv, Types, TypeOK
<1>2. PICK n \in 0..MaxEdits : DOMAIN madeIn = 1..n
  BY DEF IInv, Types
<1>3. Cardinality(DOMAIN madeIn) = n
  BY <1>2, FS_Interval
<1>4. /\ n < MaxEdits
      /\ owner' = [owner EXCEPT !.queue = @ \cup {n + 1}]
      /\ madeIn' = [x \in 1..n + 1 |-> IF x = n + 1 THEN owner.epoch ELSE madeIn[x]]
      /\ ~owner.suspended /\ ~owner.closed
  BY <1>3 DEF Edit
<1>5. n + 1 \in Edits /\ n \in 0..MaxEdits
  BY <1>4 DEF Edits
<1>6. Queues(owner.epoch, owner.queue \cup {n + 1}, owner.sent, owner.call, owner.committed)
  BY <1>1, <1>4, <1>5 DEF Coordinators
<1>7. Shows(owner.received, owner.projected) /\ SameStand
  BY <1>1, <1>4 DEF Coordinators
<1>8. SameBackend /\ UNCHANGED <<events, transition, window, asked, faults>>
  BY DEF Edit, backend
<1>9. owner.epoch # 0 /\ Installed
  BY InstalledHasEpoch DEF IInv, Edit
<1>10. owner.epoch \in 1..MaxEpoch /\ owner.epoch <= opened
  BY <1>1, <1>9 DEF Coordinators, IInv, SessionsAreInOrder
<1>11. /\ DOMAIN madeIn' = 1..n + 1 /\ n + 1 \notin DOMAIN madeIn
       /\ madeIn'[n + 1] = owner.epoch
       /\ \A x \in DOMAIN madeIn : madeIn'[x] = madeIn[x]
       /\ \A x \in DOMAIN madeIn' : x = n + 1 \/ x \in DOMAIN madeIn
  BY <1>2, <1>4
<1>12. n + 1 \notin stored[owner.epoch]
  BY <1>10, <1>11 DEF IInv, Types, Epochs
<1>13. Types'
  <2>1. TypeOK /\ transition \in Transitions BY DEF IInv, Types
  <2>2. owner' \in Coordinators BY <1>6 DEF Queues
  <2>3. DOMAIN madeIn' \subseteq Edits /\ \A x \in DOMAIN madeIn' : madeIn'[x] \in Epochs
    BY <2>1, <1>2, <1>5, <1>10, <1>11 DEF TypeOK, Epochs, Edits
  <2>4. TypeOK' /\ transition' \in Transitions
    BY <2>1, <2>2, <2>3, <1>8 DEF TypeOK
  <2>5. \E m \in 0..MaxEdits : DOMAIN madeIn' = 1..m
    BY <1>4, <1>5, <1>11
  <2>6. \A x \in DOMAIN madeIn' : madeIn'[x] <= opened'
    BY <1>8, <1>10, <1>11 DEF IInv, Types
  <2>7. \A e \in Epochs : /\ stored'[e] \subseteq DOMAIN madeIn'
                          /\ revision'[e] <= MaxCommits + Cardinality(stored'[e])
    BY <1>2, <1>8, <1>11 DEF IInv, Types
  <2> QED BY <2>4, <2>5, <2>6, <2>7, <1>8 DEF IInv, Types
<1>14. SessionsAreInOrder'
  BY <1>3, <1>4, <1>5, <1>6, <1>7, <1>8, <1>9, <1>10, <1>11, <1>12 DEF IInv, SessionsAreInOrder
<1>15. QueueIsOwn'
  BY <1>2, <1>3, <1>4, <1>5, <1>6, <1>7, <1>8, <1>9, <1>10, <1>11, <1>12 DEF IInv, QueueIsOwn
<1>16. ShownWasReceived'
  BY <1>3, <1>4, <1>5, <1>6, <1>7, <1>8, <1>9, <1>10, <1>11, <1>12 DEF IInv, ShownWasReceived
<1>17. TransitionsAreQuiet'
  BY <1>3, <1>4, <1>5, <1>6, <1>7, <1>8, <1>9, <1>10, <1>11, <1>12 DEF IInv, TransitionsAreQuiet,
    Installed
<1>18. WindowIsClosing'
  BY <1>3, <1>4, <1>5, <1>6, <1>7, <1>8, <1>9, <1>10, <1>11, <1>12 DEF IInv, WindowIsClosing
<1>19. CommitsAreFollowed'
  BY <1>3, <1>4, <1>5, <1>6, <1>7, <1>8, <1>9, <1>10, <1>11, <1>12 DEF IInv, CommitsAreFollowed,
    Installed
<1>20. CommitsAreEarly'
  BY <1>3, <1>4, <1>5, <1>6, <1>7, <1>8, <1>9, <1>10, <1>11, <1>12 DEF IInv, CommitsAreEarly
<1>21. EditsAreKept'
  BY <1>3, <1>4, <1>5, <1>6, <1>7, <1>8, <1>9, <1>10, <1>11, <1>12 DEF IInv, EditsAreKept
<1>22. ClosesWhatWasAsked'
  BY <1>3, <1>4, <1>5, <1>6, <1>7, <1>8, <1>9, <1>10, <1>11, <1>12 DEF IInv, ClosesWhatWasAsked
<1> QED BY <1>13, <1>14, <1>15, <1>16, <1>17, <1>18, <1>19, <1>20, <1>21, <1>22 DEF IInv

\* The backend commits what was sent: each revision past the bound is paid by an edit.
LEMMA CommitOwnStep == ASSUME IInv, CommitOwn, window # "destroyed" PROVE IInv'
<1> USE LifecycleAssumption DEF Queues, Shows, Stands, SameQueue, SameStand, SameBackend, Goes
<1>1. owner \in Coordinators BY DEF IInv, Types, TypeOK
<1>2. owner.call = "sent" /\ live = owner.epoch /\ owner.epoch # 0 /\ Installed
  BY DEF Installed, CommitOwn, IInv, QueueIsOwn, NoOwner, Coordinator
<1>3. live \in Epochs /\ live = opened
  BY <1>2 DEF IInv, Types, TypeOK, SessionsAreInOrder, Epochs
<1>4. /\ revision \in [Epochs -> Revisions \cup {0}] /\ stored \in [Epochs -> SUBSET Edits]
      /\ revision[live] \in Nat
  BY <1>3 DEF IInv, Types, TypeOK, Revisions
<1>5. /\ owner.sent # {} /\ owner.sent \subseteq owner.queue
      /\ owner.sent \cap stored[live] = {}
      /\ owner.sent \subseteq DOMAIN madeIn /\ owner.sent \subseteq Edits
  BY <1>1, <1>2 DEF IInv, QueueIsOwn, Coordinators
<1> DEFINE r == revision[live] + 1
           kept == stored[live] \cup owner.sent
<1>6. /\ revision' = [revision EXCEPT ![live] = r]
      /\ stored' = [stored EXCEPT ![live] = kept]
      /\ events' = events \cup {[epoch |-> live, revision |-> r]}
      /\ owner' = [owner EXCEPT !.call = "committed", !.committed = r]
      /\ UNCHANGED <<live, opened, madeIn, transition, window, asked, faults>>
  BY DEF CommitOwn
<1>7. /\ Cardinality(kept) >= Cardinality(stored[live]) + 1 /\ Cardinality(kept) <= MaxEdits
      /\ Cardinality(kept) \in Nat /\ Cardinality(stored[live]) \in Nat
  <2>1. IsFiniteSet(Edits) /\ Cardinality(Edits) = MaxEdits
    BY FS_Interval DEF Edits
  <2>2. kept \in SUBSET Edits /\ stored[live] \in SUBSET kept /\ stored[live] # kept
    BY <1>3, <1>4, <1>5
  <2>3. IsFiniteSet(kept) /\ Cardinality(kept) <= MaxEdits
    BY <2>1, <2>2, FS_Subset
  <2>4. /\ IsFiniteSet(stored[live]) /\ Cardinality(stored[live]) <= Cardinality(kept)
        /\ Cardinality(stored[live]) # Cardinality(kept)
    BY <2>2, <2>3, FS_Subset
  <2> QED BY <2>3, <2>4, FS_CardinalityType
<1>8. r <= MaxCommits + Cardinality(kept) /\ Cardinality(kept) \in Nat /\ r \in Revisions
  <2>1. revision[live] <= MaxCommits + Cardinality(stored[live])
    BY <1>3 DEF IInv, Types
  <2> QED BY <1>4, <1>7, <2>1 DEF Revisions
<1>9. /\ Queues(owner.epoch, owner.queue, owner.sent, "committed", r)
      /\ Shows(owner.received, owner.projected) /\ SameStand
  BY <1>1, <1>6, <1>8 DEF Coordinators
<1>10. /\ revision' \in [Epochs -> Revisions \cup {0}] /\ stored' \in [Epochs -> SUBSET Edits]
       /\ revision'[live] = r /\ stored'[live] = kept
       /\ \A e \in Epochs \ {live} : revision'[e] = revision[e] /\ stored'[e] = stored[e]
       /\ \A e \in Epochs : revision[e] <= revision'[e] /\ stored[e] \subseteq stored'[e]
  BY <1>3, <1>4, <1>5, <1>6, <1>8 DEF Revisions
<1>11. events' \subseteq Events
  BY <1>3, <1>6, <1>8 DEF IInv, Types, TypeOK, Events
<1>12. /\ revision[live] \in Nat /\ r \in Nat /\ r \in 1..r /\ revision[live] <= r
       /\ \A x \in kept : x \in stored[live] \/ x \in owner.sent
       /\ owner.sent \subseteq kept
       /\ \A x \in 1..r : x = r \/ x \in 1..revision[live]
       /\ \A x \in owner.received : x \in Nat
  BY <1>1, <1>4 DEF Coordinators, Revisions
<1> HIDE DEF r, kept
<1>13. Types'
  <2>1. TypeOK /\ transition \in Transitions BY DEF IInv, Types
  <2>2. TypeOK' /\ transition' \in Transitions
    BY <2>1, <1>6, <1>9, <1>10, <1>11 DEF TypeOK
  <2>3. \A e \in Epochs : stored'[e] \subseteq DOMAIN madeIn'
    BY <1>5, <1>6, <1>10 DEF IInv, Types, kept
  <2>4. \A e \in Epochs : revision'[e] <= MaxCommits + Cardinality(stored'[e])
    BY <1>8, <1>10 DEF IInv, Types
  <2> QED BY <2>2, <2>3, <2>4, <1>6 DEF IInv, Types
<1>14. SessionsAreInOrder'
  <2>2. ASSUME NEW e \in events \cup transition.early PROVE e.revision <= revision'[e.epoch]
    <3>1. e.epoch \in Epochs /\ e.revision \in Nat
      BY DEF IInv, Types, TypeOK, Events, Revisions
    <3>2. /\ e.revision <= revision[e.epoch] /\ revision[e.epoch] <= revision'[e.epoch]
          /\ revision[e.epoch] \in Nat /\ revision'[e.epoch] \in Nat
      BY <3>1, <1>4, <1>10 DEF IInv, SessionsAreInOrder, Revisions
    <3> QED BY <3>1, <3>2
  <2>3. ASSUME NEW e \in events' \cup transition'.early PROVE e.revision <= revision'[e.epoch]
    <3>1. CASE e \in events \cup transition.early
      BY <3>1, <2>2
    <3>2. CASE e = [epoch |-> live, revision |-> r]
      BY <3>2, <1>10, <1>12
    <3>3. events' \cup transition'.early = events \cup transition.early
                                          \cup {[epoch |-> live, revision |-> r]}
      BY <1>6
    <3> QED BY <3>1, <3>2, <3>3
  <2> QED BY <2>3, <1>3, <1>6, <1>9, <1>10 DEF IInv, SessionsAreInOrder, Epochs
<1>15. QueueIsOwn'
  BY <1>2, <1>3, <1>4, <1>5, <1>6, <1>7, <1>8, <1>9, <1>10, <1>11, <1>12 DEF IInv, QueueIsOwn
<1>16. ShownWasReceived'
  BY <1>3, <1>4, <1>5, <1>6, <1>7, <1>8, <1>9, <1>10, <1>11, <1>12 DEF IInv, ShownWasReceived
<1>17. TransitionsAreQuiet'
  BY <1>3, <1>4, <1>5, <1>6, <1>7, <1>8, <1>9, <1>10, <1>11, <1>12 DEF IInv, TransitionsAreQuiet,
    Installed, NoOwner, Coordinator
<1>18. WindowIsClosing'
  BY <1>3, <1>4, <1>5, <1>6, <1>7, <1>8, <1>9, <1>10, <1>11, <1>12 DEF IInv, WindowIsClosing
<1>19. CommitsAreFollowed'
  BY <1>2, <1>3, <1>4, <1>5, <1>6, <1>7, <1>8, <1>9, <1>10, <1>11, <1>12 DEF IInv,
    CommitsAreFollowed, Installed
<1>20. CommitsAreEarly'
  BY <1>3, <1>4, <1>5, <1>6, <1>7, <1>8, <1>9, <1>10, <1>11, <1>12 DEF IInv, CommitsAreEarly,
    TransitionsAreQuiet
<1>21. EditsAreKept'
  BY <1>3, <1>4, <1>5, <1>6, <1>7, <1>8, <1>9, <1>10, <1>11, <1>12 DEF IInv, EditsAreKept
<1>22. ClosesWhatWasAsked'
  BY <1>3, <1>4, <1>5, <1>6, <1>7, <1>8, <1>9, <1>10, <1>11, <1>12 DEF IInv, ClosesWhatWasAsked
<1> QED BY <1>13, <1>14, <1>15, <1>16, <1>17, <1>18, <1>19, <1>20, <1>21, <1>22 DEF IInv

\* The call failed: what was sent waits again.
LEMMA CallFailsStep == ASSUME IInv, CallFails, window # "destroyed" PROVE IInv'
<1> USE LifecycleAssumption DEF Queues, Shows, Stands, SameQueue, SameStand, SameBackend, Goes
<1>1. owner \in Coordinators BY DEF IInv, Types, TypeOK
<1>2. owner.call = "sent" /\ owner' = [owner EXCEPT !.call = "none", !.sent = {}, !.error = TRUE]
  BY DEF CallFails
<1>3. Queues(owner.epoch, owner.queue, {}, "none", owner.committed)
  BY <1>1, <1>2 DEF Coordinators
<1>4. Shows(owner.received, owner.projected) /\ SameStand
  BY <1>1, <1>2 DEF Coordinators
<1>5. /\ SameBackend /\ UNCHANGED <<events, madeIn, transition, window, asked>>
      /\ faults' \in 0..MaxFaults
  BY DEF CallFails, backend, Fault, IInv, Types, TypeOK
<1>6. owner.epoch # 0 /\ Installed
  BY <1>2 DEF IInv, QueueIsOwn, Installed, NoOwner, Coordinator
<1>7. Types'
  BY <1>3, <1>4, <1>5, <1>6 DEF IInv, Types, TypeOK, Transitions
<1>8. SessionsAreInOrder'
  BY <1>3, <1>4, <1>5, <1>6 DEF IInv, SessionsAreInOrder
<1>9. QueueIsOwn'
  BY <1>2, <1>3, <1>4, <1>5, <1>6 DEF IInv, QueueIsOwn
<1>10. ShownWasReceived'
  BY <1>3, <1>4, <1>5, <1>6 DEF IInv, ShownWasReceived
<1>11. TransitionsAreQuiet'
  BY <1>3, <1>4, <1>5, <1>6 DEF IInv, TransitionsAreQuiet, Installed
<1>12. WindowIsClosing'
  BY <1>3, <1>4, <1>5, <1>6 DEF IInv, WindowIsClosing
<1>13. CommitsAreFollowed'
  BY <1>2, <1>3, <1>4, <1>5, <1>6 DEF IInv, CommitsAreFollowed, Installed
<1>14. CommitsAreEarly'
  BY <1>3, <1>4, <1>5, <1>6 DEF IInv, CommitsAreEarly
<1>15. EditsAreKept'
  BY <1>3, <1>4, <1>5, <1>6 DEF IInv, EditsAreKept
<1>16. ClosesWhatWasAsked'
  BY <1>3, <1>4, <1>5, <1>6 DEF IInv, ClosesWhatWasAsked
<1> QED BY <1>7, <1>8, <1>9, <1>10, <1>11, <1>12, <1>13, <1>14, <1>15, <1>16 DEF IInv

\* The reply of the own commit: what was saved leaves the queue.
LEMMA AcceptStep == ASSUME IInv, Accept, window # "destroyed" PROVE IInv'
<1> USE LifecycleAssumption DEF Queues, Shows, Stands, SameQueue, SameStand, SameBackend, Goes
<1>1. owner \in Coordinators BY DEF IInv, Types, TypeOK
<1>2. owner.call = "committed" /\ owner' = Accepted(owner)
  BY DEF Accept
<1>3. owner.epoch # 0 /\ Installed /\ owner.epoch \in Epochs
  BY <1>1, <1>2 DEF IInv, QueueIsOwn, Installed, NoOwner, Coordinator, Coordinators, Epochs
<1>4. AcceptsOwn
  BY <1>1, <1>2, <1>3, AcceptedFields DEF IInv
<1>5. SameBackend /\ UNCHANGED <<events, madeIn, transition, window, asked, faults>>
  BY DEF Accept, backend
<1>6. Types'
  BY <1>3, <1>4, <1>5 DEF IInv, Types, TypeOK, Transitions, AcceptsOwn
<1>7. SessionsAreInOrder'
  BY <1>3, <1>4, <1>5 DEF IInv, SessionsAreInOrder, AcceptsOwn
<1>8. QueueIsOwn'
  BY <1>3, <1>4, <1>5 DEF IInv, QueueIsOwn, AcceptsOwn
<1>9. ShownWasReceived'
  BY <1>3, <1>4, <1>5 DEF IInv, ShownWasReceived, AcceptsOwn
<1>10. TransitionsAreQuiet'
  BY <1>3, <1>4, <1>5 DEF IInv, TransitionsAreQuiet, Installed, AcceptsOwn
<1>11. WindowIsClosing'
  BY <1>3, <1>4, <1>5 DEF IInv, WindowIsClosing, AcceptsOwn
<1>12. CommitsAreFollowed'
  BY <1>3, <1>4, <1>5 DEF IInv, CommitsAreFollowed, Installed, AcceptsOwn
<1>13. CommitsAreEarly'
  BY <1>3, <1>4, <1>5 DEF IInv, CommitsAreEarly, AcceptsOwn
<1>14. EditsAreKept'
  BY <1>3, <1>4, <1>5 DEF IInv, EditsAreKept, AcceptsOwn, QueueIsOwn
<1>15. ClosesWhatWasAsked'
  BY <1>3, <1>4, <1>5 DEF IInv, ClosesWhatWasAsked
<1> QED BY <1>6, <1>7, <1>8, <1>9, <1>10, <1>11, <1>12, <1>13, <1>14, <1>15 DEF IInv

\* Another client commits: the event of the commit is under way.
LEMMA CommitExternalStep == ASSUME IInv, CommitExternal, window # "destroyed" PROVE IInv'
<1> USE LifecycleAssumption DEF Queues, Shows, Stands, SameQueue, SameStand, SameBackend, Goes
<1>1. live \in Epochs /\ live = opened
  BY DEF IInv, CommitExternal, Types, TypeOK, SessionsAreInOrder, Epochs
<1>2. /\ revision \in [Epochs -> Revisions \cup {0}] /\ revision[live] \in Nat
      /\ \A e \in Epochs : revision[e] \in Nat
  BY <1>1 DEF IInv, Types, TypeOK, Revisions
<1> DEFINE r == revision[live] + 1
           new == [epoch |-> live, revision |-> r]
<1>3. /\ revision[live] < MaxCommits
      /\ revision' = [revision EXCEPT ![live] = r] /\ events' = events \cup {new}
      /\ UNCHANGED <<live, opened, stored, madeIn, owner, transition, window, asked, faults>>
  BY DEF CommitExternal
<1>4. r \in Revisions /\ r <= MaxCommits /\ r \in Nat /\ \A x \in 1..r : x = r \/ x \in 1..revision[live]
  BY <1>2, <1>3 DEF Revisions
<1>5. /\ revision' \in [Epochs -> Revisions \cup {0}] /\ revision'[live] = r
      /\ \A e \in Epochs \ {live} : revision'[e] = revision[e]
      /\ \A e \in Epochs : revision'[e] \in Nat /\ revision[e] <= revision'[e]
  BY <1>1, <1>2, <1>3, <1>4
<1>6. new \in Events /\ new.epoch = live /\ new.revision = r
  BY <1>1, <1>4 DEF Events
<1> HIDE DEF new, r
<1>7. Types'
  <2>1. TypeOK /\ transition \in Transitions BY DEF IInv, Types
  <2>2. TypeOK' /\ transition' \in Transitions
    BY <2>1, <1>3, <1>5, <1>6 DEF TypeOK
  <2>3. Cardinality(stored[live]) \in Nat
    BY <2>1, <1>1, StoredIsFinite DEF TypeOK
  <2>4. \A e \in Epochs : revision'[e] <= MaxCommits + Cardinality(stored[e])
    BY <2>3, <1>4, <1>5 DEF IInv, Types
  <2> QED BY <2>2, <2>4, <1>3 DEF IInv, Types
<1>8. SessionsAreInOrder'
  <2>1. ASSUME NEW e \in events \cup transition.early PROVE e.revision <= revision'[e.epoch]
    <3>1. e.epoch \in Epochs /\ e.revision \in Nat
      BY DEF IInv, Types, TypeOK, Events, Revisions
    <3> QED BY <3>1, <1>2, <1>5 DEF IInv, SessionsAreInOrder
  <2>2. new.revision <= revision'[new.epoch]
    <3>1. new.revision = r /\ revision'[new.epoch] = r BY <1>5, <1>6, Zenon
    <3>2. r <= r BY <1>4
    <3> QED BY <3>1, <3>2, Zenon
  <2>3. events' \cup transition'.early = (events \cup transition.early) \cup {new}
    BY <1>3
  <2>4. \A e \in events' \cup transition'.early : e.revision <= revision'[e.epoch]
    BY <2>1, <2>2, <2>3
  <2> QED BY <2>4, <1>1, <1>3, <1>5 DEF IInv, SessionsAreInOrder, Epochs
<1>9. QueueIsOwn'
  <2>1. owner.call = "committed" => owner.epoch \in Epochs /\ owner.committed \in Nat
    BY DEF IInv, QueueIsOwn, NoOwner, Coordinator, Types, TypeOK, Coordinators, Epochs, Revisions
  <2>2. owner.call = "committed" => owner.committed \in 1..revision'[owner.epoch]
    BY <2>1, <1>2, <1>5 DEF IInv, QueueIsOwn
  <2> QED BY <2>2, <1>3 DEF IInv, QueueIsOwn
<1>10. ShownWasReceived'
  <2>1. \A x \in owner.received : x \in Nat /\ owner.epoch \in Epochs
    BY DEF IInv, QueueIsOwn, NoOwner, Coordinator, Types, TypeOK, Coordinators, Epochs, Revisions
  <2>2. \A x \in owner.received : x <= revision'[owner.epoch]
    BY <2>1, <1>2, <1>5 DEF IInv, ShownWasReceived
  <2> QED BY <2>2, <1>3 DEF IInv, ShownWasReceived
<1>11. TransitionsAreQuiet'
  BY <1>3, <1>4, <1>5, <1>6 DEF IInv, TransitionsAreQuiet, Installed
<1>12. WindowIsClosing'
  BY <1>3, <1>4, <1>5, <1>6 DEF IInv, WindowIsClosing
<1>13. CommitsAreFollowed'
  BY <1>3, <1>4, <1>5 DEF IInv, CommitsAreFollowed, Installed, new
<1>14. CommitsAreEarly'
  BY <1>3, <1>4, <1>5 DEF IInv, CommitsAreEarly, new
<1>15. EditsAreKept'
  BY <1>3, <1>4, <1>5, <1>6 DEF IInv, EditsAreKept
<1>16. ClosesWhatWasAsked'
  BY <1>3, <1>4, <1>5, <1>6 DEF IInv, ClosesWhatWasAsked
<1> QED BY <1>7, <1>8, <1>9, <1>10, <1>11, <1>12, <1>13, <1>14, <1>15, <1>16 DEF IInv

\* An event is delivered, to the coordinator and to a listening transition.
LEMMA DeliverStep == ASSUME IInv, NEW event \in events, Deliver(event),
  window # "destroyed" PROVE IInv'
<1> USE LifecycleAssumption DEF Queues, Shows, Stands, SameQueue, SameStand, SameBackend, Goes
<1>1. owner \in Coordinators BY DEF IInv, Types, TypeOK
<1>2. /\ event \in Events /\ event.epoch \in Epochs /\ event.revision \in Revisions
      /\ event = [epoch |-> event.epoch, revision |-> event.revision]
      /\ event.revision <= revision[event.epoch]
  BY DEF IInv, Types, TypeOK, Events, SessionsAreInOrder
<1>3. SameBackend /\ UNCHANGED <<madeIn, window, asked>> /\ events' = events \ {event}
  BY DEF Deliver, backend
<1>4. \/ Goes(transition.step, transition.kind, transition.epoch, transition.early) /\ ~Listening
                /\ transition' = transition
      \/ Goes(transition.step, transition.kind, transition.epoch, transition.early \cup {event})
                /\ transition.step \in {"opening", "closing", "installing"}
                /\ transition.kind # "close"
  BY <1>2 DEF IInv, Types, Transitions, Deliver, Early, Listening
<1> DEFINE Ignored ==
             /\ owner' = owner
             /\ ~Installed \/ owner.closed \/ event.epoch # owner.epoch
                           \/ event.revision \in owner.received
           IsOwn == /\ owner.call = "committed" /\ owner.committed = event.revision
                    /\ owner.epoch = event.epoch /\ AcceptsOwn /\ Installed
           IsNew == /\ SameQueue /\ SameStand /\ owner'.received = owner.received \cup {event.revision}
                    /\ owner'.projected \in {owner.projected, owner'.received}
                    /\ owner.epoch = event.epoch /\ Installed
<1>5. faults' \in 0..MaxFaults /\ (Ignored \/ IsOwn \/ IsNew)
  <2>1. PICK after : Received(owner, event, after) /\ owner' = after
    BY DEF Deliver
  <2>2. CASE owner = NoOwner \/ owner.closed \/ event.epoch # owner.epoch
             \/ event.revision \in owner.received
    BY <2>1, <2>2 DEF Received, Installed, IInv, Types, TypeOK
  <2>3. CASE /\ ~(owner = NoOwner \/ owner.closed \/ event.epoch # owner.epoch
                  \/ event.revision \in owner.received)
             /\ owner.call = "committed" /\ owner.committed = event.revision
    BY <2>1, <2>3, <1>2, AcceptedFields DEF Received, Installed, IInv, Types, TypeOK
  <2>4. CASE /\ ~(owner = NoOwner \/ owner.closed \/ event.epoch # owner.epoch
                  \/ event.revision \in owner.received)
             /\ ~(owner.call = "committed" /\ owner.committed = event.revision)
    <3> DEFINE c == [owner EXCEPT !.received = @ \cup {event.revision}]
    <3>1. Drained(c, owner') BY <2>1, <2>4 DEF Received
    <3>2. c \in Coordinators BY <1>1, <1>2 DEF Coordinators
    <3>3. \/ owner' = [c EXCEPT !.projected = c.received] /\ faults' = faults
          \/ owner' = c /\ Fault
      BY <3>1 DEF Drained
    <3>4. faults' \in 0..MaxFaults BY <3>3 DEF Fault, IInv, Types, TypeOK
    <3>5. c.received = owner.received \cup {event.revision}
      BY <1>1 DEF Coordinators
    <3>6. CASE owner' = c
      BY <3>6, <3>2, <3>4, <3>5, <1>1, <2>4 DEF Coordinators, Installed
    <3>7. CASE owner' = [c EXCEPT !.projected = c.received]
      BY <3>7, <3>2, <3>4, <3>5, <1>1, <2>4 DEF Coordinators, Installed
    <3> QED BY <3>3, <3>6, <3>7
  <2> QED BY <2>2, <2>3, <2>4
<1>6. owner.epoch = event.epoch => owner.epoch \in Epochs /\ Installed
  BY <1>2, InstalledHasEpoch DEF IInv, Epochs
<1>7. owner' \in Coordinators /\ owner'.epoch = owner.epoch
  BY <1>1, <1>5 DEF AcceptsOwn
<1>8. IsOwn \/ IsNew => owner' # NoOwner
  BY <1>6, <1>7 DEF Epochs, NoOwner, Coordinator
<1>9. IsOwn => revision[owner.epoch] \in Nat /\ \A r \in owner.received : r \in Nat
  BY <1>1, <1>6 DEF IInv, Types, TypeOK, Revisions, Coordinators
<1>10. Types'
  BY <1>3, <1>4, <1>5, <1>6, <1>7, <1>8, <1>9 DEF IInv, Types, TypeOK, Transitions, AcceptsOwn
<1>11. SessionsAreInOrder'
  BY <1>3, <1>4, <1>5, <1>6, <1>7, <1>8, <1>9 DEF IInv, SessionsAreInOrder, AcceptsOwn
<1>12. QueueIsOwn'
  <2>1. CASE Ignored BY <2>1, <1>3 DEF IInv, QueueIsOwn
  <2>2. CASE IsOwn BY <2>2, <1>3, <1>6, <1>7, <1>8 DEF IInv, QueueIsOwn, AcceptsOwn, Epochs
  <2>3. CASE IsNew BY <2>3, <1>3, <1>6, <1>7, <1>8 DEF IInv, QueueIsOwn, Epochs
  <2> QED BY <2>1, <2>2, <2>3, <1>5
<1>13. ShownWasReceived'
  BY <1>2, <1>3, <1>4, <1>5, <1>6, <1>7, <1>8, <1>9 DEF IInv, ShownWasReceived, AcceptsOwn
<1>14. TransitionsAreQuiet'
  BY <1>3, <1>4, <1>5, <1>6, <1>7, <1>8, <1>9 DEF IInv, TransitionsAreQuiet, Installed, AcceptsOwn
<1>15. WindowIsClosing'
  BY <1>3, <1>4, <1>5, <1>6, <1>7, <1>8, <1>9 DEF IInv, WindowIsClosing, AcceptsOwn
<1>16. CommitsAreFollowed'
  <2>1. CASE Ignored
    <3>1. owner.closed => ~(Installed /\ live = owner.epoch)
      BY DEF IInv, TransitionsAreQuiet
    <3>2. ASSUME Installed',
      live' = owner'.epoch PROVE Installed /\ live = owner.epoch /\ ~owner.closed
      BY <2>1, <3>1, <3>2, <1>3 DEF Installed
    <3>3. ASSUME Installed', live' = owner'.epoch, NEW r \in 1..revision[live],
                 [epoch |-> live, revision |-> r] = event
          PROVE  r \in owner.received
      BY <3>2, <3>3, <2>1
    <3> QED BY <3>2, <3>3, <2>1, <1>3 DEF IInv, CommitsAreFollowed
  <2>2. CASE IsOwn
    <3>1. ASSUME NEW r \in 1..revision[live], [epoch |-> live, revision |-> r] = event
          PROVE  r \in owner'.received
      BY <3>1, <2>2 DEF AcceptsOwn
    <3> QED BY <3>1, <2>2, <1>3 DEF IInv, CommitsAreFollowed, AcceptsOwn, Installed
  <2>3. CASE IsNew
    <3>1. ASSUME NEW r \in 1..revision[live], [epoch |-> live, revision |-> r] = event
          PROVE  r \in owner'.received
      BY <3>1, <2>3
    <3> QED BY <3>1, <2>3, <1>3 DEF IInv, CommitsAreFollowed, Installed
  <2> QED BY <2>1, <2>2, <2>3, <1>5
<1>17. CommitsAreEarly'
  BY <1>3, <1>4, <1>5, <1>6, <1>7, <1>8, <1>9 DEF IInv, CommitsAreEarly, AcceptsOwn, Listening,
    WindowIsClosing
<1>18. EditsAreKept'
  BY <1>3, <1>4, <1>5, <1>6, <1>7, <1>8, <1>9 DEF IInv, EditsAreKept, AcceptsOwn, QueueIsOwn
<1>19. ClosesWhatWasAsked'
  BY <1>3, <1>4, <1>5, <1>6, <1>7, <1>8, <1>9 DEF IInv, ClosesWhatWasAsked
<1> QED BY <1>10, <1>11, <1>12, <1>13, <1>14, <1>15, <1>16, <1>17, <1>18, <1>19 DEF IInv

\* A transition begins: writes are suspended, the flush starts.
LEMMA BeginReplaceStep == ASSUME IInv, NEW kind \in {"replace", "saveAs"}, BeginReplace(kind),
  window # "destroyed" PROVE IInv'
<1> USE LifecycleAssumption DEF Queues, Shows, Stands, SameQueue, SameStand, SameBackend, Goes
<1>1. owner \in Coordinators BY DEF IInv, Types, TypeOK
<1>2. /\ transition = Rest /\ Begin(kind) /\ kind \in Kinds \ {"none"} /\ kind # "close"
      /\ SameBackend /\ UNCHANGED <<events, madeIn, window, asked>> /\ opened < MaxEpoch
      /\ kind = "saveAs" => Installed
  BY DEF BeginReplace, backend, Kinds
<1> DEFINE Begins ==
             /\ Goes("flushing", kind, 0, {}) /\ SameQueue /\ owner'.closed = owner.closed
             /\ owner'.received = owner.received
             /\ owner'.projected \in {owner.projected, owner.received}
             /\ Installed => owner'.suspended
             /\ ~Installed => owner' = NoOwner
<1>3. faults' \in 0..MaxFaults /\ ((owner' = owner /\ transition' = transition) \/ Begins)
  BY <1>2, BeginFields DEF IInv
<1>4. /\ Installed <=> owner.epoch # 0
      /\ owner' # NoOwner => Installed
      /\ owner.epoch = 0 => owner' = NoOwner
      /\ transition.step = "idle" /\ transition.kind = "none" /\ transition.early = {}
  BY <1>2, <1>3, InstalledHasEpoch, RestFields DEF IInv, Installed
<1>5. Types'
  BY <1>2, <1>3, <1>4 DEF IInv, Types, TypeOK, Transitions
<1>6. SessionsAreInOrder'
  BY <1>2, <1>3, <1>4 DEF IInv, SessionsAreInOrder
<1>7. QueueIsOwn'
  BY <1>2, <1>3, <1>4 DEF IInv, QueueIsOwn
<1>8. ShownWasReceived'
  BY <1>2, <1>3, <1>4 DEF IInv, ShownWasReceived
<1>9. TransitionsAreQuiet'
  BY <1>2, <1>3, <1>4 DEF IInv, TransitionsAreQuiet, Installed
<1>10. WindowIsClosing'
  BY <1>2, <1>3, <1>4 DEF IInv, WindowIsClosing
<1>11. CommitsAreFollowed'
  BY <1>2, <1>3, <1>4 DEF IInv, CommitsAreFollowed, Installed
<1>12. CommitsAreEarly'
  BY <1>3, <1>4 DEF IInv, CommitsAreEarly
<1>13. EditsAreKept'
  BY <1>2, <1>3, <1>4 DEF IInv, EditsAreKept
<1>14. ClosesWhatWasAsked'
  BY <1>2, <1>3, <1>4 DEF IInv, ClosesWhatWasAsked
<1> QED BY <1>5, <1>6, <1>7, <1>8, <1>9, <1>10, <1>11, <1>12, <1>13, <1>14 DEF IInv

\* The queue is empty: the backend is asked.
LEMMA ApplyStep == ASSUME IInv, Apply, window # "destroyed" PROVE IInv'
<1> USE LifecycleAssumption DEF Queues, Shows, Stands, SameQueue, SameStand, SameBackend, Goes
<1>1. /\ transition.step = "flushing" /\ owner.queue = {}
      /\ transition' = [transition EXCEPT !.step = "opening"]
      /\ SameBackend /\ UNCHANGED <<events, madeIn, owner, window, asked, faults>>
  BY DEF Apply, Flushed, backend
<1>2. Goes("opening", transition.kind, transition.epoch, transition.early)
  BY <1>1 DEF IInv, Types, Transitions, Steps
<1>3. Types'
  BY <1>1, <1>2 DEF IInv, Types, TypeOK, Transitions
<1>4. SessionsAreInOrder'
  BY <1>1 DEF IInv, SessionsAreInOrder
<1>5. QueueIsOwn'
  BY <1>1 DEF IInv, QueueIsOwn
<1>6. ShownWasReceived'
  BY <1>1 DEF IInv, ShownWasReceived
<1>7. TransitionsAreQuiet'
  BY <1>1 DEF IInv, TransitionsAreQuiet, Installed
<1>8. WindowIsClosing'
  BY <1>1 DEF IInv, WindowIsClosing
<1>9. CommitsAreFollowed'
  BY <1>1 DEF IInv, CommitsAreFollowed, Installed
<1>10. CommitsAreEarly'
  BY <1>2 DEF IInv, CommitsAreEarly
<1>11. EditsAreKept'
  BY <1>1 DEF IInv, EditsAreKept
<1>12. ClosesWhatWasAsked'
  BY <1>1 DEF IInv, ClosesWhatWasAsked
<1> QED BY <1>3, <1>4, <1>5, <1>6, <1>7, <1>8, <1>9, <1>10, <1>11, <1>12 DEF IInv

\* The flush failed: the transition ends, the edits wait.
LEMMA FlushFailsStep == ASSUME IInv, FlushFails, window # "destroyed" PROVE IInv'
<1> USE LifecycleAssumption DEF Queues, Shows, Stands, SameQueue, SameStand, SameBackend, Goes
<1>1. owner \in Coordinators BY DEF IInv, Types, TypeOK
<1>2. /\ Queues(owner.epoch, owner.queue, owner.sent, owner.call, owner.committed)
      /\ Shows(owner.received, owner.projected) /\ Stands(FALSE, owner.closed)
      /\ transition' = Rest /\ (owner = NoOwner => owner' = NoOwner)
      /\ Goes("idle", "none", 0, {})
      /\ window' = IF transition.kind = "close" THEN "open" ELSE window
  BY <1>1, ReleaseFields DEF FlushFails
<1>3. SameBackend /\ UNCHANGED <<events, madeIn, asked, faults>> /\ transition.step = "flushing"
  BY DEF FlushFails, backend
<1>4. owner.epoch = 0 => owner = NoOwner
  BY DEF IInv, QueueIsOwn
<1>5. owner' # NoOwner <=> Installed
  BY <1>2, <1>4, NoOwnerFields DEF Installed
<1>6. Types'
  BY <1>2, <1>3, <1>4, <1>5 DEF IInv, Types, TypeOK, Transitions
<1>7. SessionsAreInOrder'
  BY <1>2, <1>3, <1>4, <1>5 DEF IInv, SessionsAreInOrder
<1>8. QueueIsOwn'
  BY <1>2, <1>3, <1>4, <1>5 DEF IInv, QueueIsOwn
<1>9. ShownWasReceived'
  BY <1>2, <1>3, <1>4, <1>5 DEF IInv, ShownWasReceived
<1>10. TransitionsAreQuiet'
  BY <1>2, <1>3, <1>4, <1>5 DEF IInv, TransitionsAreQuiet, Installed
<1>11. WindowIsClosing'
  BY <1>2, <1>3, <1>4, <1>5 DEF IInv, WindowIsClosing
<1>12. CommitsAreFollowed'
  BY <1>2, <1>3, <1>4, <1>5 DEF IInv, CommitsAreFollowed, Installed
<1>13. CommitsAreEarly'
  BY <1>2, <1>3, <1>4, <1>5 DEF IInv, CommitsAreEarly
<1>14. EditsAreKept'
  BY <1>2, <1>3, <1>4, <1>5 DEF IInv, EditsAreKept
<1>15. ClosesWhatWasAsked'
  BY <1>2, <1>3, <1>4, <1>5 DEF IInv, ClosesWhatWasAsked
<1> QED BY <1>6, <1>7, <1>8, <1>9, <1>10, <1>11, <1>12, <1>13, <1>14, <1>15 DEF IInv

\* The backend refuses and keeps its session: writes are resumed.
LEMMA BackendRefusesStep == ASSUME IInv, BackendRefuses, window # "destroyed" PROVE IInv'
<1> USE LifecycleAssumption DEF Queues, Shows, Stands, SameQueue, SameStand, SameBackend, Goes
<1>1. owner \in Coordinators BY DEF IInv, Types, TypeOK
<1>2. /\ Queues(owner.epoch, owner.queue, owner.sent, owner.call, owner.committed)
      /\ Shows(owner.received, owner.projected) /\ Stands(FALSE, owner.closed)
      /\ transition' = Rest /\ (owner = NoOwner => owner' = NoOwner)
      /\ Goes("idle", "none", 0, {})
      /\ window' = IF transition.kind = "close" THEN "open" ELSE window
  BY <1>1, ReleaseFields DEF BackendRefuses
<1>3. /\ SameBackend /\ UNCHANGED <<events, madeIn, asked>> /\ transition.step = "opening"
      /\ faults' \in 0..MaxFaults
  BY DEF BackendRefuses, backend, Fault, IInv, Types, TypeOK
<1>4. owner.epoch = 0 => owner = NoOwner
  BY DEF IInv, QueueIsOwn
<1>5. owner' # NoOwner <=> Installed
  BY <1>2, <1>4, NoOwnerFields DEF Installed
<1>6. Types'
  BY <1>2, <1>3, <1>4, <1>5 DEF IInv, Types, TypeOK, Transitions
<1>7. SessionsAreInOrder'
  BY <1>2, <1>3, <1>4, <1>5 DEF IInv, SessionsAreInOrder
<1>8. QueueIsOwn'
  BY <1>2, <1>3, <1>4, <1>5 DEF IInv, QueueIsOwn
<1>9. ShownWasReceived'
  BY <1>2, <1>3, <1>4, <1>5 DEF IInv, ShownWasReceived
<1>10. TransitionsAreQuiet'
  BY <1>2, <1>3, <1>4, <1>5 DEF IInv, TransitionsAreQuiet, Installed
<1>11. WindowIsClosing'
  BY <1>2, <1>3, <1>4, <1>5 DEF IInv, WindowIsClosing
<1>12. CommitsAreFollowed'
  BY <1>2, <1>3, <1>4, <1>5 DEF IInv, CommitsAreFollowed, Installed
<1>13. CommitsAreEarly'
  BY <1>2, <1>3, <1>4, <1>5 DEF IInv, CommitsAreEarly
<1>14. EditsAreKept'
  BY <1>2, <1>3, <1>4, <1>5 DEF IInv, EditsAreKept
<1>15. ClosesWhatWasAsked'
  BY <1>2, <1>3, <1>4, <1>5 DEF IInv, ClosesWhatWasAsked
<1> QED BY <1>6, <1>7, <1>8, <1>9, <1>10, <1>11, <1>12, <1>13, <1>14, <1>15 DEF IInv

\* The backend has a new session: nothing was committed in it yet.
LEMMA NewSessionStep == ASSUME IInv, transition.step = "opening", transition.kind # "close",
  NewSession, opened < MaxEpoch,
        UNCHANGED <<events, madeIn, owner, window, asked>>, faults' \in 0..MaxFaults,
          window # "destroyed" PROVE IInv'
<1> USE LifecycleAssumption DEF Queues, Shows, Stands, SameQueue, SameStand, SameBackend, Goes
<1>1. opened \in Nat /\ opened + 1 \in 1..MaxEpoch /\ owner.epoch <= opened /\ owner.epoch \in Nat
  BY DEF IInv, Types, TypeOK, SessionsAreInOrder, Coordinators
<1>2. /\ opened' = opened + 1 /\ live' = opened + 1 /\ revision' = revision /\ stored' = stored
      /\ Goes("closing", transition.kind, opened + 1, transition.early)
      /\ UNCHANGED <<events, madeIn, owner, window, asked>> /\ faults' \in 0..MaxFaults
  <2>1. /\ opened' = opened + 1 /\ live' = opened + 1 /\ revision' = revision /\ stored' = stored
        /\ transition' = [transition EXCEPT !.step = "closing", !.epoch = opened + 1]
    BY DEF NewSession
  <2>2. transition \in Transitions BY DEF IInv, Types
  <2>3. Goes("closing", transition.kind, opened + 1, transition.early)
    <3>1. transition' = [step |-> "closing", kind |-> transition.kind, epoch |-> opened + 1,
                         early |-> transition.early]
      BY <2>1, <2>2 DEF Transitions
    <3>2. opened + 1 \in 0..MaxEpoch BY <1>1
    <3> QED BY <3>1, <3>2, <2>2 DEF Transitions, Steps
  <2> QED BY <2>1, <2>3
<1>3. revision[opened + 1] = 0 /\ opened + 1 \in Epochs
  BY <1>1 DEF IInv, SessionsAreInOrder, Epochs
<1>4. Types'
  BY <1>2, <1>3, SMTT(30) DEF IInv, Types, TypeOK, Transitions, Epochs
<1>5. SessionsAreInOrder'
  BY <1>1, <1>2, <1>3 DEF IInv, SessionsAreInOrder, Epochs
<1>6. QueueIsOwn'
  BY <1>2, <1>3 DEF IInv, QueueIsOwn
<1>7. ShownWasReceived'
  BY <1>2, <1>3 DEF IInv, ShownWasReceived
<1>8. TransitionsAreQuiet'
  BY <1>1, <1>2, <1>3 DEF IInv, TransitionsAreQuiet, Installed
<1>9. WindowIsClosing'
  BY <1>2, <1>3 DEF IInv, WindowIsClosing
<1>10. CommitsAreFollowed'
  BY <1>2, <1>3 DEF IInv, CommitsAreFollowed, Installed
<1>11. CommitsAreEarly'
  BY <1>2, <1>3 DEF IInv, CommitsAreEarly
<1>12. EditsAreKept'
  BY <1>2, <1>3 DEF IInv, EditsAreKept
<1>13. ClosesWhatWasAsked'
  BY <1>3 DEF IInv, ClosesWhatWasAsked
<1> QED BY <1>4, <1>5, <1>6, <1>7, <1>8, <1>9, <1>10, <1>11, <1>12, <1>13 DEF IInv

\* The backend ends its session for the close of the window, or Save As loses it.
LEMMA CloseBackendStep == ASSUME IInv, transition.step = "opening", transition.kind \in {"close",
  "saveAs"}, live = owner.epoch,
        live' = 0, transition' = [transition EXCEPT !.step = "closing"], faults' \in 0..MaxFaults,
        UNCHANGED <<opened, revision, stored, events, madeIn, owner, window, asked>>, Installed,
          window # "destroyed" PROVE IInv'
<1> USE LifecycleAssumption DEF Queues, Shows, Stands, SameQueue, SameStand, SameBackend, Goes
<1>1. /\ live' = 0 /\ opened' = opened /\ revision' = revision /\ stored' = stored
      /\ Goes("closing", transition.kind, transition.epoch, transition.early)
      /\ UNCHANGED <<events, madeIn, owner, window, asked>> /\ faults' \in 0..MaxFaults
  BY DEF IInv, Types, Transitions, Steps
<1>2. transition.epoch = 0
  BY DEF IInv, TransitionsAreQuiet
<1>3. opened = owner.epoch /\ owner.epoch # 0
  BY InstalledHasEpoch DEF IInv, SessionsAreInOrder
<1>4. Types'
  BY <1>1, <1>3, SMTT(30) DEF IInv, Types, TypeOK, Transitions
<1>5. SessionsAreInOrder'
  BY <1>3 DEF IInv, SessionsAreInOrder
<1>6. QueueIsOwn'
  BY <1>3 DEF IInv, QueueIsOwn
<1>7. ShownWasReceived'
  BY <1>3 DEF IInv, ShownWasReceived
<1>8. TransitionsAreQuiet'
  BY <1>3 DEF IInv, TransitionsAreQuiet, Installed
<1>9. WindowIsClosing'
  BY <1>3 DEF IInv, WindowIsClosing
<1>10. CommitsAreFollowed'
  BY <1>3 DEF IInv, CommitsAreFollowed, Installed
<1>11. CommitsAreEarly'
  BY <1>3 DEF IInv, CommitsAreEarly
<1>12. EditsAreKept'
  BY <1>3 DEF IInv, EditsAreKept
<1>13. ClosesWhatWasAsked'
  BY <1>3 DEF IInv, ClosesWhatWasAsked
<1> QED BY <1>4, <1>5, <1>6, <1>7, <1>8, <1>9, <1>10, <1>11, <1>12, <1>13 DEF IInv

\* The old coordinator is closed, or a store refuses a commit.
LEMMA CloseOwnerStep == ASSUME IInv, CloseOwner, window # "destroyed" PROVE IInv'
<1> USE LifecycleAssumption DEF Queues, Shows, Stands, SameQueue, SameStand, SameBackend, Goes
<1>1. owner \in Coordinators BY DEF IInv, Types, TypeOK
<1>2. PICK c \in {owner, [owner EXCEPT !.projected = owner.received]} :
        /\ Drained(owner, c)
        /\ IF Unprojected(c) # {}
           THEN Release(c)
           ELSE /\ owner' = [c EXCEPT !.closed = Installed]
                /\ transition' = [transition EXCEPT !.step = "installing"]
                /\ UNCHANGED window
  BY DEF CloseOwner
<1>3. /\ SameBackend /\ UNCHANGED <<events, madeIn, asked>> /\ transition.step = "closing"
      /\ faults' \in 0..MaxFaults
  BY <1>2 DEF CloseOwner, backend, Drained, Fault, IInv, Types, TypeOK
<1>4. /\ c \in Coordinators /\ c.epoch = owner.epoch /\ c.queue = owner.queue
      /\ c.sent = owner.sent /\ c.call = owner.call /\ c.committed = owner.committed
      /\ c.received = owner.received /\ c.projected \in {owner.projected, owner.received}
      /\ c.closed = owner.closed /\ c.suspended = owner.suspended
  BY <1>1, <1>2 DEF Coordinators
<1>5. owner = NoOwner => c = NoOwner
  BY <1>2, NoOwnerFields
<1> DEFINE Refused ==
             /\ Goes("idle", "none", 0, {}) /\ transition' = Rest /\ Stands(FALSE, owner.closed)
             /\ window' = IF transition.kind = "close" THEN "open" ELSE window
           Closed == /\ Goes("installing", transition.kind, transition.epoch, transition.early)
                     /\ Stands(owner.suspended, Installed) /\ window' = window
<1>6. /\ SameQueue /\ owner'.received = owner.received
      /\ owner'.projected \in {owner.projected, owner.received}
      /\ Refused \/ Closed
      /\ owner = NoOwner => owner' = NoOwner
  <2>1. CASE Unprojected(c) # {}
    BY <2>1, <1>2, <1>4, <1>5, ReleaseFields
  <2>2. CASE ~(Unprojected(c) # {})
    <3>1. owner' = [c EXCEPT !.closed = Installed] /\ window' = window
          /\ transition' = [transition EXCEPT !.step = "installing"]
      BY <1>2, <2>2
    <3>2. Goes("installing", transition.kind, transition.epoch, transition.early)
      BY <3>1 DEF IInv, Types, Transitions, Steps
    <3>3. Installed \in BOOLEAN BY DEF Installed
    <3>4. /\ SameQueue /\ owner'.received = owner.received
          /\ owner'.projected \in {owner.projected, owner.received}
          /\ Stands(owner.suspended, Installed)
      BY <1>4, <3>1, <3>3 DEF Coordinators
    <3>5. owner = NoOwner => owner' = NoOwner
      <4>1. ASSUME owner = NoOwner PROVE owner' = [NoOwner EXCEPT !.closed = FALSE]
        BY <4>1, <3>1, <1>5 DEF Installed
      <4> QED BY <4>1, NoOwnerFields
    <3> QED BY <3>1, <3>2, <3>4, <3>5
  <2> QED BY <2>1, <2>2
<1>7. /\ Installed <=> owner.epoch # 0
      /\ owner' # NoOwner <=> Installed
  BY <1>6, InstalledHasEpoch, NoOwnerFields DEF IInv, Installed
<1>8. Types'
  BY <1>3, <1>4, <1>5, <1>6, <1>7 DEF IInv, Types, TypeOK, Transitions
<1>9. SessionsAreInOrder'
  BY <1>3, <1>4, <1>5, <1>6, <1>7 DEF IInv, SessionsAreInOrder
<1>10. QueueIsOwn'
  BY <1>3, <1>4, <1>5, <1>6, <1>7 DEF IInv, QueueIsOwn
<1>11. ShownWasReceived'
  BY <1>3, <1>4, <1>5, <1>6, <1>7 DEF IInv, ShownWasReceived
<1>12. TransitionsAreQuiet'
  BY <1>3, <1>4, <1>5, <1>6, <1>7 DEF IInv, TransitionsAreQuiet, Installed
<1>13. WindowIsClosing'
  BY <1>3, <1>4, <1>5, <1>6, <1>7 DEF IInv, WindowIsClosing
<1>14. CommitsAreFollowed'
  BY <1>3, <1>4, <1>5, <1>6, <1>7 DEF IInv, CommitsAreFollowed, Installed, TransitionsAreQuiet
<1>15. CommitsAreEarly'
  BY <1>3, <1>4, <1>5, <1>6, <1>7 DEF IInv, CommitsAreEarly
<1>16. EditsAreKept'
  BY <1>3, <1>4, <1>5, <1>6, <1>7 DEF IInv, EditsAreKept, Installed, TransitionsAreQuiet
<1>17. ClosesWhatWasAsked'
  BY <1>3, <1>4, <1>5, <1>6, <1>7 DEF IInv, ClosesWhatWasAsked
<1> QED BY <1>8, <1>9, <1>10, <1>11, <1>12, <1>13, <1>14, <1>15, <1>16, <1>17 DEF IInv

\* The coordinator of the new session has the early commits; a close leaves none.
LEMMA InstallStep == ASSUME IInv, Install, window # "destroyed" PROVE IInv'
<1> USE LifecycleAssumption DEF Queues, Shows, Stands, SameQueue, SameStand, SameBackend, Goes
<1>1. /\ SameBackend /\ UNCHANGED <<events, madeIn, asked>> /\ transition.step = "installing"
      /\ transition' = Rest /\ Goes("idle", "none", 0, {})
      /\ window' = IF transition.kind = "close" THEN "destroyed" ELSE window
  BY RestFields DEF Install, backend
<1>2. live = transition.epoch /\ owner.queue = {}
  BY <1>1 DEF IInv, TransitionsAreQuiet
<1> DEFINE None == transition.epoch = 0 /\ owner' = NoOwner /\ faults' = faults
           New == /\ transition.epoch \in Epochs /\ transition.epoch # 0
                  /\ Queues(transition.epoch, {}, {}, "none", 0) /\ Stands(FALSE, FALSE)
                  /\ owner'.received = Fresh /\ owner'.projected \in {{}, Fresh}
                  /\ Fresh \subseteq Revisions
                  /\ faults' \in 0..MaxFaults
<1>3. None \/ New
  <2>1. CASE transition.epoch = 0
    BY <2>1 DEF Install
  <2>2. CASE transition.epoch # 0
    <3> DEFINE new == [Coordinator(transition.epoch) EXCEPT !.received = @ \cup Fresh]
    <3>1. transition.epoch \in Epochs /\ Fresh \subseteq Revisions
      BY <2>2 DEF IInv, Types, Transitions, Epochs, Fresh, Events
    <3>2. /\ new \in Coordinators /\ new.epoch = transition.epoch /\ new.queue = {}
          /\ new.sent = {} /\ new.call = "none" /\ new.committed = 0
          /\ new.received = Fresh /\ new.projected = {}
          /\ new.suspended = FALSE /\ new.closed = FALSE
      <4> DEFINE base == Coordinator(transition.epoch)
      <4>1. base \in Coordinators
        BY <3>1 DEF Coordinator, Coordinators, Epochs
      <4>2. /\ base.epoch = transition.epoch /\ base.queue = {} /\ base.sent = {}
            /\ base.call = "none" /\ base.committed = 0 /\ base.received = {}
            /\ base.projected = {} /\ base.suspended = FALSE /\ base.closed = FALSE
        BY DEF Coordinator
      <4>3. new = [base EXCEPT !.received = @ \cup Fresh] OBVIOUS
      <4> HIDE DEF base, new
      <4> QED BY <3>1, <4>1, <4>2, <4>3 DEF Coordinators
    <3>3. PICK c \in {new, [new EXCEPT !.projected = new.received]} :
             Drained(new, c) /\ owner' = c
      BY <2>2 DEF Install
    <3>4. faults' \in 0..MaxFaults
      BY <3>3 DEF Drained, Fault, IInv, Types, TypeOK
    <3> HIDE DEF new
    <3> QED BY <3>1, <3>2, <3>3, <3>4, <2>2 DEF Coordinators
  <2> QED BY <2>1, <2>2
<1>4. \A x \in Fresh : /\ [epoch |-> transition.epoch, revision |-> x] \in transition.early
                      /\ x <= revision[transition.epoch]
  <2>1. ASSUME NEW x \in Fresh
        PROVE  [epoch |-> transition.epoch, revision |-> x] \in transition.early
    <3>1. PICK f \in transition.early : f.epoch = transition.epoch /\ x = f.revision
      BY DEF Fresh
    <3>2. f = [epoch |-> f.epoch, revision |-> f.revision]
      BY DEF IInv, Types, Transitions, Events
    <3> QED BY <3>1, <3>2
  <2> QED BY <2>1 DEF IInv, SessionsAreInOrder
<1>5. \A x : [epoch |-> transition.epoch, revision |-> x] \in transition.early => x \in Fresh
  BY DEF Fresh
<1>6. New => owner' # NoOwner
  BY NoOwnerFields
<1>7. transition.epoch = 0 => owner'.epoch = 0 /\ owner' = NoOwner
  BY <1>3, NoOwnerFields
<1>8. opened \in 0..MaxEpoch /\ live <= opened
  BY DEF IInv, Types, TypeOK, SessionsAreInOrder
<1>9. Types'
  <2>1. TypeOK' /\ transition' \in Transitions
    BY <1>1, <1>3, NoOwnerFields DEF IInv, Types, TypeOK, Transitions
  <2> QED BY <2>1, <1>1 DEF IInv, Types
<1>10. SessionsAreInOrder'
  <2>1. owner'.epoch <= opened
    BY <1>2, <1>3, <1>8, NoOwnerFields
  <2> QED BY <2>1, <1>1 DEF IInv, SessionsAreInOrder
<1>11. QueueIsOwn'
  BY <1>3, NoOwnerFields DEF QueueIsOwn
<1>12. ShownWasReceived'
  BY <1>1, <1>3, <1>4, NoOwnerFields DEF ShownWasReceived
<1>13. TransitionsAreQuiet'
  BY <1>1, <1>3, NoOwnerFields DEF TransitionsAreQuiet
<1>14. WindowIsClosing'
  BY <1>1, <1>3, <1>4, <1>5, <1>6, <1>7, <1>8 DEF IInv, WindowIsClosing
<1>15. CommitsAreFollowed'
  <2>1. CASE None BY <2>1 DEF CommitsAreFollowed, Installed
  <2>2. CASE New
    <3>1. \A x \in 1..revision[live] :
             [epoch |-> live, revision |-> x] \in events \cup transition.early
      BY <2>2, <1>1, <1>2 DEF IInv, CommitsAreEarly
    <3> QED BY <2>2, <3>1, <1>1, <1>2, <1>5 DEF CommitsAreFollowed
  <2> QED BY <2>1, <2>2, <1>3
<1>16. CommitsAreEarly'
  BY <1>1, <1>3, <1>4, <1>5, <1>6, <1>7, <1>8 DEF IInv, CommitsAreEarly
<1>17. EditsAreKept'
  BY <1>1, <1>2 DEF IInv, EditsAreKept
<1>18. ClosesWhatWasAsked'
  BY <1>1, <1>3, <1>4, <1>5, <1>6, <1>7, <1>8 DEF IInv, ClosesWhatWasAsked, WindowIsClosing
<1> QED BY <1>9, <1>10, <1>11, <1>12, <1>13, <1>14, <1>15, <1>16, <1>17, <1>18 DEF IInv

\* The window is asked to close the project that is open.
LEMMA RequestCloseStep == ASSUME IInv, RequestClose, window # "destroyed" PROVE IInv'
<1> USE LifecycleAssumption DEF Queues, Shows, Stands, SameQueue, SameStand, SameBackend, Goes
<1>1. /\ SameBackend /\ UNCHANGED <<events, madeIn, owner, transition, faults>>
      /\ window = "open" /\ asked' = owner.epoch
      /\ window' = IF Installed THEN "effects" ELSE "destroyed"
  BY DEF RequestClose, backend
<1>2. Installed <=> owner.epoch # 0
  BY InstalledHasEpoch DEF IInv
<1>3. owner.epoch \in 0..MaxEpoch
  BY DEF IInv, Types, TypeOK, Coordinators
<1>4. Types'
  BY <1>1, <1>3 DEF IInv, Types, TypeOK, Transitions
<1>5. SessionsAreInOrder'
  BY <1>1, <1>3 DEF IInv, SessionsAreInOrder
<1>6. QueueIsOwn'
  BY <1>1, <1>3 DEF IInv, QueueIsOwn
<1>7. ShownWasReceived'
  BY <1>1, <1>3 DEF IInv, ShownWasReceived
<1>8. TransitionsAreQuiet'
  BY <1>1, <1>3 DEF IInv, TransitionsAreQuiet, Installed
<1>9. WindowIsClosing'
  BY <1>1, <1>3 DEF IInv, WindowIsClosing
<1>10. CommitsAreFollowed'
  BY <1>1, <1>3 DEF IInv, CommitsAreFollowed, Installed
<1>11. CommitsAreEarly'
  BY <1>1, <1>3 DEF IInv, CommitsAreEarly
<1>12. EditsAreKept'
  BY <1>1, <1>3 DEF IInv, EditsAreKept
<1>13. ClosesWhatWasAsked'
  BY <1>1, <1>2, <1>3 DEF IInv, ClosesWhatWasAsked
<1> QED BY <1>4, <1>5, <1>6, <1>7, <1>8, <1>9, <1>10, <1>11, <1>12, <1>13 DEF IInv

\* The project is closed, if it is still the one and nothing is in the way.
LEMMA EffectsFlushedStep == ASSUME IInv, EffectsFlushed, window # "destroyed" PROVE IInv'
<1> USE LifecycleAssumption DEF Queues, Shows, Stands, SameQueue, SameStand, SameBackend, Goes
<1>1. owner \in Coordinators BY DEF IInv, Types, TypeOK
<1>2. SameBackend /\ UNCHANGED <<events, madeIn, asked>> /\ window = "effects"
  BY DEF EffectsFlushed, backend
<1> DEFINE Refused == window' = "open" /\ UNCHANGED <<owner, transition, faults>>
           Begins ==
             /\ Goes("flushing", "close", 0, {}) /\ SameQueue /\ owner'.closed = owner.closed
             /\ owner'.received = owner.received
             /\ owner'.projected \in {owner.projected, owner.received}
             /\ owner'.suspended /\ window' = "closing"
             /\ owner.epoch = asked /\ Installed
             /\ transition.step = "idle" /\ transition.early = {}
<1>3. faults' \in 0..MaxFaults /\ (Refused \/ Begins \/ (window' = "open" /\ owner' = owner /\ transition' = transition))
  <2>1. CASE OwnerChanged \/ transition # Rest
    BY <2>1 DEF EffectsFlushed, IInv, Types, TypeOK
  <2>2. CASE ~(OwnerChanged \/ transition # Rest)
    <3>1. Begin("close") /\ window' = IF transition' = Rest THEN "open" ELSE "closing"
      BY <2>2 DEF EffectsFlushed
    <3>2. Installed /\ owner.epoch = asked /\ transition = Rest
      BY <2>2 DEF OwnerChanged
    <3> QED BY <3>1, <3>2, BeginFields, RestFields DEF IInv, Kinds
  <2> QED BY <2>1, <2>2
<1>4. transition.kind # "close"
  BY <1>2 DEF IInv, WindowIsClosing
<1>5. Installed <=> owner.epoch # 0
  BY InstalledHasEpoch DEF IInv
<1>6. Begins => owner' # NoOwner
  BY <1>5, NoOwnerFields
<1>7. Types'
  BY <1>2, <1>3, <1>4, <1>5, <1>6 DEF IInv, Types, TypeOK, Transitions
<1>8. SessionsAreInOrder'
  BY <1>2, <1>3, <1>4, <1>5, <1>6 DEF IInv, SessionsAreInOrder
<1>9. QueueIsOwn'
  BY <1>2, <1>3, <1>4, <1>5, <1>6 DEF IInv, QueueIsOwn
<1>10. ShownWasReceived'
  BY <1>2, <1>3, <1>4, <1>5, <1>6 DEF IInv, ShownWasReceived
<1>11. TransitionsAreQuiet'
  BY <1>2, <1>3, <1>4, <1>5, <1>6 DEF IInv, TransitionsAreQuiet, Installed
<1>12. WindowIsClosing'
  BY <1>2, <1>3, <1>4, <1>5, <1>6 DEF IInv, WindowIsClosing
<1>13. CommitsAreFollowed'
  BY <1>2, <1>3, <1>4, <1>5, <1>6 DEF IInv, CommitsAreFollowed, Installed
<1>14. CommitsAreEarly'
  BY <1>2, <1>3, <1>4, <1>5, <1>6 DEF IInv, CommitsAreEarly
<1>15. EditsAreKept'
  BY <1>2, <1>3, <1>4, <1>5, <1>6 DEF IInv, EditsAreKept
<1>16. ClosesWhatWasAsked'
  BY <1>3, <1>4, <1>5, <1>6 DEF IInv, ClosesWhatWasAsked
<1> QED BY <1>7, <1>8, <1>9, <1>10, <1>11, <1>12, <1>13, <1>14, <1>15, <1>16 DEF IInv

-----------------------------------------------------------------------------
\* Every step preserves the invariant.
LEMMA Inductive == ASSUME IInv, [Next]_vars PROVE IInv'
<1>1. CASE UNCHANGED vars
  BY <1>1, StutterKeeps
<1>2. CASE Next
  <2>1. window # "destroyed" BY <1>2 DEF Next
  <2>2. CASE Edit BY <2>1, <2>2, EditStep
  <2>3. CASE CoordinatorStep
    BY <2>1, <2>3, SendStep, CommitOwnStep, CallFailsStep, AcceptStep DEF CoordinatorStep
  <2>4. CASE CommitExternal BY <2>1, <2>4, CommitExternalStep
  <2>5. ASSUME NEW e \in events, Deliver(e) PROVE IInv'
    BY <2>1, <2>5, DeliverStep
  <2>6. ASSUME NEW k \in {"replace", "saveAs"}, BeginReplace(k) PROVE IInv'
    BY <2>1, <2>6, BeginReplaceStep
  <2>7. CASE TransitionStep
    <3>1. CASE Apply BY <2>1, <3>1, ApplyStep
    <3>2. CASE FlushFails BY <2>1, <3>2, FlushFailsStep
    <3>3. CASE OpenSucceeds
      <4>1. opened < MaxEpoch /\ faults' \in 0..MaxFaults
        BY <3>3 DEF OpenSucceeds, IInv, Types, TypeOK
      <4> QED BY <2>1, <3>3, <4>1, NewSessionStep DEF OpenSucceeds
    <3>4. CASE SaveAsLosesSession
      <4>1. opened < MaxEpoch /\ faults' \in 0..MaxFaults /\ owner.epoch # 0
        BY <3>4, InstalledHasEpoch, LifecycleAssumption
           DEF SaveAsLosesSession, Fault, IInv, Types, TypeOK, TransitionsAreQuiet
      <4>2. CASE NewSession
        BY <2>1, <3>4, <4>1, <4>2, NewSessionStep DEF SaveAsLosesSession
      <4>3. CASE ~NewSession
        BY <2>1, <3>4, <4>1, <4>3, CloseBackendStep, InstalledHasEpoch DEF SaveAsLosesSession,
          IInv
      <4> QED BY <4>2, <4>3
    <3>5. CASE CloseBackend
      <4>1. Installed /\ faults' \in 0..MaxFaults
        BY <3>5, InstalledHasEpoch DEF CloseBackend, IInv, Types, TypeOK, WindowIsClosing
      <4> QED BY <2>1, <3>5, <4>1, CloseBackendStep DEF CloseBackend
    <3>6. CASE BackendRefuses BY <2>1, <3>6, BackendRefusesStep
    <3>7. CASE CloseOwner BY <2>1, <3>7, CloseOwnerStep
    <3>8. CASE Install BY <2>1, <3>8, InstallStep
    <3> QED BY <2>7, <3>1, <3>2, <3>3, <3>4, <3>5, <3>6, <3>7, <3>8 DEF TransitionStep
  <2>8. CASE RequestClose BY <2>1, <2>8, RequestCloseStep
  <2>9. CASE EffectsFlushed BY <2>1, <2>9, EffectsFlushedStep
  <2> QED BY <1>2, <2>2, <2>3, <2>4, <2>5, <2>6, <2>7, <2>8, <2>9 DEF Next
<1> QED BY <1>1, <1>2

\* Initially there is no session, no coordinator and no edit.
LEMMA Initially == ASSUME Init PROVE IInv
<1> USE LifecycleAssumption DEF Init
<1>1. madeIn = [x \in {} |-> 0] /\ DOMAIN madeIn = {} /\ DOMAIN madeIn = 1..0
  OBVIOUS
<1>2. \A e \in Epochs : revision[e] = 0 /\ stored[e] = {} /\ Cardinality(stored[e]) = 0
  BY FS_EmptySet
<1>3. Types
  <2>1. TypeOK /\ transition \in Transitions
    BY <1>1, NoOwnerFields, RestFields DEF TypeOK, Revisions, Epochs, Edits
  <2>2. \A e \in Epochs : /\ stored[e] \subseteq DOMAIN madeIn
                          /\ revision[e] <= MaxCommits + Cardinality(stored[e])
    BY <1>2
  <2>3. \E n \in 0..MaxEdits : DOMAIN madeIn = 1..n
    BY <1>1
  <2> QED BY <2>1, <2>2, <2>3, <1>1, RestFields DEF Types
<1>4. SessionsAreInOrder
  BY <1>2, NoOwnerFields, RestFields DEF SessionsAreInOrder
<1>5. QueueIsOwn /\ ShownWasReceived
  BY NoOwnerFields DEF QueueIsOwn, ShownWasReceived
<1>6. TransitionsAreQuiet /\ WindowIsClosing
  BY NoOwnerFields, RestFields DEF TransitionsAreQuiet, WindowIsClosing, Installed
<1>7. CommitsAreFollowed /\ CommitsAreEarly
  BY RestFields DEF CommitsAreFollowed, CommitsAreEarly, Installed
<1>8. EditsAreKept /\ ClosesWhatWasAsked
  BY <1>1 DEF EditsAreKept, ClosesWhatWasAsked
<1> QED BY <1>3, <1>4, <1>5, <1>6, <1>7, <1>8 DEF IInv

\* The invariant holds in every reachable state: the types of the variables, and
\* what each step of the backend, the coordinator and the window relies on.
THEOREM InductiveInvariant == Spec => []IInv
<1>1. Init => IInv BY Initially
<1>2. IInv /\ [Next]_vars => IInv' BY Inductive
<1> QED BY <1>1, <1>2, PTL DEF Spec

\* The types of the variables; in particular a revision is the commit of another
\* client or of an edit of the user.
THEOREM TypeCorrectness == Spec => []TypeOK
<1>1. IInv => TypeOK BY DEF IInv, Types
<1> QED BY <1>1, InductiveInvariant, PTL

\* No switch, no Save As and no close of the window drops an edit of the user: it
\* is in the file of its project or waits in its installed coordinator.
THEOREM NoEditIsDropped == Spec => []EditsAreKept
<1>1. IInv => EditsAreKept BY DEF IInv
<1> QED BY <1>1, InductiveInvariant, PTL

\* A frontend at rest shows every commit of its session, those made while the
\* session was being opened and installed included.
THEOREM NoCommitIsMissed == Spec => []CommitsArrive
<1>1. IInv => CommitsArrive
  <2> SUFFICES ASSUME IInv, transition = Rest, Installed, live = owner.epoch,
                      owner.call # "committed", Unprojected(owner) = {},
                      ~ \E e \in events : e.epoch = live
               PROVE  owner.projected = 1..revision[live]
    BY DEF CommitsArrive
  <2>1. owner.projected = owner.received
    BY DEF IInv, ShownWasReceived, Unprojected
  <2>2. \A r \in 1..revision[live] : [epoch |-> live, revision |-> r] \notin events
    OBVIOUS
  <2>3. 1..revision[live] \subseteq owner.received
    BY <2>2 DEF IInv, CommitsAreFollowed
  <2>4. live \in Epochs
    BY InstalledHasEpoch DEF IInv, Types, TypeOK, Epochs
  <2>5. \A r \in owner.received : r \in 1..revision[live]
    BY <2>4 DEF IInv, ShownWasReceived, Types, TypeOK, Coordinators, Revisions
  <2> QED BY <2>1, <2>3, <2>5
<1> QED BY <1>1, InductiveInvariant, PTL

\* A window that was asked to close with one project open never closes another
\* one that replaced it while the effects were flushed.
THEOREM AskedIsClosed == Spec => []ClosesWhatWasAsked
<1>1. IInv => ClosesWhatWasAsked BY DEF IInv
<1> QED BY <1>1, InductiveInvariant, PTL

=============================================================================
