-------------------------- MODULE TabulateSessions --------------------------
(***************************************************************************)
(* TabulateSessionService: member indexes of a cross table, prepared by a  *)
(* worker thread on a connection of their own, leased to clients, queried, *)
(* cancelled, evicted for quota, bytes or idleness, and revoked when the   *)
(* dataset changes or the project closes.                                  *)
(*                                                                         *)
(* One dataset; its generation grows.  Session ids are never used again.   *)
(* Clocks are left out: any evictable session may be the idle or the least *)
(* recently used one.  A step is a critical section of the registry, of    *)
(* active_requests or of an entry's engine mutex, or one SQL statement.    *)
(***************************************************************************)
EXTENDS Integers, FiniteSets, FiniteSetsExt

CONSTANTS Sessions,     \* ids, in the order of their creation: 1..N
          Callers,      \* threads of the frontend's commands
          Definitions,  \* definitions of a cross table ...
          Size,         \* ... and the bytes of their member indexes
          MaxSessions, MaxBytes,
          MaxGeneration, MaxQueries, MaxLeases,  \* bounds of the model
          LeaseHandles  \* may acquire_lease be called?  Only tests do.

\* What the constants must be; the module that instantiates this one assumes it.
TabulateAssumption ==
    /\ Size \in [Definitions -> Nat] /\ LeaseHandles \in BOOLEAN
    /\ {MaxSessions, MaxBytes, MaxGeneration, MaxQueries, MaxLeases}
          \subseteq Nat

VARIABLES generation,  \* of the dataset
          entry,       \* Sessions -> TabulateSessionEntry and SessionRecord
          signature,   \* <<definition, generation>> -> its session, or 0
          measured,    \* measured_bytes
          closed,      \* "open", "closing", "closed"
          gate,        \* holder of prepare_gate, or 0
          preparation, \* holder of the preparation mutex, or 0
          worker,      \* Sessions -> where its worker thread is
          call,        \* Callers -> what it is doing
          todo,        \* thread -> entries it still has to clean up
          created, queries,
          stray        \* did an interrupt ever hit someone else's statement?
vars == <<generation, entry, signature, measured, closed, gate, preparation,
          worker, call, todo, created, queries, stray>>

Fresh == [def |-> CHOOSE d \in Definitions : TRUE, gen |-> 0,
          registered |-> FALSE, released |-> FALSE, state |-> "none",
          leases |-> 0, queries |-> 0, charged |-> 0, built |-> -1,
          engine |-> 0, held |-> 0, handles |-> 0]
Rest == [pc |-> "idle", session |-> 0, def |-> CHOOSE d \in Definitions : TRUE,
         fresh |-> FALSE, cancelled |-> FALSE, got |-> -1, ok |-> FALSE]
Registered == {s \in Sessions : entry[s].registered}
Fingerprint(s) == <<entry[s].def, entry[s].gen>>
Evictable(s) == /\ entry[s].registered /\ entry[s].state # "Preparing"
                /\ entry[s].leases = 0 /\ entry[s].queries = 0
Charged(S) == MapThenSumSet(LAMBDA s : entry[s].charged, S)

Init ==
    /\ generation = 0
    /\ entry = [s \in Sessions |-> Fresh]
    /\ signature = [f \in Definitions \X (0..MaxGeneration) |-> 0]
    /\ measured = 0 /\ closed = "open" /\ gate = 0 /\ preparation = 0
    /\ worker = [s \in Sessions |-> "none"]
    /\ call = [c \in Callers |-> Rest]
    /\ todo = [t \in Callers \cup Sessions |-> {}]
    /\ created = 0 /\ queries = 0 /\ stray = FALSE

\* The dataset is changed by some other command.
Mutate ==
    /\ generation < MaxGeneration /\ generation' = generation + 1
    /\ UNCHANGED <<entry, signature, measured, closed, gate, preparation,
                   worker, call, todo, created, queries, stray>>

-----------------------------------------------------------------------------
(* Removal from the registry, and the clean-up that follows it.            *)

\* Mark released, interrupt the connection, forget record and signature.
Removed(e, V) ==
    [s \in Sessions |-> IF s \in V
        THEN [e[s] EXCEPT !.registered = FALSE, !.released = TRUE] ELSE e[s]]
Forgotten(V) ==
    [f \in DOMAIN signature |->
        IF signature[f] \in V THEN 0 ELSE signature[f]]

\* Only registered sessions are removed; the thread cleans them up.
Remove(t, V) ==
    /\ entry' = Removed(entry, V) /\ signature' = Forgotten(V)
    /\ todo' = [todo EXCEPT ![t] = @ \cup V]

\* cleanup: the charge is given back at once ...
CleanupBytes(t, s) ==
    /\ s \in todo[t] /\ entry[s].charged > 0
    /\ measured' = measured - entry[s].charged
    /\ entry' = [entry EXCEPT ![s].charged = 0]
    /\ UNCHANGED <<generation, signature, closed, gate, preparation, worker,
                   call, todo, created, queries, stray>>

\* ... and the tables are dropped when the engine is free.
CleanupTables(t, s) ==
    /\ s \in todo[t] /\ entry[s].charged = 0 /\ entry[s].engine = 0
    /\ entry' = [entry EXCEPT ![s].built = -1]
    /\ todo' = [todo EXCEPT ![t] = @ \ {s}]
    /\ UNCHANGED <<generation, signature, measured, closed, gate, preparation,
                   worker, call, created, queries, stray>>

\* sweep, at the start of prepare and status.
Sweep(c) ==
    /\ call[c].pc = "idle" /\ todo[c] = {}
    /\ \E s \in Sessions : Evictable(s) /\ Remove(c, {s})
    /\ UNCHANGED <<generation, measured, closed, gate, preparation, worker,
                   call, created, queries, stray>>

\* release: the last lease takes the session with it.
Release(c, s) ==
    /\ call[c].pc = "idle" /\ todo[c] = {} /\ entry[s].held > 0
    /\ IF entry[s].registered /\ entry[s].leases > 1
       THEN /\ entry' = [entry EXCEPT ![s].leases = @ - 1, ![s].held = @ - 1]
            /\ UNCHANGED <<signature, todo>>
       ELSE LET V == {s} \cap Registered IN
            /\ entry' = [Removed(entry, V) EXCEPT ![s].held = @ - 1]
            /\ signature' = Forgotten(V)
            /\ todo' = [todo EXCEPT ![c] = V]
    /\ UNCHANGED <<generation, measured, closed, gate, preparation, worker,
                   call, created, queries, stray>>

\* acquire_lease hands out a lease that drops itself; a session prepared and
\* released while such a handle lives is left to eviction.
AcquireLease(c, s) ==
    /\ LeaseHandles /\ call[c].pc = "idle" /\ todo[c] = {}
    /\ entry[s].registered /\ entry[s].handles = 0
    /\ IF entry[s].gen # generation THEN Remove(c, {s})
       ELSE /\ entry' = [entry EXCEPT ![s].leases = @ + 1, ![s].handles = 1]
            /\ UNCHANGED <<signature, todo>>
    /\ UNCHANGED <<generation, measured, closed, gate, preparation, worker,
                   call, created, queries, stray>>

DropLease(s) ==
    /\ entry[s].handles = 1
    /\ entry' = [entry EXCEPT ![s].handles = 0,
                     ![s].leases = IF entry[s].registered /\ @ > 0
                                   THEN @ - 1 ELSE @]
    /\ UNCHANGED <<generation, signature, measured, closed, gate, preparation,
                   worker, call, todo, created, queries, stray>>

-----------------------------------------------------------------------------
(* prepare.                                                                *)

\* begin_prepare, first half: sessions of older generations are revoked.
Prepare(c, d) ==
    /\ call[c].pc = "idle" /\ todo[c] = {} /\ gate = 0 /\ closed = "open"
    /\ \A s \in Sessions : entry[s].held < MaxLeases
    /\ gate' = c
    /\ call' = [call EXCEPT ![c] = [Rest EXCEPT !.pc = "begin", !.def = d,
                                                !.got = generation]]
    /\ Remove(c, {s \in Registered : entry[s].gen # generation})
    /\ UNCHANGED <<generation, measured, closed, preparation, worker, created,
                   queries, stray>>

QuotaLeft == Cardinality(Registered) < MaxSessions
Usable(s) == s # 0 /\ entry[s].state \in {"Preparing", "Ready"}

\* Second half: join a session with the same fingerprint, or make room for a
\* new one among the sessions nobody uses.
BeginPrepare(c) ==
    LET d == call[c].def
        same == signature[<<d, generation>>]
        s == created + 1
        victims == IF QuotaLeft THEN {{}}
                   ELSE {{v} : v \in {r \in Sessions : Evictable(r)}} IN
    /\ call[c].pc = "begin" /\ todo[c] = {} /\ s \in Sessions
    /\ IF call[c].got # generation \/ (victims = {} /\ ~Usable(same))
       THEN /\ call' = [call EXCEPT ![c] = Rest] /\ gate' = 0
            /\ UNCHANGED <<entry, signature, todo, created>>
       ELSE IF Usable(same)
       THEN /\ call' = [call EXCEPT ![c].pc = "lease", ![c].session = same]
            /\ UNCHANGED <<entry, signature, todo, created, gate>>
       ELSE \E V \in victims :
            /\ entry' = [Removed(entry, V) EXCEPT ![s] =
                  [Fresh EXCEPT !.def = d, !.gen = generation,
                                !.registered = TRUE, !.state = "Preparing"]]
            /\ signature' = [Forgotten(V) EXCEPT ![<<d, generation>>] = s]
            /\ todo' = [todo EXCEPT ![c] = V]
            /\ created' = s
            /\ call' = [call EXCEPT ![c].pc = "lease", ![c].session = s,
                                    ![c].fresh = TRUE]
            /\ UNCHANGED gate
    /\ UNCHANGED <<generation, measured, closed, preparation, worker, queries,
                   stray>>

\* prepare: the lease, status (which revokes a stale session), the worker.
TakeLease(c) ==
    LET s == call[c].session IN
    /\ call[c].pc = "lease" /\ todo[c] = {}
    /\ call' = [call EXCEPT ![c] = Rest] /\ gate' = 0
    /\ \/ /\ entry[s].registered /\ entry[s].gen = generation
          /\ entry' = [entry EXCEPT ![s].leases = @ + 1, ![s].held = @ + 1]
          /\ worker' = IF call[c].fresh
                       THEN [worker EXCEPT ![s] = "start"] ELSE worker
          /\ UNCHANGED <<signature, todo>>
       \/ /\ entry[s].registered /\ entry[s].gen # generation
          /\ Remove(c, {s}) /\ UNCHANGED worker
       \/ /\ ~entry[s].registered
          /\ UNCHANGED <<entry, signature, todo, worker>>
    /\ UNCHANGED <<generation, measured, closed, preparation, created, queries,
                   stray>>

-----------------------------------------------------------------------------
(* complete_prepare, on the worker thread of session s.                    *)

Goto(s, pc) == worker' = [worker EXCEPT ![s] = pc]

PreparationFree == preparation = 0

\* One worker at a time measures, is admitted and builds.
Measure(s) ==
    /\ worker[s] = "start" /\ PreparationFree /\ entry[s].engine = 0
    /\ preparation' = s
    /\ Goto(s, IF entry[s].released THEN "failing" ELSE "admit")
    /\ UNCHANGED <<generation, entry, signature, measured, closed, gate, call,
                   todo, created, queries, stray>>

\* admit_bytes: evict, least recently used first, until the bytes fit.
AdmitBytes(s) ==
    LET bytes == Size[entry[s].def]
        available == IF measured > MaxBytes THEN 0 ELSE MaxBytes - measured
        others == {r \in Sessions \ {s} : Evictable(r)}
        enough(V) == bytes <= available + Charged(V)
        choices == {V \in SUBSET others :
                      enough(V) /\ (V = {} \/ \E v \in V : ~enough(V \ {v}))} IN
    /\ worker[s] = "admit"
    /\ IF entry[s].released \/ bytes > MaxBytes \/ choices = {}
       THEN Goto(s, "failing") /\ UNCHANGED <<entry, signature, todo>>
       ELSE Goto(s, "charge") /\ \E V \in choices : Remove(s, V)
    /\ UNCHANGED <<generation, measured, closed, gate, preparation, call,
                   created, queries, stray>>

\* The victims are cleaned up; under the registry lock, charge the session.
Charge(s) ==
    /\ worker[s] = "charge" /\ todo[s] = {}
    /\ IF entry[s].released
       THEN Goto(s, "failing") /\ UNCHANGED <<measured, entry>>
       ELSE /\ measured' = measured + Size[entry[s].def]
            /\ entry' = [entry EXCEPT ![s].charged = Size[entry[s].def]]
            /\ Goto(s, "lock")
    /\ UNCHANGED <<generation, signature, closed, gate, preparation, call,
                   todo, created, queries, stray>>

LockEngine(s) ==
    /\ worker[s] = "lock" /\ entry[s].engine = 0
    /\ IF entry[s].released THEN Goto(s, "failing") /\ UNCHANGED entry
       ELSE Goto(s, "build") /\ entry' = [entry EXCEPT ![s].engine = s]
    /\ UNCHANGED <<generation, signature, measured, closed, gate, preparation,
                   call, todo, created, queries, stray>>

\* prepare_tabulate_member_indexes; it may be interrupted, or fail.
BuildIndexes(s) ==
    /\ worker[s] = "build"
    /\ preparation' = 0
    /\ \/ /\ entry' = [entry EXCEPT ![s].engine = 0, ![s].built = generation]
          /\ Goto(s, "built")
       \/ /\ entry' = [entry EXCEPT ![s].engine = 0] /\ Goto(s, "failing")
    /\ UNCHANGED <<generation, signature, measured, closed, gate, call, todo,
                   created, queries, stray>>

\* The source still has the generation the session was asked for.
SourceUnchanged(s) == closed # "closed" /\ generation = entry[s].gen

\* publish_preparation of a success.
PublishReady(s) ==
    /\ worker[s] = "built"
    /\ IF ~SourceUnchanged(s)
       THEN Goto(s, "failing") /\ UNCHANGED <<entry, todo>>
       ELSE IF entry[s].registered
       THEN /\ entry' = [entry EXCEPT ![s].state = "Ready"]
            /\ Goto(s, "done") /\ UNCHANGED todo
       ELSE /\ todo' = [todo EXCEPT ![s] = {s}]
            /\ Goto(s, "done") /\ UNCHANGED entry
    /\ UNCHANGED <<generation, signature, measured, closed, gate, preparation,
                   call, created, queries, stray>>

\* publish_preparation of an error cleans up, then records it.
FailPreparation(s) ==
    /\ worker[s] = "failing"
    /\ preparation' = IF preparation = s THEN 0 ELSE preparation
    /\ todo' = [todo EXCEPT ![s] = {s}]
    /\ Goto(s, "failed")
    /\ UNCHANGED <<generation, entry, signature, measured, closed, gate, call,
                   created, queries, stray>>

PublishFailed(s) ==
    /\ worker[s] = "failed" /\ todo[s] = {}
    /\ entry' = IF entry[s].registered
                THEN [entry EXCEPT ![s].state = "Failed"] ELSE entry
    /\ Goto(s, "done")
    /\ UNCHANGED <<generation, signature, measured, closed, gate, preparation,
                   call, todo, created, queries, stray>>

-----------------------------------------------------------------------------
(* execute_query: windows and totals.                                      *)

At(c, pc) == call' = [call EXCEPT ![c].pc = pc]

\* begin_query, with status's revocation of a stale session.
BeginQuery(c, s) ==
    /\ call[c].pc = "idle" /\ todo[c] = {} /\ entry[s].registered
    /\ queries < MaxQueries /\ queries' = queries + 1
    /\ \/ /\ entry[s].gen # generation /\ Remove(c, {s}) /\ UNCHANGED call
       \/ /\ entry[s].gen = generation /\ entry[s].state = "Ready"
          /\ entry' = [entry EXCEPT ![s].queries = @ + 1]
          /\ call' = [call EXCEPT ![c] = [Rest EXCEPT !.pc = "queued",
                                                      !.session = s]]
          /\ UNCHANGED <<signature, todo>>
    /\ UNCHANGED <<generation, measured, closed, gate, preparation, worker,
                   created, stray>>

\* validate_window_identity.
IdentityHolds(s) == /\ entry[s].registered /\ ~entry[s].released
                    /\ signature[Fingerprint(s)] = s

\* The engine is ours; a request cancelled in the queue never runs.
StartQuery(c) ==
    LET s == call[c].session IN
    /\ call[c].pc = "queued" /\ entry[s].engine = 0
    /\ entry' = [entry EXCEPT ![s].engine = c]
    /\ At(c, IF ~call[c].cancelled /\ IdentityHolds(s)
             THEN "running" ELSE "ran")
    /\ UNCHANGED <<generation, signature, measured, closed, gate, preparation,
                   worker, todo, created, queries, stray>>

\* The statement reads one snapshot of the dataset.
RunQuery(c) ==
    /\ call[c].pc = "running"
    /\ call' = [call EXCEPT ![c].pc = "read", ![c].got = generation]
    /\ UNCHANGED <<generation, entry, signature, measured, closed, gate,
                   preparation, worker, todo, created, queries, stray>>

\* Mutant: identity is enough, the generation is not compared again.
VerifyQueryIdentity(c) ==
    LET s == call[c].session IN
    /\ call[c].pc = "read"
    /\ call' = [call EXCEPT ![c].pc = "ran", ![c].ok = IdentityHolds(s)]
    /\ UNCHANGED <<generation, entry, signature, measured, closed, gate,
                   preparation, worker, todo, created, queries, stray>>

VerifyQuery(c) ==
    LET s == call[c].session IN
    /\ call[c].pc = "read"
    /\ call' = [call EXCEPT ![c].pc = "ran",
                   ![c].ok = IdentityHolds(s) /\ generation = entry[s].gen]
    /\ UNCHANGED <<generation, entry, signature, measured, closed, gate,
                   preparation, worker, todo, created, queries, stray>>

\* active_requests: the request is removed, and only then the engine freed.
FinishQuery(c) ==
    /\ call[c].pc = "ran"
    /\ call' = [call EXCEPT ![c].pc = "answer",
                            ![c].ok = @ /\ ~call[c].cancelled]
    /\ UNCHANGED <<generation, entry, signature, measured, closed, gate,
                   preparation, worker, todo, created, queries, stray>>

\* A session released by then answers nothing.
AnswerQuery(c) ==
    LET s == call[c].session IN
    /\ call[c].pc = "answer"
    /\ entry' = [entry EXCEPT ![s].engine = IF @ = c THEN 0 ELSE @,
                              ![s].queries = IF entry[s].registered
                                             THEN @ - 1 ELSE @]
    /\ call' = [call EXCEPT ![c].pc = "answered",
                            ![c].ok = @ /\ ~entry[s].released]
    /\ UNCHANGED <<generation, signature, measured, closed, gate, preparation,
                   worker, todo, created, queries, stray>>

Return(c) ==
    /\ call[c].pc = "answered"
    /\ call' = [call EXCEPT ![c] = Rest]
    /\ UNCHANGED <<generation, entry, signature, measured, closed, gate,
                   preparation, worker, todo, created, queries, stray>>

\* cancel_request interrupts the connection if the request runs on it.
CancelRequest(c) ==
    LET s == call[c].session
        user == entry[s].engine
        hit == /\ call[c].pc \in {"running", "read", "ran"}
               /\ user \in Callers \ {c} /\ call[user].pc = "running" IN
    /\ call[c].pc \in {"queued", "running", "read", "ran"}
    /\ ~call[c].cancelled
    /\ call' = [call EXCEPT ![c].cancelled = TRUE]
    /\ stray' = (stray \/ hit)
    /\ UNCHANGED <<generation, entry, signature, measured, closed, gate,
                   preparation, worker, todo, created, queries>>

-----------------------------------------------------------------------------
(* shutdown, when the project is closed or replaced.                       *)

Shutdown ==
    /\ closed = "open" /\ gate = 0
    /\ closed' = "closing"
    /\ entry' = Removed(entry, Registered) /\ signature' = Forgotten(Registered)
    /\ UNCHANGED <<generation, measured, gate, preparation, worker, call, todo,
                   created, queries, stray>>

WorkersJoined == \A s \in Sessions : worker[s] \in {"none", "done"}
                                     /\ todo[s] = {}

\* Once the workers are joined every connection is taken from its entry.
ReclaimEntries ==
    /\ closed = "closing" /\ WorkersJoined
    /\ \A s \in Sessions : entry[s].engine = 0
    /\ measured' = measured - Charged(Sessions)
    /\ entry' = [s \in Sessions |->
                    [entry[s] EXCEPT !.charged = 0, !.built = -1]]
    /\ closed' = "closed"
    /\ UNCHANGED <<generation, signature, gate, preparation, worker, call,
                   todo, created, queries, stray>>

-----------------------------------------------------------------------------
WorkerStep(s) ==
    \/ Measure(s) \/ AdmitBytes(s) \/ Charge(s) \/ LockEngine(s)
    \/ BuildIndexes(s) \/ PublishReady(s) \/ FailPreparation(s)
    \/ PublishFailed(s)
    \/ \E r \in Sessions : CleanupBytes(s, r) \/ CleanupTables(s, r)

CallerStep(c) ==
    \/ BeginPrepare(c) \/ TakeLease(c)
    \/ StartQuery(c) \/ RunQuery(c) \/ VerifyQuery(c) \/ FinishQuery(c)
    \/ AnswerQuery(c) \/ Return(c)
    \/ \E r \in Sessions : CleanupBytes(c, r) \/ CleanupTables(c, r)

Next ==
    \/ Mutate \/ Shutdown \/ ReclaimEntries
    \/ \E s \in Sessions : DropLease(s)
    \/ \E s \in Sessions : WorkerStep(s)
    \/ \E c \in Callers :
          \/ CallerStep(c) \/ Sweep(c) \/ CancelRequest(c)
          \/ \E d \in Definitions : Prepare(c, d)
          \/ \E s \in Sessions : Release(c, s) \/ BeginQuery(c, s)
                                 \/ AcquireLease(c, s)

Spec == Init /\ [][Next]_vars
\* Threads run; statements end.
FairSpec == Spec /\ WF_vars(ReclaimEntries)
                 /\ \A s \in Sessions : WF_vars(WorkerStep(s))
                 /\ \A c \in Callers : WF_vars(CallerStep(c))

-----------------------------------------------------------------------------
(* Properties.                                                             *)

\* Types; a dataset has at most MaxSessions sessions.
TypeOK ==
    /\ generation \in 0..MaxGeneration /\ created \in Sessions \cup {0}
    /\ \A s \in Sessions :
          /\ entry[s].state \in {"none", "Preparing", "Ready", "Failed"}
          /\ {entry[s].leases, entry[s].queries, entry[s].charged} \subseteq Nat
          /\ entry[s].engine \in Callers \cup {0, s}
    /\ preparation \in Sessions \cup {0} /\ gate \in Callers \cup {0}
    /\ Cardinality(Registered) <= MaxSessions

\* measured_bytes is what the entries are charged with, and within the budget,
\* whichever workers, evictions and releases are under way.
BytesAccounted == measured = Charged(Sessions) /\ measured <= MaxBytes

\* A session that left the registry keeps neither bytes nor tables once the
\* threads that worked on it are through, even if it was released while its
\* worker was being admitted or building.
NothingLeaks ==
    \A s \in Sessions :
        ~entry[s].registered /\ worker[s] \in {"none", "done"}
        /\ (\A t \in DOMAIN todo : s \notin todo[t]) /\ closed = "open"
            => entry[s].charged = 0 /\ entry[s].built = -1

\* An answer comes from the generation the client asked for: member indexes
\* and cells were both read there, whatever was committed during the query.
AnswersAreOfOneGeneration ==
    \A c \in Callers : call[c].pc = "answered" /\ call[c].ok =>
        LET s == call[c].session IN call[c].got = entry[s].gen

ReadySessionsAreOfTheirGeneration ==
    \A s \in Sessions : entry[s].registered /\ entry[s].state = "Ready" =>
        entry[s].built = entry[s].gen

\* A cancellation interrupts no statement but that of its own request, although
\* queries of a session share a connection.
NoStrayInterrupt == ~stray

\* A session stays in the registry as long as a client that prepared it has not
\* released it, the dataset has not changed and the project is not closed.
LeasedSessionStays ==
    \A s \in Sessions :
        entry[s].held > 0 /\ entry[s].gen = generation /\ closed = "open"
            => entry[s].registered

\* A preparation ends: ready, failed or revoked.
PreparationSettles ==
    \A s \in Sessions :
        (entry[s].registered /\ entry[s].state = "Preparing")
            ~> (~entry[s].registered \/ entry[s].state # "Preparing")

\* shutdown returns.
ShutdownEnds == (closed = "closing") ~> (closed = "closed")

\* "An inactive session expires after exactly five minutes when no query is
\* active": a settled session that no query uses is one that sweep may remove.
InactiveIsEvictable ==
    \A s \in Sessions :
        entry[s].registered /\ entry[s].state = "Ready" /\ entry[s].queries = 0
        /\ (\A c \in Callers : call[c].session # s)
            => Evictable(s)

=============================================================================
