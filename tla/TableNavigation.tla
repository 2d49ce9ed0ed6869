--------------------------- MODULE TableNavigation ---------------------------
(***************************************************************************)
(* TableNavigationService: windows of a table for the data grid.  Windows  *)
(* in natural order are read on a shared reader connection; sorted or      *)
(* filtered ones on the connection of a prepared session, whose mapping of *)
(* ordinals to rows a worker thread builds first.                          *)
(*                                                                         *)
(* One dataset, whose generation grows; one reader.  Clocks are left out:  *)
(* any session without an active query may have expired, any may be the    *)
(* least recently used.  A step is a critical section of query_sessions,   *)
(* of active_requests or of a connection, or one SQL statement.            *)
(***************************************************************************)
EXTENDS Integers, FiniteSets, FiniteSetsExt

CONSTANTS Sessions,      \* ids, in the order of their creation: 1..N
          Callers,       \* threads of the frontend's commands
          Signatures,    \* sort and filters of a session ...
          Size,          \* ... and the bytes of its mapping
          Kinds,         \* the commands that are called
          MaxSessions, MaxBytes,
          MaxGeneration, MaxCalls  \* bounds of the model

\* What the constants must be; the module that instantiates this one assumes it.
NavigationAssumption ==
    /\ Size \in [Signatures -> Nat]
    /\ Kinds \subseteq {"prepare", "status", "release", "natural", "window",
                     "cancel"}
    /\ {MaxSessions, MaxBytes, MaxGeneration, MaxCalls} \subseteq Nat

VARIABLES generation,  \* of the dataset
          entry,       \* Sessions -> PreparedSessionEntry
          signature,   \* session_id_by_signature; 0 if there is none
          displayed,   \* displayed_session_id_by_dataset
          engine,      \* connection (0: the reader) -> who has locked it
          worker,      \* Sessions -> where its preparation job is
          call,        \* Callers -> what it is doing
          shut,        \* how far shutdown is
          cancelling,  \* an interrupt about to be sent: connection, request
          created, calls, stray
vars == <<generation, entry, signature, displayed, engine, worker, call, shut,
          cancelling, created, calls, stray>>

Reader == 0
Fresh == [sig |-> CHOOSE q \in Signatures : TRUE, gen |-> 0,
          registered |-> FALSE, released |-> FALSE, state |-> "none",
          active |-> 0, bytes |-> 0, mapping |-> -1]
Rest == [pc |-> "idle", kind |-> "none", session |-> Reader, gen |-> 0,
         sig |-> CHOOSE q \in Signatures : TRUE, got |-> -1, mapping |-> -1,
         moved |-> FALSE, ok |-> FALSE, todo |-> {}, disposing |-> 0,
         serial |-> 0]
NoRequest == [conn |-> Reader, serial |-> 0]
Registered == {s \in Sessions : entry[s].registered}
InFlight == {c \in Callers : call[c].pc # "idle"}

Init ==
    /\ generation = 0
    /\ entry = [s \in Sessions |-> Fresh]
    /\ signature = [k \in Signatures \X (0..MaxGeneration) |-> 0]
    /\ displayed = 0 /\ shut = "open"
    /\ engine = [k \in Sessions \cup {Reader} |-> 0]
    /\ worker = [s \in Sessions |-> "none"]
    /\ call = [c \in Callers |-> Rest]
    /\ cancelling = NoRequest /\ created = 0 /\ calls = 0 /\ stray = FALSE

\* A command commits a change of the dataset; reads go on.
Mutate ==
    /\ generation < MaxGeneration /\ generation' = generation + 1
    /\ call' = [c \in Callers |->
                   [call[c] EXCEPT !.moved = @ \/ call[c].pc = "rows"]]
    /\ UNCHANGED <<entry, signature, displayed, engine, worker, shut,
                   cancelling, created, calls, stray>>

-----------------------------------------------------------------------------
(* The registry.                                                           *)

Goto(c, pc) == call' = [call EXCEPT ![c].pc = pc]

\* remove_session_locked; the caller releases the entries afterwards.
Remove(c, V, pc) ==
    /\ entry' = [s \in Sessions |-> [entry[s] EXCEPT
                     !.registered = @ /\ s \notin V]]
    /\ signature' = [k \in DOMAIN signature |->
                        IF signature[k] \in V THEN 0 ELSE signature[k]]
    /\ displayed' = IF displayed \in V THEN 0 ELSE displayed
    /\ call' = [call EXCEPT ![c].todo = V, ![c].pc = pc]

\* is_expired, of a clock that may show anything.
Expired == {E \in SUBSET Registered : \A s \in E : entry[s].active = 0}
Ready(c, pc) == call[c].pc = pc /\ call[c].todo = {}

\* sweep_released_and_expired_sessions.
SweepExpired(c, pc) ==
    \E E \in Expired :
        Remove(c, E \cup {s \in Registered : entry[s].released}, pc)

Bytes(S, e) == MapThenSumSet(LAMBDA s : e[s].bytes, S)

SparedByPressure(keep) ==
    {keep, displayed} \cup {s \in Sessions : entry[s].active > 0}

\* collect_dataset_quota_victims and collect_byte_budget_victims.
Victims(keep, reg, e) ==
    LET open == reg \ SparedByPressure(keep)
        Quota(V) == Cardinality(reg \ V) <= MaxSessions
        Budget(V) == Bytes(reg \ V, e) <= MaxBytes
        Enough(V) == Quota(V) /\ Budget(V) IN
    {V \in SUBSET open :
        /\ Enough(V) \/ V = open
        /\ V = {} \/ \E v \in V : ~Enough(V \ {v})}

\* release_session_entry: mark, interrupt, ...
Dispose(c) ==
    /\ call[c].disposing = 0
    /\ \E s \in call[c].todo :
          /\ call' = [call EXCEPT ![c].disposing = s]
          /\ entry' = [entry EXCEPT ![s].released = TRUE,
                                    ![s].state = "Cancelled"]
    /\ UNCHANGED <<generation, signature, displayed, engine, worker, shut,
                   cancelling, created, calls, stray>>

\* ... wait for the connection, drop the mapping.
DropMapping(c) ==
    LET s == call[c].disposing IN
    /\ s # 0 /\ engine[s] = 0
    /\ entry' = [entry EXCEPT ![s].mapping = -1]
    /\ call' = [call EXCEPT ![c].disposing = 0, ![c].todo = @ \ {s}]
    /\ UNCHANGED <<generation, signature, displayed, engine, worker, shut,
                   cancelling, created, calls, stray>>

-----------------------------------------------------------------------------
(* Commands.  begin_call refuses them once closed is set.                  *)

First(kind) == CASE kind = "natural" -> "lock" [] kind = "release" -> "forget"
                 [] OTHER -> "sweep"
Call(c, kind, s, q) ==
    /\ call[c].pc = "idle" /\ shut = "open" /\ calls < MaxCalls
    /\ kind = "prepare" => created + Cardinality({d \in Callers :
          call[d].kind = "prepare"}) < Cardinality(Sessions)  \* ids are left
    /\ calls' = calls + 1
    /\ call' = [call EXCEPT ![c] = [Rest EXCEPT !.pc = First(kind),
                   !.kind = kind, !.session = s, !.sig = q, !.gen = generation,
                   !.serial = calls + 1]]
    /\ UNCHANGED <<generation, entry, signature, displayed, engine, worker,
                   shut, cancelling, created, stray>>

\* Every command but release starts with a sweep; a stale prepare is refused.
Sweep(c) ==
    /\ Ready(c, "sweep")
    /\ IF call[c].kind = "prepare" /\ call[c].gen # generation
       THEN Goto(c, "end") /\ UNCHANGED <<entry, signature, displayed>>
       ELSE SweepExpired(c, CASE call[c].kind = "prepare" -> "find"
                              [] call[c].kind = "status" -> "status"
                              [] OTHER -> "lookup")
    /\ UNCHANGED <<generation, engine, worker, shut, cancelling, created,
                   calls, stray>>

\* release_table_query_session, also of an expired or stale session.
Forget(c) ==
    /\ Ready(c, "forget")
    /\ Remove(c, {call[c].session} \cap (IF shut = "open" THEN Registered
                                         ELSE {}), "end")
    /\ UNCHANGED <<generation, engine, worker, shut, cancelling, created,
                   calls, stray>>

Key(c) == <<call[c].sig, call[c].gen>>

\* prepare_table_query_session: a request that is known joins its session (an
\* expired one is released first) ...
FindSession(c) ==
    LET s == signature[Key(c)] IN
    /\ Ready(c, "find")
    /\ \/ /\ s # 0 /\ ~entry[s].released
          /\ Goto(c, "end") /\ UNCHANGED <<entry, signature, displayed>>
       \/ /\ s # 0 /\ (entry[s].released \/ entry[s].active = 0)
          /\ Remove(c, {s}, "create")
       \/ /\ s = 0
          /\ Goto(c, "create") /\ UNCHANGED <<entry, signature, displayed>>
    /\ UNCHANGED <<generation, engine, worker, shut, cancelling, created,
                   calls, stray>>

\* ... or makes one, under a second lock of the registry.
CreateSession(c) ==
    LET s == created + 1
        e == [entry EXCEPT ![s] = [Fresh EXCEPT !.sig = call[c].sig,
                 !.gen = call[c].gen, !.registered = TRUE,
                 !.state = "Preparing"]] IN
    /\ Ready(c, "create") /\ s \in Sessions
    /\ created' = s
    /\ \E V \in Victims(s, Registered \cup {s}, e) :
          /\ entry' = [r \in Sessions |-> [e[r] EXCEPT
                          !.registered = @ /\ r \notin V]]
          /\ signature' = [k \in DOMAIN signature |->
                              IF k = Key(c) THEN s
                              ELSE IF signature[k] \in V THEN 0
                              ELSE signature[k]]
          /\ call' = [call EXCEPT ![c].todo = V, ![c].pc = "spawn",
                                  ![c].session = s]
    /\ UNCHANGED <<generation, displayed, engine, worker, shut, cancelling,
                   calls, stray>>

SpawnPrepareSession(c) ==
    /\ Ready(c, "spawn")
    /\ worker' = [worker EXCEPT ![call[c].session] = "start"]
    /\ Goto(c, "end")
    /\ UNCHANGED <<generation, entry, signature, displayed, engine, shut,
                   cancelling, created, calls, stray>>

\* get_table_query_session_status, and the first half of a prepared window.
LookUp(c) ==
    LET s == call[c].session IN
    /\ call[c].pc \in {"status", "lookup"} /\ call[c].todo = {}
    /\ \/ ~entry[s].registered /\ Goto(c, "end")
       \/ /\ entry[s].registered
          /\ entry[s].active = 0 \/ entry[s].gen # generation
          /\ Goto(c, "forget")
       \/ /\ entry[s].registered /\ entry[s].gen = generation
          /\ Goto(c, IF call[c].pc = "status" THEN "pressure"
                     ELSE IF /\ entry[s].state = "Ready"
                             /\ call[c].gen = entry[s].gen
                     THEN "guard" ELSE "end")
    /\ UNCHANGED <<generation, entry, signature, displayed, engine, worker,
                   shut, cancelling, created, calls, stray>>

\* begin_query.
BeginQuery(c) ==
    /\ call[c].pc = "guard"
    /\ entry' = [entry EXCEPT ![call[c].session].active = @ + 1]
    /\ Goto(c, "lock")
    /\ UNCHANGED <<generation, signature, displayed, engine, worker, shut,
                   cancelling, created, calls, stray>>

\* The connection is ours; register_active_request refuses after closing.
LockEngine(c) ==
    /\ call[c].pc = "lock" /\ engine[call[c].session] = 0
    /\ engine' = [engine EXCEPT ![call[c].session] = c]
    /\ Goto(c, IF shut = "open" THEN "check" ELSE "end")
    /\ UNCHANGED <<generation, entry, signature, displayed, worker, shut,
                   cancelling, created, calls, stray>>

\* Mutant: the generation seen by the look-up is enough.
CheckGenerationSkipped(c) ==
    /\ call[c].pc = "check" /\ Goto(c, "rows")
    /\ UNCHANGED <<generation, entry, signature, displayed, engine, worker,
                   shut, cancelling, created, calls, stray>>

\* The first statement of a window compares generations ...
CheckGeneration(c) ==
    /\ call[c].pc = "check"
    /\ Goto(c, IF call[c].gen = generation THEN "rows" ELSE "end")
    /\ UNCHANGED <<generation, entry, signature, displayed, engine, worker,
                   shut, cancelling, created, calls, stray>>

\* ... and the last one, in a transaction of its own, reads the rows.
ReadRows(c) ==
    LET s == call[c].session
        missing == s # Reader /\ entry[s].mapping = -1 IN
    /\ call[c].pc = "rows"
    /\ call' = IF missing THEN [call EXCEPT ![c].pc = "end"]
               ELSE [call EXCEPT ![c].got = generation, ![c].ok = TRUE,
                        ![c].mapping = IF s = Reader THEN generation
                                       ELSE entry[s].mapping,
                        ![c].pc = IF s = Reader THEN "end" ELSE "display"]
    /\ UNCHANGED <<generation, entry, signature, displayed, engine, worker,
                   shut, cancelling, created, calls, stray>>

\* A statement is interrupted, or fails.
StatementFails(c) ==
    /\ call[c].pc \in {"check", "rows"} /\ Goto(c, "end")
    /\ UNCHANGED <<generation, entry, signature, displayed, engine, worker,
                   shut, cancelling, created, calls, stray>>

MarkDisplayedSession(c) ==
    /\ call[c].pc = "display" /\ displayed' = call[c].session
    /\ Goto(c, "pressure")
    /\ UNCHANGED <<generation, entry, signature, engine, worker, shut,
                   cancelling, created, calls, stray>>

\* sweep_sessions_under_pressure, with the connection still locked.
PressureSweep(c) ==
    /\ Ready(c, "pressure") /\ SweepExpired(c, "victims")
    /\ UNCHANGED <<generation, engine, worker, shut, cancelling, created,
                   calls, stray>>

EvictVictims(c) ==
    /\ Ready(c, "victims")
    /\ \E V \in Victims(call[c].session, Registered, entry) :
          Remove(c, V, "end")
    /\ UNCHANGED <<generation, engine, worker, shut, cancelling, created,
                   calls, stray>>

\* The guards are dropped: request, connection, active query, call.
Return(c) ==
    LET s == call[c].session IN
    /\ Ready(c, "end")
    /\ call' = [call EXCEPT ![c] = Rest]
    /\ IF engine[s] = c
       THEN /\ engine' = [engine EXCEPT ![s] = 0]
            /\ entry' = IF s = Reader THEN entry
                        ELSE [entry EXCEPT ![s].active = @ - 1]
       ELSE UNCHANGED <<engine, entry>>
    /\ UNCHANGED <<generation, signature, displayed, worker, shut, cancelling,
                   created, calls, stray>>

Running(c) == call[c].pc \in {"check", "rows"}
Requested(c) == engine[call[c].session] = c /\ call[c].pc # "idle"

\* cancel_request takes the handle from active_requests, unlocks it ...
CancelLookUp(c) ==
    /\ "cancel" \in Kinds /\ Requested(c) /\ cancelling = NoRequest
    /\ cancelling' = [conn |-> call[c].session, serial |-> call[c].serial]
    /\ UNCHANGED <<generation, entry, signature, displayed, engine, worker,
                   call, shut, created, calls, stray>>

\* ... and interrupts the connection, whoever runs a statement on it by then.
CancelInterrupt ==
    /\ cancelling # NoRequest /\ cancelling' = NoRequest
    /\ stray' = (stray \/ \E c \in Callers :
                    /\ Requested(c) /\ Running(c)
                    /\ call[c].session = cancelling.conn
                    /\ call[c].serial # cancelling.serial)
    /\ UNCHANGED <<generation, entry, signature, displayed, engine, worker,
                   call, shut, created, calls>>

-----------------------------------------------------------------------------
(* The preparation job of session s.                                       *)

Step(s, pc) == worker' = [worker EXCEPT ![s] = pc]

StartJob(s) ==
    /\ worker[s] = "start"
    /\ IF entry[s].released
       THEN /\ entry' = [entry EXCEPT ![s].state = "Cancelled"]
            /\ Step(s, "done")
       ELSE Step(s, "lock") /\ UNCHANGED entry
    /\ UNCHANGED <<generation, signature, displayed, engine, call, shut,
                   cancelling, created, calls, stray>>

\* prepare_table_query_session_on_connection compares generations first.
LockJob(s) ==
    /\ worker[s] = "lock" /\ engine[s] = 0
    /\ IF entry[s].gen = generation
       THEN /\ engine' = [engine EXCEPT ![s] = s] /\ Step(s, "build")
            /\ UNCHANGED entry
       ELSE /\ entry' = [entry EXCEPT ![s].state = "Failed"]
            /\ Step(s, "done") /\ UNCHANGED engine
    /\ UNCHANGED <<generation, signature, displayed, call, shut, cancelling,
                   created, calls, stray>>

BuildMapping(s) ==
    /\ worker[s] = "build" /\ engine' = [engine EXCEPT ![s] = 0]
    /\ \/ /\ entry' = [entry EXCEPT ![s].mapping = generation]
          /\ Step(s, "built")
       \/ \E outcome \in {"Cancelled", "Failed"} :
             /\ entry' = [entry EXCEPT ![s].state = outcome] /\ Step(s, "done")
    /\ UNCHANGED <<generation, signature, displayed, call, shut, cancelling,
                   created, calls, stray>>

CheckReleased(s) ==
    /\ worker[s] = "built"
    /\ Step(s, IF entry[s].released THEN "undo" ELSE "publish")
    /\ UNCHANGED <<generation, entry, signature, displayed, engine, call, shut,
                   cancelling, created, calls, stray>>

\* mark_ready, whatever happened since released was read.
MarkReady(s) ==
    /\ worker[s] = "publish" /\ Step(s, "done")
    /\ entry' = [entry EXCEPT ![s].state = "Ready",
                              ![s].bytes = Size[entry[s].sig]]
    /\ UNCHANGED <<generation, signature, displayed, engine, call, shut,
                   cancelling, created, calls, stray>>

UndoMapping(s) ==
    /\ worker[s] = "undo" /\ engine[s] = 0 /\ Step(s, "done")
    /\ entry' = [entry EXCEPT ![s].mapping = -1, ![s].state = "Cancelled"]
    /\ UNCHANGED <<generation, signature, displayed, engine, call, shut,
                   cancelling, created, calls, stray>>

-----------------------------------------------------------------------------
(* shutdown.                                                               *)

Close ==
    /\ shut = "open" /\ shut' = "closing"
    /\ UNCHANGED <<generation, entry, signature, displayed, engine, worker,
                   call, cancelling, created, calls, stray>>

\* The sessions of the registry are marked released and interrupted.
ReleaseSessions ==
    /\ shut = "closing" /\ shut' = "released"
    /\ entry' = [s \in Sessions |->
                    [entry[s] EXCEPT !.released = @ \/ entry[s].registered]]
    /\ UNCHANGED <<generation, signature, displayed, engine, worker, call,
                   cancelling, created, calls, stray>>

Drained == InFlight = {}

\* in_flight is zero, the jobs are joined: every connection is taken.
TakeConnections ==
    /\ shut = "released" /\ Drained
    /\ \A s \in Sessions : worker[s] \in {"none", "done"}
    /\ shut' = "closed" /\ displayed' = 0
    /\ entry' = [s \in Sessions |->
                    [entry[s] EXCEPT !.registered = FALSE, !.mapping = -1]]
    /\ signature' = [k \in DOMAIN signature |-> 0]
    /\ UNCHANGED <<generation, engine, worker, call, cancelling, created,
                   calls, stray>>

-----------------------------------------------------------------------------
CallStep(c) ==
    \/ Dispose(c) \/ DropMapping(c) \/ Sweep(c) \/ Forget(c) \/ FindSession(c)
    \/ CreateSession(c) \/ SpawnPrepareSession(c) \/ LookUp(c) \/ BeginQuery(c)
    \/ LockEngine(c) \/ CheckGeneration(c) \/ ReadRows(c) \/ StatementFails(c)
    \/ MarkDisplayedSession(c) \/ PressureSweep(c) \/ EvictVictims(c)
    \/ Return(c)
JobStep(s) == StartJob(s) \/ LockJob(s) \/ BuildMapping(s) \/ CheckReleased(s)
              \/ MarkReady(s) \/ UndoMapping(s)
ShutdownStep == ReleaseSessions \/ TakeConnections

Next ==
    \/ Mutate \/ Close \/ ShutdownStep \/ CancelInterrupt
    \/ \E s \in Sessions : JobStep(s)
    \/ \E c \in Callers :
          \/ CallStep(c) \/ CancelLookUp(c)
          \/ \E k \in Kinds \cap {"status", "release", "window"}, s \in 1..created :
                Call(c, k, s, entry[s].sig)
          \/ \E k \in Kinds \cap {"prepare", "natural"}, q \in Signatures :
                Call(c, k, Reader, q)

Spec == Init /\ [][Next]_vars
\* Threads run, statements end, a connection goes to whoever waits for it.
FairSpec == Spec /\ WF_vars(ShutdownStep)
                 /\ \A s \in Sessions : WF_vars(JobStep(s))
                 /\ \A c \in Callers : WF_vars(CallStep(c))

-----------------------------------------------------------------------------
(* Properties.                                                             *)

\* Types; a connection is locked by a call in flight or by its own job.
TypeOK ==
    /\ \A s \in Sessions :
          /\ entry[s].state \in
                {"none", "Preparing", "Ready", "Cancelled", "Failed"}
          /\ {entry[s].active, entry[s].bytes} \subseteq Nat
    /\ \A k \in DOMAIN engine :
          engine[k] \in InFlight \cup {0} \cup ({k} \ {Reader})
    /\ displayed \in Sessions \cup {0}

\* A session that left the registry has no mapping once the threads that worked
\* on it are through, even if it was released while its job was building.
MappingsAreDropped ==
    \A s \in Sessions :
        ~entry[s].registered /\ worker[s] \in {"none", "done"}
        /\ (\A c \in Callers : s \notin call[c].todo) => entry[s].mapping = -1

\* Unless a change is committed between the statements of a window, its rows
\* and their order are those of the generation it was asked for, whenever the
\* session was expired, evicted or released since it was looked up.
WindowIsFresh ==
    \A c \in Callers : call[c].ok /\ ~call[c].moved =>
        call[c].got = call[c].gen /\ call[c].mapping = call[c].gen

\* Eviction never leaves more sessions than the quota, the displayed one, the
\* one just made and those with a query under way at that time.
RegistryIsBounded ==
    Cardinality(Registered) <= Max({MaxSessions, 1 + Cardinality(Callers)})

\* A command returns as long as the project stays open.
CallsReturn ==
    \A c \in Callers :
        call[c].pc # "idle" ~> (call[c].pc = "idle" \/ shut # "open")

\* shutdown returns.
ShutdownEnds == (shut = "closing") ~> (shut = "closed")

\* Violated: "finished request cancellation must be a no-op" - a cancellation
\* interrupts no request but the one it names.
NoStrayInterrupt == ~stray

\* Violated: "A mutation cancels active reads for the previous generation": a
\* window that is answered holds rows of the generation it was asked for.
WindowIsOfItsGeneration ==
    \A c \in Callers : call[c].ok => call[c].got = call[c].gen

=============================================================================
