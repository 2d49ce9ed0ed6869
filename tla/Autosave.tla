------------------------------- MODULE Autosave -------------------------------
(***************************************************************************)
(* The frontend's persistence coordinator                                  *)
(* (projectPersistence/coordinator.ts) in front of the transaction layer.  *)
(*                                                                         *)
(* Edits of documents are queued and coalesced; other commands are queued  *)
(* as they are.  One entry at a time, the head, is sent as an operation    *)
(* with an optimistic context.  The head leaves the queue when a commit of *)
(* its operation id arrives, as the reply or as a project-committed event, *)
(* whichever is first; a failed one stays and is retried under the same    *)
(* id, or under a new one once the backend has fenced the old id           *)
(* (resolve_operation).  Commits of other clients arrive as events too.    *)
(*                                                                         *)
(* JavaScript runs one handler at a time, so a handler is a step.  The     *)
(* coordinator's variables are the fields of the record q, and the         *)
(* functions it calls within a handler are operators from q to q.  Calls   *)
(* to the backend travel: they are executed, answered and settled in steps *)
(* of their own, may fail before or after they were executed, and a call   *)
(* that failed for the caller may still be executed later.                 *)
(*                                                                         *)
(* Bodies are the sequence numbers of edits.  Settings (handled like       *)
(* moves), folders, idle checkpoints and the promise of a single submit    *)
(* are left out.                                                           *)
(***************************************************************************)
EXTENDS Integers, Sequences, FiniteSets

CONSTANTS
    Documents,    \* ids of documents
    Datasets,     \* ids of tables
    Commands,     \* the kinds of submitted commands: "move", "delete", "table"
    NoBody,       \* no document
    External,     \* the body another client writes
    MaxEdits,     \* bound on the edits and commands of the user
    MaxFlushes,   \* bound on the calls of flushThrough
    MaxExternal,  \* bound on the commits of other clients
    MaxFaults     \* bound on failed calls and failed projections

ASSUME CommandsAssumption == Commands \subseteq {"move", "delete", "table"}
ASSUME AutosaveBounds == {MaxEdits, MaxFlushes, MaxExternal, MaxFaults} \subseteq Nat

VARIABLES
    committedRevision, catalog, generations, receipts, cancelled,  \* the file
    q,       \* the coordinator
    store,   \* what the document stores of the frontend show
    calls,   \* calls of the backend under way
    events,  \* operations whose project-committed event is under way
    faults   \* how many faults happened

file == <<committedRevision, catalog, generations, receipts, cancelled>>
vars == <<committedRevision, catalog, generations, receipts, cancelled,
          q, store, calls, events, faults>>

\* Every entry needs an id, and another one after each recovery by a flush.
OwnOperations == 1..(MaxEdits + MaxFlushes)
Operations == 1..(MaxEdits + MaxFlushes + MaxExternal)

Backend == INSTANCE ProjectTransaction WITH
    Keys <- {}, Bodies <- 1..MaxEdits \union {External}, Paths <- {""}, Root <- "",
    Ancestors <- [p \in {""} |-> {}], Requests <- {}, MaxRevision <- Cardinality(Operations),
    MaxEpoch <- 1, MaxComputing <- 0, epoch <- 1, computing <- {}

NoMap == [x \in {} |-> 0]
NoDraft == [documents |-> NoMap, moves |-> NoMap, deletes |-> NoMap, tables |-> NoMap]
\* An entry before newOperationId; operation ids start with 1.
NoContext == [op |-> 0]

Init ==
    /\ Backend!Init
    /\ q = [entries |-> <<>>, unsealed |-> FALSE, timer |-> FALSE, pumpDue |-> FALSE,
            sequence |-> 0, acknowledged |-> 0, revision |-> 0,
            active |-> FALSE, recovering |-> FALSE, error |-> FALSE,
            ownDocuments |-> [d \in Documents |-> 0], ownDeleted |-> {},
            ownDatasets |-> [s \in Datasets |-> 0],
            received |-> {}, projections |-> <<>>, projectionError |-> FALSE,
            closing |-> FALSE, closed |-> FALSE, operations |-> 0, sent |-> 0,
            flushes |-> <<>>, projected |-> <<>>, discarded |-> {}]
    /\ store = [d \in Documents |-> NoBody]
    /\ calls = {}
    /\ events = {}
    /\ faults = 0

-----------------------------------------------------------------------------
(* The queue *)

IsHead(s, first) == s.entries # <<>> /\ Head(s.entries).first = first
HasContext(e) == e.context # NoContext
IsRecords(e) == e.draft.tables = NoMap

\* The unsealed entry, if any, is the last one.
Seal(s) ==
    IF s.unsealed
    THEN [s EXCEPT !.entries[Len(s.entries)].ready = TRUE, !.unsealed = FALSE, !.timer = FALSE]
    ELSE [s EXCEPT !.timer = FALSE]

Larger(m, n) == IF m >= n THEN m ELSE n

\* A revision the frontend read, raised to the one its own commits left.
Raise(s, d, n) == Larger(n, s.ownDocuments[d])

\* What pump makes of a queued draft: the request, with the expected revisions
\* brought up to the own acknowledged ones.  edits is a history field.
Prepare(s, e) ==
    LET expected == [d \in DOMAIN e.draft.documents |->
            IF d \in s.ownDeleted THEN 0 ELSE Raise(s, d, e.draft.documents[d].expected)]
    IN  [patch |-> [Backend!EmptyPatch EXCEPT
            !.documents = [d \in DOMAIN expected |->
               [expected |-> expected[d], proposed |-> expected[d] + 1,
                folder |-> "", body |-> e.draft.documents[d].body]],
            !.moves = [d \in DOMAIN e.draft.moves |->
               [expected |-> Raise(s, d, e.draft.moves[d]), folder |-> ""]],
            !.deletes = DOMAIN e.draft.deletes],
         datasets |-> DOMAIN e.draft.tables,
         edits |-> e.first..e.last]

\* The new context, for the request.
NewContext(s, e, req) ==
    LET written == {d \in DOMAIN req.patch.documents : req.patch.documents[d].expected # 0}
    IN  [op |-> s.operations + 1, epoch |-> 1, revision |-> s.revision,
         documents |-> [d \in written \union DOMAIN e.draft.moves \union DOMAIN e.draft.deletes |->
            IF d \in written THEN req.patch.documents[d].expected
            ELSE IF d \in DOMAIN e.draft.moves THEN Raise(s, d, e.draft.moves[d])
            ELSE Raise(s, d, e.draft.deletes[d])],
         datasets |-> [t \in DOMAIN e.draft.tables |->
            Larger(e.draft.tables[t], s.ownDatasets[t])]]

\* pump sends the head, under the context it was sent with before, if any.
Send(s) ==
    LET e   == Head(s.entries)
        req == Prepare(s, e)
        new == [e EXCEPT !.request = req, !.context = NewContext(s, e, req)]
    IN  [s EXCEPT
           !.entries[1] = IF HasContext(e) THEN e ELSE new,
           !.operations = IF HasContext(e) THEN @ ELSE @ + 1,
           !.unsealed = @ /\ Len(s.entries) > 1,
           !.timer = FALSE, !.active = TRUE, !.sent = @ + 1]

Pump(s) ==
    IF s.closed \/ s.active \/ s.error \/ s.projectionError THEN s
    ELSE IF s.entries = <<>> THEN [s EXCEPT !.timer = FALSE]
    ELSE IF Head(s.entries).ready THEN Send(s)
    ELSE [s EXCEPT !.timer = TRUE]

Call(kind, s) ==
    [kind |-> kind, entry |-> Head(s.entries).first, id |-> s.sent,
     context |-> Head(s.entries).context, request |-> Head(s.entries).request,
     late |-> FALSE, answer |-> "none", revision |-> 0]

-----------------------------------------------------------------------------
(* Settling *)

Flushes(s, state) == {i \in DOMAIN s.flushes : s.flushes[i].state = state}
\* Mutant of Reached: one short of the captured sequence.
ReachedTooEarly(s) == {i \in Flushes(s, "waiting") : s.flushes[i].through <= s.acknowledged + 1}

Reached(s) == {i \in Flushes(s, "waiting") : s.flushes[i].through <= s.acknowledged}

\* The promises of the flushes in F, and close, which awaits one of them.
Settle(s, F, outcome) ==
    LET closes == \E i \in F : s.flushes[i].closes
    IN  [s EXCEPT
           !.flushes = [i \in DOMAIN s.flushes |->
              IF i \in F THEN [s.flushes[i] EXCEPT !.state = outcome] ELSE s.flushes[i]],
           !.closed = @ \/ (closes /\ outcome = "resolved"),
           !.closing = @ /\ ~closes]

\* Mutant of Fail: the failed entry is dropped as if it had been saved.
FailDrops(s, first) ==
    IF ~IsHead(s, first) THEN s
    ELSE Settle([s EXCEPT !.active = FALSE, !.entries = Tail(@), !.acknowledged = Head(s.entries).last],
                Flushes(s, "waiting"), "rejected")

\* Mutant of Fail: the flushes that wait are not told.
FailSilently(s, first) ==
    IF ~IsHead(s, first) THEN s ELSE [s EXCEPT !.active = FALSE, !.error = TRUE]

Fail(s, first) ==
    IF ~IsHead(s, first) THEN s
    ELSE Settle([s EXCEPT !.active = FALSE, !.error = TRUE], Flushes(s, "waiting"), "rejected")

\* What the coordinator notes of its own commit before it is projected.
Note(s, op) ==
    LET r == receipts[op]
    IN  [s EXCEPT
           !.revision = Larger(@, r.revision),
           !.error = FALSE,
           !.ownDocuments = [d \in Documents |->
              IF d \in DOMAIN r.documents THEN r.documents[d]
              ELSE IF d \in Head(s.entries).request.patch.deletes THEN 0 ELSE @[d]],
           !.ownDeleted = (@ \union Head(s.entries).request.patch.deletes) \ DOMAIN r.documents,
           !.ownDatasets = [t \in Datasets |->
              IF t \in DOMAIN r.datasets THEN r.datasets[t] ELSE @[t]]]

\* The head leaves the queue.
Shift(s) ==
    LET e == Head(s.entries)
        t == [s EXCEPT !.entries = Tail(@), !.active = FALSE, !.acknowledged = e.last,
                       !.pumpDue = TRUE]
    IN  Settle(t, Reached(t), "resolved")

\* A commit for the entry that starts with first.
Accept(s, first, op, throws) ==
    IF ~IsHead(s, first) \/ ~HasContext(Head(s.entries)) THEN s
    ELSE IF \/ Head(s.entries).context.op # op
            \/ receipts[op].revision <= Head(s.entries).context.revision
    THEN Fail(s, first)
    ELSE IF throws THEN Fail(Note(s, op), first)
    ELSE Shift([Note(s, op) EXCEPT !.received = @ \union {receipts[op].revision},
                                   !.projected = Append(@, op)])

\* drainExternalProjections: n are projected, then onCommit throws unless
\* that was all.
Drain(s, n) ==
    [s EXCEPT !.projected = @ \o SubSeq(s.projections, 1, n),
              !.projections = SubSeq(@, n + 1, Len(@)),
              !.projectionError = n < Len(s.projections)]

\* flushPending for the flush i.
FlushPending(s, i, n) ==
    LET t       == IF s.projections = <<>> THEN s ELSE Drain(s, n)
        through == t.flushes[i].through
        u       == IF t.unsealed /\ t.entries[Len(t.entries)].first <= through
                   THEN Seal(t) ELSE t
    IN  IF n < Len(s.projections) THEN Settle(t, {i}, "rejected")
        ELSE IF through <= t.acknowledged THEN Settle(t, {i}, "resolved")
        ELSE Pump([u EXCEPT
               !.entries = [k \in DOMAIN u.entries |->
                  [u.entries[k] EXCEPT !.ready = @ \/ u.entries[k].first <= through]],
               !.flushes[i].state = "waiting",
               !.error = FALSE])

-----------------------------------------------------------------------------
(* Calls of the user interface *)

\* The coordinator takes the state s, and what pump sends goes out.
Becomes(s, others) ==
    /\ q' = s
    /\ calls' = IF s.sent = q.sent THEN others ELSE others \union {Call("commit", s)}

\* Mutant of Editable: edits are taken while the coordinator closes.
EditableWhileClosing == ~q.closed /\ q.sequence < MaxEdits

\* assertOpen, within the bound on edits.
Editable == ~q.closed /\ ~q.closing /\ q.sequence < MaxEdits

NewEntry(s, ready, draft) ==
    [s EXCEPT !.sequence = @ + 1,
              !.entries = Append(@, [first |-> s.sequence + 1, last |-> s.sequence + 1,
                 ready |-> ready, draft |-> draft, context |-> NoContext, request |-> NoMap])]

\* Mutant of Coalesce: the body that was queued first is kept.
CoalesceFirst(s, d, expected) ==
    LET n == Len(s.entries)
        w == s.entries[n].draft.documents
    IN  [s EXCEPT !.sequence = @ + 1,
           !.entries[n].last = s.sequence + 1,
           !.entries[n].draft.documents = [x \in DOMAIN w \union {d} |->
              IF x \in DOMAIN w THEN w[x]
              ELSE [expected |-> expected, body |-> s.sequence + 1]]]

\* Into the unsealed entry: the latest body, the first expected revision.
Coalesce(s, d, expected) ==
    LET n == Len(s.entries)
        w == s.entries[n].draft.documents
    IN  [s EXCEPT !.sequence = @ + 1,
           !.entries[n].last = s.sequence + 1,
           !.entries[n].draft.documents = [x \in DOMAIN w \union {d} |->
              IF x # d THEN w[x]
              ELSE [expected |-> IF d \in DOMAIN w THEN w[d].expected ELSE expected,
                    body |-> s.sequence + 1]]]

\* The revisions the document stores can hold for d: none, the one just
\* hydrated, or the last own one.
Known(d) == {0, catalog.revision[d], q.ownDocuments[d]}

EnqueueDocument(d, expected) ==
    /\ Editable
    /\ store' = [store EXCEPT ![d] = q.sequence + 1]
    /\ Becomes(Pump(
         IF q.unsealed THEN Coalesce(q, d, expected)
         ELSE [NewEntry(q, FALSE, [NoDraft EXCEPT !.documents =
                 [x \in {d} |-> [expected |-> expected, body |-> q.sequence + 1]]])
               EXCEPT !.unsealed = TRUE]), calls)
    /\ UNCHANGED <<file, events, faults>>

\* Commands are never coalesced, and nothing is coalesced across them.
Submit(draft) ==
    /\ Editable
    /\ Becomes(Pump(NewEntry(Seal(q), TRUE, draft)), calls)
    /\ UNCHANGED <<file, events, faults>>

SubmitMove(d, expected) ==
    /\ "move" \in Commands
    /\ expected # 0
    /\ Submit([NoDraft EXCEPT !.moves = [x \in {d} |-> expected]])
    /\ UNCHANGED store

SubmitDelete(d, expected) ==
    /\ "delete" \in Commands
    /\ expected # 0
    /\ Submit([NoDraft EXCEPT !.deletes = [x \in {d} |-> expected]])
    /\ store' = [store EXCEPT ![d] = NoBody]

SubmitTable(s) ==
    /\ "table" \in Commands
    /\ Submit([NoDraft EXCEPT !.tables = [x \in {s} |-> generations[s]]])
    /\ UNCHANGED store

CaptureBarrier ==
    /\ ~q.closed /\ ~q.closing /\ q.unsealed
    /\ Becomes(Seal(q), calls)
    /\ UNCHANGED <<file, store, events, faults>>

\* flushThrough starts a recovery when the head is a failed record commit.
Recoverable(s, through) ==
    /\ ~s.recovering /\ s.error /\ ~s.projectionError /\ ~s.active /\ s.entries # <<>>
    /\ HasContext(Head(s.entries)) /\ IsRecords(Head(s.entries))
    /\ Head(s.entries).first <= through

\* onCommit may throw while faults are left; n is how many projections
\* succeed before that.
Projections(s, n) ==
    /\ n \in 0..Len(s.projections)
    /\ n < Len(s.projections) => faults < MaxFaults
    /\ faults' = IF n < Len(s.projections) THEN faults + 1 ELSE faults

\* A further flush, which close awaits if closes.
FlushThrough(s, through, closes, n) ==
    LET i     == Len(s.flushes) + 1
        flush == [through |-> through, closes |-> closes, state |-> "chained"]
        t     == [s EXCEPT !.flushes = Append(@, flush)]
    IN  /\ Len(s.flushes) < MaxFlushes
        /\ IF Recoverable(s, through)
           THEN LET u == [t EXCEPT !.active = TRUE, !.recovering = TRUE, !.sent = @ + 1]
                IN  /\ q' = u
                    /\ calls' = calls \union {Call("recover", u)}
           ELSE IF s.recovering THEN q' = t /\ UNCHANGED calls
           ELSE Becomes(FlushPending(t, i, n), calls)
        /\ IF Recoverable(s, through) \/ s.recovering THEN n = 0 /\ UNCHANGED faults
           ELSE Projections(s, n)

Flush(through, n) ==
    /\ ~q.closed
    /\ through \in q.acknowledged + 1..q.sequence
    /\ FlushThrough(q, through, FALSE, n)
    /\ UNCHANGED <<file, store, events>>

Close(n) ==
    /\ ~q.closed /\ ~q.closing
    /\ FlushThrough([Seal(q) EXCEPT !.closing = TRUE], q.sequence, TRUE, n)
    /\ UNCHANGED <<file, store, events>>

\* The user gives up a failed command; record drafts are never given up.
ResolveFailedOperation ==
    LET s == [q EXCEPT !.active = TRUE, !.sent = @ + 1]
    IN  /\ ~q.closed /\ ~q.closing
        /\ q.error /\ ~q.active /\ q.entries # <<>>
        /\ HasContext(Head(q.entries)) /\ ~IsRecords(Head(q.entries))
        /\ q' = s
        /\ calls' = calls \union {Call("resolve", s)}
        /\ UNCHANGED <<file, store, events, faults>>

-----------------------------------------------------------------------------
(* Time and microtasks *)

\* 250 ms have passed since the first edit of the unsealed entry.
WindowElapses ==
    /\ q.unsealed /\ ~q.entries[Len(q.entries)].ready
    /\ q' = [q EXCEPT !.entries[Len(q.entries)].ready = TRUE]
    /\ UNCHANGED <<file, store, calls, events, faults>>

TimerFires ==
    /\ q.timer
    /\ q.entries # <<>> => Head(q.entries).ready
    /\ Becomes(Pump([q EXCEPT !.timer = FALSE]), calls)
    /\ UNCHANGED <<file, store, events, faults>>

\* The pump that accept and resolveFailedOperation leave for later.
PumpLater ==
    /\ q.pumpDue
    /\ Becomes(Pump([q EXCEPT !.pumpDue = FALSE]), calls)
    /\ UNCHANGED <<file, store, events, faults>>

\* A flush that was chained on a recovery, the earliest of them, goes on.
FlushGoesOn(n) ==
    /\ ~q.recovering /\ Flushes(q, "chained") # {}
    /\ LET i == CHOOSE i \in Flushes(q, "chained") : \A j \in Flushes(q, "chained") : i <= j
       IN  Becomes(FlushPending(q, i, n), calls)
    /\ Projections(q, n)
    /\ UNCHANGED <<file, store, events>>

-----------------------------------------------------------------------------
(* The backend *)

\* An executed call is answered, unless its caller has given it up.
Answer(c, answer) ==
    calls' = (calls \ {c}) \union
               IF c.late THEN {}
               ELSE {[c EXCEPT !.answer = answer, !.revision = committedRevision]}

\* commit_project_records and the table commands emit for replays too.
ExecuteCommit(c) ==
    /\ c.kind = "commit" /\ c.answer = "none"
    /\ \/ /\ Backend!Outcome(c.context, c.request) = "committed"
          /\ Backend!Commit(c.context, c.request)
          /\ Answer(c, "committed")
          /\ events' = events \union {c.context.op}
       \/ /\ Backend!Outcome(c.context, c.request) = "replayed"
          /\ Answer(c, "committed")
          /\ events' = events \union {c.context.op}
          /\ UNCHANGED file
       \/ /\ Backend!Outcome(c.context, c.request) \notin {"committed", "replayed"}
          /\ Answer(c, "error")
          /\ UNCHANGED <<file, events>>
    /\ UNCHANGED <<q, store, faults>>

\* resolve_project_operation
ExecuteResolve(c) ==
    /\ c.kind \in {"recover", "resolve"} /\ c.answer = "none"
    /\ \/ /\ c.context.op \in DOMAIN receipts
          /\ Answer(c, "committed")
          /\ events' = events \union {c.context.op}
          /\ UNCHANGED file
       \/ /\ Backend!ResolveOperation(c.context)
          /\ Answer(c, "cancelled")
          /\ UNCHANGED events
    /\ UNCHANGED <<q, store, faults>>

ExternalRequests ==
    {[patch |-> [Backend!EmptyPatch EXCEPT !.documents = [x \in {d} |->
         [expected |-> catalog.revision[d], proposed |-> catalog.revision[d] + 1,
          folder |-> "", body |-> External]]], datasets |-> {}, edits |-> {}] : d \in Documents}
    \union {[patch |-> Backend!EmptyPatch, datasets |-> {s}, edits |-> {}] : s \in Datasets}

\* Another client of the session commits.
ExternalCommit(req) ==
    \E op \in Operations \ (OwnOperations \union DOMAIN receipts) :
      /\ Backend!Commit([op |-> op, epoch |-> 1, revision |-> committedRevision,
                         documents |-> NoMap, datasets |-> NoMap], req)
      /\ events' = events \union {op}
      /\ UNCHANGED <<q, store, calls, faults>>

-----------------------------------------------------------------------------
(* Answers and events *)

Throws(throws) ==
    /\ throws => faults < MaxFaults
    /\ faults' = IF throws THEN faults + 1 ELSE faults

SettleCommit(c, throws) ==
    /\ c.kind = "commit" /\ c.answer # "none"
    /\ Becomes(IF c.answer = "committed" THEN Accept(q, c.entry, c.context.op, throws)
               ELSE Fail(q, c.entry), calls \ {c})
    /\ Throws(throws)
    /\ UNCHANGED <<file, store, events>>

\* The resolver is unavailable: only the unchanged identity may be replayed.
Unfenced(s, first) ==
    IF IsHead(s, first) THEN [s EXCEPT !.active = FALSE, !.error = FALSE] ELSE s

\* The old identity is fenced: the draft gets a new one.
Fenced(s, first, revision) ==
    IF IsHead(s, first)
    THEN [s EXCEPT !.entries[1].context = NoContext, !.entries[1].ready = TRUE,
                   !.revision = Larger(@, revision), !.active = FALSE, !.error = FALSE]
    ELSE s

\* recoverFailedRecord is over: the flushes chained on it fail with it or
\* go on (FlushGoesOn).
SettleRecover(c, throws) ==
    LET s == [(IF c.answer = "committed" THEN Accept(q, c.entry, c.context.op, throws)
               ELSE Fenced(q, c.entry, c.revision)) EXCEPT !.recovering = FALSE]
    IN  /\ c.kind = "recover" /\ c.answer # "none"
        /\ Becomes(IF IsHead(s, c.entry) /\ s.error
                   THEN Settle(s, Flushes(s, "chained"), "rejected") ELSE s, calls \ {c})
        /\ Throws(throws)
        /\ UNCHANGED <<file, store, events>>

SettleResolve(c, throws) ==
    /\ c.kind = "resolve" /\ c.answer # "none"
    /\ Becomes(
         IF c.answer = "committed" THEN Accept(q, c.entry, c.context.op, throws)
         ELSE IF IsHead(q, c.entry)
         THEN Shift([q EXCEPT !.revision = Larger(@, c.revision), !.error = FALSE,
                              !.discarded = @ \union c.request.edits])
         ELSE q, calls \ {c})
    /\ Throws(throws)
    /\ UNCHANGED <<file, store, events>>

\* A call fails for its caller: before it was executed (it may be lost or
\* merely late) or with its answer lost.
FailCall(c) ==
    /\ faults < MaxFaults /\ ~c.late
    /\ faults' = faults + 1
    /\ \E others \in {calls \ {c}, (calls \ {c}) \union {[c EXCEPT !.late = TRUE]}} :
         /\ c.answer # "none" => others = calls \ {c}
         /\ Becomes(IF c.kind = "recover" THEN [Unfenced(q, c.entry) EXCEPT !.recovering = FALSE]
                    ELSE Fail(q, c.entry), others)
    /\ UNCHANGED <<file, store, events>>

\* receive: the event of op.
DeliverEvent(op, throws, n) ==
    LET own  == q.entries # <<>> /\ Head(q.entries).context.op = op
        r    == receipts[op].revision
        s    == [q EXCEPT !.received = @ \union {r}, !.revision = Larger(@, r),
                          !.projections = Append(@, op)]
        past == q.closed \/ (~own /\ r \in q.received)
    IN  /\ events' = events \ {op}
        /\ \/ past /\ UNCHANGED <<q, calls, faults>> /\ ~throws /\ n = 0
           \/ /\ ~past /\ own /\ n = 0
              /\ Becomes(Accept(q, Head(q.entries).first, op, throws), calls)
              /\ Throws(throws)
           \/ /\ ~past /\ ~own /\ ~throws
              /\ Projections(s, n)
              /\ Becomes(IF n = Len(s.projections) THEN Pump(Drain(s, n)) ELSE Drain(s, n), calls)
        /\ UNCHANGED <<file, store>>

-----------------------------------------------------------------------------
UserStep ==
    \/ \E d \in Documents : \E e \in Known(d) :
         EnqueueDocument(d, e) \/ SubmitMove(d, e) \/ SubmitDelete(d, e)
    \/ \E s \in Datasets : SubmitTable(s)
    \/ CaptureBarrier
    \/ \E n \in 0..Len(q.projections) :
         (\E through \in 1..MaxEdits : Flush(through, n)) \/ Close(n)
    \/ ResolveFailedOperation

Execute(c) == ExecuteCommit(c) \/ ExecuteResolve(c)

SettleCall(c) ==
    \E throws \in (IF c.answer = "committed" THEN BOOLEAN ELSE {FALSE}) :
      \/ SettleCommit(c, throws)
      \/ SettleResolve(c, throws)
      \/ SettleRecover(c, throws)

Microtask == PumpLater \/ \E n \in 0..Len(q.projections) : FlushGoesOn(n)

\* Timers, answers and events come as tasks, after all microtasks.  Callers
\* that continue after an await are microtasks themselves.
Task ==
    /\ ~q.pumpDue
    /\ q.recovering \/ Flushes(q, "chained") = {}
    /\ \/ TimerFires
       \/ \E c \in calls : SettleCall(c)
       \/ \E c \in calls : FailCall(c)
       \/ \E op \in events, throws \in BOOLEAN : \E n \in 0..Len(q.projections) + 1 :
            DeliverEvent(op, throws, n)

Next ==
    \/ UserStep
    \/ WindowElapses
    \/ Microtask
    \/ Task
    \/ \E c \in calls : Execute(c)
    \/ \E req \in ExternalRequests : ExternalCommit(req)

\* Microtasks run, time passes, timers fire, and a call that is under way is
\* executed and settles.  Users need not act, and events may stay away: a
\* failed emit is only logged.
Fairness ==
    /\ WF_vars(Microtask)
    /\ WF_vars(WindowElapses)
    /\ WF_vars(Task /\ TimerFires)
    /\ WF_vars(\E c \in calls : ~c.late /\ Execute(c))
    /\ WF_vars(Task /\ \E c \in calls : SettleCall(c))

Spec == Init /\ [][Next]_vars /\ Fairness

-----------------------------------------------------------------------------
(* Properties *)

TypeOK ==
    /\ q.sequence \in 0..MaxEdits
    /\ q.acknowledged \in 0..q.sequence
    /\ q.revision \in 0..committedRevision
    /\ q.operations \in 0..Cardinality(OwnOperations)
    /\ q.received \subseteq 1..committedRevision
    /\ q.unsealed => q.entries # <<>> /\ ~HasContext(q.entries[Len(q.entries)])
    /\ q.active => q.entries # <<>>
    /\ \A i \in DOMAIN q.flushes :
         q.flushes[i].state \in {"chained", "waiting", "resolved", "rejected"}
    /\ store \in [Documents -> 1..MaxEdits \union {NoBody}]
    /\ \A c \in calls : c.context.op \in OwnOperations
    /\ events \subseteq DOMAIN receipts

Edits(o) == receipts[o].digest.request.edits
Durable == UNION {Edits(o) : o \in DOMAIN receipts}

\* flushThrough, Ctrl+S: it "waits until all operations through that sequence
\* are durably acknowledged"; a flush that resolves has them all in the file,
\* but for commands the user gave up.
FlushedIsDurable ==
    \A i \in Flushes(q, "resolved") : 1..q.flushes[i].through \subseteq Durable \union q.discarded

\* close: a coordinator that closed leaves no accepted edit behind.
ClosedLosesNothing == q.closed => 1..q.sequence \subseteq Durable \union q.discarded

\* The status "saved": with nothing queued, every document in the file is what
\* the stores show, or what another client wrote over it.
SavedMeansStored ==
    q.entries = <<>> => \A d \in Documents : catalog.body[d] \in {store[d], External}

\* The own commits of the file, oldest first.
OwnLog ==
    LET own == {o \in DOMAIN receipts : Edits(o) # {}}
        nth(i) == CHOOSE o \in own :
                    Cardinality({p \in own : receipts[p].revision <= receipts[o].revision}) = i
    IN  [i \in 1..Cardinality(own) |-> Edits(nth(i))]

\* "A save error cannot clear pending state or advance the acknowledged
\* revision": the coordinator, over the backend, is a durable queue.
Promise == INSTANCE DurableQueue WITH
    accepted <- q.sequence, log <- OwnLog, discarded <- q.discarded,
    acknowledged <- q.acknowledged
ImplementsDurableQueue == Promise!Spec

Pending(i) == i \in DOMAIN q.flushes /\ q.flushes[i].state \in {"chained", "waiting"}
Settled(i) == i \in DOMAIN q.flushes /\ q.flushes[i].state \in {"resolved", "rejected"}

\* A failed projection "keeps barriers failed" and no barrier hangs: every
\* flushThrough resolves or rejects.  receive breaks this: it records the
\* failure of an external projection, which stops pump, and tells no waiter.
FlushSettles == \A i \in 1..MaxFlushes : Pending(i) ~> Settled(i)

\* What does hold: every flush settles, whatever calls were lost, late or
\* failed, unless an external projection failed and the status shows it.
FlushSettlesOrReports == \A i \in 1..MaxFlushes : Pending(i) ~> (Settled(i) \/ q.projectionError)
=============================================================================
