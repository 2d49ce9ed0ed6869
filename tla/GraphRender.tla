----------------------------- MODULE GraphRender -----------------------------
(***************************************************************************)
(* The rendering runtime of the graph builder (GraphNewRuntime and         *)
(* GraphNewService::render_with in graph_new_service.rs).                  *)
(*                                                                         *)
(* A render request first makes itself the owner of the runtime (begin),   *)
(* then tries the cache lock and holds it until it ends.  Cancellations,   *)
(* session closes, table edits and replacements of the database run beside *)
(* it; the request notices them at its checks and, for good, when it       *)
(* publishes under the owner lock and the database lock.  Critical         *)
(* sections of the owner and database locks are single steps.  Memory and  *)
(* disk pressure is a free choice here: GraphCache models the accounting.  *)
(*                                                                         *)
(* The frontend's request id is made of the session and the generation     *)
(* (GraphNewCanvas.tsx), so `id' is that pair.  A graph key is the dataset *)
(* generation it was requested for; a graph's content is the database and  *)
(* the generation it was really read from.                                 *)
(***************************************************************************)
EXTENDS Naturals, FiniteSets

CONSTANTS
  Threads,     \* command threads that may run render_graph_new
  Sessions,    \* transport sessions of the frontend
  MaxGen,      \* bound: renderer generations are 1..MaxGen
  MaxData,     \* bound: dataset generations are 0..MaxData
  MaxDb,       \* bound: databases opened after the first
  UnlinkFails, \* may removing a cache file fail while the cache is invalidated
  MaxEpoch,    \* bound: no switch starts at this epoch
  None

\* What the constants must be; the module that instantiates this one assumes it.
BoundsAssumption == MaxGen \in Nat /\ MaxData \in Nat /\ MaxDb \in Nat /\ MaxEpoch \in Nat
                            /\ UnlinkFails \in BOOLEAN

VARIABLES
  owner,       \* RenderOwner: session, gen, id, active, closed, preserve
  suspended,   \* the runtime accepts no new request
  epoch,       \* AppState.graph_new_epoch
  db, data,    \* the installed database; the dataset's generation in each
  lock,        \* the thread that holds the cache mutex, or None
  entries,     \* resident graphs: records [key, content]
  disk,        \* persisted graphs: records [key, content]
  pinned,      \* the key that eviction must spare, or None
  cacheEpoch,  \* the epoch the cache was last synchronised with
  job,         \* what each command thread is doing
  mgr,         \* the open or close of a project in progress
  sent,        \* the last frame sent to the frontend
  cancelled    \* requests whose cancel or close has been handled (history)

cacheVars == <<lock, entries, disk, pinned, cacheEpoch>>
dbVars == <<epoch, db, data>>
vars == <<owner, suspended, dbVars, cacheVars, job, mgr, sent, cancelled>>

Gens == 1..MaxGen
Absent == MaxData + 1           \* the dataset does not exist in this database
Content == <<db, data[db]>>     \* what the installed database holds now
Graph == [key : 0..MaxData, content : (0..MaxDb) \X (0..Absent)]
NoOwner == [session |-> None, gen |-> 0, id |-> None, active |-> FALSE,
            closed |-> FALSE, preserve |-> FALSE]
Idle == [at |-> "idle", session |-> None, gen |-> 0, key |-> 0, kind |-> "full",
         epoch |-> 0, conn |-> 0, graph |-> None]

NoSwitch == [kind |-> "none", at |-> "idle"]

Init ==
  /\ owner = NoOwner /\ suspended = FALSE
  /\ epoch = 0 /\ db = 0 /\ data = [d \in 0..MaxDb |-> 0]
  /\ lock = None /\ entries = {} /\ disk = {} /\ pinned = None /\ cacheEpoch = 0
  /\ job = [t \in Threads |-> Idle]
  /\ mgr = NoSwitch /\ sent = None /\ cancelled = {}

Of(t, o) == o.id = <<job[t].session, job[t].gen>>
IsCurrent(t) == owner.active /\ ~owner.closed /\ Of(t, owner)
EnsureCurrent(t) == IsCurrent(t) /\ epoch = job[t].epoch /\ data[db] = job[t].key
Unpinned(s) == {g \in s : g.key # pinned}
WithKey(s, k) == {g \in s : g.key = k}
Go(t, where) == job' = [job EXCEPT ![t].at = where]

-----------------------------------------------------------------------------
(* A render request *)

\* begin: a newer generation of a session that is not closed becomes owner.
Begin(t, s, g, k, kind) ==
  /\ job[t].at = "idle"
  /\ ~suspended /\ g > owner.gen /\ ~(owner.closed /\ owner.session = s)
  /\ owner' = [session |-> s, gen |-> g, id |-> <<s, g>>, active |-> TRUE,
               closed |-> FALSE, preserve |-> FALSE]
  /\ job' = [job EXCEPT ![t] = [Idle EXCEPT !.at = "begun", !.session = s, !.gen = g,
                                            !.key = k, !.kind = kind]]
  /\ UNCHANGED <<suspended, dbVars, cacheVars, mgr, sent, cancelled>>

\* invalidate: everything goes, except the records of files that cannot be removed.
Invalidate ==
  /\ entries' = {} /\ pinned' = None
  /\ disk' \in (IF UnlinkFails THEN SUBSET disk ELSE {{}})

\* Mutants of SyncEpoch: the cache believes it is one epoch ahead; a new epoch
\* does not drop the files.
SyncEpochKeeps(t) ==
  /\ job[t].at = "begun" /\ lock = None
  /\ lock' = t /\ cacheEpoch' = epoch /\ UNCHANGED disk
  /\ IF cacheEpoch # epoch THEN entries' = {} /\ pinned' = None
                           ELSE UNCHANGED <<entries, pinned>>
  /\ job' = [job EXCEPT ![t].at = "locked", ![t].epoch = epoch]
  /\ UNCHANGED <<owner, suspended, dbVars, mgr, sent, cancelled>>

\* try_lock, the epoch is read and the cache synchronised with it; a busy cache
\* revokes the request.
SyncEpoch(t) ==
  /\ job[t].at = "begun" /\ lock = None
  /\ lock' = t /\ cacheEpoch' = epoch
  /\ IF cacheEpoch # epoch THEN entries' = {} /\ pinned' = None /\ disk' = {}
                           ELSE UNCHANGED <<entries, disk, pinned>>
  /\ job' = [job EXCEPT ![t].at = "locked", ![t].epoch = epoch]
  /\ UNCHANGED <<owner, suspended, dbVars, mgr, sent, cancelled>>

Busy(t) ==
  /\ job[t].at = "begun" /\ lock # None
  /\ owner' = IF Of(t, owner) THEN [owner EXCEPT !.active = FALSE] ELSE owner
  /\ job' = [job EXCEPT ![t] = Idle]
  /\ UNCHANGED <<suspended, dbVars, cacheVars, mgr, sent, cancelled>>

\* Mutant of Fail: a request revoked before its lookup is not noticed.
FailLater(t) ==
  /\ job[t].at \in {"admit", "scan", "scanned", "ready", "drawn"}
  /\ Go(t, "ending")
  /\ UNCHANGED <<owner, suspended, dbVars, cacheVars, mgr, sent, cancelled>>

\* Any failed check or failing call inside the closure.
Fail(t) ==
  /\ job[t].at \in {"locked", "admit", "scan", "scanned", "ready", "drawn"}
  /\ job[t].at \in {"locked", "scan"} => ~EnsureCurrent(t)
  /\ Go(t, "ending")
  /\ UNCHANGED <<owner, suspended, dbVars, cacheVars, mgr, sent, cancelled>>

\* contains: a resident graph is used as it is.
Hit(t) ==
  /\ job[t].at = "locked" /\ EnsureCurrent(t)
  /\ \E g \in WithKey(entries, job[t].key) :
       job' = [job EXCEPT ![t].at = "ready", ![t].graph = g.content]
  /\ UNCHANGED <<owner, suspended, dbVars, cacheVars, mgr, sent, cancelled>>

\* A miss: a full request of the layered view gives up the pin, a camera
\* request fails, and the disk is tried (restore evicts before it reads).
MissedPin(t) == IF job[t].kind = "layers" THEN None ELSE pinned
Restore(t) ==
  /\ job[t].at = "locked" /\ EnsureCurrent(t)
  /\ WithKey(entries, job[t].key) = {}
  /\ LET keep == {g \in entries : g.key = MissedPin(t)}
         found == WithKey(disk, job[t].key)
     IN
     \/ /\ job[t].kind = "camera" /\ Go(t, "ending")
        /\ UNCHANGED <<entries, disk, pinned>>
     \/ /\ job[t].kind # "camera"
        /\ \E g \in found :
             /\ entries' = keep \cup {g}
             /\ job' = [job EXCEPT ![t].at = "ready", ![t].graph = g.content]
        /\ pinned' = IF MissedPin(t) = job[t].key THEN None ELSE MissedPin(t)
        /\ UNCHANGED disk
     \/ /\ job[t].kind # "camera" /\ Go(t, "admit")
        /\ entries' \in (IF found = {} THEN {entries} ELSE {entries, keep})
        /\ disk' \in {disk, disk \ found}
        /\ pinned' = MissedPin(t)
  /\ UNCHANGED <<owner, suspended, dbVars, lock, cacheEpoch, mgr, sent, cancelled>>

\* admit_construction evicts unpinned graphs; the build then opens its own
\* connection after a check under the database lock.
Admit(t) ==
  /\ job[t].at = "admit"
  /\ \E out \in SUBSET Unpinned(entries), gone \in SUBSET Unpinned(disk) :
       entries' = entries \ out /\ disk' = disk \ gone
  /\ job' = [job EXCEPT ![t].at = IF EnsureCurrent(t) THEN "scan" ELSE "ending", ![t].conn = db]
  /\ UNCHANGED <<owner, suspended, dbVars, lock, pinned, cacheEpoch, mgr, sent, cancelled>>

\* The projection query sees what its connection's database holds when it starts.
Scan(t) ==
  /\ job[t].at = "scan"
  /\ job' = [job EXCEPT ![t].at = "scanned", ![t].graph = <<job[t].conn, data[job[t].conn]>>]
  /\ UNCHANGED <<owner, suspended, dbVars, cacheVars, mgr, sent, cancelled>>

\* The build's last check, prepare_constructed_admission and ensure_current.
Built(t) ==
  /\ job[t].at = "scanned" /\ EnsureCurrent(t)
  /\ \E out \in SUBSET Unpinned(entries), gone \in SUBSET Unpinned(disk) :
       entries' = entries \ out /\ disk' = disk \ gone
  /\ Go(t, "ready")
  /\ UNCHANGED <<owner, suspended, dbVars, lock, pinned, cacheEpoch, mgr, sent, cancelled>>

\* Tiles are selected (a damaged graph is rejected) and the scene rendered.
Draw(t) ==
  /\ job[t].at = "ready" /\ EnsureCurrent(t) /\ Go(t, "drawn")
  /\ UNCHANGED <<owner, suspended, dbVars, cacheVars, mgr, sent, cancelled>>

Drop(k) ==
  /\ entries' = entries \ WithKey(entries, k)
  /\ pinned' = IF pinned = k THEN None ELSE pinned

RejectCorrupt(t) ==
  /\ job[t].at = "ready" /\ Drop(job[t].key)
  /\ disk' \in {disk, disk \ WithKey(disk, job[t].key)}
  /\ Go(t, "ending")
  /\ UNCHANGED <<owner, suspended, dbVars, lock, cacheEpoch, mgr, sent, cancelled>>

\* Under the owner and the database lock: the last check, the frame, and the
\* graph becomes resident and pinned.
Publish(t) ==
  LET k == job[t].key g == [key |-> k, content |-> job[t].graph] IN
  /\ job[t].at = "drawn" /\ IsCurrent(t)
  /\ IF epoch = job[t].epoch /\ data[db] = k
     THEN /\ sent' = [session |-> job[t].session, gen |-> job[t].gen, content |-> job[t].graph]
          /\ entries' = (entries \ WithKey(entries, k)) \cup {g}
          /\ pinned' = k /\ Go(t, "published")
     ELSE /\ Drop(k) /\ Go(t, "ending") /\ UNCHANGED sent
  /\ UNCHANGED <<owner, suspended, dbVars, lock, disk, cacheEpoch, mgr, cancelled>>

\* persist: best effort, after the locks are released.
Persist(t) ==
  /\ job[t].at = "published" /\ Go(t, "ending")
  /\ \/ UNCHANGED disk
     \/ \E gone \in SUBSET Unpinned(disk), new \in {{}, WithKey(entries, job[t].key)} :
          disk' = (disk \ (gone \cup WithKey(disk, job[t].key))) \cup new
  /\ UNCHANGED <<owner, suspended, dbVars, lock, entries, pinned, cacheEpoch, mgr, sent, cancelled>>

\* discard_admission, the pin of a revoked request is released, the lock dropped.
Finish(t) ==
  /\ job[t].at = "ending"
  /\ pinned' = IF (~owner.active /\ ~owner.preserve) \/ owner.closed THEN None ELSE pinned
  /\ owner' = IF Of(t, owner) THEN [owner EXCEPT !.active = FALSE] ELSE owner
  /\ lock' = None /\ job' = [job EXCEPT ![t] = Idle]
  /\ UNCHANGED <<suspended, dbVars, entries, disk, cacheEpoch, mgr, sent, cancelled>>

-----------------------------------------------------------------------------
(* Controls of the frontend; they may overtake or lag the request they name *)

UnpinIfFree == pinned' = IF lock = None THEN None ELSE pinned

\* cancel_request_with_cache
Cancel(s, g, preserve) ==
  /\ IF g > owner.gen
     THEN /\ owner' = [session |-> s, gen |-> g, id |-> <<s, g>>, active |-> FALSE,
                       closed |-> owner.closed /\ owner.session = s, preserve |-> preserve]
          /\ IF preserve THEN UNCHANGED pinned ELSE UnpinIfFree
     ELSE IF owner.id = <<s, g>>
     THEN /\ owner' = [owner EXCEPT !.active = FALSE,
                         !.preserve = preserve /\ (owner.active \/ owner.preserve)]
          /\ IF preserve THEN UNCHANGED pinned ELSE UnpinIfFree
     ELSE UNCHANGED <<owner, pinned>>
  /\ cancelled' = cancelled \cup {<<s, g>>}
  /\ UNCHANGED <<suspended, dbVars, lock, entries, disk, cacheEpoch, job, mgr, sent>>

\* close_session
CloseSession(s, g) ==
  /\ IF g > owner.gen \/ (g = owner.gen /\ owner.session = s)
     THEN /\ owner' = [NoOwner EXCEPT !.session = s, !.gen = g, !.closed = TRUE]
          /\ UnpinIfFree
     ELSE UNCHANGED <<owner, pinned>>
  /\ cancelled' = cancelled \cup {<<s, h>> : h \in 1..g}
  /\ UNCHANGED <<suspended, dbVars, lock, entries, disk, cacheEpoch, job, mgr, sent>>

-----------------------------------------------------------------------------
(* The data and the database under the graph *)

\* A table mutation raises the dataset's generation under the database lock.
Mutate ==
  /\ data[db] < MaxData /\ data' = [data EXCEPT ![db] = @ + 1]
  /\ UNCHANGED <<owner, suspended, epoch, db, cacheVars, job, mgr, sent, cancelled>>

\* reset_db and the legacy open: database and epoch change under the database lock.
ReplaceTemporary(d) ==
  /\ mgr = NoSwitch /\ db < MaxDb /\ epoch < MaxEpoch
  /\ db' = db + 1 /\ data' = [data EXCEPT ![db + 1] = d] /\ epoch' = epoch + 1
  /\ UNCHANGED <<owner, suspended, cacheVars, job, mgr, sent, cancelled>>

\* publish_database ("open") and retire_database ("close"): raise the epoch,
\* then shutdown in its three steps.
StartSwitch(kind) ==
  /\ mgr = NoSwitch /\ db < MaxDb /\ epoch < MaxEpoch
  /\ mgr' = [kind |-> kind, at |-> "bumped"] /\ epoch' = epoch + 1
  /\ UNCHANGED <<owner, suspended, db, data, cacheVars, job, sent, cancelled>>

Suspend ==
  /\ mgr.at = "bumped" /\ mgr' = [mgr EXCEPT !.at = "suspended"] /\ suspended' = TRUE
  /\ UNCHANGED <<owner, dbVars, cacheVars, job, sent, cancelled>>

CloseOwner ==
  /\ mgr.at = "suspended" /\ mgr' = [mgr EXCEPT !.at = "closed"]
  /\ owner' = [owner EXCEPT !.active = FALSE, !.closed = TRUE, !.preserve = FALSE]
  /\ UNCHANGED <<suspended, dbVars, cacheVars, job, sent, cancelled>>

JoinCache ==
  /\ mgr.at = "closed" /\ lock = None /\ mgr' = [mgr EXCEPT !.at = "joined"]
  /\ Invalidate
  /\ UNCHANGED <<owner, suspended, dbVars, lock, cacheEpoch, job, sent, cancelled>>

\* prepare_close refuses: resume_previous.
Refused ==
  /\ mgr.at = "joined" /\ mgr' = NoSwitch
  /\ owner' = [owner EXCEPT !.active = FALSE, !.closed = FALSE] /\ suspended' = FALSE
  /\ UNCHANGED <<dbVars, cacheVars, job, sent, cancelled>>

\* A project's database is installed and the runtime resumes (resume); an open
\* then raises the epoch once more.  A close installs an empty database.
Install(d) ==
  /\ mgr.at = "joined" /\ mgr' = [mgr EXCEPT !.at = "installed"]
  /\ mgr.kind = "close" => d = Absent
  /\ db' = db + 1 /\ data' = [data EXCEPT ![db + 1] = d]
  /\ UNCHANGED <<owner, suspended, epoch, cacheVars, job, sent, cancelled>>

Resume ==
  /\ mgr.at = "installed" /\ suspended' = FALSE
  /\ mgr' = IF mgr.kind = "open" THEN [mgr EXCEPT !.at = "resumed"] ELSE NoSwitch
  /\ UNCHANGED <<owner, dbVars, cacheVars, job, sent, cancelled>>

RaiseEpoch ==
  /\ mgr.at = "resumed" /\ mgr' = NoSwitch /\ epoch' = epoch + 1
  /\ UNCHANGED <<owner, suspended, db, data, cacheVars, job, sent, cancelled>>

-----------------------------------------------------------------------------
Work(t) ==
  \/ SyncEpoch(t) \/ Busy(t) \/ Fail(t) \/ Hit(t) \/ Restore(t) \/ Admit(t) \/ Scan(t)
  \/ Built(t) \/ Draw(t) \/ RejectCorrupt(t) \/ Publish(t) \/ Persist(t) \/ Finish(t)

Switch ==
  \/ Suspend \/ CloseOwner \/ JoinCache \/ Refused \/ Resume \/ RaiseEpoch
  \/ \E d \in 0..Absent : Install(d)

Next ==
  \/ \E t \in Threads : Work(t)
  \/ \E t \in Threads, s \in Sessions, g \in Gens, k \in 0..MaxData,
        kind \in {"full", "layers", "camera"} : Begin(t, s, g, k, kind)
  \/ \E s \in Sessions, g \in Gens : CloseSession(s, g) \/ \E p \in BOOLEAN : Cancel(s, g, p)
  \/ Mutate \/ \E d \in 0..MaxData : ReplaceTemporary(d)
  \/ \E kind \in {"open", "close"} : StartSwitch(kind)
  \/ Switch

\* A command thread and the manager of the project keep running; what the
\* frontend sends and what users edit is not promised.
Fairness == (\A t \in Threads : WF_vars(Work(t))) /\ WF_vars(Switch)
Spec == Init /\ [][Next]_vars
FairSpec == Spec /\ Fairness

-----------------------------------------------------------------------------
TypeOK ==
  /\ owner.gen \in 0..MaxGen /\ owner.id \in {None} \cup (Sessions \X Gens)
  /\ owner.active \in BOOLEAN /\ owner.closed \in BOOLEAN /\ owner.preserve \in BOOLEAN
  /\ suspended \in BOOLEAN /\ db \in 0..MaxDb /\ data \in [0..MaxDb -> 0..Absent]
  /\ epoch \in Nat /\ cacheEpoch \in 0..epoch
  /\ lock \in Threads \cup {None} /\ entries \subseteq Graph /\ disk \subseteq Graph
  /\ pinned \in (0..MaxData) \cup {None}

\* Every frame sent shows the data the installed database holds at that moment,
\* whatever edits and project switches ran while it was built, cached, stored or
\* restored (render_with: sync_epoch, ensure_current, the check under the locks).
FrameIsCurrent == sent' # sent => sent'.content = Content
FramesAreCurrent == [][FrameIsCurrent]_vars

\* Once the backend has handled a cancel or a close that covers a request, no
\* frame of that request is sent, even when the control overtook the request;
\* and frames only go forward in generation.
RevokedIsNotSent ==
  sent' # sent => /\ <<sent'.session, sent'.gen>> \notin cancelled
                  /\ sent = None \/ sent'.gen > sent.gen

\* A pinned graph that no frame holds on screen would keep its memory for ever:
\* when the session is closed and no request or shutdown is under way, nothing
\* is pinned (close_session, cancel and the end of render_with share the duty).
ClosedIsUnpinned ==
  (owner.closed /\ lock = None /\ mgr.at # "closed") => pinned = None

\* After shutdown has joined the cache and until the runtime resumes, no graph of
\* the old database is resident and no request can put one there.
JoinedIsEmpty ==
  mgr.at \in {"joined", "installed"} =>
     /\ entries = {} /\ pinned = None
     /\ \A t \in Threads : job[t].at \in {"idle", "begun", "locked", "ending"}

\* Every accepted request ends, and every open or close of a project that
\* shuts the runtime down gets past the request holding the cache.
EveryRequestEnds == \A t \in Threads : (job[t].at # "idle") ~> (job[t].at = "idle")
EverySwitchEnds == (mgr # NoSwitch) ~> (mgr = NoSwitch)
=============================================================================
