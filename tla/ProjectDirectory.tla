-------------------------- MODULE ProjectDirectory --------------------------
(***************************************************************************)
(* The frontend's two copies of a project's directory: the catalog store   *)
(* (stores/useProjectCatalogStore.ts), which lists it page by page and     *)
(* loads bodies on demand, and the summaries of the document adapters      *)
(* (projectPersistence/documentAdapters.ts), which the workspace and the   *)
(* commands read.                                                          *)
(*                                                                         *)
(* Pages, bodies and project-committed events reach the frontend on        *)
(* different ways and in any order.  A cursor carries the revision it was  *)
(* made at and is refused once the project has moved on.  Revisions of a   *)
(* document go on after it was deleted (ProjectTransaction).               *)
(*                                                                         *)
(* The commits are those of other clients; drafts that wait in the         *)
(* coordinator are in Autosave.                                            *)
(***************************************************************************)
EXTENDS Integers, FiniteSets

CONSTANTS
    Size,         \* documents 1..Size, in the order they are listed
    MaxRevision,  \* bound on commits
    Overtaking    \* may a page arrive before the event of a commit it shows?

\* What the constants must be; the module that instantiates this one assumes it.
DirectoryAssumption ==
    /\ {Size, MaxRevision} \subseteq Nat \ {0}
    /\ Overtaking \in BOOLEAN

Ids == 1..Size
Absent == 0          \* the revision of a document that is not there
NoCursor == [revision |-> 0, id |-> 0]
NotLoading == [step |-> "idle", after |-> NoCursor, attempt |-> 0, changed |-> FALSE]
NoPage == [ids |-> {}, entries |-> [i \in Ids |-> Absent], next |-> NoCursor, revision |-> 0, stale |-> FALSE]
NoRequest == [revision |-> 0, answer |-> "none"]

VARIABLES
    revision,    \* the project's committed revision
    directory,   \* Ids -> revision of the document, or Absent
    watermark,   \* Ids -> the last revision the document ever had
    events,      \* commits whose event is under way: [revision, id, entry]
    summaries,   \* Ids -> revision the catalog store lists, or Absent
    overlays,    \* Ids -> the last commit of the document the store applied
    committed,   \* the store's committedRevision
    pageRevision, nextCursor, pageDirty,  \* the state of its listing
    load, page,  \* the page that is being loaded, and the answer
    bodies,      \* Ids -> what the store has of the body
    requests,    \* Ids -> the body request under way
    adapter      \* Ids -> what the document adapters know

project == <<revision, directory, watermark>>
listing == <<summaries, overlays, committed, pageRevision, nextCursor, pageDirty, load, page>>
content == <<bodies, requests>>
vars == <<project, events, listing, content, adapter>>

Unloaded(r) == [status |-> "unloaded", revision |-> r]

-----------------------------------------------------------------------------
(* The document adapters, one document at a time *)

\* registerSummary: a summary read, or committed, at revision r.
Registered(a, entry, r) ==
    IF a.metadata > r \/ entry < a.summary THEN a
    ELSE [a EXCEPT !.summary = entry, !.metadata = r, !.hidden = FALSE,
                   !.deletedAt = IF r > @ THEN 0 ELSE @]

\* The document is not in the directory of revision r.
Removed(a, r) ==
    IF a.metadata > r THEN a
    ELSE [a EXCEPT !.summary = Absent, !.metadata = r, !.deletedAt = r, !.hidden = TRUE]

\* reconcileDirectory: the listing of revision r is complete.
Reconciled(a, present, r) ==
    IF present \/ a.summary = Absent THEN a ELSE Removed(a, r)

\* applyCommit, then registerSummary of the commit's entries.
Applied(a, c) ==
    IF c.entry = Absent THEN Removed(a, c.revision)
    ELSE LET b == Registered(a, c.entry, c.revision)
         IN  IF (b.deletedAt # 0 /\ c.revision <= b.deletedAt) \/ b.summary = Absent \/ b.hidden
             THEN b
             ELSE [b EXCEPT !.summary = IF c.entry > @ THEN c.entry ELSE @]

\* hydrate: a body of revision r, if it is the one that is listed.
Takes(a, r) == ~a.hidden /\ (a.summary = Absent \/ a.summary = r)

\* directorySummaries
Listed(a) == IF a.hidden THEN Absent ELSE a.summary

-----------------------------------------------------------------------------
(* The project *)

\* ProjectCatalog::list, with a limit of one document.
PageAfter(cursor) ==
    LET rest == {i \in Ids : i > cursor.id /\ directory[i] # Absent}
        ids  == {i \in rest : \A j \in rest : i <= j}
    IN  [ids |-> ids, entries |-> directory, revision |-> revision,
         next |-> IF ids = rest THEN NoCursor
                  ELSE [revision |-> revision, id |-> CHOOSE i \in ids : TRUE],
         stale |-> cursor # NoCursor /\ cursor.revision # revision]

Init ==
    /\ revision = 0
    /\ directory \in [Ids -> {Absent, 1}]
    /\ watermark = directory
    /\ events = {}
    \* installOpenSummary
    /\ LET first == PageAfter(NoCursor)
       IN  /\ summaries = [i \in Ids |-> IF i \in first.ids THEN directory[i] ELSE Absent]
           /\ nextCursor = first.next
    /\ overlays = [i \in Ids |-> [revision |-> 0, entry |-> Absent]]
    /\ committed = 0 /\ pageRevision = 0
    /\ pageDirty = FALSE /\ load = NotLoading /\ page = NoPage
    /\ bodies = [i \in Ids |-> Unloaded(summaries[i])]
    /\ requests = [i \in Ids |-> NoRequest]
    /\ adapter = [i \in Ids |-> [summary |-> summaries[i], metadata |-> 0, deletedAt |-> 0, hidden |-> FALSE]]

\* A client writes the document, which may be new, or deletes it.
Commit(i, entry) ==
    /\ revision < MaxRevision
    /\ revision' = revision + 1
    /\ directory' = [directory EXCEPT ![i] = entry]
    /\ watermark' = [watermark EXCEPT ![i] = IF entry > @ THEN entry ELSE @]
    /\ events' = events \cup {[revision |-> revision + 1, id |-> i, entry |-> entry]}
    /\ UNCHANGED <<listing, content, adapter>>

Write(i) == Commit(i, watermark[i] + 1)
Delete(i) == directory[i] # Absent /\ Commit(i, Absent)

-----------------------------------------------------------------------------
(* Events *)

\* Mutant of Outdated: a commit is obeyed whatever the store applied before.
OutdatedNever(c) == FALSE

\* The store has applied a later commit of the document, or lists a later one.
Outdated(c) == overlays[c.id].revision > c.revision \/ (c.entry # Absent /\ summaries[c.id] > c.entry)

\* The commit may be on a page that was read already.
Interrupts == nextCursor # NoCursor \/ load.step # "idle"

Deliver(c) ==
    /\ events' = events \ {c}
    /\ adapter' = [adapter EXCEPT ![c.id] = Applied(@, c)]
    /\ committed' = IF c.revision > committed THEN c.revision ELSE committed
    /\ IF Outdated(c)
       THEN UNCHANGED <<summaries, overlays, pageDirty, load, content>>
       ELSE /\ summaries' = [summaries EXCEPT ![c.id] = c.entry]
            /\ overlays' = [overlays EXCEPT ![c.id] = [revision |-> c.revision, entry |-> c.entry]]
            /\ IF summaries[c.id] = c.entry THEN UNCHANGED content
               ELSE /\ bodies' = [bodies EXCEPT ![c.id] = Unloaded(c.entry)]
                    /\ requests' = [requests EXCEPT ![c.id] = NoRequest]
            /\ IF Interrupts
               THEN pageDirty' = TRUE /\ load' = [load EXCEPT !.changed = TRUE]
               ELSE UNCHANGED <<pageDirty, load>>
    /\ UNCHANGED <<project, pageRevision, nextCursor, page>>

-----------------------------------------------------------------------------
(* Pages *)

Ask(attempt, dirty) ==
    load' = [step |-> "asked", attempt |-> attempt, changed |-> FALSE,
             after |-> IF dirty THEN NoCursor ELSE nextCursor]

LoadNextPage ==
    /\ load.step = "idle" /\ (pageDirty \/ nextCursor # NoCursor)
    /\ Ask(0, pageDirty)
    /\ UNCHANGED <<project, events, summaries, overlays, committed, pageRevision,
                   nextCursor, pageDirty, page, content, adapter>>

List ==
    /\ load.step = "asked"
    /\ page' = PageAfter(load.after)
    /\ load' = [load EXCEPT !.step = "answered"]
    /\ UNCHANGED <<project, events, summaries, overlays, committed, pageRevision,
                   nextCursor, pageDirty, content, adapter>>

Arrived ==
    /\ load.step = "answered"
    /\ Overtaking \/ \A c \in events : c.revision > page.revision

\* The cursor was stale, or commits arrived that the page may not show.
Unusable ==
    \/ page.stale
    \/ load.changed
    \/ load.after # NoCursor /\ page.revision # pageRevision
    \/ page.revision < committed

RetryUpTo(attempts) ==
    /\ Arrived /\ Unusable
    /\ pageDirty' = TRUE
    /\ page' = NoPage
    /\ IF load.attempt < attempts THEN Ask(load.attempt + 1, TRUE) ELSE load' = NotLoading
    /\ UNCHANGED <<project, events, summaries, overlays, committed, pageRevision,
                   nextCursor, content, adapter>>

\* From the first page; the second attempt fails with project_catalog_changed_during_load.
Retry == RetryUpTo(1)

\* What the listing says of the document with the page, before the commits on top.
Read(i) == IF i \in page.ids THEN page.entries[i]
           ELSE IF load.after = NoCursor THEN Absent ELSE summaries[i]

\* The listing with the page, and with the commits that were applied on top.
Merged(i) ==
    LET over == overlays[i]
    IN  IF over.revision # 0 /\ (over.entry = Absent \/ over.entry > Read(i)) THEN over.entry ELSE Read(i)

TakePage ==
    /\ Arrived /\ ~Unusable
    /\ summaries' = [i \in Ids |-> Merged(i)]
    /\ bodies' = [i \in Ids |-> IF bodies[i].revision = Merged(i) THEN bodies[i] ELSE Unloaded(Merged(i))]
    /\ pageRevision' = page.revision /\ committed' = page.revision
    /\ nextCursor' = page.next /\ pageDirty' = FALSE
    /\ adapter' = [i \in Ids |->
          IF page.next = NoCursor
          THEN LET a == Reconciled(adapter[i], Merged(i) # Absent, page.revision)
               IN  IF Merged(i) = Absent THEN a ELSE Registered(a, Merged(i), page.revision)
          ELSE IF i \in page.ids THEN Registered(adapter[i], page.entries[i], page.revision)
          ELSE adapter[i]]
    /\ load' = NotLoading /\ page' = NoPage
    /\ UNCHANGED <<project, events, overlays, requests>>

-----------------------------------------------------------------------------
(* Bodies *)

\* ensureDocument, when the body is neither here nor under way
EnsureDocument(i) ==
    /\ summaries[i] # Absent /\ requests[i] = NoRequest
    /\ bodies[i] # [status |-> "ready", revision |-> summaries[i]]
    /\ requests' = [requests EXCEPT ![i] = [revision |-> summaries[i], answer |-> "waiting"]]
    /\ bodies' = [bodies EXCEPT ![i] = [status |-> "loading", revision |-> summaries[i]]]
    /\ UNCHANGED <<project, events, listing, adapter>>

\* ProjectCatalog::get_document
GetDocument(i) ==
    /\ requests[i].answer = "waiting"
    /\ requests' = [requests EXCEPT ![i].answer =
                       IF directory[i] = requests[i].revision THEN "document" ELSE "stale"]
    /\ UNCHANGED <<project, events, listing, bodies, adapter>>

StillCurrent(i) == summaries[i] = requests[i].revision

ReceiveDocument(i) ==
    /\ requests[i].answer \in {"document", "stale"}
    /\ LET taken == StillCurrent(i) /\ requests[i].answer = "document"
                       /\ Takes(adapter[i], requests[i].revision)
           r == requests[i].revision
       IN  /\ adapter' = IF taken THEN [adapter EXCEPT ![i].summary = r] ELSE adapter
           /\ bodies' = IF ~StillCurrent(i) THEN bodies
                        ELSE [bodies EXCEPT ![i] = [status |-> IF taken THEN "ready" ELSE "error",
                                                    revision |-> r]]
    /\ requests' = [requests EXCEPT ![i] = NoRequest]
    /\ UNCHANGED <<project, events, listing>>

-----------------------------------------------------------------------------
Next ==
    \/ \E i \in Ids : Write(i) \/ Delete(i)
    \/ \E c \in events : Deliver(c)
    \/ LoadNextPage \/ List \/ Retry \/ TakePage
    \/ \E i \in Ids : EnsureDocument(i) \/ GetDocument(i) \/ ReceiveDocument(i)

Spec == Init /\ [][Next]_vars

Fairness ==
    /\ WF_vars(LoadNextPage) /\ WF_vars(List) /\ WF_vars(Retry \/ TakePage)
    /\ \A r \in 1..MaxRevision : WF_vars(\E c \in events : c.revision = r /\ Deliver(c))
    /\ \A i \in Ids : WF_vars(GetDocument(i)) /\ WF_vars(ReceiveDocument(i))

FairSpec == Spec /\ Fairness

-----------------------------------------------------------------------------
(* Properties *)

Revisions == Absent..(MaxRevision + 1)
Cursors == {NoCursor} \cup [revision : 0..MaxRevision, id : Ids]

\* The variables have their types.
TypeOK ==
    /\ revision \in 0..MaxRevision /\ {committed, pageRevision} \subseteq 0..revision
    /\ directory \in [Ids -> Revisions] /\ watermark \in [Ids -> Revisions]
    /\ events \subseteq [revision : 1..MaxRevision, id : Ids, entry : Revisions]
    /\ summaries \in [Ids -> Revisions]
    /\ overlays \in [Ids -> [revision : 0..MaxRevision, entry : Revisions]]
    /\ nextCursor \in Cursors /\ pageDirty \in BOOLEAN
    /\ load \in [step : {"idle", "asked", "answered"}, after : Cursors, attempt : 0..1, changed : BOOLEAN]
    /\ bodies \in [Ids -> [status : {"unloaded", "loading", "ready", "error"}, revision : Revisions]]
    /\ requests \in [Ids -> [revision : Revisions, answer : {"none", "waiting", "document", "stale"}]]
    /\ adapter \in [Ids -> [summary : Revisions, metadata : 0..MaxRevision,
                             deletedAt : 0..MaxRevision, hidden : BOOLEAN]]

Listing == load.step # "idle" \/ nextCursor # NoCursor
Pending(i) == \E c \in events : c.id = i

\* Once the store has listed the directory to its end, in however many pages,
\* with whatever commits in between and in whatever order their events come,
\* it is wrong only about documents whose event is still to come
\* (loadNextPage, applyCommit).
StoreIsAccurate == \A i \in Ids : Listing \/ Pending(i) \/ summaries[i] = directory[i]

\* A listing that has to be started again is never taken for a complete one:
\* readNativeProjectDirectory asks for the next page only while there is a
\* cursor, and does not see that the listing is dirty.
DirtyIsUnfinished == pageDirty => Listing

\* A body that is ready is that of the listed revision, and one that is loading
\* is being asked for: no answer that was overtaken by a commit or a page
\* settles it, and none leaves it loading for ever (ensureDocument).
BodiesAreListed ==
    \A i \in Ids :
        /\ bodies[i].status = "ready" => bodies[i].revision = summaries[i]
        /\ bodies[i].status = "loading" => requests[i].revision = bodies[i].revision

\* When no event is under way and the listing is complete, the workspace shows
\* the documents of the project: no deleted document came back, none is
\* missing (reconcileDirectory, registerSummary, applyCommit of the adapters).
AdaptersAreAccurate ==
    Listing \/ events # {} \/ \A i \in Ids : Listed(adapter[i]) = directory[i]

=============================================================================
