---------------------------- MODULE TableHistory ----------------------------
(***************************************************************************)
(* Creating, editing and deleting tables of a native project, and undoing  *)
(* it.  A deleted table is hidden: its rows stay, its dataset row moves to  *)
(* the retired datasets, and its directory rows, its graphs and its        *)
(* settings move to before-images owned by the event.  Edits and events of *)
(* a table share one sequence of ordinals; the commit that introduced an   *)
(* entry orders the entries of all tables.  An action is a transaction.    *)
(***************************************************************************)
EXTENDS Naturals, Sequences, SequencesExt, FiniteSets, FiniteSetsExt

CONSTANTS Tables, Graphs, Names,
          Deps,         \* graph -> the tables it shows
          AnyTable,     \* replays of any table's cursor, not only the global one
          MaxRevision, MaxRenames   \* bounds: commits, renames

\* What the constants must be; the module that instantiates this one assumes it.
TableHistoryAssumption ==
    /\ Tables \cap Graphs = {} /\ Deps \in [Graphs -> SUBSET Tables]
    /\ AnyTable \in BOOLEAN
    /\ MaxRevision \in Nat /\ MaxRenames \in Nat

VARIABLES
    table,     \* where the dataset row is, its generation and its name
    mark,      \* generation and directory watermarks of datasets
    line,      \* table -> its entries in the order of their ordinals
    dir,       \* the revision of a directory row; 0 where there is none
    docMark,   \* watermarks of document revisions
    owned,     \* before-images: event, document and revision
    setting,   \* table -> the revision of its filter, and whether it is null
    tomb,      \* before-images of settings
    snapshot,  \* a data snapshot: the tables it holds
    revision,  \* committed_revision, and the source of ids
    renames, high   \* auxiliary: renames so far, highest numbers ever given
vars == <<table, mark, line, dir, docMark, owned, setting, tomb, snapshot,
          revision, renames, high>>

Docs == Tables \cup Graphs
Larger(a, b) == IF a < b THEN b ELSE a
Active == {t \in Tables : table[t].at = "active"}
Hidden == {t \in Tables : table[t].at = "hidden"}
Free(n) == \A t \in Active : table[t].name # n
IsEvent(e) == e.kind \in {"create_table", "delete_table"}

Init ==
    /\ table = [t \in Tables |-> [at |-> "none", gen |-> 0, name |-> "none"]]
    /\ mark = [t \in Tables |-> [gen |-> 0, dir |-> 0]]
    /\ line = [t \in Tables |-> <<>>]
    /\ dir = [d \in Docs |-> 0] /\ docMark = [d \in Docs |-> 0]
    /\ owned = {} /\ tomb = {}
    /\ setting = [t \in Tables |-> [rev |-> 0, null |-> TRUE]]
    /\ snapshot = <<>> /\ revision = 0 /\ renames = 0
    /\ high = [gen |-> [t \in Tables |-> 0], dir |-> [d \in Docs |-> 0]]

\* What was ever given out; every transaction counts one commit.
Commit ==
    /\ revision < MaxRevision /\ revision' = revision + 1
    /\ high' = [gen |-> [t \in Tables |-> Larger(high.gen[t], table'[t].gen)],
                dir |-> [d \in Docs |-> Larger(high.dir[d], dir'[d])]]

-----------------------------------------------------------------------------
\* History

\* prune_redo: what is undone is abandoned, in every table.
Kept == [t \in Tables |-> SelectSeq(line[t], LAMBDA e : e.applied)]
Abandoned == {e.id : e \in {f \in UNION {ToSet(line[t]) : t \in Tables} :
                               IsEvent(f) /\ ~f.applied}}
\* Mutant: hidden storage of an abandoned creation is kept.
PrunedOfEvents(ts) == ts
Pruned(ts) ==
    [t \in Tables |->
        IF /\ ts[t].at = "hidden"
           /\ \E e \in ToSet(line[t]) : e.kind = "create_table" /\ ~e.applied
        THEN [ts[t] EXCEPT !.at = "gone"] ELSE ts[t]]
Entry(kind, gen) ==
    [id |-> revision + 1, kind |-> kind, applied |-> TRUE, gen |-> gen]
Record(t, kind, gen) == line' = [Kept EXCEPT ![t] = Append(@, Entry(kind, gen))]

\* The cursor of one table: no other entry of it is nearer.
ValidateFrontier(t, i, undo) ==
    /\ line[t][i].applied = undo
    /\ \A j \in DOMAIN line[t] :
           line[t][j].applied = undo => IF undo THEN j <= i ELSE j >= i

\* frontier: the cursors of all tables, in the order of their introduction.
\* Edits of a hidden table are not executable.
Executable(t) ==
    {i \in DOMAIN line[t] : IsEvent(line[t][i]) \/ t \in Active}
Cursor(t, undo) ==
    LET is == {i \in Executable(t) : line[t][i].applied = undo}
    IN  IF is = {} THEN {} ELSE {IF undo THEN Max(is) ELSE Min(is)}
Cursors(undo) ==
    UNION {{<<t, i>> : i \in Cursor(t, undo)} : t \in Tables}
IdOf(c) == line[c[1]][c[2]].id
\* Mutant: the ordinal within its table orders the cursor.
FrontierOfOrdinals(undo) ==
    {c \in Cursors(undo) :
        \A d \in Cursors(undo) : IF undo THEN d[2] <= c[2] ELSE c[2] <= d[2]}
Frontier(undo) ==
    {c \in Cursors(undo) :
        \A d \in Cursors(undo) :
            IF undo THEN IdOf(d) <= IdOf(c) ELSE IdOf(c) <= IdOf(d)}

-----------------------------------------------------------------------------
\* Hiding and restoring a table

Raised(t, ts) ==
    [mark EXCEPT ![t].gen = Larger(@, ts[t].gen), ![t].dir = Larger(@, dir[t])]
RetireStorage(t, ts) ==
    /\ table' = [ts EXCEPT ![t].at = "hidden"]
    /\ mark' = Raised(t, ts)

Leaving(t) == {d \in Docs : dir[d] # 0 /\ (d = t \/ (d \in Graphs /\ t \in Deps[d]))}
\* The images event e takes over, os and ss being the ones of other events.
RetireMetadata(t, e, os, ss) ==
    /\ owned' = os \cup {[event |-> e, doc |-> d, rev |-> dir[d]] :
                             d \in Leaving(t)}
    /\ docMark' = [d \in Docs |-> IF d \in Leaving(t) THEN Larger(docMark[d], dir[d])
                                                      ELSE docMark[d]]
    /\ tomb' = ss \cup {[event |-> e, table |-> t, rev |-> setting[t].rev + 1,
                         null |-> setting[t].null]}
    /\ setting' = [setting EXCEPT ![t] = [rev |-> @.rev + 1, null |-> TRUE]]
    /\ dir' = [d \in Docs |-> IF d \in Leaving(t) THEN 0 ELSE dir[d]]
OthersOf(images, e) == {o \in images : o.event # e}

FreshGeneration(t) == Larger(table[t].gen, mark[t].gen) + 1
RestoreStorage(t) ==
    /\ table' = [table EXCEPT ![t].at = "active", ![t].gen = FreshGeneration(t)]
    /\ UNCHANGED mark
Images(e) == {o \in owned : o.event = e}
Tombs(e) == {s \in tomb : s.event = e}
\* What restore_storage and restore_metadata refuse.
Restorable(t, e) ==
    /\ t \in Hidden /\ Free(table[t].name)
    /\ \E o \in Images(e) : o.doc = t
    /\ \A o \in Images(e) : dir[o.doc] = 0
    /\ \A s \in Tombs(e) : setting[s.table] = [rev |-> s.rev, null |-> TRUE]
\* Mutant: the revision of the before-image is put back.
ReturnedAsSaved(o) == o.rev
Returned(o) ==
    Larger(Larger(o.rev, docMark[o.doc]),
           IF o.doc \in Tables THEN mark[o.doc].dir ELSE 0) + 1
RestoreMetadata(e) ==
    LET back == [d \in {o.doc : o \in Images(e)} |->
                    Returned(CHOOSE o \in Images(e) : o.doc = d)]
        shown == [t \in {s.table : s \in Tombs(e)} |->
                     LET s == CHOOSE u \in Tombs(e) : u.table = t
                     IN  [rev |-> s.rev + 1, null |-> s.null]]
    IN  /\ dir' = back @@ dir
        /\ docMark' = [d \in DOMAIN back |-> Larger(docMark[d], back[d])] @@ docMark
        /\ setting' = shown @@ setting
        /\ owned' = OthersOf(owned, e) /\ tomb' = OthersOf(tomb, e)

-----------------------------------------------------------------------------
\* Commands

CreateTable(t, n) ==
    /\ table[t].at = "none" /\ Free(n)
    /\ table' = [Pruned(table) EXCEPT ![t] =
                     [at |-> "active", gen |-> 0, name |-> n]]
    /\ dir' = [dir EXCEPT ![t] = 1]
    /\ Record(t, "create_table", 0)
    /\ owned' = {o \in owned : o.event \notin Abandoned}
    /\ tomb' = {s \in tomb : s.event \notin Abandoned}
    /\ UNCHANGED <<mark, docMark, setting, snapshot, renames>>
    /\ Commit

EditTable(t) ==
    /\ t \in Active
    /\ table' = [Pruned(table) EXCEPT ![t].gen = @ + 1]
    /\ Record(t, "edit", table[t].gen + 1)
    /\ owned' = {o \in owned : o.event \notin Abandoned}
    /\ tomb' = {s \in tomb : s.event \notin Abandoned}
    /\ UNCHANGED <<mark, dir, docMark, setting, snapshot, renames>>
    /\ Commit

DeleteTable(t) ==
    /\ t \in Active
    /\ RetireStorage(t, Pruned(table))
    /\ Record(t, "delete_table", table[t].gen)
    /\ RetireMetadata(t, revision + 1,
                      {o \in owned : o.event \notin Abandoned},
                      {s \in tomb : s.event \notin Abandoned})
    /\ UNCHANGED <<snapshot, renames>>
    /\ Commit

AdvanceDocument(d) ==
    LET next == Larger(dir[d], docMark[d]) + 1
    IN  dir' = [dir EXCEPT ![d] = next] /\ docMark' = [docMark EXCEPT ![d] = next]
\* Not part of the history.
RenameTable(t, n) ==
    /\ t \in Active /\ n # table[t].name /\ Free(n) /\ renames < MaxRenames
    /\ table' = [table EXCEPT ![t].name = n]
    /\ AdvanceDocument(t)
    /\ renames' = renames + 1
    /\ UNCHANGED <<mark, line, owned, setting, tomb, snapshot>>
    /\ Commit
SaveGraph(g) ==
    /\ dir[g] # 0 \/ (docMark[g] = 0 /\ Deps[g] \subseteq Active)
    /\ AdvanceDocument(g)
    /\ UNCHANGED <<table, mark, line, owned, setting, tomb, snapshot, renames>>
    /\ Commit
DeleteGraph(g) ==
    /\ dir[g] # 0
    /\ docMark' = [docMark EXCEPT ![g] = Larger(@, dir[g])]
    /\ dir' = [dir EXCEPT ![g] = 0]
    /\ UNCHANGED <<table, mark, line, owned, setting, tomb, snapshot, renames>>
    /\ Commit
\* Refused for a table that is not there; no client writes null.
WriteSetting(t) ==
    /\ t \in Active
    /\ setting' = [setting EXCEPT ![t] = [rev |-> @.rev + 1, null |-> FALSE]]
    /\ UNCHANGED <<table, mark, line, dir, docMark, owned, tomb, snapshot, renames>>
    /\ Commit

\* The generation of every change set of a table becomes g.
Refreshed(l, g) ==
    [i \in DOMAIN l |-> IF IsEvent(l[i]) THEN l[i] ELSE [l[i] EXCEPT !.gen = g]]
Marked(t, i, undo) == [line[t] EXCEPT ![i].applied = ~undo]

\* authorize_replay; clients send the revision they just read
AuthorizeReplay(t, i, undo) ==
    /\ IsEvent(line[t][i]) /\ ValidateFrontier(t, i, undo)
    /\ (t \in Active) = ((line[t][i].kind = "create_table") = line[t][i].applied)
Activates(t, i, undo) == (line[t][i].kind = "delete_table") = undo
AcceptsLifecycle(t, i, undo) ==
    /\ AuthorizeReplay(t, i, undo)
    /\ Activates(t, i, undo) => Restorable(t, line[t][i].id)
ApplyTableLifecycle(t, i, undo) ==
    /\ AcceptsLifecycle(t, i, undo)
    /\ \/ /\ Activates(t, i, undo)
          /\ RestoreStorage(t) /\ RestoreMetadata(line[t][i].id)
          /\ line' = [line EXCEPT ![t] =
                          Refreshed(Marked(t, i, undo), FreshGeneration(t))]
       \/ /\ ~Activates(t, i, undo)
          /\ RetireStorage(t, table)
          /\ RetireMetadata(t, line[t][i].id, OthersOf(owned, line[t][i].id),
                            OthersOf(tomb, line[t][i].id))
          /\ line' = [line EXCEPT ![t] = Marked(t, i, undo)]
    /\ UNCHANGED <<snapshot, renames>>
    /\ Commit

AcceptsEdit(t, i, undo) ==
    /\ ~IsEvent(line[t][i]) /\ t \in Active
    /\ ValidateFrontier(t, i, undo)
    /\ line[t][i].gen = table[t].gen
ApplyChangeSet(t, i, undo) ==
    /\ AcceptsEdit(t, i, undo)
    /\ table' = [table EXCEPT ![t].gen = @ + 1]
    /\ line' = [line EXCEPT ![t] = Refreshed(Marked(t, i, undo), table[t].gen + 1)]
    /\ UNCHANGED <<mark, dir, docMark, owned, setting, tomb, snapshot, renames>>
    /\ Commit

CaptureDataSnapshot ==
    /\ snapshot = <<>>
    /\ snapshot' = [t \in Active |-> [gen |-> table[t].gen, name |-> table[t].name,
                                      dir |-> dir[t], null |-> setting[t].null]]
    /\ UNCHANGED <<table, mark, line, dir, docMark, owned, setting, tomb, renames>>
    /\ Commit
\* Replaces the tables and forgets all history; only watermarks stay.
RestoreDataSnapshot ==
    LET marks == [t \in Tables |-> IF t \in Active THEN Raised(t, table)[t] ELSE mark[t]]
        held == DOMAIN snapshot
        touched == Active \cup Hidden \cup held
    IN  /\ snapshot # <<>>
        /\ mark' = marks
        /\ table' = [t \in Tables |->
               IF t \in held
               THEN [at |-> "active", name |-> snapshot[t].name,
                     gen |-> Larger(snapshot[t].gen, marks[t].gen) + 1]
               ELSE IF t \in touched THEN [table[t] EXCEPT !.at = "gone"] ELSE table[t]]
        /\ dir' = [d \in Docs |->
               IF d \in held THEN Larger(snapshot[d].dir, marks[d].dir) + 1
               ELSE IF d \in touched THEN 0 ELSE dir[d]]
        /\ setting' = [t \in Tables |->
               IF t \notin touched \/ (setting[t].rev = 0 /\ t \notin held) THEN setting[t]
               ELSE [rev |-> setting[t].rev + 1,
                     null |-> t \in held => snapshot[t].null]]
        /\ line' = [t \in Tables |-> <<>>] /\ owned' = {} /\ tomb' = {}
        /\ UNCHANGED <<docMark, snapshot, renames>>
        /\ Commit

Replay ==
    \E t \in Tables, undo \in BOOLEAN : \E i \in DOMAIN line[t] :
        /\ AnyTable \/ <<t, i>> \in Frontier(undo)
        /\ ApplyTableLifecycle(t, i, undo) \/ ApplyChangeSet(t, i, undo)

Next ==
    \/ \E t \in Tables, n \in Names : CreateTable(t, n) \/ RenameTable(t, n)
    \/ \E t \in Tables : EditTable(t) \/ DeleteTable(t) \/ WriteSetting(t)
    \/ \E g \in Graphs : SaveGraph(g) \/ DeleteGraph(g)
    \/ Replay
    \/ CaptureDataSnapshot \/ RestoreDataSnapshot

Spec == Init /\ [][Next]_vars
-----------------------------------------------------------------------------
\* Every variable has its type.
TypeOK ==
    /\ \A t \in Tables : table[t].at \in {"none", "active", "hidden", "gone"}
    /\ dir \in [Docs -> Nat] /\ docMark \in [Docs -> Nat]
    /\ \A t \in Tables : t \in Active <=> dir[t] # 0

\* The history of a table tells where its rows are, whatever was abandoned,
\* undone or replaced in between: it is hidden by the last event that counts.
StorageAsRecorded ==
    \A t \in Tables :
        LET Undone(k) == \E e \in ToSet(line[t]) : e.kind = k /\ ~e.applied
            Latest(k) == line[t] # <<>> /\ \E i \in DOMAIN line[t] :
                /\ line[t][i].kind = k /\ line[t][i].applied
                /\ \A j \in DOMAIN line[t] : line[t][j].applied => j <= i
        IN  t \in Hidden <=> Undone("create_table") \/ Latest("delete_table")

\* The before-images of a hidden table, its graphs and its settings belong to
\* the one event that can bring it back, and nothing else owns any: no event
\* that is gone, none that is restored.
ImagesHaveOneOwner ==
    /\ \A o, p \in owned : o.doc = p.doc => o = p
    /\ \A o \in owned : \E t \in Hidden : \E i \in DOMAIN line[t] :
           /\ line[t][i].id = o.event
           /\ ValidateFrontier(t, i, line[t][i].applied)
    /\ \A t \in Hidden : \E o \in owned : o.doc = t
    /\ {s.table : s \in tomb} = Hidden

\* The next undo and the next redo that the interface offers are accepted,
\* unless a rename took the name of the table they bring back.
FrontierIsAccepted ==
    \A undo \in BOOLEAN : \A c \in Frontier(undo) :
        \/ AcceptsLifecycle(c[1], c[2], undo)
        \/ AcceptsEdit(c[1], c[2], undo)
        \/ c[1] \in Hidden /\ ~Free(table[c[1]].name)

\* Undo goes back through the commits of all tables in reverse, redo forward.
UndoIsChronological ==
    \A t, u \in Tables : \A i \in DOMAIN line[t], j \in DOMAIN line[u] :
        line[t][i].id < line[u][j].id /\ line[u][j].applied => line[t][i].applied

\* No generation of a table and no revision of a document is ever given twice,
\* through hiding, restoring, abandoning and snapshots: a client's cached copy
\* never passes for a newer one.
NumbersGrow ==
    /\ \A t \in Tables :
          table'[t].gen # table[t].gen \/ (table[t].at # "active"
                                           /\ table'[t].at = "active")
              => table'[t].gen > high.gen[t] \/ table[t].at = "none"
    /\ \A d \in Docs : dir'[d] # dir[d] /\ dir'[d] # 0 => dir'[d] > high.dir[d]
=============================================================================
