------------------------------ MODULE RowOrder ------------------------------
(***************************************************************************)
(* The natural order of one table's rows, the sparse anchors that let the  *)
(* grid jump to an ordinal, and the compact history that undoes and redoes *)
(* row edits.  A row is ordered by its _row_order, or by _row_id times the *)
(* stride while that is NULL; anchors name every AnchorStride-th row at    *)
(* least.  Every command is one transaction: an error on the way rolls all *)
(* of it back, so that an action here is a command that commits.           *)
(***************************************************************************)
EXTENDS Integers, Sequences, SequencesExt, FiniteSets, FiniteSetsExt

CONSTANTS Stride, AnchorStride,        \* NATURAL_ORDER_STRIDE, ..ANCHOR_..
          InitialWindow, MaxWindow,    \* of a rebalance, in rows
          MaxAdded,                    \* rows one command adds
          Events,       \* the project has a table of lifecycle events
          Unset,        \* a _row_order that is NULL
          InitialRows, MaxRowId, MaxGeneration  \* bounds of the model

\* What the constants must be; the module that instantiates this one assumes it.
RowOrderAssumption ==
    /\ {Stride, AnchorStride, InitialWindow, MaxWindow} \subseteq Nat \ {0}
    /\ InitialWindow <= MaxWindow
    /\ {MaxAdded, InitialRows, MaxRowId, MaxGeneration} \subseteq Nat
    /\ Events \in BOOLEAN /\ Unset \notin Int

VARIABLES order,      \* row id -> _row_order, for the rows of the table
          rowCount, nextRowId, generation,   \* of _meta_datasets
          anchors,    \* of the current generation: ordinal, key, row
          manifest,   \* what the manifest's checksum was computed over
          history,    \* the change sets in the order of their ordinals
          images      \* auxiliary: the orders between the change sets
vars == <<order, rowCount, nextRowId, generation, anchors, manifest, history,
          images>>

-----------------------------------------------------------------------------
\* The order of the rows

\* f with its values computed once: TLC otherwise applies a definition anew.
Explicit(f) == f @@ <<>>
Key(o, r) == IF o[r] = Unset THEN r * Stride ELSE o[r]
Precedes(k, r, l, s) == k < l \/ (k = l /\ r < s)
Ordinal(o, r) ==
    Cardinality({s \in DOMAIN o : Precedes(Key(o, s), s, Key(o, r), r)})
RowAt(o, i) == CHOOSE r \in DOMAIN o : Ordinal(o, r) = i
KeyAt(o, i) ==
    IF i \in 0..(Cardinality(DOMAIN o) - 1) THEN <<Key(o, RowAt(o, i))>>
                                            ELSE <<>>

\* An interval without a left or right neighbour is open on that side.
Interval(left, right, divisor) ==
    CASE left # <<>> /\ right # <<>> -> <<left[1], right[1]>>
      [] left # <<>> /\ right = <<>> -> <<left[1], left[1] + Stride * divisor>>
      [] left = <<>> /\ right # <<>> ->
             <<right[1] - Stride * divisor, right[1]>>
      [] OTHER -> <<0, Stride * divisor>>
Spread(left, right, count) ==
    LET gap == Interval(left, right, count + 1)
        step == (gap[2] - gap[1]) \div (count + 1)
    IN  IF step = 0 THEN <<>> ELSE Explicit([i \in 1..count |-> gap[1] + step * i])

AllocateOpenInterval(o, at, count) ==
    Spread(KeyAt(o, at - 1), KeyAt(o, at), count)

After(o, end) == KeyAt(o, end)
\* New keys for the rows of a window around the insertion and the new rows.
RebalanceWindow(o, at, count, size) ==
    LET start == Max({at - size \div 2, 0})
        end == Min({start + size, Cardinality(DOMAIN o)})
        keys == Spread(KeyAt(o, start - 1), After(o, start + size),
                       end - start + count)
        Slot(i) == i - start + 1 + (IF i >= at THEN count ELSE 0)
    IN  [keys |-> IF keys = <<>> THEN <<>>
                  ELSE SubSeq(keys, at - start + 1, at - start + count),
         delta |-> IF keys = <<>> THEN <<>>
                   ELSE Explicit([r \in {RowAt(o, i) : i \in start..(end - 1)} |->
                            [before |-> o[r],
                             after |-> keys[Slot(Ordinal(o, r))]]])]

Windows == {w \in InitialWindow..MaxWindow :
               w = MaxWindow \/ \E k \in 0..w : w = InitialWindow * 2^k}
AllocateBefore(o, at, count) ==
    LET open == AllocateOpenInterval(o, at, count)
        wide == {w \in Windows : RebalanceWindow(o, at, count, w).keys # <<>>}
    IN  CASE open # <<>> -> [keys |-> open, delta |-> <<>>]
          [] open = <<>> /\ wide # {} ->
                 RebalanceWindow(o, at, count, Min(wide))
          [] OTHER -> [keys |-> <<>>, delta |-> <<>>]

Images(delta, side) == [r \in DOMAIN delta |-> delta[r][side]]
Without(o, rows) == Explicit([r \in DOMAIN o \ rows |-> o[r]])

-----------------------------------------------------------------------------
\* Anchors

Anchor(i, k, r) == [ordinal |-> i, key |-> k, row |-> r]
RebuildNaturalAnchors(o) ==
    {Anchor(Ordinal(o, r), Key(o, r), r) :
        r \in {s \in DOMAIN o : Ordinal(o, s) % AnchorStride = 0}}
Ordinals(as) == {a.ordinal : a \in as}
NextAnchor(as, a) == CHOOSE b \in as :
                   /\ b.ordinal > a.ordinal
                   /\ \A c \in as : c.ordinal > a.ordinal
                                       => c.ordinal >= b.ordinal
LastAnchor(as) == CHOOSE a \in as : a.ordinal = Max(Ordinals(as))
Covering(as, count) ==
    \/ count = 0 /\ as = {}
    \/ /\ as # {} /\ Min(Ordinals(as)) = 0
       /\ \A a \in as : a # LastAnchor(as)
                           => NextAnchor(as, a).ordinal - a.ordinal <= AnchorStride
       /\ count - 1 - LastAnchor(as).ordinal < AnchorStride

\* Mutant: the anchor keeps the key its row had.
RekeyedNot(o, a, ordinal) == Anchor(ordinal, a.key, a.row)
Rekeyed(o, a, ordinal) == Anchor(ordinal, Key(o, a.row), a.row)
CopyInserted(o, at, count) ==
    {Rekeyed(o, a, a.ordinal + (IF a.ordinal >= at THEN count ELSE 0)) :
        a \in {b \in anchors : b.row \in DOMAIN o}}
CopyDeleted(o, rows) ==
    {Rekeyed(o, a, a.ordinal
                     - Cardinality({d \in rows : d.ordinal < a.ordinal})) :
        a \in {b \in anchors : /\ b.row \in DOMAIN o
                               /\ \A d \in rows : d.row # b.row}}
\* The rank-th restored row shifts the anchors from its threshold on.
CopyRestored(o, rows) ==
    LET Rank(d) == Cardinality({e \in rows : e.ordinal < d.ordinal})
        Threshold(d) == d.ordinal - Rank(d)
        Reached(a) == {d \in rows : Threshold(d) <= a.ordinal}
        Nearest(a) == Max({Threshold(d) : d \in Reached(a)})
        Shift(a) == IF Reached(a) = {} THEN 0
                    ELSE Max({Rank(d) + 1 :
                                 d \in {e \in rows :
                                           Threshold(e) = Nearest(a)}})
    IN  {Rekeyed(o, a, a.ordinal + Shift(a)) :
            a \in {b \in anchors : b.row \in DOMAIN o}}

\* The rows of o after anchor a and before anchor b; Fill's k-th anchor is the
\* (k * AnchorStride)-th of them.
Between(o, a, bs) ==
    {r \in DOMAIN o : /\ Precedes(a.key, a.row, Key(o, r), r)
                      /\ \A b \in bs : Precedes(Key(o, r), r, b.key, b.row)}
Nth(o, rows, n) ==
    CHOOSE r \in rows :
        Cardinality({s \in rows : ~Precedes(Key(o, r), r, Key(o, s), s)}) = n
Fill(o, a, bs, count) ==
    {Anchor(a.ordinal + k * AnchorStride,
            Key(o, Nth(o, Between(o, a, bs), k * AnchorStride)),
            Nth(o, Between(o, a, bs), k * AnchorStride)) : k \in 1..count}
Missing(as, a, count) ==
    IF a = LastAnchor(as) THEN (count - 1 - a.ordinal) \div AnchorStride
    ELSE (NextAnchor(as, a).ordinal - a.ordinal - 1) \div AnchorStride
Following(as, a) == IF a = LastAnchor(as) THEN {} ELSE {NextAnchor(as, a)}

FirstRows(o, as) ==
    {r \in DOMAIN o : \A b \in as : b.ordinal = Min(Ordinals(as)) =>
                          Precedes(Key(o, r), r, b.key, b.row)}
WithFirst(o, as) ==
    IF as # {} /\ Min(Ordinals(as)) = 0 THEN as
    ELSE LET r == Nth(o, FirstRows(o, as), 1) IN as \cup {Anchor(0, Key(o, r), r)}
RepairAnchorGaps(o, as, count) ==
    IF count = 0 THEN as
    ELSE LET full == WithFirst(o, as)
         IN  full \cup UNION {Fill(o, a, Following(full, a),
                                   Missing(full, a, count)) : a \in full}

\* The statements of the copy and of the repair that can fail.
Repairable(o, as, count) ==
    /\ Cardinality(Ordinals(as)) = Cardinality(as)
    /\ count > 0 =>
        /\ (as # {} /\ Min(Ordinals(as)) = 0) \/ FirstRows(o, as) # {}
        /\ LET full == WithFirst(o, as)
           IN  \A a \in full :
                   Cardinality(Between(o, a, Following(full, a)))
                       >= Missing(full, a, count) * AnchorStride

ManifestValid == manifest = <<generation, rowCount, anchors>>
\* publish_transformed_anchors for a table o of count rows.
Publishable(o, copied, count) ==
    /\ Covering(anchors, rowCount) /\ ManifestValid
    /\ count >= 0 /\ Repairable(o, copied, count)
Publish(o, copied, count) ==
    /\ Publishable(o, copied, count)
    /\ order' = o /\ rowCount' = count
    /\ anchors' = RepairAnchorGaps(o, copied, count)
    /\ generation' = generation + 1
    /\ manifest' = <<generation', count, anchors'>>
\* The rows stay; their anchors are copied or computed anew.
Carry(as) ==
    /\ anchors' = as
    /\ generation' = generation + 1
    /\ manifest' = <<generation', rowCount, as>>
    /\ UNCHANGED <<order, rowCount>>

InsertedInPlace(o, at, ids) ==
    \A i \in 1..Len(ids) : Ordinal(o, ids[i]) = at + i - 1

\* resolve_natural_row_positions: the ordinal of a row, through its anchor.
AnchorOf(r) ==
    LET before == {a \in anchors :
                      ~Precedes(Key(order, r), r, a.key, a.row)}
    IN  IF before = {} THEN {} ELSE {LastAnchor(before)}
LocalCount(a, r) ==
    Cardinality({s \in DOMAIN order :
                    /\ ~Precedes(Key(order, s), s, a.key, a.row)
                    /\ ~Precedes(Key(order, r), r, Key(order, s), s)})
Located(r) ==
    {[ordinal |-> a.ordinal + LocalCount(a, r) - 1, row |-> r,
      order |-> order[r]] :
        a \in {b \in AnchorOf(r) : LocalCount(b, r) \in 1..AnchorStride}}

-----------------------------------------------------------------------------
\* The history

ChangeSet(kind, op, rows, delta) ==
    [kind |-> kind, op |-> op, rows |-> rows, delta |-> delta,
     applied |-> TRUE, before |-> generation, after |-> generation + 1,
     current |-> generation + 1]
Refresh(h, g) ==
    [i \in DOMAIN h |->
        [h[i] EXCEPT !.current = g,
                     !.after = IF h[i].applied THEN g ELSE @,
                     !.before = IF h[i].applied THEN @ ELSE g]]
Applied == {i \in DOMAIN history : history[i].applied}
\* record_history_timeline, with prune_redo
RecordTimeline(c) ==
    LET kept == SelectSeq(history, LAMBDA d : d.applied)
    IN  Append(kept, c)
Photograph == images' = Append(SubSeq(images, 1, Cardinality(Applied) + 1),
                               order')

Frontier(i, undo) ==
    /\ history[i].applied = undo
    /\ \A j \in DOMAIN history :
           history[j].applied = undo => IF undo THEN j <= i ELSE j >= i
\* authorize_regular_replay; apply_cell_history looks for itself
Authorized(i, undo) ==
    Events \/ history[i].kind = "cell_delta" => Frontier(i, undo)
Expected(c) ==
    CASE c.kind \in {"row_delta", "column_delta"} ->
             IF c.applied THEN c.after ELSE c.before
      [] OTHER -> c.current
AdvanceTimeline(i, undo) ==
    history' = Refresh([history EXCEPT ![i].applied = ~undo], generation + 1)

Init ==
    /\ order = [r \in 1..InitialRows |-> Unset]
    /\ rowCount = InitialRows /\ nextRowId = InitialRows + 1
    /\ generation = 0
    /\ anchors = RebuildNaturalAnchors(order)
    /\ manifest = <<0, InitialRows, anchors>>
    /\ history = <<>> /\ images = <<order>>

-----------------------------------------------------------------------------
\* Commands

\* Insert count rows at ordinal `at`: before that row, or after the last one.
AddRows(count, at) ==
    /\ ManifestValid
    /\ LET a == AllocateBefore(order, at, count)
           ids == [i \in 1..count |-> nextRowId + i - 1]
           added == [r \in ToSet(ids) |-> a.keys[r - nextRowId + 1]]
           o == added @@ Images(a.delta, "after") @@ order
           rows == {[ordinal |-> at + i - 1, row |-> ids[i],
                     order |-> a.keys[i]] : i \in 1..count}
       IN  /\ a.keys # <<>>
           /\ InsertedInPlace(o, at, ids)
           /\ Publish(o, CopyInserted(o, at, count), rowCount + count)
           /\ history' = RecordTimeline(
                             ChangeSet("row_delta", "add_rows", rows, a.delta))
    /\ nextRowId' = nextRowId + count
    /\ Photograph

DeleteRows(ids) ==
    /\ ManifestValid
    /\ \A r \in ids : Located(r) # {}
    /\ LET rows == UNION {Located(r) : r \in ids}
           o == Without(order, ids)
       IN  /\ Publish(o, CopyDeleted(o, rows), rowCount - Cardinality(ids))
           /\ history' = RecordTimeline(
                             ChangeSet("row_delta", "delete_rows", rows, <<>>))
    /\ Photograph
    /\ UNCHANGED nextRowId

\* Edits that keep the rows: cells, columns, and what still copies the table.
UpdateCells ==
    /\ ManifestValid /\ Carry(anchors)
    /\ history' = Refresh(RecordTimeline(
                      ChangeSet("cell_delta", "update_cells", {}, <<>>)),
                      generation + 1)
    /\ Photograph /\ UNCHANGED nextRowId
EditColumns ==
    /\ ManifestValid /\ Carry(anchors)
    /\ history' = RecordTimeline(
                      ChangeSet("column_delta", "columns", {}, <<>>))
    /\ Photograph /\ UNCHANGED nextRowId
RewriteTable ==
    /\ Carry(RebuildNaturalAnchors(order))
    /\ history' = RecordTimeline(ChangeSet("full", "legacy_full", {}, <<>>))
    /\ Photograph /\ UNCHANGED nextRowId

\* What replaying change set c leaves of the table and of its anchors; valid
\* stands for the checks of the replay before it publishes.
\* Undo of added rows, redo of deleted ones.
ReplayDelete(c) ==
    LET left == Without(order, {d.row : d \in c.rows})
        o == Images(c.delta, "before") @@ left
    IN  [valid |-> DOMAIN c.delta \subseteq DOMAIN left,
         order |-> o, anchors |-> CopyDeleted(o, c.rows),
         count |-> rowCount - Cardinality(c.rows)]
OrderOf(c, r) == (CHOOSE d \in c.rows : d.row = r).order
\* Redo of added rows.  Rows that are there already would appear twice.
ReplayInsert(c) ==
    LET at == Min({d.ordinal : d \in c.rows})
        ids == SetToSortSeq({d.row : d \in c.rows}, <)
        o == [r \in ToSet(ids) |-> OrderOf(c, r)]
                 @@ Images(c.delta, "after") @@ order
    IN  [valid |-> /\ DOMAIN c.delta \subseteq DOMAIN order
                   /\ ToSet(ids) \cap DOMAIN order = {}
                   /\ InsertedInPlace(o, at, ids),
         order |-> o, anchors |-> CopyInserted(o, at, Len(ids)),
         count |-> rowCount + Len(ids)]
\* Undo of deleted rows.
ReplayRestore(c) ==
    LET ids == {d.row : d \in c.rows}
        o == [r \in ids |-> OrderOf(c, r)] @@ order
    IN  [valid |-> ids \cap DOMAIN order = {},
         order |-> o, anchors |-> CopyRestored(o, c.rows),
         count |-> rowCount + Cardinality(ids)]
ReplayRows(c, undo) ==
    CASE c.op = IF undo THEN "add_rows" ELSE "delete_rows" -> ReplayDelete(c)
      [] c.op = "add_rows" /\ ~undo -> ReplayInsert(c)
      [] c.op = "delete_rows" /\ undo -> ReplayRestore(c)

Replayable(i, undo) ==
    /\ history[i].applied = undo
    /\ Authorized(i, undo)
    /\ Expected(history[i]) = generation
    /\ history[i].kind \in {"cell_delta", "column_delta"} => ManifestValid
    /\ history[i].kind = "row_delta" =>
           LET t == ReplayRows(history[i], undo)
           IN  t.valid /\ Publishable(t.order, t.anchors, t.count)

ApplyChangeSet(i, undo) ==
    /\ Replayable(i, undo)
    /\ \/ /\ history[i].kind = "row_delta"
          /\ LET t == ReplayRows(history[i], undo)
             IN  Publish(t.order, t.anchors, t.count)
       \/ history[i].kind \in {"cell_delta", "column_delta"} /\ Carry(anchors)
       \/ history[i].kind = "full" /\ Carry(RebuildNaturalAnchors(order))
    /\ AdvanceTimeline(i, undo)
    /\ UNCHANGED <<nextRowId, images>>

Step ==
    /\ generation < MaxGeneration
    /\ \/ \E count \in 1..MaxAdded, at \in 0..rowCount :
             nextRowId + count - 1 <= MaxRowId /\ AddRows(count, at)
       \/ \E ids \in SUBSET DOMAIN order : ids # {} /\ DeleteRows(ids)
       \/ UpdateCells \/ EditColumns \/ RewriteTable
       \/ \E i \in DOMAIN history, undo \in BOOLEAN : ApplyChangeSet(i, undo)

Spec == Init /\ [][Step]_vars

-----------------------------------------------------------------------------
\* Every counter and every change set is of its type; the table of datasets
\* counts the rows the table has.
TypeOK ==
    /\ \A r \in DOMAIN order : r \in 1..(nextRowId - 1)
    /\ \A r \in DOMAIN order : order[r] = Unset \/ order[r] \in Int
    /\ rowCount = Cardinality(DOMAIN order)
    /\ generation \in 0..MaxGeneration
    /\ \A i \in DOMAIN history :
           history[i].before <= generation /\ history[i].after <= generation

\* Anchors are moved by arithmetic on recorded ordinals and repaired locally,
\* without ever counting the table; still each one names the row that is at
\* its ordinal, under its key, and no row is further than a stride from one.
AnchorsAreExact ==
    /\ Covering(anchors, Cardinality(DOMAIN order))
    /\ \A a \in anchors : /\ a.row \in DOMAIN order
                          /\ a.ordinal = Ordinal(order, a.row)
                          /\ a.key = Key(order, a.row)

\* No two rows share a key: between any two rows a row can be asked for.
KeysAreDistinct ==
    \A r, s \in DOMAIN order : Key(order, r) = Key(order, s) => r = s

\* However rows were added, rebalanced, deleted and restored, the rows, their
\* stored orders included, are those of the history up to its cursor.
OrderIsThatOfTheCursor == order = images[Cardinality(Applied) + 1]

\* The change set at the cursor can always be replayed: no edit in between
\* leaves it with a stale generation, and the anchors can follow it.
FrontierReplays ==
    \A i \in DOMAIN history, undo \in BOOLEAN :
        Frontier(i, undo) => Replayable(i, undo)

\* No command changes the order of two rows that it keeps.
SurvivorsKeepTheirOrder ==
    \A r, s \in DOMAIN order \cap DOMAIN order' :
        Ordinal(order, r) < Ordinal(order, s) <=> Ordinal(order', r) < Ordinal(order', s)
=============================================================================
