------------------------- MODULE CalculatedColumns -------------------------
(***************************************************************************)
(* A table of a native project with calculated columns.  A formula reads    *)
(* other columns of its own row; its values are stored, and recomputed by   *)
(* whatever changes a column it depends on, directly or through others.     *)
(* Every command leaves a change set holding what undo and redo need: the   *)
(* columns it tracked, the cells it touched, or the rows and columns it     *)
(* added or deleted.  An action is a project transaction.                   *)
(*                                                                         *)
(* A value is its number and, if a formula computed it, what it was         *)
(* computed from: two computed values are equal only if their sources were. *)
(***************************************************************************)
EXTENDS Naturals, Sequences, SequencesExt, FiniteSets, FiniteSetsExt, TLC

CONSTANTS Columns,
          Starts,               \* the columns of a table just loaded
          MaxRows, MaxEdits     \* bounds: row ids, length of the history

RowIds == 1..MaxRows
Types == {"double", "integer"}
NoColumn == [is |-> "none", deps |-> {}, type |-> "none"]
Ordinary(type) == [is |-> "plain", deps |-> {}, type |-> type]
Formula(deps) == [is |-> "formula", deps |-> deps, type |-> "double"]
ColumnStates == {NoColumn} \cup {Ordinary(y) : y \in Types}
                           \cup {Formula(ds) : ds \in SUBSET Columns}

\* What the constants must be; the module that instantiates this one assumes it.
CalculatedColumnsAssumption ==
    /\ Starts \subseteq [Columns -> ColumnStates]
    /\ MaxRows \in Nat \ {0} /\ MaxEdits \in Nat

VARIABLES
    table,     \* columns, rows and cells
    history,   \* change sets, each the sequence of its children
    at,        \* how many of them are applied
    nextRow,   \* next_row_id
    trail      \* auxiliary: the table before each change set, and the last
vars == <<table, history, at, nextRow, trail>>

\* Odd numbers have a fraction: 1 is typed in, 3 computed.
Null == [n |-> 0, of |-> {}]
Typed(n) == [n |-> n, of |-> {}]
Rounded(v) == [v EXCEPT !.n = IF @ \in {1, 3} THEN @ + 1 ELSE @]

Present(t) == {c \in Columns : t.col[c].is # "none"}
Formulas(t) == {c \in Columns : t.col[c].is = "formula"}
Writable(t) == {c \in Columns : t.col[c].is = "plain"}
Empty(t, c) == \A r \in t.rows : t.cell[c][r] = Null
\* A column id is never used twice; what was undone for good left no trace.
Fresh == {c \in Columns : \A i \in 1..(at + 1) : trail[i].col[c].is = "none"}

-----------------------------------------------------------------------------
\* Formulas

Compute(t, c, r) == [n |-> 3, of |-> {<<d, t.cell[d][r]>> : d \in t.col[c].deps}]

Affected(t, changed) ==
    LET grow[n \in 0..Cardinality(Columns)] ==
            IF n = 0 THEN changed \cap Formulas(t)
            ELSE grow[n - 1] \cup
                 {f \in Formulas(t) :
                     t.col[f].deps \cap (changed \cup grow[n - 1]) # {}}
    IN  grow[Cardinality(Columns)]

\* visit: an output follows the outputs it depends on.
Ordered(t, outputs) ==
    LET sorted == {s \in SetToSeqs(outputs) :
                      \A i, j \in DOMAIN s :
                          i < j => s[j] \notin t.col[s[i]].deps}
    IN  IF sorted = {} THEN SetToSeq(outputs) ELSE CHOOSE s \in sorted : TRUE

\* rows: for each output, the rows to recompute.
Materialized(t, outputs, rows) ==
    FoldLeft(LAMBDA u, c :
                 [u EXCEPT !.cell[c] =
                     [r \in RowIds |-> IF r \in u.rows \cap rows[c]
                                       THEN Compute(u, c, r) ELSE @[r]]],
             t, Ordered(t, outputs))
AllRows == [c \in Columns |-> RowIds]

\* affected_formula_rows: the rows in which some dependency changes.
DerivedRows(t, changed) ==
    FoldLeft(LAMBDA known, c :
                 [known EXCEPT ![c] = UNION {known[d] : d \in t.col[c].deps}],
             changed, Ordered(t, Affected(t, {c \in Columns : changed[c] # {}})))

\* visit_graph from c never comes back to it.
Upstream(col, c) ==
    LET grow[n \in 0..Cardinality(Columns)] ==
            IF n = 0 THEN col[c].deps
            ELSE grow[n - 1] \cup UNION {col[d].deps : d \in grow[n - 1]}
    IN  grow[Cardinality(Columns)]
Acyclic(col, c) == c \notin Upstream(col, c)

-----------------------------------------------------------------------------
\* Change sets and their replay

\* Columns ("values", "add_columns", "delete_columns"), as they were and are.
Part(t, cs) == [col |-> [c \in cs |-> t.col[c]], cell |-> [c \in cs |-> t.cell[c]]]
Tracked(kind, cs, t, u) ==
    [kind |-> kind, before |-> Part(t, cs), after |-> Part(u, cs)]
\* Touched cells ("cells"), rows ("add_rows", "delete_rows"), and the schema
\* before and after ("type", "convert").
Touched(rows, t, u) ==
    LET Cells(s) == [c \in Columns |-> [r \in rows[c] |-> s.cell[c][r]]]
    IN  [kind |-> "cells", before |-> Cells(t), after |-> Cells(u)]
Schema(kind, t, u) == [kind |-> kind, before |-> t.col, after |-> u.col]

Blank == [r \in RowIds |-> Null]
Put(t, part) == [t EXCEPT !.col = part.col @@ @, !.cell = part.cell @@ @]
Dropped(t, cs) ==
    [t EXCEPT !.col = [c \in Columns |-> IF c \in cs THEN NoColumn ELSE @[c]],
              !.cell = [c \in Columns |-> IF c \in cs THEN Blank ELSE @[c]]]
WithoutRows(t, rs) ==
    [t EXCEPT !.rows = @ \ rs,
              !.cell = [c \in Columns |-> [r \in RowIds |->
                           IF r \in rs THEN Null ELSE @[c][r]]]]
WithRow(t, r) ==
    Materialized([t EXCEPT !.rows = @ \cup {r}], Formulas(t),
                 [c \in Columns |-> {r}])

\* owns_added_column: a cell of a column its own group added goes with it.
OwnsAddedColumn(children, c) ==
    \E i \in DOMAIN children :
        children[i].kind = "add_columns" /\ c \in DOMAIN children[i].after.col

CellsReplayed(t, e, undo, children) ==
    LET side == IF undo THEN e.before ELSE e.after
        gone == {c \in Columns : DOMAIN side[c] # {} /\ t.col[c].is = "none"}
    IN  IF \E c \in gone : ~(undo /\ OwnsAddedColumn(children, c)) THEN {}
        ELSE {[t EXCEPT !.cell = [c \in Columns |->
                   IF c \in gone THEN @[c] ELSE side[c] @@ @[c]]]}
\* The schema must be the one the change left; a column whose type is put
\* back is emptied.
SchemaReplayed(t, e, undo) ==
    LET from == IF undo THEN e.after ELSE e.before
        to == IF undo THEN e.before ELSE e.after
    IN  IF t.col # from THEN {}
        ELSE {[t EXCEPT !.col = to,
                  !.cell = [c \in Columns |->
                      IF to[c].type # from[c].type THEN Blank ELSE @[c]]]}

ColumnsReplayed(t, e, undo) ==
    LET part == IF e.kind = "add_columns" THEN e.after ELSE e.before
    IN  {IF undo = (e.kind = "add_columns") THEN Dropped(t, DOMAIN part.col)
         ELSE IF undo THEN Put(t, part)
         ELSE [t EXCEPT !.col = part.col @@ @]}
RowsReplayed(t, e, undo) ==
    {IF undo = (e.kind = "add_rows") THEN WithoutRows(t, {e.row})
     ELSE IF ~undo THEN WithRow(t, e.row)
     ELSE [t EXCEPT !.rows = @ \cup {e.row},
                    !.cell = [c \in Columns |->
                                 [@[c] EXCEPT ![e.row] = e.cells[c]]]]}

\* The tables a child may leave; none if the code refuses.
Replayed(t, e, undo, children) ==
    CASE e.kind = "values" -> {Put(t, IF undo THEN e.before ELSE e.after)}
      [] e.kind = "cells" -> CellsReplayed(t, e, undo, children)
      [] e.kind \in {"type", "convert"} -> SchemaReplayed(t, e, undo)
      [] e.kind \in {"add_columns", "delete_columns"} -> ColumnsReplayed(t, e, undo)
      [] e.kind \in {"add_rows", "delete_rows"} -> RowsReplayed(t, e, undo)

\* replay_order: the schema first, then the data.
ReplayOrder(children, undo) ==
    LET line == IF undo THEN Reverse(children) ELSE children
        IsSchema(e) == e.kind \in {"add_columns", "type"}
        IsData(e) == ~IsSchema(e)
    IN  IF Len(children) = 1 THEN children
        ELSE SelectSeq(line, IsSchema) \o SelectSeq(line, IsData)
Replay(t, children, undo) ==
    FoldLeft(LAMBDA ts, e : UNION {Replayed(u, e, undo, children) : u \in ts},
             {t}, ReplayOrder(children, undo))

-----------------------------------------------------------------------------
\* Commands

Init ==
    /\ \E col \in Starts :
           LET plain == [c \in Columns |-> [r \in RowIds |->
                   IF r = 1 /\ col[c].is = "plain"
                   THEN Typed(IF col[c].type = "double" THEN 1 ELSE 2) ELSE Null]]
               t == [col |-> col, rows |-> {1}, cell |-> plain]
           IN  table = Materialized(t, Formulas(t), AllRows)
    /\ history = <<>> /\ at = 0 /\ nextRow = 2 /\ trail = <<table>>

Commit(t, children) ==
    /\ at < MaxEdits
    /\ table' = t
    /\ history' = Append(SubSeq(history, 1, at), children)
    /\ trail' = Append(SubSeq(trail, 1, at + 1), t)
    /\ at' = at + 1

\* A change of one column, and of all that is computed from it.
ChangeColumn(c, t) ==
    LET outputs == Affected(t, {c})
        u == Materialized(t, outputs, AllRows)
    IN  Commit(u, <<Tracked("values", {c} \cup outputs, table, u)>>)

\* A new column, another formula, or a formula for an ordinary column.
Upsert(c, deps) ==
    LET t == [table EXCEPT !.col[c] = Formula(deps), !.cell[c] = Blank]
    IN  /\ c \in Present(table) \cup Fresh /\ deps \subseteq Present(table) \ {c}
        /\ Acyclic(t.col, c)
        /\ ChangeColumn(c, t) /\ UNCHANGED nextRow

AlterType(c) ==
    LET narrow == table.col[c].type = "double"
        t == [table EXCEPT
                 !.col[c].type = IF narrow THEN "integer" ELSE "double",
                 !.cell[c] = [r \in RowIds |-> IF narrow THEN Rounded(@[r])
                                                         ELSE @[r]]]
    IN  c \in Writable(table) /\ ChangeColumn(c, t) /\ UNCHANGED nextRow

ConvertToValues(c) ==
    LET t == [table EXCEPT !.col[c] = Ordinary("double")]
    IN  /\ c \in Formulas(table)
        /\ Commit(t, <<Schema("convert", table, t)>>) /\ UNCHANGED nextRow

AddedColumns(t, cs, type) ==
    [t EXCEPT !.col = [c \in cs |-> Ordinary(type)] @@ @]
AddColumn(c, type) ==
    LET t == AddedColumns(table, {c}, type)
    IN  /\ c \in Fresh
        /\ Commit(t, <<Tracked("add_columns", {c}, table, t)>>)
        /\ UNCHANGED nextRow

\* reject_calculated_dependency_removals
Deletable(t, cs) == \A f \in Formulas(t) \ cs : t.col[f].deps \cap cs = {}
DeleteColumns(cs) ==
    LET t == Dropped(table, cs)
    IN  /\ cs \subseteq Present(table) /\ cs # Present(table)
        /\ Deletable(table, cs)
        /\ Commit(t, <<Tracked("delete_columns", cs, table, t)>>)
        /\ UNCHANGED nextRow

AddRow ==
    LET t == WithRow(table, nextRow)
    IN  /\ nextRow \in RowIds
        /\ Commit(t, <<[kind |-> "add_rows", row |-> nextRow]>>)
        /\ nextRow' = nextRow + 1
DeleteRow(r) ==
    /\ r \in table.rows
    /\ Commit(WithoutRows(table, {r}),
              <<[kind |-> "delete_rows", row |-> r,
                 cells |-> [c \in Columns |-> table.cell[c][r]]]>>)
    /\ UNCHANGED nextRow

\* Mutant: only the cells that were typed are kept for undo.
WrittenAlone(t, cells, n) ==
    LET rows == [c \in Columns |-> {r \in t.rows : <<c, r>> \in cells}]
        typed == [t EXCEPT !.cell = [c \in Columns |-> [r \in RowIds |->
                     IF r \in rows[c] THEN Typed(n) ELSE @[c][r]]]]
        derived == DerivedRows(t, rows)
        u == Materialized(typed, {c \in Formulas(t) : derived[c] # {}}, derived)
    IN  [table |-> u, change |-> Touched(rows, t, u)]
\* update_cells: the cells and what is computed from them, in their rows.
Written(t, cells, n) ==
    LET rows == [c \in Columns |-> {r \in t.rows : <<c, r>> \in cells}]
        typed == [t EXCEPT !.cell = [c \in Columns |-> [r \in RowIds |->
                     IF r \in rows[c] THEN Typed(n) ELSE @[c][r]]]]
        derived == DerivedRows(t, rows)
        u == Materialized(typed, {c \in Formulas(t) : derived[c] # {}}, derived)
    IN  [table |-> u, change |-> Touched(derived, t, u)]
Fits(n, type) == type = "integer" => n # 1
EditCells(cells, n) ==
    LET w == Written(table, cells, n)
    IN  /\ \A x \in cells : /\ x[1] \in Writable(table) /\ x[2] \in table.rows
                            /\ Fits(n, table.col[x[1]].type)
        /\ Commit(w.table, <<w.change>>) /\ UNCHANGED nextRow

\* A paste that grows the table or gives an empty column a type: columns,
\* types, rows and cells are children of one change set.
Paste(cs, r, type, n) ==
    LET new == cs \ Present(table)
        typed == {c \in cs \cap Present(table) :
                     Empty(table, c) /\ table.col[c].type # type}
        added == AddedColumns(table, new, type)
        shaped == AddedColumns(added, typed, type)
        grown == IF r = nextRow THEN WithRow(shaped, r) ELSE shaped
        w == Written(grown, {<<c, r>> : c \in cs}, n)
        Maybe(p, e) == IF p THEN <<e>> ELSE <<>>
    IN  /\ cs \subseteq Writable(table) \cup Fresh
        /\ r \in table.rows \cup {nextRow} /\ r \in RowIds
        /\ new # {} \/ typed # {} \/ r = nextRow
        /\ Cardinality(typed) <= 1
        /\ \A c \in cs : Fits(n, shaped.col[c].type)
        /\ Commit(w.table,
                  Maybe(new # {}, Tracked("add_columns", new, table, added))
                  \o Maybe(typed # {}, Schema("type", added, shaped))
                  \o Maybe(r = nextRow, [kind |-> "add_rows", row |-> r])
                  \o <<w.change>>)
        /\ nextRow' = IF r = nextRow THEN nextRow + 1 ELSE nextRow

Undo ==
    /\ at > 0 /\ table' \in Replay(table, history[at], TRUE)
    /\ at' = at - 1 /\ UNCHANGED <<history, nextRow, trail>>
Redo ==
    /\ at < Len(history) /\ table' \in Replay(table, history[at + 1], FALSE)
    /\ at' = at + 1 /\ UNCHANGED <<history, nextRow, trail>>

Next ==
    \/ \E c \in Columns : \/ \E ds \in SUBSET (Columns \ {c}) : Upsert(c, ds)
                          \/ AlterType(c) \/ ConvertToValues(c)
                          \/ \E y \in Types : AddColumn(c, y)
    \/ \E cs \in SUBSET Columns \ {{}} : DeleteColumns(cs)
    \/ AddRow
    \/ \E r \in RowIds : DeleteRow(r)
    \/ \E n \in {0, 2}, k \in 1..2 :
           \E cells \in kSubset(k, Writable(table) \X table.rows) :
               EditCells(cells, n)
    \/ \E k \in 1..2, r \in RowIds, y \in Types :
           \E cs \in kSubset(k, Writable(table) \cup Fresh) : Paste(cs, r, y, 2)
    \/ Undo \/ Redo
Spec == Init /\ [][Next]_vars

-----------------------------------------------------------------------------
\* Properties

RECURSIVE IsValue(_)
IsValue(v) ==
    /\ v.n \in 0..4
    /\ \A p \in v.of : p[1] \in Columns /\ IsValue(p[2])
\* Tables are well formed: nothing remains of a column or a row that is gone.
TypeOK ==
    /\ table.col \in [Columns -> ColumnStates] /\ table.rows \subseteq RowIds
    /\ \A c \in Columns, r \in RowIds :
           /\ IsValue(table.cell[c][r])
           /\ c \notin Present(table) \/ r \notin table.rows =>
                  table.cell[c][r] = Null
    /\ at \in 0..Len(history) /\ Len(history) <= MaxEdits
    /\ Len(trail) = Len(history) + 1 /\ nextRow \in 2..(MaxRows + 1)

\* No formula reads itself through others or reads a column that is not there.
FormulasAreSound ==
    \A f \in Formulas(table) :
        f \notin Upstream(table.col, f) /\ table.col[f].deps \subseteq Present(table)

\* Stored values are current: each is what its formula gives for the row as it
\* is, after every command, undo and redo.
ValuesAreCurrent ==
    \A f \in Formulas(table), r \in table.rows :
        table.cell[f][r] = Compute(table, f, r)

\* What was last done can be undone and what was last undone redone, and the
\* table is then exactly the one it was: columns, formulas, rows and values.
ReplayIsExact ==
    /\ at > 0 => Replay(table, history[at], TRUE) = {trail[at]}
    /\ at < Len(history) => Replay(table, history[at + 1], FALSE) = {trail[at + 2]}
=============================================================================
