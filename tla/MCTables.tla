------------------------------- MODULE MCTables -------------------------------
(* Three components of the backend that keep what is done to tables: the     *)
(* order of rows (RowOrder), the history of tables that come and go          *)
(* (TableHistory) and calculated columns with their undo and redo            *)
(* (CalculatedColumns).  They share no variable, so a behaviour is one of    *)
(* the component that is chosen at the start, the others standing still.     *)
EXTENDS Integers, Sequences, FiniteSets, TLC

CONSTANTS t1, t2, g1, Unset

VARIABLES component,
          order, rowCount, nextRowId, generation, anchors, manifest, history,
          images,                                                \* RowOrder
          table, mark, line, dir, docMark, owned, setting, tomb, snapshot,
          revision, renames, high,                               \* TableHistory
          grid, done, at, nextRow, trail                         \* CalculatedColumns

orderVars == <<order, rowCount, nextRowId, generation, anchors, manifest,
               history, images>>
historyVars == <<table, mark, line, dir, docMark, owned, setting, tomb, snapshot,
                 revision, renames, high>>
formulaVars == <<grid, done, at, nextRow, trail>>
vars == <<component, orderVars, historyVars, formulaVars>>

\* Strides small enough for keys to run out.
Rows == INSTANCE RowOrder WITH
    Stride <- 2, AnchorStride <- 2, InitialWindow <- 2, MaxWindow <- 4,
    MaxAdded <- 2, Events <- TRUE, InitialRows <- 2, MaxRowId <- 5,
    MaxGeneration <- 4
\* Undo and redo of any table's history ...
Histories == INSTANCE TableHistory WITH
    Tables <- {t1, t2}, Graphs <- {g1}, Names <- {"A", "B"},
    Deps <- (g1 :> {t1, t2}), AnyTable <- TRUE, MaxRevision <- 7, MaxRenames <- 1
\* ... or only of what the interface offers.
Offered == INSTANCE TableHistory WITH
    Tables <- {t1, t2}, Graphs <- {g1}, Names <- {"A", "B"},
    Deps <- (g1 :> {t1, t2}), AnyTable <- FALSE, MaxRevision <- 7, MaxRenames <- 1

\* Formulas over formulas, with a column c that may lose its inputs ...
Column(is, deps, type) == [is |-> is, deps |-> deps, type |-> type]
Number == Column("plain", {}, "double")
Absent == Column("none", {}, "none")
Chains == INSTANCE CalculatedColumns WITH
    table <- grid, history <- done,
    Columns <- {"a", "b", "c", "d"},
    Starts <- {("a" :> Number @@ "b" :> b @@ "d" :> Absent
                @@ "c" :> Column("formula", {"a", "b"}, "double")) :
                  b \in {Column("formula", {"a"}, "double"),
                         Column("plain", {}, "integer")}},
    MaxRows <- 1, MaxEdits <- 2
\* ... a formula over one column with rows that come and go ...
Grows == INSTANCE CalculatedColumns WITH
    table <- grid, history <- done,
    Columns <- {"a", "b", "c"},
    Starts <- {"a" :> Number @@ "b" :> Column("formula", {"a"}, "double")
               @@ "c" :> Absent},
    MaxRows <- 2, MaxEdits <- 2
\* ... and longer histories of the same formula.
Replays == INSTANCE CalculatedColumns WITH
    table <- grid, history <- done,
    Columns <- {"a", "b", "c"},
    Starts <- {"a" :> Number @@ "b" :> Column("formula", {"a"}, "double")
               @@ "c" :> Absent},
    MaxRows <- 1, MaxEdits <- 3

ASSUME TablesAssumption ==
    /\ Rows!RowOrderAssumption
    /\ Histories!TableHistoryAssumption /\ Offered!TableHistoryAssumption
    /\ Chains!CalculatedColumnsAssumption /\ Grows!CalculatedColumnsAssumption
    /\ Replays!CalculatedColumnsAssumption

-----------------------------------------------------------------------------
Init ==
    /\ component \in {"rows", "histories", "offered", "chains", "grows", "replays"}
    /\ Rows!Init /\ Histories!Init
    /\ CASE component = "chains" -> Chains!Init
         [] component = "grows" -> Grows!Init
         [] OTHER -> Replays!Init

Next ==
    /\ UNCHANGED component
    /\ \/ component = "rows" /\ Rows!Step /\ UNCHANGED <<historyVars, formulaVars>>
       \/ component = "histories" /\ Histories!Next /\ UNCHANGED <<orderVars, formulaVars>>
       \/ component = "offered" /\ Offered!Next /\ UNCHANGED <<orderVars, formulaVars>>
       \/ component = "chains" /\ Chains!Next /\ UNCHANGED <<orderVars, historyVars>>
       \/ component = "grows" /\ Grows!Next /\ UNCHANGED <<orderVars, historyVars>>
       \/ component = "replays" /\ Replays!Next /\ UNCHANGED <<orderVars, historyVars>>

Spec == Init /\ [][Next]_vars

Symmetry == Permutations({t1, t2})

-----------------------------------------------------------------------------
\* The properties; the modules of the components say what code each is about.

\* Every anchor of the sparse index names the row at its ordinal, under its
\* key, although nothing ever counts the table; rows and their stored keys are
\* those of the history up to its cursor, whose change set can be replayed, and
\* between any two rows a row can be asked for (RowOrder).
RowsAreThoseOfTheCursor ==
    component = "rows" =>
        /\ Rows!AnchorsAreExact /\ Rows!OrderIsThatOfTheCursor
        /\ Rows!FrontierReplays /\ Rows!KeysAreDistinct

\* A table's rows are hidden exactly when its history says so, its images have
\* the one owner that can bring it back, and the next undo and redo of the
\* interface are accepted (TableHistory).
HistoryIsWhole ==
    component = "histories" =>
        /\ Histories!StorageAsRecorded /\ Histories!ImagesHaveOneOwner
        /\ Histories!FrontierIsAccepted

\* Undo takes the commits of all tables back in reverse order (TableHistory).
UndoIsChronological == component = "offered" => Offered!UndoIsChronological

\* What a client remembers stays true: no generation of a table and no revision
\* of a document is given twice, through hiding, restoring and abandoning
\* (TableHistory), and rows that stay keep their order (RowOrder).
NothingIsRenumbered ==
    [][/\ component = "histories" => Histories!NumbersGrow
       /\ component = "rows" => Rows!SurvivorsKeepTheirOrder]_vars

\* No formula reads itself, each stored value is what its formula gives, and
\* undo and redo restore the table they left (CalculatedColumns).
ColumnsAreCurrent ==
    /\ component = "chains" => Chains!FormulasAreSound /\ Chains!ValuesAreCurrent
    /\ component = "grows" => Grows!ValuesAreCurrent /\ Grows!ReplayIsExact
    /\ component = "replays" => Replays!ReplayIsExact
=============================================================================
