SPECIFICATION Spec
CONSTANTS
    t1 = t1
    t2 = t2
    g1 = g1
    Unset = Unset
SYMMETRY Symmetry
INVARIANTS RowsAreThoseOfTheCursor HistoryIsWhole UndoIsChronological ColumnsAreCurrent
PROPERTY NothingIsRenumbered
CHECK_DEADLOCK FALSE
