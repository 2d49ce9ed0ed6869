------------------------ MODULE MCProjectTransaction ------------------------
(* Instance of ProjectTransaction for TLC. *)
EXTENDS ProjectTransaction, TLC

CONSTANTS o1, o2, o3, o4, d1, d2, s1, k1, b1, b2

\* Two nested folders.
MCPaths == {"", "a", "a/b"}
MCAncestors == [p \in MCPaths |->
                  CASE p = "" -> {} [] p = "a" -> {"a"} [] p = "a/b" -> {"a", "a/b"}]

Records(p) == [patch |-> p, datasets |-> {}]
Write(d, e, f, b) ==
    [EmptyPatch EXCEPT !.documents =
        d :> [expected |-> e, proposed |-> e + 1, folder |-> f, body |-> b]]
Move(d, e, f) == [EmptyPatch EXCEPT !.moves = d :> [expected |-> e, folder |-> f]]
Delete(d) == [EmptyPatch EXCEPT !.deletes = {d}]
Setting(k, e) == [EmptyPatch EXCEPT !.settings = k :> e]

\* Document versions: writes, moves and deletions of one document, and a
\* table operation.
VersionRequests ==
    {Records(Write(d1, e, "", b1)) : e \in 0..2}
    \union {Records(Move(d1, 1, ""))}
    \union {Records(Delete(d1))}
    \union {[patch |-> EmptyPatch, datasets |-> {s1}]}

\* The directory: one document moving through nested folders that are created
\* and deleted, and a setting.
FolderRequests ==
    {Records(Write(d1, 0, f, b1)) : f \in MCPaths}
    \union {Records(Move(d1, e, f)) : e \in 1..2, f \in {"", "a/b"}}
    \union {Records(Delete(d1)), Records(Setting(k1, 0))}
    \union {Records([EmptyPatch EXCEPT !.createdFolders = {"a/b"}])}
    \union {Records([EmptyPatch EXCEPT !.deletedFolders = F]) : F \in {{"a"}, {"a/b"}, {"a", "a/b"}}}

Symmetry == Permutations(Operations)
=============================================================================
