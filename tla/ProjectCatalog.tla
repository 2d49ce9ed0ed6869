---------------------------- MODULE ProjectCatalog ----------------------------
(***************************************************************************)
(* The directory, document, folder and setting records of a project and    *)
(* apply_patch, the one way record commits change them                     *)
(* (services/project_catalog.rs).  A catalog is a value; ProjectTransaction *)
(* holds the committed one.  The stages of a patch are operators applied   *)
(* in the order of the code; a stage that returns an error makes the       *)
(* caller roll the whole patch back, so a patch either has every           *)
(* precondition met, each in the catalog its stage finds, or no effect.    *)
(*                                                                         *)
(* Names, kinds, dependencies and the contents of bodies are left out.     *)
(***************************************************************************)
EXTENDS Integers

CONSTANTS
    Documents,   \* ids of named documents (reports, graphs, analyses, ...)
    Keys,        \* setting keys
    Bodies,      \* document contents
    NoBody,      \* no row in _project_documents
    Paths,       \* folder paths
    Root,        \* the empty path
    Ancestors    \* Ancestors[p]: p and the folders above it, without Root

ASSUME BodiesAssumption == NoBody \notin Bodies
ASSUME PathsAssumption ==
    /\ Root \in Paths
    /\ Ancestors \in [Paths -> SUBSET (Paths \ {Root})]
    /\ Ancestors[Root] = {}
    /\ \A p \in Paths \ {Root} : p \in Ancestors[p]
    /\ \A p \in Paths : \A q \in Ancestors[p] : Ancestors[q] \subseteq Ancestors[p]

Catalogs ==
    [revision     : [Documents -> Nat],   \* _project_directory, 0 for no row
     bodyRevision : [Documents -> Nat],   \* _project_documents, 0 for no row
     watermark    : [Documents -> Nat],   \* retained clock, 0 for no row
     folder       : [Documents -> Paths],
     body         : [Documents -> Bodies \union {NoBody}],
     folders      : SUBSET (Paths \ {Root}),
     settings     : [Keys -> Nat]]        \* setting revision, 0 for no row

EmptyCatalog ==
    [revision     |-> [d \in Documents |-> 0],
     bodyRevision |-> [d \in Documents |-> 0],
     watermark    |-> [d \in Documents |-> 0],
     folder       |-> [d \in Documents |-> Root],
     body         |-> [d \in Documents |-> NoBody],
     folders      |-> {},
     settings     |-> [k \in Keys |-> 0]]

\* A ProjectRecordPatch.  An expected revision 0 stands for null, "no record".
IsPatch(p) ==
    /\ p.createdFolders \subseteq Paths
    /\ DOMAIN p.documents \subseteq Documents
    /\ \A d \in DOMAIN p.documents :
         /\ p.documents[d].expected \in Nat
         /\ p.documents[d].proposed \in Nat
         /\ p.documents[d].folder \in Paths
         /\ p.documents[d].body \in Bodies
    /\ DOMAIN p.moves \subseteq Documents
    /\ \A d \in DOMAIN p.moves : p.moves[d].expected \in Nat /\ p.moves[d].folder \in Paths
    /\ p.deletes \subseteq Documents
    /\ DOMAIN p.settings \subseteq Keys
    /\ \A k \in DOMAIN p.settings : p.settings[k] \in Nat
    /\ p.deletedFolders \subseteq Paths

NoFunction == [x \in {} |-> 0]

EmptyPatch ==
    [createdFolders |-> {}, documents |-> NoFunction, moves |-> NoFunction,
     deletes |-> {}, settings |-> NoFunction, deletedFolders |-> {}]

Larger(m, n) == IF m >= n THEN m ELSE n

-----------------------------------------------------------------------------
(* Stages *)

\* Mutant of AdvanceDocumentRevision: the retained clock is not consulted.
AdvanceWithoutWatermark(cat, d) == cat.revision[d] + 1

\* The next revision of d.  It passes every revision d ever had, also those
\* from before a deletion.  (A write starts from the body's revision, a move
\* from the directory's; they agree, see Consistent.)
AdvanceDocumentRevision(cat, d) == Larger(cat.revision[d], cat.watermark[d]) + 1

\* ensure_folder creates a path and the folders above it.
EnsureFolders(cat, P) ==
    [cat EXCEPT !.folders = @ \union UNION {Ancestors[p] : p \in P}]

\* Mutant of DocumentsAccepted: a write to a document that exists is accepted.
DocumentsAcceptedUnchecked(cat, W) ==
    \A d \in DOMAIN W : W[d].expected = 0 => cat.bodyRevision[d] = 0

DocumentsAccepted(cat, W) ==
    \A d \in DOMAIN W : /\ W[d].expected = cat.bodyRevision[d]
                        /\ W[d].proposed = cat.bodyRevision[d] + 1

\* The rows of D get their next revision, in the directory, the watermarks and,
\* for those in B, a part of D, the document bodies.
Advance(cat, D, B) ==
    [cat EXCEPT
       !.revision = [d \in Documents |->
          IF d \in D THEN AdvanceDocumentRevision(cat, d) ELSE @[d]],
       !.bodyRevision = [d \in Documents |->
          IF d \in B THEN AdvanceDocumentRevision(cat, d) ELSE @[d]],
       !.watermark = [d \in Documents |->
          IF d \in D THEN AdvanceDocumentRevision(cat, d) ELSE @[d]]]

WriteDocuments(cat, W) ==
    LET written == Advance(cat, DOMAIN W, DOMAIN W)
    IN  EnsureFolders(
          [written EXCEPT
             !.folder = [d \in Documents |-> IF d \in DOMAIN W THEN W[d].folder ELSE @[d]],
             !.body   = [d \in Documents |-> IF d \in DOMAIN W THEN W[d].body ELSE @[d]]],
          {W[d].folder : d \in DOMAIN W})

MovesAccepted(cat, M) ==
    \A d \in DOMAIN M : cat.revision[d] # 0 /\ cat.revision[d] = M[d].expected

MoveDocuments(cat, M) ==
    LET moved == Advance(cat, DOMAIN M, {d \in DOMAIN M : cat.bodyRevision[d] # 0})
    IN  EnsureFolders(
          [moved EXCEPT
             !.folder = [d \in Documents |-> IF d \in DOMAIN M THEN M[d].folder ELSE @[d]]],
          {M[d].folder : d \in DOMAIN M})

DeletesAccepted(cat, D) == \A d \in D : cat.revision[d] # 0

DeleteDocuments(cat, D) ==
    [cat EXCEPT
       !.watermark = [d \in Documents |->
          IF d \in D THEN Larger(@[d], cat.revision[d]) ELSE @[d]],
       !.revision     = [d \in Documents |-> IF d \in D THEN 0 ELSE @[d]],
       !.bodyRevision = [d \in Documents |-> IF d \in D THEN 0 ELSE @[d]],
       !.folder       = [d \in Documents |-> IF d \in D THEN Root ELSE @[d]],
       !.body         = [d \in Documents |-> IF d \in D THEN NoBody ELSE @[d]]]

SettingsAccepted(cat, S) == \A k \in DOMAIN S : S[k] = cat.settings[k]

WriteSettings(cat, S) ==
    [cat EXCEPT !.settings = [k \in Keys |-> IF k \in DOMAIN S THEN @[k] + 1 ELSE @[k]]]

\* Mutant of FolderDeletesAccepted: only the documents inside are counted.
FolderDeletesIgnoreFolders(cat, F) ==
    /\ Root \notin F
    /\ \A f \in F, d \in Documents : cat.revision[d] # 0 => f \notin Ancestors[cat.folder[d]]

\* Folders are deleted deepest first (documentAdapters.ts sorts them), so a
\* folder counts as empty when what is left inside it is deleted with it.
FolderDeletesAccepted(cat, F) ==
    /\ Root \notin F
    /\ \A f \in F, d \in Documents : cat.revision[d] # 0 => f \notin Ancestors[cat.folder[d]]
    /\ \A f \in F, g \in cat.folders \ F : f \notin Ancestors[g]

DeleteFolders(cat, F) == [cat EXCEPT !.folders = @ \ F]

-----------------------------------------------------------------------------
(* apply_patch *)

AfterCreate(cat, p)   == EnsureFolders(cat, p.createdFolders)
AfterWrite(cat, p)    == WriteDocuments(AfterCreate(cat, p), p.documents)
AfterMove(cat, p)     == MoveDocuments(AfterWrite(cat, p), p.moves)
AfterDelete(cat, p)   == DeleteDocuments(AfterMove(cat, p), p.deletes)
AfterSettings(cat, p) == WriteSettings(AfterDelete(cat, p), p.settings)

\* Every stage finds what it needs, and commit_records, before them, the
\* documents to delete.
PatchAccepted(cat, p) ==
    /\ DeletesAccepted(cat, p.deletes)
    /\ DocumentsAccepted(AfterCreate(cat, p), p.documents)
    /\ MovesAccepted(AfterWrite(cat, p), p.moves)
    /\ DeletesAccepted(AfterMove(cat, p), p.deletes)
    /\ SettingsAccepted(AfterDelete(cat, p), p.settings)
    /\ FolderDeletesAccepted(AfterSettings(cat, p), p.deletedFolders)

ApplyPatch(cat, p) == DeleteFolders(AfterSettings(cat, p), p.deletedFolders)

\* The ids commit_records reports as changed.
PatchDocuments(p) == DOMAIN p.documents \union DOMAIN p.moves \union p.deletes

-----------------------------------------------------------------------------
\* What validate_metadata demands of a catalog when a project is opened: every
\* folder named by a record exists, and directory and document rows agree.
Consistent(cat) ==
    /\ \A f \in cat.folders : Ancestors[f] \subseteq cat.folders
    /\ \A d \in Documents : Ancestors[cat.folder[d]] \subseteq cat.folders
    /\ \A d \in Documents : cat.bodyRevision[d] = cat.revision[d]
    /\ \A d \in Documents : cat.revision[d] = 0 <=> cat.body[d] = NoBody
=============================================================================
