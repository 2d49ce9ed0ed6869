----------------------- MODULE ProjectTransactionProofs -----------------------
(***************************************************************************)
(* Proofs about ProjectTransaction, for every set of operations, documents,*)
(* folders, requests and bounds.                                           *)
(***************************************************************************)
EXTENDS ProjectTransaction, TLAPS

(* The catalog *)

\* A document that exists carries its watermark (the clock is never ahead of
\* or behind a live row), and one that does not is in no folder.
ClockMatches(cat) ==
    \A d \in Documents :
      /\ cat.revision[d] # 0 => cat.revision[d] = cat.watermark[d]
      /\ cat.revision[d] = 0 => cat.folder[d] = Root

CatalogInv(cat) == cat \in Catalogs /\ Consistent(cat) /\ ClockMatches(cat)

\* No stage moves a retained clock back.
ClockGrows(before, after) ==
    \A d \in Documents : before.watermark[d] <= after.watermark[d]

LEMMA EnsureFoldersFields ==
    ASSUME NEW cat, cat \in Catalogs, NEW P, P \in SUBSET Paths
    PROVE  /\ EnsureFolders(cat, P).folders = cat.folders \union UNION {Ancestors[p] : p \in P}
           /\ EnsureFolders(cat, P).revision = cat.revision
           /\ EnsureFolders(cat, P).watermark = cat.watermark
           /\ EnsureFolders(cat, P).bodyRevision = cat.bodyRevision
           /\ EnsureFolders(cat, P).folder = cat.folder
           /\ EnsureFolders(cat, P).body = cat.body
           /\ EnsureFolders(cat, P).settings = cat.settings
           /\ EnsureFolders(cat, P) \in Catalogs
  BY PathsAssumption DEF EnsureFolders, Catalogs

LEMMA AdvanceType ==
    ASSUME NEW cat, cat \in Catalogs, NEW d \in Documents
    PROVE  /\ AdvanceDocumentRevision(cat, d) \in Nat
           /\ AdvanceDocumentRevision(cat, d) > cat.watermark[d]
           /\ AdvanceDocumentRevision(cat, d) > cat.revision[d]
  BY DEF AdvanceDocumentRevision, Larger, Catalogs

\* The fields Advance leaves.
LEMMA AdvanceFields ==
    ASSUME NEW cat, cat \in Catalogs,
           NEW D, D \subseteq Documents, NEW B, B \subseteq Documents
    PROVE  /\ \A d \in Documents :
                /\ Advance(cat, D, B).revision[d] =
                     IF d \in D THEN AdvanceDocumentRevision(cat, d) ELSE cat.revision[d]
                /\ Advance(cat, D, B).bodyRevision[d] =
                     IF d \in B THEN AdvanceDocumentRevision(cat, d) ELSE cat.bodyRevision[d]
                /\ Advance(cat, D, B).watermark[d] =
                     IF d \in D THEN AdvanceDocumentRevision(cat, d) ELSE cat.watermark[d]
           /\ Advance(cat, D, B).folder = cat.folder
           /\ Advance(cat, D, B).body = cat.body
           /\ Advance(cat, D, B).folders = cat.folders
           /\ Advance(cat, D, B).settings = cat.settings
           /\ Advance(cat, D, B) \in Catalogs
<1> DEFINE a == Advance(cat, D, B)
<1>1. /\ a.revision = [d \in Documents |->
                IF d \in D THEN AdvanceDocumentRevision(cat, d) ELSE cat.revision[d]]
      /\ a.bodyRevision = [d \in Documents |->
                IF d \in B THEN AdvanceDocumentRevision(cat, d) ELSE cat.bodyRevision[d]]
      /\ a.watermark = [d \in Documents |->
                IF d \in D THEN AdvanceDocumentRevision(cat, d) ELSE cat.watermark[d]]
      /\ a.folder = cat.folder /\ a.body = cat.body
      /\ a.folders = cat.folders /\ a.settings = cat.settings
  BY DEF Advance, Catalogs
<1>2. /\ a.revision \in [Documents -> Nat] /\ a.bodyRevision \in [Documents -> Nat]
      /\ a.watermark \in [Documents -> Nat]
  BY <1>1, AdvanceType DEF Catalogs
<1>3. a \in Catalogs
  <2> DEFINE r == [d \in Documents |-> IF d \in D THEN AdvanceDocumentRevision(cat, d) ELSE cat.revision[d]]
             b == [d \in Documents |-> IF d \in B THEN AdvanceDocumentRevision(cat, d) ELSE cat.bodyRevision[d]]
             w == [d \in Documents |-> IF d \in D THEN AdvanceDocumentRevision(cat, d) ELSE cat.watermark[d]]
  <2>1. r \in [Documents -> Nat] /\ b \in [Documents -> Nat] /\ w \in [Documents -> Nat]
    BY <1>1, <1>2
  <2>2. a = [cat EXCEPT !.revision = r, !.bodyRevision = b, !.watermark = w]
    BY Zenon DEF Advance
  <2> HIDE DEF r, b, w, a
  <2> QED BY <2>1, <2>2 DEF Catalogs
<1> QED BY <1>1, <1>3

LEMMA AdvanceBoth ==
    ASSUME NEW cat, cat \in Catalogs, NEW D, D \subseteq Documents
    PROVE  /\ \A d \in Documents :
                /\ Advance(cat, D, D).revision[d] =
                     IF d \in D THEN AdvanceDocumentRevision(cat, d) ELSE cat.revision[d]
                /\ Advance(cat, D, D).bodyRevision[d] =
                     IF d \in D THEN AdvanceDocumentRevision(cat, d) ELSE cat.bodyRevision[d]
                /\ Advance(cat, D, D).watermark[d] =
                     IF d \in D THEN AdvanceDocumentRevision(cat, d) ELSE cat.watermark[d]
           /\ Advance(cat, D, D).folder = cat.folder
           /\ Advance(cat, D, D).body = cat.body
           /\ Advance(cat, D, D).folders = cat.folders
           /\ Advance(cat, D, D).settings = cat.settings
           /\ Advance(cat, D, D) \in Catalogs
  BY AdvanceFields

\* What one stage of a patch does to the catalog and the clocks of D.
StageOK(before, after, D) ==
    /\ CatalogInv(after)
    /\ ClockGrows(before, after)
    /\ \A d \in D : after.watermark[d] > before.watermark[d]

\* The document writes of a patch.
LEMMA WriteDocumentsStage ==
    ASSUME NEW cat, CatalogInv(cat), NEW W, DOMAIN W \subseteq Documents,
           \A d \in DOMAIN W : W[d].folder \in Paths /\ W[d].body \in Bodies
    PROVE  StageOK(cat, WriteDocuments(cat, W), DOMAIN W)
<1> DEFINE a    == Advance(cat, DOMAIN W, DOMAIN W)
           f    == [d \in Documents |-> IF d \in DOMAIN W THEN W[d].folder ELSE a.folder[d]]
           b    == [d \in Documents |-> IF d \in DOMAIN W THEN W[d].body ELSE a.body[d]]
           P    == {W[d].folder : d \in DOMAIN W}
           w    == [a EXCEPT !.folder = f, !.body = b]
           res  == WriteDocuments(cat, W)
<1>0. cat \in Catalogs /\ DOMAIN W \in SUBSET Documents /\ P \in SUBSET Paths
  BY DEF CatalogInv
<1>1. /\ \A d \in Documents :
           /\ a.revision[d] =
                IF d \in DOMAIN W THEN AdvanceDocumentRevision(cat, d) ELSE cat.revision[d]
           /\ a.bodyRevision[d] =
                IF d \in DOMAIN W THEN AdvanceDocumentRevision(cat, d) ELSE cat.bodyRevision[d]
           /\ a.watermark[d] =
                IF d \in DOMAIN W THEN AdvanceDocumentRevision(cat, d) ELSE cat.watermark[d]
      /\ a.folder = cat.folder /\ a.body = cat.body
      /\ a.folders = cat.folders /\ a.settings = cat.settings
      /\ a \in Catalogs
  BY <1>0, AdvanceBoth
<1>2. res = EnsureFolders(w, P)
  BY Zenon DEF WriteDocuments
<1>3. f \in [Documents -> Paths] /\ b \in [Documents -> Bodies \union {NoBody}]
  BY <1>1 DEF Catalogs
<1>4. /\ w \in Catalogs /\ w.revision = a.revision /\ w.bodyRevision = a.bodyRevision
      /\ w.watermark = a.watermark /\ w.folder = f /\ w.body = b
      /\ w.folders = a.folders /\ w.settings = a.settings
  <2> HIDE DEF a, f, b
  <2> QED BY <1>1, <1>3 DEF Catalogs
<1>5. /\ res.folders = w.folders \union UNION {Ancestors[p] : p \in P}
      /\ res.revision = w.revision /\ res.watermark = w.watermark
      /\ res.bodyRevision = w.bodyRevision /\ res.folder = w.folder
      /\ res.body = w.body /\ res.settings = w.settings
      /\ res \in Catalogs
  <2>1. w \in Catalogs BY <1>4
  <2>2. P \in SUBSET Paths BY <1>0
  <2> HIDE DEF w, P, res
  <2> QED BY <2>1, <2>2, <1>2, EnsureFoldersFields
<1>6. \A d \in Documents : Ancestors[res.folder[d]] \subseteq res.folders
  <2> TAKE d \in Documents
  <2>1. CASE d \in DOMAIN W
    <3>1. res.folder[d] = W[d].folder /\ W[d].folder \in P
      BY <2>1, <1>5, <1>4
    <3> HIDE DEF P, w, a, res
    <3> QED BY <3>1, <1>5
  <2>2. CASE d \notin DOMAIN W
    <3>1. res.folder[d] = cat.folder[d]
      BY <2>2, <1>5, <1>4, <1>1
    <3>2. cat.folders \subseteq res.folders
      BY <1>5, <1>4, <1>1
    <3> QED BY <3>1, <3>2 DEF CatalogInv, Consistent
  <2> QED BY <2>1, <2>2
<1>7. \A g \in res.folders : Ancestors[g] \subseteq res.folders
  <2>1. w.folders = cat.folders BY <1>4, <1>1
  <2> HIDE DEF P, w, a, res
  <2> QED BY <2>1, <1>0, <1>5, PathsAssumption DEF CatalogInv, Consistent, Catalogs
<1>8. \A d \in Documents : /\ res.revision[d] = res.bodyRevision[d]
                           /\ res.revision[d] = 0 <=> res.body[d] = NoBody
                           /\ res.revision[d] # 0 => res.revision[d] = res.watermark[d]
                           /\ res.revision[d] = 0 => res.folder[d] = Root
                           /\ cat.watermark[d] <= res.watermark[d]
                           /\ d \in DOMAIN W => cat.watermark[d] < res.watermark[d]
  <2> TAKE d \in Documents
  <2>1. CASE d \in DOMAIN W
    <3>1. /\ res.revision[d] = AdvanceDocumentRevision(cat, d)
          /\ res.bodyRevision[d] = AdvanceDocumentRevision(cat, d)
          /\ res.watermark[d] = AdvanceDocumentRevision(cat, d)
          /\ res.body[d] = W[d].body
      BY <2>1, <1>5, <1>4, <1>1
    <3>2. /\ AdvanceDocumentRevision(cat, d) \in Nat
          /\ AdvanceDocumentRevision(cat, d) > cat.watermark[d]
          /\ cat.watermark[d] \in Nat
      BY <1>0, AdvanceType DEF Catalogs
    <3>3. W[d].body # NoBody
      BY <2>1, BodiesAssumption
    <3> HIDE DEF res
    <3> QED BY <3>1, <3>2, <3>3
  <2>2. CASE d \notin DOMAIN W
    <3>1. /\ res.revision[d] = cat.revision[d]
          /\ res.bodyRevision[d] = cat.bodyRevision[d]
          /\ res.watermark[d] = cat.watermark[d]
          /\ res.body[d] = cat.body[d]
          /\ res.folder[d] = cat.folder[d]
      BY <2>2, <1>5, <1>4, <1>1
    <3>2. cat.watermark[d] \in Nat BY <1>0 DEF Catalogs
    <3> HIDE DEF res
    <3> QED BY <2>2, <3>1, <3>2 DEF CatalogInv, Consistent, ClockMatches
  <2> QED BY <2>1, <2>2
<1>9. Consistent(res) /\ ClockMatches(res)
  BY <1>6, <1>7, <1>8 DEF Consistent, ClockMatches
<1> QED BY <1>5, <1>8, <1>9 DEF StageOK, CatalogInv, ClockGrows

\* The moves of a patch.
LEMMA MoveDocumentsStage ==
    ASSUME NEW cat, CatalogInv(cat), NEW M, DOMAIN M \subseteq Documents,
           \A d \in DOMAIN M : M[d].folder \in Paths, MovesAccepted(cat, M)
    PROVE  StageOK(cat, MoveDocuments(cat, M), DOMAIN M)
<1> DEFINE B    == {d \in DOMAIN M : cat.bodyRevision[d] # 0}
           a    == Advance(cat, DOMAIN M, B)
           f    == [d \in Documents |-> IF d \in DOMAIN M THEN M[d].folder ELSE a.folder[d]]
           P    == {M[d].folder : d \in DOMAIN M}
           w    == [a EXCEPT !.folder = f]
           res  == MoveDocuments(cat, M)
<1>0. cat \in Catalogs /\ DOMAIN M \in SUBSET Documents /\ P \in SUBSET Paths
      /\ B = DOMAIN M
  BY DEF CatalogInv, Consistent, MovesAccepted
<1>1. /\ \A d \in Documents :
           /\ a.revision[d] =
                IF d \in DOMAIN M THEN AdvanceDocumentRevision(cat, d) ELSE cat.revision[d]
           /\ a.bodyRevision[d] =
                IF d \in DOMAIN M THEN AdvanceDocumentRevision(cat, d) ELSE cat.bodyRevision[d]
           /\ a.watermark[d] =
                IF d \in DOMAIN M THEN AdvanceDocumentRevision(cat, d) ELSE cat.watermark[d]
      /\ a.folder = cat.folder /\ a.body = cat.body
      /\ a.folders = cat.folders /\ a.settings = cat.settings
      /\ a \in Catalogs
  <2> HIDE DEF B
  <2> DEFINE all == Advance(cat, DOMAIN M, DOMAIN M)
  <2> HIDE DEF f, P, w, res
  <2>1. /\ \A d \in Documents :
             /\ all.revision[d] =
                  IF d \in DOMAIN M THEN AdvanceDocumentRevision(cat, d) ELSE cat.revision[d]
             /\ all.bodyRevision[d] =
                  IF d \in DOMAIN M THEN AdvanceDocumentRevision(cat, d) ELSE cat.bodyRevision[d]
             /\ all.watermark[d] =
                  IF d \in DOMAIN M THEN AdvanceDocumentRevision(cat, d) ELSE cat.watermark[d]
        /\ all.folder = cat.folder /\ all.body = cat.body
        /\ all.folders = cat.folders /\ all.settings = cat.settings
        /\ all \in Catalogs
    BY <1>0, AdvanceBoth
  <2>2. a = all
    BY <1>0
  <2> HIDE DEF a, all
  <2> QED BY <2>1, <2>2
<1>2. res = EnsureFolders(w, P)
  BY Zenon DEF MoveDocuments
<1>3. f \in [Documents -> Paths]
  BY <1>1 DEF Catalogs
<1>4. /\ w \in Catalogs /\ w.revision = a.revision /\ w.bodyRevision = a.bodyRevision
      /\ w.watermark = a.watermark /\ w.folder = f /\ w.body = a.body
      /\ w.folders = a.folders /\ w.settings = a.settings
  <2> HIDE DEF a, f
  <2> QED BY <1>1, <1>3 DEF Catalogs
<1>5. /\ res.folders = w.folders \union UNION {Ancestors[p] : p \in P}
      /\ res.revision = w.revision /\ res.watermark = w.watermark
      /\ res.bodyRevision = w.bodyRevision /\ res.folder = w.folder
      /\ res.body = w.body /\ res.settings = w.settings
      /\ res \in Catalogs
  <2>1. w \in Catalogs BY <1>4
  <2>2. P \in SUBSET Paths BY <1>0
  <2> HIDE DEF w, P, res
  <2> QED BY <2>1, <2>2, <1>2, EnsureFoldersFields
<1>6. \A d \in Documents : Ancestors[res.folder[d]] \subseteq res.folders
  <2> TAKE d \in Documents
  <2>1. CASE d \in DOMAIN M
    <3>1. res.folder[d] = M[d].folder /\ M[d].folder \in P
      BY <2>1, <1>5, <1>4
    <3> HIDE DEF P, w, a, res
    <3> QED BY <3>1, <1>5
  <2>2. CASE d \notin DOMAIN M
    <3>1. res.folder[d] = cat.folder[d]
      <4>1. f[d] = cat.folder[d] BY <2>2, <1>1
      <4> HIDE DEF B, a, f, P, w, res
      <4> QED BY <4>1, <2>2, <1>5, <1>4
    <3>2. cat.folders \subseteq res.folders
      BY <1>5, <1>4, <1>1
    <3> QED BY <3>1, <3>2 DEF CatalogInv, Consistent
  <2> QED BY <2>1, <2>2
<1>7. \A g \in res.folders : Ancestors[g] \subseteq res.folders
  <2>1. w.folders = cat.folders BY <1>4, <1>1
  <2> HIDE DEF P, w, a, res
  <2> QED BY <2>1, <1>0, <1>5, PathsAssumption DEF CatalogInv, Consistent, Catalogs
<1>8. \A d \in Documents : /\ res.revision[d] = res.bodyRevision[d]
                           /\ res.revision[d] = 0 <=> res.body[d] = NoBody
                           /\ res.revision[d] # 0 => res.revision[d] = res.watermark[d]
                           /\ res.revision[d] = 0 => res.folder[d] = Root
                           /\ cat.watermark[d] <= res.watermark[d]
                           /\ d \in DOMAIN M => cat.watermark[d] < res.watermark[d]
  <2> TAKE d \in Documents
  <2>1. CASE d \in DOMAIN M
    <3>1. /\ res.revision[d] = AdvanceDocumentRevision(cat, d)
          /\ res.bodyRevision[d] = AdvanceDocumentRevision(cat, d)
          /\ res.watermark[d] = AdvanceDocumentRevision(cat, d)
          /\ res.body[d] = cat.body[d]
      <4> HIDE DEF B, a, f, P, w, res
      <4> QED BY <2>1, <1>5, <1>4, <1>1
    <3>2. /\ AdvanceDocumentRevision(cat, d) \in Nat
          /\ AdvanceDocumentRevision(cat, d) > cat.watermark[d]
          /\ cat.watermark[d] \in Nat
      BY <1>0, AdvanceType DEF Catalogs
    <3>3. cat.body[d] # NoBody
      BY <2>1 DEF MovesAccepted, CatalogInv, Consistent
    <3> HIDE DEF res
    <3> QED BY <3>1, <3>2, <3>3
  <2>2. CASE d \notin DOMAIN M
    <3>1. /\ res.revision[d] = cat.revision[d]
          /\ res.bodyRevision[d] = cat.bodyRevision[d]
          /\ res.watermark[d] = cat.watermark[d]
          /\ res.body[d] = cat.body[d]
          /\ res.folder[d] = cat.folder[d]
      <4>1. f[d] = cat.folder[d] BY <2>2, <1>1
      <4> HIDE DEF B, a, f, P, w, res
      <4> QED BY <4>1, <2>2, <1>5, <1>4, <1>1
    <3>2. cat.watermark[d] \in Nat BY <1>0 DEF Catalogs
    <3> HIDE DEF res
    <3> QED BY <2>2, <3>1, <3>2 DEF CatalogInv, Consistent, ClockMatches
  <2> QED BY <2>1, <2>2
<1>9. Consistent(res) /\ ClockMatches(res)
  BY <1>6, <1>7, <1>8 DEF Consistent, ClockMatches
<1> QED BY <1>5, <1>8, <1>9 DEF StageOK, CatalogInv, ClockGrows

\* The deletions of a patch.
LEMMA DeleteDocumentsStage ==
    ASSUME NEW cat, CatalogInv(cat), NEW D, D \subseteq Documents
    PROVE  StageOK(cat, DeleteDocuments(cat, D), {})
<1> DEFINE res == DeleteDocuments(cat, D)
           wm  == [d \in Documents |->
                     IF d \in D THEN Larger(cat.watermark[d], cat.revision[d]) ELSE cat.watermark[d]]
           rv  == [d \in Documents |-> IF d \in D THEN 0 ELSE cat.revision[d]]
           br  == [d \in Documents |-> IF d \in D THEN 0 ELSE cat.bodyRevision[d]]
           fd  == [d \in Documents |-> IF d \in D THEN Root ELSE cat.folder[d]]
           bd  == [d \in Documents |-> IF d \in D THEN NoBody ELSE cat.body[d]]
<1>1. cat \in Catalogs
  BY DEF CatalogInv
<1>2. /\ wm \in [Documents -> Nat] /\ rv \in [Documents -> Nat] /\ br \in [Documents -> Nat]
      /\ fd \in [Documents -> Paths] /\ bd \in [Documents -> Bodies \union {NoBody}]
  BY <1>1, PathsAssumption DEF Catalogs, Larger
<1>3. res = [cat EXCEPT !.watermark = wm, !.revision = rv, !.bodyRevision = br,
                        !.folder = fd, !.body = bd]
  BY Zenon DEF DeleteDocuments
<1>4. /\ res \in Catalogs /\ res.watermark = wm /\ res.revision = rv /\ res.bodyRevision = br
      /\ res.folder = fd /\ res.body = bd /\ res.folders = cat.folders
  <2> HIDE DEF res, wm, rv, br, fd, bd
  <2> QED BY <1>1, <1>2, <1>3 DEF Catalogs
<1>5. Consistent(res)
  <2>1. \A d \in Documents :
          /\ res.folder[d] = IF d \in D THEN Root ELSE cat.folder[d]
          /\ res.body[d] = IF d \in D THEN NoBody ELSE cat.body[d]
          /\ res.revision[d] = IF d \in D THEN 0 ELSE cat.revision[d]
          /\ res.bodyRevision[d] = IF d \in D THEN 0 ELSE cat.bodyRevision[d]
    BY <1>4
  <2>2. Ancestors[Root] \subseteq cat.folders
    BY <1>1, PathsAssumption DEF CatalogInv, Consistent, Catalogs
  <2> HIDE DEF res, wm, rv, br, fd, bd
  <2>3. \A d \in Documents : /\ Ancestors[res.folder[d]] \subseteq res.folders
                             /\ res.bodyRevision[d] = res.revision[d]
                             /\ res.revision[d] = 0 <=> res.body[d] = NoBody
    BY <2>1, <2>2, <1>4 DEF CatalogInv, Consistent
  <2> QED BY <2>3, <1>4 DEF CatalogInv, Consistent
<1>6. ClockMatches(res)
  <2>1. \A d \in Documents :
          /\ res.revision[d] = IF d \in D THEN 0 ELSE cat.revision[d]
          /\ d \notin D => res.watermark[d] = cat.watermark[d]
          /\ res.folder[d] = IF d \in D THEN Root ELSE cat.folder[d]
    BY <1>4
  <2> HIDE DEF res, wm, rv, br, fd, bd
  <2> QED BY <2>1 DEF CatalogInv, ClockMatches
<1>7. ClockGrows(cat, res)
  <2>1. \A d \in Documents : cat.watermark[d] \in Nat /\ cat.revision[d] \in Nat
    BY <1>1 DEF Catalogs
  <2>2. \A m, n \in Nat : m <= Larger(m, n)
    BY DEF Larger
  <2>3. ASSUME NEW d \in Documents PROVE cat.watermark[d] <= wm[d]
    <3>1. wm[d] = IF d \in D THEN Larger(cat.watermark[d], cat.revision[d]) ELSE cat.watermark[d]
      OBVIOUS
    <3> HIDE DEF wm
    <3> QED BY <2>1, <2>2, <3>1
  <2> QED BY <1>4, <2>3, Zenon DEF ClockGrows
<1> QED BY <1>4, <1>5, <1>6, <1>7 DEF StageOK, CatalogInv

\* The setting writes of a patch.
LEMMA WriteSettingsStage ==
    ASSUME NEW cat, CatalogInv(cat), NEW S
    PROVE  StageOK(cat, WriteSettings(cat, S), {})
<1> DEFINE res == WriteSettings(cat, S)
           st  == [k \in Keys |-> IF k \in DOMAIN S THEN cat.settings[k] + 1 ELSE cat.settings[k]]
<1>1. cat \in Catalogs
  BY DEF CatalogInv
<1>2. st \in [Keys -> Nat]
  BY <1>1 DEF Catalogs
<1>3. res = [cat EXCEPT !.settings = st]
  BY Zenon DEF WriteSettings
<1>4. /\ res \in Catalogs /\ res.watermark = cat.watermark /\ res.revision = cat.revision
      /\ res.bodyRevision = cat.bodyRevision /\ res.folder = cat.folder
      /\ res.body = cat.body /\ res.folders = cat.folders
  <2> HIDE DEF res, st
  <2> QED BY <1>1, <1>2, <1>3 DEF Catalogs
<1> QED BY <1>1, <1>4 DEF StageOK, CatalogInv, Consistent, ClockMatches, ClockGrows, Catalogs

\* The folder deletions of a patch: no record is left in a folder that is gone.
LEMMA DeleteFoldersStage ==
    ASSUME NEW cat, CatalogInv(cat), NEW F, FolderDeletesAccepted(cat, F)
    PROVE  /\ StageOK(cat, DeleteFolders(cat, F), {})
           /\ DeleteFolders(cat, F).revision = cat.revision
           /\ DeleteFolders(cat, F).watermark = cat.watermark
<1> DEFINE res == DeleteFolders(cat, F)
<1>1. cat \in Catalogs
  BY DEF CatalogInv
<1>2. /\ res \in Catalogs /\ res.watermark = cat.watermark /\ res.revision = cat.revision
      /\ res.bodyRevision = cat.bodyRevision /\ res.folder = cat.folder
      /\ res.body = cat.body /\ res.folders = cat.folders \ F
  <2> DEFINE left == cat.folders \ F
  <2>1. left \in SUBSET (Paths \ {Root})
    BY <1>1 DEF Catalogs
  <2>2. res = [cat EXCEPT !.folders = left]
    BY Zenon DEF DeleteFolders
  <2>3. /\ res \in Catalogs /\ res.watermark = cat.watermark /\ res.revision = cat.revision
        /\ res.bodyRevision = cat.bodyRevision /\ res.folder = cat.folder
        /\ res.body = cat.body /\ res.folders = left
    <3> HIDE DEF left, res
    <3> QED BY <1>1, <2>1, <2>2 DEF Catalogs
  <2> QED BY <2>3
<1>3. \A d \in Documents : Ancestors[cat.folder[d]] \subseteq cat.folders \ F
  BY PathsAssumption DEF CatalogInv, Consistent, ClockMatches, FolderDeletesAccepted
<1>4. \A g \in cat.folders \ F : Ancestors[g] \subseteq cat.folders \ F
  BY DEF CatalogInv, Consistent, FolderDeletesAccepted
<1> QED BY <1>1, <1>2, <1>3, <1>4
           DEF StageOK, CatalogInv, Consistent, ClockMatches, ClockGrows, Catalogs

\* apply_patch as a whole: the catalog stays consistent, no clock moves back,
\* and a document that was written or moved and still exists has a revision
\* above every one it had before.
LEMMA ApplyPatchStages ==
    ASSUME NEW cat, CatalogInv(cat), NEW p, IsPatch(p), PatchAccepted(cat, p)
    PROVE  /\ CatalogInv(ApplyPatch(cat, p))
           /\ ClockGrows(cat, ApplyPatch(cat, p))
           /\ \A d \in DOMAIN p.documents \union DOMAIN p.moves :
                ApplyPatch(cat, p).watermark[d] > cat.watermark[d]
           /\ \A d \in DOMAIN p.documents : p.documents[d].expected = cat.revision[d]
<1> DEFINE c1 == AfterCreate(cat, p)
           c2 == AfterWrite(cat, p)
           c3 == AfterMove(cat, p)
           c4 == AfterDelete(cat, p)
           c5 == AfterSettings(cat, p)
           c6 == ApplyPatch(cat, p)
<1>1. StageOK(cat, c1, {}) /\ c1.revision = cat.revision /\ c1.bodyRevision = cat.bodyRevision
  <2>1. cat \in Catalogs /\ p.createdFolders \in SUBSET Paths
    BY DEF CatalogInv, IsPatch
  <2>2. /\ c1.folders = cat.folders \union UNION {Ancestors[q] : q \in p.createdFolders}
        /\ c1.revision = cat.revision /\ c1.watermark = cat.watermark
        /\ c1.bodyRevision = cat.bodyRevision /\ c1.folder = cat.folder
        /\ c1.body = cat.body /\ c1 \in Catalogs
    BY <2>1, EnsureFoldersFields DEF AfterCreate
  <2>3. \A g \in c1.folders : Ancestors[g] \subseteq c1.folders
    <3> HIDE DEF c1
    <3> QED BY <2>1, <2>2, PathsAssumption DEF CatalogInv, Consistent, Catalogs
  <2> HIDE DEF c1
  <2> QED BY <2>1, <2>2, <2>3
             DEF StageOK, CatalogInv, Consistent, ClockMatches, ClockGrows, Catalogs
<1>2. StageOK(c1, c2, DOMAIN p.documents)
  <2>1. /\ CatalogInv(c1) /\ DOMAIN p.documents \subseteq Documents
        /\ \A d \in DOMAIN p.documents :
             p.documents[d].folder \in Paths /\ p.documents[d].body \in Bodies
    BY <1>1 DEF StageOK, IsPatch
  <2>2. c2 = WriteDocuments(c1, p.documents)
    BY DEF AfterWrite
  <2> HIDE DEF c1, c2
  <2> QED BY <2>1, <2>2, WriteDocumentsStage
<1>3. StageOK(c2, c3, DOMAIN p.moves)
  <2>1. /\ CatalogInv(c2) /\ DOMAIN p.moves \subseteq Documents
        /\ \A d \in DOMAIN p.moves : p.moves[d].folder \in Paths
        /\ MovesAccepted(c2, p.moves)
    BY <1>2 DEF StageOK, IsPatch, PatchAccepted
  <2>2. c3 = MoveDocuments(c2, p.moves)
    BY DEF AfterMove
  <2> HIDE DEF c2, c3
  <2> QED BY <2>1, <2>2, MoveDocumentsStage
<1>4. StageOK(c3, c4, {})
  <2>1. CatalogInv(c3) /\ p.deletes \subseteq Documents
    BY <1>3 DEF StageOK, IsPatch
  <2> HIDE DEF c3
  <2> QED BY <2>1, DeleteDocumentsStage DEF AfterDelete, c3
<1>5. StageOK(c4, c5, {})
  BY <1>4, WriteSettingsStage DEF AfterSettings, StageOK
<1>6. StageOK(c5, c6, {})
  BY <1>5, DeleteFoldersStage DEF ApplyPatch, StageOK, PatchAccepted
<1>7. \A d \in Documents : /\ cat.watermark[d] \in Nat /\ c1.watermark[d] \in Nat
                           /\ c2.watermark[d] \in Nat /\ c3.watermark[d] \in Nat
                           /\ c4.watermark[d] \in Nat /\ c5.watermark[d] \in Nat
                           /\ c6.watermark[d] \in Nat
  <2> HIDE DEF c1, c2, c3, c4, c5, c6
  <2> QED BY <1>1, <1>2, <1>3, <1>4, <1>5, <1>6 DEF StageOK, CatalogInv, Catalogs
<1>8. \A d \in Documents : /\ cat.watermark[d] <= c1.watermark[d]
                           /\ c1.watermark[d] <= c2.watermark[d]
                           /\ c2.watermark[d] <= c3.watermark[d]
                           /\ c3.watermark[d] <= c4.watermark[d]
                           /\ c4.watermark[d] <= c5.watermark[d]
                           /\ c5.watermark[d] <= c6.watermark[d]
  <2> HIDE DEF c1, c2, c3, c4, c5, c6
  <2> QED BY <1>1, <1>2, <1>3, <1>4, <1>5, <1>6 DEF StageOK, ClockGrows
<1>9. ClockGrows(cat, c6)
  <2> HIDE DEF c1, c2, c3, c4, c5, c6
  <2>1. ASSUME NEW d \in Documents PROVE cat.watermark[d] <= c6.watermark[d]
    BY <1>7, <1>8
  <2> QED BY <2>1 DEF ClockGrows
<1>10. ASSUME NEW d \in DOMAIN p.documents \union DOMAIN p.moves
       PROVE  c6.watermark[d] > cat.watermark[d]
  <2>1. d \in Documents
    BY DEF IsPatch
  <2>2. c2.watermark[d] > c1.watermark[d] \/ c3.watermark[d] > c2.watermark[d]
    BY <1>2, <1>3 DEF StageOK
  <2> HIDE DEF c1, c2, c3, c4, c5, c6
  <2> QED BY <2>1, <2>2, <1>7, <1>8
<1>11. \A d \in DOMAIN p.documents : p.documents[d].expected = cat.revision[d]
  BY <1>1 DEF PatchAccepted, DocumentsAccepted, IsPatch, CatalogInv, Consistent
<1>12. CatalogInv(c6)
  BY <1>6 DEF StageOK
<1> QED BY <1>9, <1>10, <1>11, <1>12

-----------------------------------------------------------------------------
(* The specification *)

\* No receipt is ahead of the retained clock of a document it names.
ReceiptsBelowClock ==
    \A o \in DOMAIN receipts : \A d \in DOMAIN receipts[o].documents :
        receipts[o].documents[d] <= catalog.watermark[d]

\* A value computing outside the lock was computed on its context's revision.
ComputingBasis == \A c \in computing : c.basis = c.context.revision

\* What the receipts say, which no action but a commit changes.
LogInv ==
    /\ OneReceiptPerRevision
    /\ CancelledNeverCommits
    /\ ReceiptsBelowClock
    /\ RevisionsNeverReused
    /\ WritesReplaceLatest
    /\ PublishedOnItsBasis

IInv == TypeOK /\ CatalogInv(catalog) /\ LogInv /\ ComputingBasis

LEMMA InitIInv == Init => IInv
<1> SUFFICES ASSUME Init PROVE IInv
  OBVIOUS
<1>1. CatalogInv(EmptyCatalog)
  BY PathsAssumption, BodiesAssumption
     DEF CatalogInv, EmptyCatalog, Catalogs, Consistent, ClockMatches
<1>2. DOMAIN receipts = {} /\ cancelled = {} /\ computing = {} /\ committedRevision = 0
  BY DEF Init, NoFunction
<1>3. TypeOK
  BY <1>1, <1>2 DEF Init, TypeOK, CatalogInv
<1>4. LogInv
  BY <1>2 DEF LogInv, OneReceiptPerRevision, CancelledNeverCommits, ReceiptsBelowClock,
              RevisionsNeverReused, WritesReplaceLatest, PublishedOnItsBasis
<1>5. ComputingBasis
  BY <1>2 DEF ComputingBasis
<1> QED BY <1>1, <1>3, <1>4, <1>5 DEF IInv, Init

\* A step that leaves the file alone leaves what the receipts say alone.
LEMMA LogUnchanged ==
    ASSUME LogInv, UNCHANGED <<committedRevision, catalog, receipts, cancelled>>
    PROVE  LogInv'
  BY DEF LogInv, OneReceiptPerRevision, CancelledNeverCommits, ReceiptsBelowClock,
         RevisionsNeverReused, WritesReplaceLatest, PublishedOnItsBasis, Advanced

\* The transaction, with a value computed on the present revision.
LEMMA WriteCommitStep ==
    ASSUME IInv, NEW ctx, IsContext(ctx), NEW req \in Requests,
           Outcome(ctx, req) = "committed",
           WriteCommit(ctx, req, committedRevision)
    PROVE  /\ CatalogInv(catalog') /\ LogInv'
           /\ epoch' \in Nat /\ committedRevision' \in Nat
           /\ generations' \in [Datasets -> Nat]
           /\ DOMAIN receipts' \subseteq Operations
           /\ \A o \in DOMAIN receipts' :
                /\ receipts'[o].digest.request \in Requests
                /\ receipts'[o].revision \in Nat
                /\ receipts'[o].basis \in Nat
                /\ IsExpectation(receipts'[o].documents, Documents)
           /\ cancelled' \subseteq Operations
<1> DEFINE after == ApplyPatch(catalog, req.patch)
           new   == Receipt(ctx, req, committedRevision)
           op    == ctx.op
<1>1. /\ op \in Operations /\ op \notin DOMAIN receipts /\ op \notin cancelled
      /\ PatchAccepted(catalog, req.patch)
  BY DEF IsContext, Outcome, OperationState
<1>2. IsPatch(req.patch) /\ CatalogInv(catalog)
  BY RequestsAssumption DEF IInv
<1>3. /\ CatalogInv(after)
      /\ ClockGrows(catalog, after)
      /\ \A d \in DOMAIN req.patch.documents \union DOMAIN req.patch.moves :
           after.watermark[d] > catalog.watermark[d]
      /\ \A d \in DOMAIN req.patch.documents :
           req.patch.documents[d].expected = catalog.revision[d]
  BY <1>1, <1>2, ApplyPatchStages
<1>4. /\ catalog' = after /\ committedRevision' = committedRevision + 1
      /\ DOMAIN receipts' = DOMAIN receipts \union {op}
      /\ receipts'[op] = new
      /\ \A o \in DOMAIN receipts : receipts'[o] = receipts[o]
      /\ cancelled' = cancelled /\ epoch' = epoch
  BY <1>1 DEF WriteCommit
<1>5. /\ new.digest.request = req
      /\ new.revision = committedRevision + 1
      /\ new.basis = committedRevision
      /\ DOMAIN new.documents \subseteq Documents
      /\ \A d \in DOMAIN new.documents :
           new.documents[d] = after.revision[d] /\ after.revision[d] # 0
  BY <1>2 DEF Receipt, Digest, PatchDocuments, IsContext, IsExpectation, IsPatch
<1>6. \A d \in DOMAIN new.documents : /\ new.documents[d] \in Nat
                                      /\ new.documents[d] = after.watermark[d]
  <2> HIDE DEF after, new
  <2> QED BY <1>3, <1>5 DEF CatalogInv, ClockMatches, Catalogs
<1>7. /\ committedRevision \in Nat /\ epoch \in Nat
      /\ \A d \in Documents : catalog.watermark[d] \in Nat /\ after.watermark[d] \in Nat
      /\ \A d \in Documents : catalog.watermark[d] <= after.watermark[d]
  <2> HIDE DEF after
  <2> QED BY <1>2, <1>3 DEF IInv, TypeOK, CatalogInv, Catalogs, ClockGrows
<1>8. \A o \in DOMAIN receipts :
        /\ receipts[o].digest.request \in Requests
        /\ receipts[o].revision \in 1..committedRevision
        /\ receipts[o].basis \in Nat
        /\ DOMAIN receipts[o].documents \subseteq Documents
        /\ \A d \in DOMAIN receipts[o].documents :
             /\ receipts[o].documents[d] \in Nat
             /\ receipts[o].documents[d] <= catalog.watermark[d]
  BY DEF IInv, TypeOK, LogInv, OneReceiptPerRevision, ReceiptsBelowClock, IsExpectation
<1> HIDE DEF after, new, op
<1>9. OneReceiptPerRevision'
  <2>1. \A o \in DOMAIN receipts' : receipts'[o].revision \in 1..committedRevision'
    BY <1>4, <1>5, <1>7, <1>8
  <2>2. ASSUME NEW n \in 1..committedRevision'
        PROVE  \E o \in DOMAIN receipts' : receipts'[o].revision = n
    <3>1. CASE n = committedRevision + 1
      BY <3>1, <1>4, <1>5
    <3>2. CASE n \in 1..committedRevision
      <4>1. PICK o \in DOMAIN receipts : receipts[o].revision = n
        BY <3>2 DEF IInv, LogInv, OneReceiptPerRevision
      <4> QED BY <4>1, <1>4
    <3> QED BY <3>1, <3>2, <1>4, <1>7
  <2>3. \A o, p \in DOMAIN receipts' : receipts'[o].revision = receipts'[p].revision => o = p
    <3>1. \A o \in DOMAIN receipts : receipts[o].revision # committedRevision + 1
      BY <1>7, <1>8
    <3>2. \A o, p \in DOMAIN receipts : receipts[o].revision = receipts[p].revision => o = p
      BY DEF IInv, LogInv, OneReceiptPerRevision
    <3> QED BY <3>1, <3>2, <1>4, <1>5
  <2> QED BY <2>1, <2>2, <2>3 DEF OneReceiptPerRevision
<1>10. CancelledNeverCommits'
  BY <1>1, <1>4 DEF IInv, LogInv, CancelledNeverCommits
<1>11. ReceiptsBelowClock'
  <2> SUFFICES ASSUME NEW o \in DOMAIN receipts', NEW d \in DOMAIN receipts'[o].documents
               PROVE  receipts'[o].documents[d] <= after.watermark[d]
    BY <1>4 DEF ReceiptsBelowClock
  <2>1. CASE o = op
    BY <2>1, <1>4, <1>5, <1>6, <1>7
  <2>2. CASE o \in DOMAIN receipts
    BY <2>2, <1>4, <1>7, <1>8
  <2> QED BY <2>1, <2>2, <1>4
<1>12. \A o \in DOMAIN receipts : Advanced(o)' = Advanced(o)
  BY <1>4 DEF Advanced
<1>13. /\ Advanced(op)' \subseteq DOMAIN new.documents
       /\ Advanced(op)' \subseteq DOMAIN req.patch.documents \union DOMAIN req.patch.moves
  BY <1>4, <1>5 DEF Advanced
<1>14. \A o \in DOMAIN receipts : \A d \in Advanced(o) :
         /\ d \in DOMAIN receipts[o].documents
         /\ d \in Documents
  BY <1>8 DEF Advanced
<1>15. RevisionsNeverReused'
  <2>1. ASSUME NEW o \in DOMAIN receipts, NEW d \in Advanced(o) \intersect Advanced(op)'
        PROVE  receipts[o].documents[d] < new.documents[d]
    <3>1. receipts[o].documents[d] \in Nat /\ receipts[o].documents[d] <= catalog.watermark[d]
      BY <1>8, <1>14
    <3>2. new.documents[d] = after.watermark[d] /\ after.watermark[d] > catalog.watermark[d]
      BY <1>3, <1>6, <1>13
    <3> QED BY <3>1, <3>2, <1>7, <1>14
  <2>2. ASSUME NEW o \in DOMAIN receipts', NEW p \in DOMAIN receipts',
               NEW d \in Advanced(o)' \intersect Advanced(p)',
               receipts'[o].documents[d] = receipts'[p].documents[d]
        PROVE  o = p
    <3>1. CASE o = op /\ p = op
      BY <3>1
    <3>2. CASE o = op /\ p \in DOMAIN receipts
      <4>1. receipts[p].documents[d] < new.documents[d]
        BY <3>2, <2>1, <1>12
      <4>2. receipts[p].documents[d] = new.documents[d]
        BY <2>2, <3>2, <1>4
      <4>3. receipts[p].documents[d] \in Nat
        BY <3>2, <1>8, <1>12, <1>14
      <4> QED BY <4>1, <4>2, <4>3
    <3>3. CASE o \in DOMAIN receipts /\ p = op
      <4>1. receipts[o].documents[d] < new.documents[d]
        BY <3>3, <2>1, <1>12
      <4>2. receipts[o].documents[d] = new.documents[d]
        BY <2>2, <3>3, <1>4
      <4>3. receipts[o].documents[d] \in Nat
        BY <3>3, <1>8, <1>12, <1>14
      <4> QED BY <4>1, <4>2, <4>3
    <3>4. CASE o \in DOMAIN receipts /\ p \in DOMAIN receipts
      BY <2>2, <3>4, <1>4, <1>12 DEF IInv, LogInv, RevisionsNeverReused
    <3> QED BY <3>1, <3>2, <3>3, <3>4, <1>4
  <2> QED BY <2>2 DEF RevisionsNeverReused
<1>16. WritesReplaceLatest'
  <2> SUFFICES ASSUME NEW o \in DOMAIN receipts',
                      NEW d \in DOMAIN receipts'[o].digest.request.patch.documents,
                      receipts'[o].digest.request.patch.documents[d].expected # 0,
                      NEW p \in DOMAIN receipts',
                      receipts'[p].revision < receipts'[o].revision, d \in Advanced(p)'
               PROVE  receipts'[p].documents[d] <=
                        receipts'[o].digest.request.patch.documents[d].expected
    BY DEF WritesReplaceLatest
  <2>1. CASE o = op /\ p = op
    BY <2>1, <1>4, <1>5, <1>7
  <2>2. CASE o = op /\ p \in DOMAIN receipts
    <3>1. /\ d \in DOMAIN req.patch.documents
          /\ req.patch.documents[d].expected = catalog.revision[d]
          /\ catalog.revision[d] # 0
      BY <2>2, <1>3, <1>4, <1>5
    <3>2. catalog.revision[d] = catalog.watermark[d]
      BY <3>1, <1>2 DEF CatalogInv, ClockMatches, IsPatch
    <3> QED BY <2>2, <3>1, <3>2, <1>4, <1>5, <1>8, <1>12, <1>14
  <2>3. CASE o \in DOMAIN receipts /\ p = op
    BY <2>3, <1>4, <1>5, <1>7, <1>8
  <2>4. CASE o \in DOMAIN receipts /\ p \in DOMAIN receipts
    BY <2>4, <1>4, <1>12 DEF IInv, LogInv, WritesReplaceLatest
  <2> QED BY <2>1, <2>2, <2>3, <2>4, <1>4
<1>17. PublishedOnItsBasis'
  BY <1>4, <1>5 DEF IInv, LogInv, PublishedOnItsBasis
<1>18. \A o \in DOMAIN receipts' :
         /\ receipts'[o].digest.request \in Requests
         /\ receipts'[o].revision \in Nat
         /\ receipts'[o].basis \in Nat
         /\ IsExpectation(receipts'[o].documents, Documents)
  BY <1>4, <1>5, <1>6, <1>7, <1>8 DEF IsExpectation
<1>19. generations' \in [Datasets -> Nat]
  BY DEF WriteCommit, IInv, TypeOK
<1>20. DOMAIN receipts' \subseteq Operations /\ cancelled' \subseteq Operations
  BY <1>1, <1>4 DEF IInv, TypeOK
<1>21. LogInv'
  BY <1>9, <1>10, <1>11, <1>15, <1>16, <1>17 DEF LogInv
<1>22. CatalogInv(catalog')
  BY <1>3, <1>4
<1>23. committedRevision' \in Nat /\ epoch' \in Nat
  BY <1>4, <1>7
<1> QED BY <1>18, <1>19, <1>20, <1>21, <1>22, <1>23

\* The contexts clients hold are well formed.
LEMMA HeldContextsType ==
    ASSUME TypeOK, NEW req \in Requests, NEW ctx \in HeldContexts(req)
    PROVE  IsContext(ctx)
<1>1. /\ PatchDocuments(req.patch) \subseteq Documents
      /\ req.datasets \subseteq Datasets
      /\ committedRevision \in Nat
  BY RequestsAssumption DEF PatchDocuments, IsPatch, TypeOK
<1>2. /\ ctx.op \in Operations /\ ctx.epoch \in 1..MaxEpoch /\ ctx.revision \in 0..committedRevision
      /\ ctx.documents \in UNION {[D -> 1..committedRevision] : D \in {{}, PatchDocuments(req.patch)}}
      /\ ctx.datasets \in [req.datasets -> 0..committedRevision]
  BY DEF HeldContexts
<1>3. PICK D \in {{}, PatchDocuments(req.patch)} : ctx.documents \in [D -> 1..committedRevision]
  BY <1>2
<1>4. IsExpectation(ctx.documents, Documents)
  BY <1>1, <1>3 DEF IsExpectation
<1>5. IsExpectation(ctx.datasets, Datasets)
  BY <1>1, <1>2 DEF IsExpectation
<1> QED BY <1>1, <1>2, <1>4, <1>5, BoundsAssumption DEF IsContext

\* Every step preserves the inductive invariant.
LEMMA NextIInv == IInv /\ [Next]_vars => IInv'
<1> SUFFICES ASSUME IInv, [Next]_vars PROVE IInv'
  OBVIOUS
<1>0. /\ TypeOK /\ CatalogInv(catalog) /\ LogInv /\ ComputingBasis
  BY DEF IInv
<1>1. ASSUME NEW req \in Requests, NEW ctx \in HeldContexts(req), Commit(ctx, req) PROVE IInv'
  <2>1. IsContext(ctx)
    BY <1>0, HeldContextsType
  <2>2. /\ Outcome(ctx, req) = "committed" /\ WriteCommit(ctx, req, committedRevision)
        /\ computing' = computing
    BY <1>1 DEF Commit
  <2>3. /\ CatalogInv(catalog') /\ LogInv'
        /\ epoch' \in Nat /\ committedRevision' \in Nat
        /\ generations' \in [Datasets -> Nat]
        /\ DOMAIN receipts' \subseteq Operations
        /\ \A o \in DOMAIN receipts' :
             /\ receipts'[o].digest.request \in Requests
             /\ receipts'[o].revision \in Nat
             /\ receipts'[o].basis \in Nat
             /\ IsExpectation(receipts'[o].documents, Documents)
        /\ cancelled' \subseteq Operations
    BY <2>1, <2>2, WriteCommitStep
  <2>4. TypeOK'
    BY <1>0, <2>2, <2>3 DEF TypeOK, CatalogInv
  <2> QED BY <1>0, <2>2, <2>3, <2>4 DEF IInv, ComputingBasis
<1>2. ASSUME NEW req \in Requests, NEW ctx \in HeldContexts(req), Preflight(ctx, req) PROVE IInv'
  <2>1. IsContext(ctx)
    BY <1>0, HeldContextsType
  <2>2. LogInv'
    BY <1>0, <1>2, LogUnchanged DEF Preflight
  <2>3. ctx.revision = committedRevision /\ committedRevision \in Nat
    BY <1>0, <1>2 DEF Preflight, ContextIsCurrent, TypeOK
  <2>4. computing' = computing \union
                       {[context |-> ctx, request |-> req, basis |-> committedRevision]}
    BY <1>2 DEF Preflight
  <2>5. \A c \in computing' : /\ IsContext(c.context) /\ c.request \in Requests
                              /\ c.basis \in Nat /\ c.basis = c.context.revision
    BY <1>0, <2>1, <2>3, <2>4 DEF TypeOK, ComputingBasis
  <2>6. TypeOK' /\ CatalogInv(catalog)'
    BY <1>0, <1>2, <2>5 DEF TypeOK, Preflight
  <2> QED BY <2>2, <2>5, <2>6 DEF IInv, ComputingBasis
<1>3. ASSUME NEW c \in computing, Publish(c) PROVE IInv'
  <2>1. /\ IsContext(c.context) /\ c.request \in Requests /\ c.basis = c.context.revision
        /\ \A e \in computing' : e \in computing
    BY <1>0, <1>3 DEF TypeOK, ComputingBasis, Publish
  <2>2. CASE /\ Outcome(c.context, c.request) = "committed"
             /\ WriteCommit(c.context, c.request, c.basis)
    <3>1. c.basis = committedRevision
      <4>1. ContextIsCurrent(c.context)
        BY <2>2 DEF Outcome, OperationState
      <4> QED BY <2>1, <4>1 DEF ContextIsCurrent
    <3>2. /\ CatalogInv(catalog') /\ LogInv'
          /\ epoch' \in Nat /\ committedRevision' \in Nat
          /\ generations' \in [Datasets -> Nat]
          /\ DOMAIN receipts' \subseteq Operations
          /\ \A o \in DOMAIN receipts' :
               /\ receipts'[o].digest.request \in Requests
               /\ receipts'[o].revision \in Nat
               /\ receipts'[o].basis \in Nat
               /\ IsExpectation(receipts'[o].documents, Documents)
          /\ cancelled' \subseteq Operations
      BY <2>1, <2>2, <3>1, WriteCommitStep
    <3>3. TypeOK'
      BY <1>0, <2>1, <3>2 DEF TypeOK, CatalogInv
    <3> QED BY <1>0, <2>1, <3>2, <3>3 DEF IInv, ComputingBasis
  <2>3. CASE UNCHANGED <<epoch, committedRevision, catalog, generations, receipts, cancelled>>
    <3>1. LogInv'
      BY <1>0, <2>3, LogUnchanged
    <3>2. TypeOK' /\ CatalogInv(catalog)'
      BY <1>0, <2>1, <2>3 DEF TypeOK
    <3> QED BY <1>0, <2>1, <3>1, <3>2 DEF IInv, ComputingBasis
  <2> QED BY <1>3, <2>2, <2>3 DEF Publish
<1>4. ASSUME NEW req \in Requests, NEW ctx \in HeldContexts(req), ResolveOperation(ctx) PROVE IInv'
  <2>1. IsContext(ctx)
    BY <1>0, HeldContextsType
  <2>2. /\ ctx.op \notin DOMAIN receipts /\ cancelled' = cancelled \union {ctx.op}
        /\ UNCHANGED <<epoch, committedRevision, catalog, generations, receipts, computing>>
    BY <1>4 DEF ResolveOperation
  <2>3. CancelledNeverCommits'
    BY <1>0, <2>2 DEF LogInv, CancelledNeverCommits
  <2>4. LogInv'
    BY <1>0, <2>2, <2>3 DEF LogInv, OneReceiptPerRevision, ReceiptsBelowClock,
         RevisionsNeverReused, WritesReplaceLatest, PublishedOnItsBasis, Advanced
  <2>5. TypeOK' /\ CatalogInv(catalog)' /\ ComputingBasis'
    BY <1>0, <2>1, <2>2 DEF TypeOK, IsContext, ComputingBasis
  <2> QED BY <2>4, <2>5 DEF IInv
<1>5. CASE Reopen
  <2>1. LogInv'
    BY <1>0, <1>5, LogUnchanged DEF Reopen
  <2> QED BY <1>0, <1>5, <2>1 DEF IInv, TypeOK, ComputingBasis, Reopen
<1>6. CASE Crash
  <2>1. LogInv'
    BY <1>0, <1>6, LogUnchanged DEF Crash
  <2> QED BY <1>0, <1>6, <2>1 DEF IInv, TypeOK, ComputingBasis, Crash
<1>7. CASE UNCHANGED vars
  <2>1. LogInv'
    BY <1>0, <1>7, LogUnchanged DEF vars
  <2> QED BY <1>0, <1>7, <2>1 DEF IInv, TypeOK, ComputingBasis, vars
<1> QED BY <1>1, <1>2, <1>3, <1>4, <1>5, <1>6, <1>7 DEF Next, ClientStep

\* The inductive invariant holds of every behaviour of the transaction layer.
THEOREM InductiveInvariant == Spec => []IInv
  BY InitIInv, NextIInv, PTL DEF Spec

\* Type correctness: whatever contexts arrive, the file and the commands that
\* compute outside the lock keep their types.
THEOREM TypeCorrectness == Spec => []TypeOK
<1>1. IInv => TypeOK
  BY DEF IInv
<1> QED BY <1>1, InductiveInvariant, PTL

\* Advance the project revision once per committed operation: every revision
\* of the file belongs to exactly one receipt.
THEOREM RevisionPerOperation == Spec => []OneReceiptPerRevision
<1>1. IInv => OneReceiptPerRevision
  BY DEF IInv, LogInv
<1> QED BY <1>1, InductiveInvariant, PTL

\* An operation answered "cancelled" by resolve_operation never commits.
THEOREM CancellationFences == Spec => []CancelledNeverCommits
<1>1. IInv => CancelledNeverCommits
  BY DEF IInv, LogInv
<1> QED BY <1>1, InductiveInvariant, PTL

\* A document revision names one version forever (advance_document_revision).
THEOREM RevisionUniqueness == Spec => []RevisionsNeverReused
<1>1. IInv => RevisionsNeverReused
  BY DEF IInv, LogInv
<1> QED BY <1>1, InductiveInvariant, PTL

\* No accepted write discards a version its client had not named.
THEOREM NoLostUpdate == Spec => []WritesReplaceLatest
<1>1. IInv => WritesReplaceLatest
  BY DEF IInv, LogInv
<1> QED BY <1>1, InductiveInvariant, PTL

\* A value computed after preflight_commit, outside the lock, is only
\* published over the revision it was computed from.
THEOREM PublicationBasis == Spec => []PublishedOnItsBasis
<1>1. IInv => PublishedOnItsBasis
  BY DEF IInv, LogInv
<1> QED BY <1>1, InductiveInvariant, PTL

\* Every committed catalog passes validate_metadata's checks of the catalog.
THEOREM CatalogOpens == Spec => []CommittedCatalogOpens
<1>1. IInv => CommittedCatalogOpens
  BY DEF IInv, CatalogInv, CommittedCatalogOpens
<1> QED BY <1>1, InductiveInvariant, PTL

\* No step changes or removes a receipt, so every retry of an operation is
\* answered with the same commit.
THEOREM ReceiptFinality == Spec => ReceiptsAreFinal
<1>1. ASSUME NEW ctx, NEW req, NEW b, Outcome(ctx, req) = "committed", WriteCommit(ctx, req, b)
      PROVE  \A o \in DOMAIN receipts : o \in DOMAIN receipts' /\ receipts'[o] = receipts[o]
  <2>1. ctx.op \notin DOMAIN receipts
    BY <1>1 DEF Outcome, OperationState
  <2> QED BY <1>1, <2>1 DEF WriteCommit
<1>2. Next => \A o \in DOMAIN receipts : o \in DOMAIN receipts' /\ receipts'[o] = receipts[o]
  <2> SUFFICES ASSUME Next
               PROVE  \A o \in DOMAIN receipts : o \in DOMAIN receipts' /\ receipts'[o] = receipts[o]
    OBVIOUS
  <2>1. ASSUME NEW req \in Requests, NEW ctx \in HeldContexts(req), Commit(ctx, req)
        PROVE  \A o \in DOMAIN receipts : o \in DOMAIN receipts' /\ receipts'[o] = receipts[o]
    BY <1>1, <2>1 DEF Commit
  <2>2. ASSUME NEW req \in Requests, NEW ctx \in HeldContexts(req),
               Preflight(ctx, req) \/ ResolveOperation(ctx)
        PROVE  receipts' = receipts
    BY <2>2 DEF Preflight, ResolveOperation
  <2>3. ASSUME NEW c \in computing, Publish(c)
        PROVE  \A o \in DOMAIN receipts : o \in DOMAIN receipts' /\ receipts'[o] = receipts[o]
    BY <1>1, <2>3 DEF Publish
  <2>4. Reopen \/ Crash => receipts' = receipts
    BY DEF Reopen, Crash
  <2> QED BY <2>1, <2>2, <2>3, <2>4 DEF Next, ClientStep
<1>3. [Next]_vars => [\A o \in DOMAIN receipts : o \in DOMAIN receipts' /\ receipts'[o] = receipts[o]]_vars
  BY <1>2
<1> QED BY <1>3, PTL DEF Spec, ReceiptsAreFinal
=============================================================================
