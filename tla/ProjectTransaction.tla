-------------------------- MODULE ProjectTransaction --------------------------
(***************************************************************************)
(* The transaction layer of a native project file                          *)
(* (services/project_transaction.rs): commits with an optimistic context,  *)
(* receipts that make a repeated operation id idempotent, cancellations    *)
(* that fence an operation id for good, preflight for expensive commands,  *)
(* and reopening.  The clients are unconstrained here: any context may     *)
(* arrive at any time, repeatedly and late.  Autosave puts the frontend's  *)
(* coordinator in their place.                                             *)
(*                                                                         *)
(* with_engine holds the writer's mutex for a whole commit or resolution,  *)
(* and DuckDB (external) makes its transaction atomic and durable, so each *)
(* is one step.  An outcome that writes nothing (an error, or a replay of  *)
(* a receipt) is no step; Outcome gives the answer.                        *)
(*                                                                         *)
(* committedRevision, catalog, generations, receipts and cancelled are the *)
(* file; epoch and computing are the process.                              *)
(***************************************************************************)
EXTENDS ProjectCatalog, FiniteSets

CONSTANTS
    Operations,   \* operation ids
    Datasets,     \* tables
    Requests,     \* request payloads the clients use
    MaxRevision,  \* bound on committed_revision; checked_add refuses more
    MaxEpoch,     \* bound on the number of openings; checked_add refuses more
    MaxComputing  \* bound on the commands computing at the same time

ASSUME BoundsAssumption ==
    MaxRevision \in Nat /\ MaxEpoch \in Nat \ {0} /\ MaxComputing \in Nat
\* A request is a record patch and the tables whose rows its callback changes.
ASSUME RequestsAssumption ==
    \A r \in Requests : IsPatch(r.patch) /\ r.datasets \subseteq Datasets

VARIABLES
    epoch,              \* ProjectDatabase.epoch of the live database
    committedRevision,  \* _project_header.committed_revision
    catalog,            \* the catalog tables
    generations,        \* _meta_datasets.generation
    receipts,           \* _project_commit_receipts, by operation id
    cancelled,          \* _project_cancelled_operations
    computing           \* preflighted commands computing outside the lock

vars == <<epoch, committedRevision, catalog, generations, receipts, cancelled, computing>>

\* A partial map from S to revisions or generations.
IsExpectation(f, S) == DOMAIN f \subseteq S /\ \A x \in DOMAIN f : f[x] \in Nat

\* ProjectWriteContext, without the project id: one file has one.
IsContext(ctx) ==
    /\ ctx.op \in Operations
    /\ ctx.epoch \in Nat
    /\ ctx.revision \in Nat
    /\ IsExpectation(ctx.documents, Documents)
    /\ IsExpectation(ctx.datasets, Datasets)

\* fingerprint: the canonical request and the context's expectations.  The
\* operation id and the epoch are not part of it.  SHA-256 (external) is
\* taken to be injective.
Digest(ctx, req) ==
    [revision |-> ctx.revision, documents |-> ctx.documents,
     datasets |-> ctx.datasets, request |-> req]

Init ==
    /\ epoch = 1
    /\ committedRevision = 0
    /\ catalog = EmptyCatalog
    /\ generations = [s \in Datasets |-> 0]
    /\ receipts = NoFunction
    /\ cancelled = {}
    /\ computing = {}

-----------------------------------------------------------------------------
(* Decisions *)

\* Mutant of ContextIsCurrent: the project-wide revision is not compared.
ContextIgnoresRevision(ctx) ==
    /\ \A s \in DOMAIN ctx.datasets : ctx.datasets[s] = generations[s]
    /\ \A d \in DOMAIN ctx.documents :
         catalog.revision[d] # 0 /\ ctx.documents[d] = catalog.revision[d]

\* validate_current_context
ContextIsCurrent(ctx) ==
    /\ ctx.revision = committedRevision
    /\ \A s \in DOMAIN ctx.datasets : ctx.datasets[s] = generations[s]
    /\ \A d \in DOMAIN ctx.documents :
         catalog.revision[d] # 0 /\ ctx.documents[d] = catalog.revision[d]

\* Mutant of OperationState: cancellations are not looked up.
OperationStateIgnoresCancelled(ctx, req) ==
    IF ctx.op \in DOMAIN receipts
    THEN IF receipts[ctx.op].digest = Digest(ctx, req) THEN "replayed" ELSE "reused"
    ELSE "new"

\* What read_operation_state makes of the operation id.
OperationState(ctx, req) ==
    IF ctx.op \in DOMAIN receipts
    THEN IF receipts[ctx.op].digest = Digest(ctx, req) THEN "replayed" ELSE "reused"
    ELSE IF ctx.op \in cancelled THEN "cancelled" ELSE "new"

\* The answer of commit_with_effects: an error, the replay of a receipt, or
\* "committed", in which case Commit changes the file.
Outcome(ctx, req) ==
    IF ctx.epoch # epoch THEN "epochStale"
    ELSE IF OperationState(ctx, req) # "new" THEN OperationState(ctx, req)
    ELSE IF ~ContextIsCurrent(ctx) THEN "stale"
    ELSE IF ~PatchAccepted(catalog, req.patch) THEN "refused"
    ELSE IF committedRevision >= MaxRevision THEN "exhausted"
    ELSE "committed"

\* The receipt, and the ProjectCommit it stores: the documents and tables of
\* the context and of the request as the transaction leaves them.  basis is a
\* history field: the revision the value was computed on.
Receipt(ctx, req, basis) ==
    LET after   == ApplyPatch(catalog, req.patch)
        touched == DOMAIN ctx.documents \union PatchDocuments(req.patch)
    IN  [digest    |-> Digest(ctx, req),
         revision  |-> committedRevision + 1,
         documents |-> [d \in {d \in touched : after.revision[d] # 0} |-> after.revision[d]],
         deleted   |-> {d \in touched : after.revision[d] = 0},
         datasets  |-> [s \in DOMAIN ctx.datasets \union req.datasets |->
                          IF s \in req.datasets THEN generations[s] + 1 ELSE generations[s]],
         basis     |-> basis]

-----------------------------------------------------------------------------
(* Operations *)

\* The body of the transaction, from the callback to COMMIT.
WriteCommit(ctx, req, basis) ==
    /\ committedRevision' = committedRevision + 1
    /\ catalog' = ApplyPatch(catalog, req.patch)
    /\ generations' = [s \in Datasets |->
                         IF s \in req.datasets THEN generations[s] + 1 ELSE generations[s]]
    /\ receipts' = [o \in DOMAIN receipts \union {ctx.op} |->
                      IF o = ctx.op THEN Receipt(ctx, req, basis) ELSE receipts[o]]
    /\ UNCHANGED <<epoch, cancelled>>

\* commit_with_effects with a callback that computes inside the transaction.
Commit(ctx, req) ==
    /\ Outcome(ctx, req) = "committed"
    /\ WriteCommit(ctx, req, committedRevision)
    /\ UNCHANGED computing

\* preflight_commit: an import or a workflow run checks its context, and goes
\* on to compute outside the lock.  Nothing is reserved.
Preflight(ctx, req) ==
    /\ Cardinality(computing) < MaxComputing
    /\ ctx.epoch = epoch
    /\ OperationState(ctx, req) = "new"
    /\ ContextIsCurrent(ctx)
    /\ computing' = computing \union
                      {[context |-> ctx, request |-> req, basis |-> committedRevision]}
    /\ UNCHANGED <<epoch, committedRevision, catalog, generations, receipts, cancelled>>

\* commit_with_effects with a value computed since the preflight.  It commits,
\* or is answered with an error or a receipt and dropped.
Publish(c) ==
    /\ computing' = computing \ {c}
    /\ \/ /\ Outcome(c.context, c.request) = "committed"
          /\ WriteCommit(c.context, c.request, c.basis)
       \/ /\ Outcome(c.context, c.request) # "committed"
          /\ UNCHANGED <<epoch, committedRevision, catalog, generations, receipts, cancelled>>

\* resolve_operation: an operation without a receipt is cancelled, durably; one
\* with a receipt is answered with its commit and nothing changes.
ResolveOperation(ctx) ==
    /\ ctx.epoch = epoch
    /\ ctx.op \notin DOMAIN receipts
    /\ cancelled' = cancelled \union {ctx.op}
    /\ UNCHANGED <<epoch, committedRevision, catalog, generations, receipts, computing>>

\* The file is closed and opened again.  Commands that were computing keep the
\* closed database and its epoch.
Reopen ==
    /\ epoch < MaxEpoch
    /\ epoch' = epoch + 1
    /\ UNCHANGED <<committedRevision, catalog, generations, receipts, cancelled, computing>>

\* The process dies and a new one opens the file; DuckDB keeps exactly the
\* committed transactions.  Epochs start again.
Crash ==
    /\ epoch' = 1
    /\ computing' = {}
    /\ UNCHANGED <<committedRevision, catalog, generations, receipts, cancelled>>

\* The contexts clients can hold for a request: a revision, the generations of
\* its tables and, unless they are left out, the revisions of its documents,
\* each read from some earlier or the present state of the file.
HeldContexts(req) ==
    [op : Operations, epoch : 1..MaxEpoch, revision : 0..committedRevision,
     documents : UNION {[D -> 1..committedRevision] : D \in {{}, PatchDocuments(req.patch)}},
     datasets : [req.datasets -> 0..committedRevision]]

ClientStep(ctx, req) ==
    \/ Commit(ctx, req)
    \/ Preflight(ctx, req)
    \/ ResolveOperation(ctx)

Next ==
    \/ \E req \in Requests : \E ctx \in HeldContexts(req) : ClientStep(ctx, req)
    \/ \E c \in computing : Publish(c)
    \/ Reopen
    \/ Crash

Spec == Init /\ [][Next]_vars

-----------------------------------------------------------------------------
(* Properties *)

TypeOK ==
    /\ epoch \in Nat
    /\ committedRevision \in Nat
    /\ catalog \in Catalogs
    /\ generations \in [Datasets -> Nat]
    /\ DOMAIN receipts \subseteq Operations
    /\ \A o \in DOMAIN receipts :
         /\ receipts[o].digest.request \in Requests
         /\ receipts[o].revision \in Nat
         /\ receipts[o].basis \in Nat
         /\ IsExpectation(receipts[o].documents, Documents)
    /\ cancelled \subseteq Operations
    /\ \A c \in computing : /\ IsContext(c.context)
                            /\ c.request \in Requests
                            /\ c.basis \in Nat

\* commit_with_effects: "Advance the project revision once per committed
\* operation."  Each revision after the first belongs to exactly one receipt.
OneReceiptPerRevision ==
    /\ {receipts[o].revision : o \in DOMAIN receipts} = 1..committedRevision
    /\ \A o, p \in DOMAIN receipts : receipts[o].revision = receipts[p].revision => o = p

\* resolve_operation against commit: an operation that was answered
\* "cancelled" has not committed and never will, however late its commit
\* request arrives and whatever crash or reopening lies between.
CancelledNeverCommits == cancelled \intersect DOMAIN receipts = {}

\* A receipt, once written, is what every retry of the operation is answered
\* with: nothing removes or changes it.
ReceiptsAreFinal ==
    [][\A o \in DOMAIN receipts : o \in DOMAIN receipts' /\ receipts'[o] = receipts[o]]_vars

\* Documents an operation gave a new revision to.
Advanced(o) ==
    LET patch == receipts[o].digest.request.patch
    IN  (DOMAIN patch.documents \union DOMAIN patch.moves)
          \intersect DOMAIN receipts[o].documents

\* advance_document_revision's retained clock: a revision names one version of
\* a document forever, also across deleting and recreating it, so that a
\* client's cached revision can never match contents it did not read.
RevisionsNeverReused ==
    \A o, p \in DOMAIN receipts : \A d \in Advanced(o) \intersect Advanced(p) :
        receipts[o].documents[d] = receipts[p].documents[d] => o = p

\* apply_patch's expected revision: a body is only ever replaced by a client
\* that named the document's latest revision, so no accepted write silently
\* discards another one.
WritesReplaceLatest ==
    \A o \in DOMAIN receipts :
      LET patch == receipts[o].digest.request.patch
      IN  \A d \in DOMAIN patch.documents : patch.documents[d].expected # 0 =>
            \A p \in DOMAIN receipts :
              /\ receipts[p].revision < receipts[o].revision
              /\ d \in Advanced(p)
              => receipts[p].documents[d] <= patch.documents[d].expected

\* preflight_commit "reserves nothing; publication must still revalidate the
\* same context": a value computed outside the lock is only published over
\* the state it was computed from.
PublishedOnItsBasis ==
    \A o \in DOMAIN receipts : receipts[o].revision = receipts[o].basis + 1

\* Every committed catalog passes the checks a later open makes
\* (validate_metadata), so no commit makes a project impossible to open.
CommittedCatalogOpens == Consistent(catalog)
=============================================================================
