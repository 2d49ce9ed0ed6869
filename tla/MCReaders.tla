------------------------------ MODULE MCReaders ------------------------------
(* What the backend keeps for the reader of tables and graphs: cross tables  *)
(* (TabulateSessions), windows of sorted and filtered tables                 *)
(* (TableNavigation), frames of graphs (GraphRender), the memory and the     *)
(* files they are cached in (GraphCache) and the owners of these files       *)
(* (GraphCacheOwner).  Each is driven by its own locks and threads; a        *)
(* behaviour is one of the component that is chosen at the start, the others *)
(* standing still.                                                           *)
EXTENDS GraphCacheOwner, TLC

CONSTANTS c1, c2,      \* callers, command threads
          a, b,        \* transport sessions
          k1, k2, k3   \* graphs

VARIABLES component,
          \* TabulateSessions
          generation, entry, signature, worker, call, created, stray, measured,
          closed, gate, preparation, todo, queries,
          \* TableNavigation
          version, window, index, jobs, caller, opened, misdirected, displayed,
          engine, shut, cancelling, calls,
          \* GraphRender
          owner, suspended, epoch, db, data, holder, entries, disk, pinned,
          cacheEpoch, job, mgr, sent, cancelled,
          \* GraphCache
          used, cache, build, solo

tabulateVars == <<generation, entry, signature, worker, call, created, stray,
                  measured, closed, gate, preparation, todo, queries>>
navigationVars == <<version, window, index, jobs, caller, opened, misdirected,
                    displayed, engine, shut, cancelling, calls>>
renderVars == <<owner, suspended, epoch, db, data, holder, entries, disk, pinned,
                cacheEpoch, job, mgr, sent, cancelled>>
cacheVars == <<used, cache, build, solo>>
readersVars == <<component, vars, tabulateVars, navigationVars, renderVars, cacheVars>>

Tabulate == INSTANCE TabulateSessions WITH
    Sessions <- 1..2, Callers <- {c1, c2}, Definitions <- {"small", "large"},
    Size <- [small |-> 1, large |-> 2], MaxSessions <- 2, MaxBytes <- 2,
    MaxGeneration <- 1, MaxQueries <- 2, MaxLeases <- 1, LeaseHandles <- FALSE
\* All the calls on one table ...
Navigation == INSTANCE TableNavigation WITH
    generation <- version, entry <- window, signature <- index, worker <- jobs,
    call <- caller, created <- opened, stray <- misdirected,
    Sessions <- 1..2, Callers <- {c1, c2}, Signatures <- {"asc"},
    Size <- [asc |-> 1], MaxSessions <- 1, MaxBytes <- 1, MaxGeneration <- 1,
    MaxCalls <- 2,
    Kinds <- {"prepare", "status", "release", "natural", "window", "cancel"}
\* ... and longer histories of those that make, read and drop windows.
Windows == INSTANCE TableNavigation WITH
    generation <- version, entry <- window, signature <- index, worker <- jobs,
    call <- caller, created <- opened, stray <- misdirected,
    Sessions <- 1..2, Callers <- {c1, c2}, Signatures <- {"asc"},
    Size <- [asc |-> 1], MaxSessions <- 1, MaxBytes <- 1, MaxGeneration <- 1,
    MaxCalls <- 3, Kinds <- {"prepare", "window", "release"}
\* One command thread, and projects, data and frames that change ...
Render == INSTANCE GraphRender WITH
    lock <- holder, Threads <- {c1}, Sessions <- {a}, MaxGen <- 2, MaxData <- 1,
    MaxDb <- 1, MaxEpoch <- 1, UnlinkFails <- FALSE
\* ... or two threads, with windows that take their requests back.
Controls == INSTANCE GraphRender WITH
    lock <- holder, Threads <- {c1, c2}, Sessions <- {a, b}, MaxGen <- 2,
    MaxData <- 0, MaxDb <- 0, MaxEpoch <- 0, UnlinkFails <- FALSE
\* One graph fits easily, two compete with a build ...
Cache == INSTANCE GraphCache WITH
    Caches <- {c1}, Keys <- {k1, k2, k3}, Limit <- 11, DiskLimit <- 6,
    Construction <- 4, DiskNeed <- 2,
    Resident <- (k1 :> 1 @@ k2 :> 2 @@ k3 :> 2),
    Target <- (k1 :> 2 @@ k2 :> 3 @@ k3 :> 3),
    Enc <- (k1 :> 1 @@ k2 :> 0 @@ k3 :> 3),
    File <- (k1 :> 1 @@ k2 :> 2 @@ k3 :> 2),
    Unit <- 1, MinRestore <- 2, UnlinkFails <- FALSE
\* ... with a smaller disk, whose files may stay when they are unlinked ...
Accounts == INSTANCE GraphCache WITH
    Caches <- {c1}, Keys <- {k1, k2, k3}, Limit <- 11, DiskLimit <- 5,
    Construction <- 4, DiskNeed <- 2,
    Resident <- (k1 :> 1 @@ k2 :> 2 @@ k3 :> 2),
    Target <- (k1 :> 2 @@ k2 :> 3 @@ k3 :> 3),
    Enc <- (k1 :> 1 @@ k2 :> 0 @@ k3 :> 3),
    File <- (k1 :> 1 @@ k2 :> 2 @@ k3 :> 2),
    Unit <- 1, MinRestore <- 2, UnlinkFails <- TRUE
\* ... and two caches that draw on one pool.
Pool == INSTANCE GraphCache WITH
    Caches <- {c1, c2}, Keys <- {k2}, Limit <- 9, DiskLimit <- 4,
    Construction <- 4, DiskNeed <- 2,
    Resident <- (k2 :> 2), Target <- (k2 :> 3), Enc <- (k2 :> 0), File <- (k2 :> 2),
    Unit <- 1, MinRestore <- 2, UnlinkFails <- FALSE

ASSUME ReadersAssumption ==
    /\ Tabulate!TabulateAssumption
    /\ Navigation!NavigationAssumption /\ Windows!NavigationAssumption
    /\ Render!BoundsAssumption /\ Controls!BoundsAssumption
    /\ Cache!SizesAssumption /\ Accounts!SizesAssumption /\ Pool!SizesAssumption

-----------------------------------------------------------------------------
ReadersInit ==
    /\ component \in {"tabulate", "navigation", "windows", "render", "controls",
                      "cache", "accounts", "pool", "owners"}
    /\ Tabulate!Init /\ Init
    /\ IF component = "windows" THEN Windows!Init ELSE Navigation!Init
    /\ IF component = "controls" THEN Controls!Init ELSE Render!Init
    /\ CASE component = "pool" -> Pool!Init
         [] component = "accounts" -> Accounts!Init
         [] OTHER -> Cache!Init

Others(own) ==
    /\ own # "owners" => UNCHANGED vars
    /\ own # "tabulate" => UNCHANGED tabulateVars
    /\ own # "navigation" => UNCHANGED navigationVars
    /\ own # "render" => UNCHANGED renderVars
    /\ own # "cache" => UNCHANGED cacheVars
ReadersNext ==
    /\ UNCHANGED component
    /\ \/ component = "owners" /\ Next /\ Others("owners")
       \/ component = "tabulate" /\ Tabulate!Next /\ Others("tabulate")
       \/ component = "navigation" /\ Navigation!Next /\ Others("navigation")
       \/ component = "windows" /\ Windows!Next /\ Others("navigation")
       \/ component = "render" /\ Render!Next /\ Others("render")
       \/ component = "controls" /\ Controls!Next /\ Others("render")
       \/ component = "cache" /\ Cache!Next /\ Others("cache")
       \/ component = "accounts" /\ Accounts!Next /\ Others("cache")
       \/ component = "pool" /\ Pool!Next /\ Others("cache")
ReadersSpec == ReadersInit /\ [][ReadersNext]_readersVars

-----------------------------------------------------------------------------
\* The properties; the modules of the components say what code each is about.

\* A cross table answers from the one generation it was asked for, a
\* cancellation interrupts nobody else's statement, and a session that is in
\* use is not taken away (TabulateSessions).
AnswersAreOfOneGeneration ==
    component = "tabulate" =>
        /\ Tabulate!AnswersAreOfOneGeneration /\ Tabulate!NoStrayInterrupt
        /\ Tabulate!LeasedSessionStays /\ Tabulate!ReadySessionsAreOfTheirGeneration
\* The rows of a window and their order are of one generation, unless a change
\* is committed between its statements; no mapping outlives its session
\* (TableNavigation).
WindowIsFresh ==
    /\ component = "navigation" => Navigation!WindowIsFresh /\ Navigation!MappingsAreDropped
    /\ component = "windows" => Windows!WindowIsFresh /\ Windows!MappingsAreDropped
\* A frame shows the data of the project that is open, and nobody is sent a
\* frame he no longer wants (GraphRender).
FramesAreCurrent ==
    [][ /\ component = "render" => Render!FrameIsCurrent
        /\ component = "controls" => Controls!RevokedIsNotSent ]_renderVars
\* A build that is not admitted evicts nothing (GraphCache).
FailureKeepsWarm == [][component = "cache" => Cache!FailureEvictsNothing]_cacheVars
\* What is kept is what was counted, within its limits: graphs in the pool and on
\* the disk (GraphCache), indexes of cross tables (TabulateSessions) and sessions
\* (TableNavigation).  The graph on screen stays resident, and no other one is
\* pinned or left over from a project that was closed (GraphRender).
CacheIsAccounted ==
    /\ component = "accounts" =>
          Accounts!PoolAccounted /\ Accounts!CountersExact /\ Accounts!DiskWithinBudget
          /\ Accounts!PinnedIsResident
    /\ component = "pool" => Pool!PoolAccounted /\ Pool!PoolWithinLimit
    /\ component = "tabulate" => Tabulate!BytesAccounted
    /\ component = "navigation" => Navigation!RegistryIsBounded
    /\ component = "render" => Render!JoinedIsEmpty
    /\ component = "controls" => Controls!ClosedIsUnpinned
=============================================================================
