------------------------------ MODULE MCProgress ------------------------------
(* What a call waits for: locks, workers, answers, deadlines.  Components of *)
(* the backend and of the frontend that share no variable, on instances      *)
(* small enough for liveness; a behaviour is one of the component that is    *)
(* chosen at the start, the others standing still.                           *)
EXTENDS Integers, Sequences, FiniteSets, TLC

CONSTANTS c1, c2, a, b, r1, r2, k1, NoKey, None

VARIABLES component,
          disk, registry, owned, external, live, slot, services, native, tx, cmd,
          nextEpoch, nextId, faults, acked,                    \* NativeSession
          generation, entry, signature, worker, call, created, stray, measured,
          closed, gate, preparation, todo, queries,            \* TabulateSessions
          version, window, index, jobs, caller, opened, misdirected, displayed,
          engine, shut, cancelling, calls,                     \* TableNavigation
          owner, suspended, epoch, db, data, lock, entries, persisted, pinned,
          cacheEpoch, job, mgr, sent, cancelled,               \* GraphRender
          ready, pending, order, responses, permits, at, expired, elapsed,
          forwarded, token, chan, answer, messages, dispatched, bridge, tracked,
          command, aborted, promise, tail, cached, effects, stopped, known,
          reported, stops, disposals, emitFaults               \* CommandBroker

sessionVars == <<disk, registry, owned, external, live, slot, services, native,
                 tx, cmd, nextEpoch, nextId, faults, acked>>
tabulateVars == <<generation, entry, signature, worker, call, created, stray,
                  measured, closed, gate, preparation, todo, queries>>
navigationVars == <<version, window, index, jobs, caller, opened, misdirected,
                    displayed, engine, shut, cancelling, calls>>
renderVars == <<owner, suspended, epoch, db, data, lock, entries, persisted,
                pinned, cacheEpoch, job, mgr, sent, cancelled>>
brokerVars == <<ready, pending, order, responses, permits, at, expired, elapsed,
                forwarded, token, chan, answer, messages, dispatched, bridge,
                tracked, command, aborted, promise, tail, cached, effects,
                stopped, known, reported, stops, disposals, emitFaults>>
vars == <<component, sessionVars, tabulateVars, navigationVars, renderVars, brokerVars>>

Session == INSTANCE NativeSession WITH
    Paths <- {"draft", "a"}, Drafts <- {"draft"}, Commands <- {c1},
    Kinds <- {"edit", "checkpoint"}, CloneFails <- FALSE,
    MaxEpoch <- 3, MaxRev <- 1, MaxId <- 3, MaxFaults <- 2
Tabulate == INSTANCE TabulateSessions WITH
    Sessions <- 1..2, Callers <- {c1, c2}, Definitions <- {"small", "large"},
    Size <- [small |-> 1, large |-> 2], MaxSessions <- 2, MaxBytes <- 2,
    MaxGeneration <- 0, MaxQueries <- 0, MaxLeases <- 1, LeaseHandles <- FALSE
Navigation == INSTANCE TableNavigation WITH
    generation <- version, entry <- window, signature <- index, worker <- jobs,
    call <- caller, created <- opened, stray <- misdirected,
    Sessions <- 1..1, Callers <- {c1, c2}, Signatures <- {"asc"},
    Size <- [asc |-> 1], MaxSessions <- 1, MaxBytes <- 1, MaxGeneration <- 0,
    MaxCalls <- 2, Kinds <- {"prepare", "status", "release", "natural", "window"}
Render == INSTANCE GraphRender WITH
    disk <- persisted,
    Threads <- {c1, c2}, Sessions <- {a, b}, MaxGen <- 1, MaxData <- 0, MaxDb <- 1,
    MaxEpoch <- 1, UnlinkFails <- FALSE
\* r1 has a key and r2 none.
Broker == INSTANCE CommandBroker WITH
    events <- messages, calls <- dispatched, cmd <- command,
    Requests <- {r1, r2}, Keys <- {k1}, Key <- (r1 :> k1 @@ r2 :> NoKey),
    MaxPending <- 1, MaxConcurrent <- 1, MaxOutcomes <- 1,
    MaxStops <- 0, MaxDisposals <- 0, MaxEmitFaults <- 0

ASSUME ProgressAssumption ==
    /\ Session!SessionAssumption /\ Tabulate!TabulateAssumption
    /\ Navigation!NavigationAssumption /\ Render!BoundsAssumption
    /\ Broker!BrokerAssumption

-----------------------------------------------------------------------------
Init ==
    /\ component \in {"session", "tabulate", "navigation", "render", "broker"}
    /\ Session!Init /\ Tabulate!Init /\ Navigation!Init /\ Render!Init /\ Broker!Init

Others(own) ==
    /\ own # "session" => UNCHANGED sessionVars
    /\ own # "tabulate" => UNCHANGED tabulateVars
    /\ own # "navigation" => UNCHANGED navigationVars
    /\ own # "render" => UNCHANGED renderVars
    /\ own # "broker" => UNCHANGED brokerVars
Next ==
    /\ UNCHANGED component
    /\ \/ component = "session" /\ Session!Next
       \/ component = "tabulate" /\ Tabulate!Next
       \/ component = "navigation" /\ Navigation!Next
       \/ component = "render" /\ Render!Next
       \/ component = "broker" /\ Broker!Next
    /\ Others(component)

\* Threads are scheduled, tasks are polled and deadlines pass; nothing is asked
\* of users, clients or the frontend.
Fairness ==
    /\ WF_sessionVars(component = "session" /\ Session!TransitionStep)
    /\ WF_sessionVars(component = "session" /\ Session!CommandStep(c1))
    /\ WF_tabulateVars(component = "tabulate" /\ Tabulate!ReclaimEntries)
    /\ \A s \in 1..2 :
          WF_tabulateVars(component = "tabulate" /\ Tabulate!WorkerStep(s))
    /\ WF_navigationVars(component = "navigation" /\ Navigation!JobStep(1))
    /\ WF_navigationVars(component = "navigation" /\ Navigation!ShutdownStep)
    /\ WF_renderVars(component = "render" /\ Render!Switch)
    /\ \A c \in {c1, c2} :
          /\ WF_tabulateVars(component = "tabulate" /\ Tabulate!CallerStep(c))
          /\ WF_navigationVars(component = "navigation" /\ Navigation!CallStep(c))
          /\ WF_renderVars(component = "render" /\ Render!Work(c))
    /\ \A r \in {r1, r2} :
          /\ WF_brokerVars(component = "broker" /\ at[r] # "new" /\ Broker!TaskStep(r))
          /\ WF_brokerVars(component = "broker" /\ Broker!Expire(r))
Spec == Init /\ [][Next]_vars /\ Fairness

-----------------------------------------------------------------------------
\* Whoever waits for the backend is answered: an open, close or Save As of a
\* project returns, a cross table is prepared or refused, a window or the
\* preparation of one returns while the project is open, a frame is drawn or
\* given up, a project switch gets past the request that holds the cache, and
\* a dispatch is answered by the frontend or by its deadline.
EveryCallEnds ==
    /\ Session!TransitionEnds /\ Tabulate!PreparationSettles
    /\ Navigation!CallsReturn /\ Render!EveryRequestEnds /\ Render!EverySwitchEnds
    /\ Broker!EveryDispatchAnswered
=============================================================================
