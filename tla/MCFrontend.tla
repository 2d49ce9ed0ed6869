------------------------------ MODULE MCFrontend ------------------------------
(* Four components of the frontend that share no variable: which project is  *)
(* open and who saves it (ProjectLifecycle), what of its directory is known  *)
(* (ProjectDirectory), which revisions were received (ReceivedRevisions) and *)
(* the commands of the MCP server (CommandBroker).  A property of one cannot *)
(* depend on a step of another, so a behaviour is one of the component that  *)
(* is chosen at the start; the others stay as they were initially.           *)
EXTENDS ProjectLifecycle, TLC

CONSTANTS r1, r2, k1, NoKey   \* requests of the MCP server and their key

VARIABLES component,
          committedRevision, directory, watermark, commits, summaries, overlays,
          committed, pageRevision, nextCursor, pageDirty, load, page, bodies,
          requests, adapter,                                  \* ProjectDirectory
          receivedThrough, receivedRanges, projected,         \* ReceivedRevisions
          ready, pending, order, responses, permits, at, expired, elapsed,
          forwarded, token, chan, answer, messages, calls, bridge, tracked, cmd,
          aborted, promise, tail, cached, effects, stopped, known, reported,
          stops, disposals, emitFaults                        \* CommandBroker

directoryVars == <<committedRevision, directory, watermark, commits, summaries,
                   overlays, committed, pageRevision, nextCursor, pageDirty,
                   load, page, bodies, requests, adapter>>
receivedVars == <<receivedThrough, receivedRanges, projected>>
brokerVars == <<ready, pending, order, responses, permits, at, expired, elapsed,
                forwarded, token, chan, answer, messages, calls, bridge, tracked,
                cmd, aborted, promise, tail, cached, effects, stopped, known,
                reported, stops, disposals, emitFaults>>
frontendVars == <<component, vars, directoryVars, receivedVars, brokerVars>>

\* A page may show a commit before its event arrives ...
Directory == INSTANCE ProjectDirectory WITH
    revision <- committedRevision, events <- commits,
    Size <- 3, MaxRevision <- 2, Overtaking <- TRUE
\* ... or it may not, which is what the document adapters rely on.
Ordered == INSTANCE ProjectDirectory WITH
    revision <- committedRevision, events <- commits,
    Size <- 2, MaxRevision <- 3, Overtaking <- FALSE
Intervals == INSTANCE ReceivedRevisions WITH MaxRevision <- 12, Opened <- 1
\* r2 is the retry of r1.  Either the server is stopped ...
Broker == INSTANCE CommandBroker WITH
    events <- messages,
    Requests <- {r1, r2}, Keys <- {k1}, Key <- (r1 :> k1 @@ r2 :> k1),
    MaxPending <- 2, MaxConcurrent <- 1, MaxOutcomes <- 1,
    MaxStops <- 1, MaxDisposals <- 0, MaxEmitFaults <- 1
\* ... or the frontend's bridge goes away.
Bridge == INSTANCE CommandBroker WITH
    events <- messages,
    Requests <- {r1, r2}, Keys <- {k1}, Key <- (r1 :> k1 @@ r2 :> k1),
    MaxPending <- 2, MaxConcurrent <- 1, MaxOutcomes <- 1,
    MaxStops <- 0, MaxDisposals <- 1, MaxEmitFaults <- 1

ASSUME FrontendAssumption ==
    /\ Directory!DirectoryAssumption /\ Ordered!DirectoryAssumption /\ Intervals!RevisionsAssumption
    /\ Broker!BrokerAssumption /\ Bridge!BrokerAssumption

-----------------------------------------------------------------------------
FrontendInit ==
    /\ component \in {"lifecycle", "directory", "ordered", "received", "broker", "bridge"}
    /\ Init /\ Intervals!Init /\ Broker!Init
    /\ IF component = "ordered" THEN Ordered!Init ELSE Directory!Init
    /\ component \notin {"directory", "ordered"} => \A i \in 1..3 : directory[i] = 1

Others(own) ==
    /\ own # "lifecycle" => UNCHANGED vars
    /\ own # "directory" => UNCHANGED directoryVars
    /\ own # "received" => UNCHANGED receivedVars
    /\ own # "broker" => UNCHANGED brokerVars
FrontendNext ==
    /\ UNCHANGED component
    /\ \/ component = "lifecycle" /\ Next /\ Others("lifecycle")
       \/ component = "directory" /\ Directory!Next /\ Others("directory")
       \/ component = "ordered" /\ Ordered!Next /\ Others("directory")
       \/ component = "received" /\ Intervals!Next /\ Others("received")
       \/ component = "broker" /\ Broker!Next /\ Others("broker")
       \/ component = "bridge" /\ Bridge!Next /\ Others("broker")

FrontendSpec == FrontendInit /\ [][FrontendNext]_frontendVars

-----------------------------------------------------------------------------
\* The properties; the modules of the components say what code each is about.

\* However pages, events and bodies overtake each other, a complete listing is
\* that of the project, in the catalog store, in the bodies it says are ready
\* and, when no page overtakes an event, in the adapters (ProjectDirectory).
DirectoryIsAccurate ==
    /\ component = "directory" => Directory!StoreIsAccurate /\ Directory!BodiesAreListed
                                    /\ Directory!DirtyIsUnfinished
    /\ component = "ordered" => Ordered!StoreIsAccurate /\ Ordered!AdaptersAreAccurate

\* The compressed intervals are the set of received revisions, as short as they
\* can be; each commit is projected once (ReceivedRevisions).
ReceivedOnce ==
    /\ Intervals!Set!Init
    /\ [][component = "received" => Intervals!Set!Next]_receivedVars
    /\ [](component = "received" => Intervals!Compact)

=============================================================================
