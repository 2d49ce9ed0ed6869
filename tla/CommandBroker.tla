--------------------------- MODULE CommandBroker ---------------------------
(***************************************************************************)
(* Application commands of MCP clients: the broker                          *)
(* (src-tauri/src/mcp/broker.rs), the bridge in the frontend                *)
(* (src/services/applicationCommandBridge.ts) and the command runtime       *)
(* (src/applicationCommands/runtime.ts).                                    *)
(*                                                                          *)
(* A dispatch inserts a pending entry, waits for a slot, emits the request  *)
(* to the frontend and waits for the completion, racing a deadline and a    *)
(* cancellation.  Every use of the pending mutex is a step; between two of  *)
(* them the frontend's calls may arrive.                                    *)
(***************************************************************************)
EXTENDS Naturals, Sequences, FiniteSets

CONSTANTS Requests,       \* request ids of dispatches
          Keys, NoKey,    \* idempotency keys, and the absence of one
          Key,            \* the key each request carries
          MaxPending, MaxConcurrent, MaxOutcomes,
          MaxStops,       \* bound: stops of the server
          MaxDisposals,   \* bound: disposals of the bridge
          MaxEmitFaults   \* bound: events that cannot be emitted

\* What the constants must be; the module that instantiates this one assumes it.
BrokerAssumption ==
    /\ Key \in [Requests -> Keys \union {NoKey}]
    /\ NoKey \notin Keys
    /\ MaxPending \in Nat \ {0} /\ MaxConcurrent \in Nat \ {0} /\ MaxOutcomes \in Nat \ {0}

VARIABLES
    ready, pending, order, responses, permits,      \* BrokerInner
    at, expired, elapsed, forwarded, token, chan, answer,   \* dispatch tasks
    events, calls,                                  \* both directions of the IPC
    bridge, tracked, cmd, aborted, promise, tail, cached,   \* frontend
    effects,
    stopped,      \* history: requests a stop cancelled before they were emitted
    known,        \* history: requests whose commit the broker was told of in time
    reported,     \* history: the outcomes the frontend reported
    stops, disposals, emitFaults

brokerVars == <<ready, pending, order, responses, permits>>
taskVars == <<at, expired, elapsed, forwarded, token, chan, answer>>
frontVars == <<bridge, tracked, cmd, aborted, promise, tail, cached, effects>>
histVars == <<stopped, known, reported>>
boundVars == <<stops, disposals, emitFaults>>
vars == <<brokerVars, taskVars, events, calls, frontVars, histVars, boundVars>>

Without(f, S) == [x \in DOMAIN f \ S |-> f[x]]
With(f, x, v) == [y \in DOMAIN f \union {x} |-> IF y = x THEN v ELSE f[y]]

Init ==
    /\ ready = TRUE /\ permits = MaxConcurrent
    /\ pending = <<>> /\ order = <<>> /\ responses = <<>>
    /\ at = [r \in Requests |-> "new"]
    /\ answer = [r \in Requests |-> "none"]
    /\ chan = [r \in Requests |-> "empty"]
    /\ expired = {} /\ elapsed = {} /\ forwarded = {} /\ token = {}
    /\ events = <<>> /\ calls = <<>>
    /\ bridge = "started" /\ tracked = {} /\ aborted = {} /\ tail = <<>> /\ cached = {}
    /\ cmd = [r \in Requests |-> "none"]
    /\ promise = <<>>
    /\ effects = [r \in Requests |-> 0]
    /\ stopped = {} /\ known = {} /\ reported = <<>>
    /\ stops = 0 /\ disposals = 0 /\ emitFaults = 0

-----------------------------------------------------------------------------
(* The dispatch task *)

Answer(r, a) == /\ at' = [at EXCEPT ![r] = "done"]
                /\ answer' = [answer EXCEPT ![r] = a]

\* An event reaches the queue, or (within the bound) its emission fails.
Emits(kind, r) == /\ events' = Append(events, [kind |-> kind, req |-> r])
                  /\ UNCHANGED emitFaults
EmitFails == /\ emitFaults < MaxEmitFaults
             /\ emitFaults' = emitFaults + 1
             /\ UNCHANGED events

\* dispatch_with_request_id up to the pending entry: not ready, or accepted.
Dispatch(r) ==
    /\ at[r] = "new"
    /\ \/ ready /\ at' = [at EXCEPT ![r] = "insert"] /\ UNCHANGED answer
       \/ ~ready /\ Answer(r, "busy")
    /\ UNCHANGED <<brokerVars, expired, elapsed, forwarded, token, chan,
                   events, calls, frontVars, histVars, boundVars>>

\* insert_pending
InsertPending(r) ==
    /\ at[r] = "insert"
    /\ \/ /\ Cardinality(DOMAIN pending) < MaxPending
          /\ pending' = With(pending, r, [committing |-> FALSE, retain |-> FALSE])
          /\ at' = [at EXCEPT ![r] = "slot"]
          /\ UNCHANGED answer
       \/ /\ Cardinality(DOMAIN pending) >= MaxPending
          /\ Answer(r, "busy")
          /\ UNCHANGED pending
    /\ UNCHANGED <<ready, order, responses, permits, expired, elapsed, forwarded, token, chan,
                   events, calls, frontVars, histVars, boundVars>>

\* The semaphore (tokio) has a permit.
SlotFree == permits > 0

\* acquire_slot: the deadline wins over the cancellation, and that over a permit.
AcquireSlot(r) ==
    /\ at[r] = "slot"
    /\ \/ /\ r \in expired
          /\ Answer(r, "timeout")
          /\ pending' = Without(pending, {r})
          /\ UNCHANGED permits
       \/ /\ r \in token \ expired
          /\ Answer(r, "cancelled")
          /\ pending' = Without(pending, {r})
          /\ UNCHANGED permits
       \/ /\ r \notin token \union expired
          /\ SlotFree
          /\ permits' = permits - 1
          /\ at' = [at EXCEPT ![r] = "emit"]
          /\ UNCHANGED <<pending, answer>>
    /\ UNCHANGED <<ready, order, responses, expired, elapsed, forwarded, token, chan,
                   events, calls, frontVars, histVars, boundVars>>

\* dispatch_with_request_id, the emission with the permit held.
EmitRequest(r) ==
    /\ at[r] = "emit"
    /\ \/ /\ Emits("request", r)
          /\ at' = [at EXCEPT ![r] = "await"]
          /\ UNCHANGED <<pending, permits, answer>>
       \/ /\ EmitFails
          /\ Answer(r, "error")
          /\ pending' = Without(pending, {r})
          /\ permits' = permits + 1
    /\ UNCHANGED <<ready, order, responses, expired, elapsed, forwarded, token, chan,
                   calls, frontVars, histVars, stops, disposals>>

\* The condition of the grace period's branch.
GraceApplies(r) == r \in elapsed \union forwarded

\* One poll of await_completion's biased select: a response ends the task, and
\* otherwise the first ready branch is chosen; its handler is a later step.
AwaitCompletion(r) ==
    /\ at[r] = "await"
    /\ \/ /\ chan[r] # "empty"
          /\ Answer(r, chan[r])
          /\ permits' = permits + 1
       \/ /\ chan[r] = "empty" /\ r \in token \ forwarded
          /\ at' = [at EXCEPT ![r] = "forward"]
          /\ UNCHANGED <<answer, permits>>
       \/ /\ chan[r] = "empty" /\ r \notin token \ forwarded
          /\ r \in expired \ (elapsed \union forwarded)
          /\ at' = [at EXCEPT ![r] = "timeout"]
          /\ UNCHANGED <<answer, permits>>
       \/ /\ chan[r] = "empty" /\ r \notin token \ forwarded
          /\ GraceApplies(r)
          /\ at' = [at EXCEPT ![r] = "uncertain"]
          /\ UNCHANGED <<answer, permits>>
    /\ UNCHANGED <<ready, pending, order, responses, expired, elapsed, forwarded, token, chan,
                   events, calls, frontVars, histVars, boundVars>>

\* The decision forward_cancellation and mark_timeout_elapsed share: a
\* committing entry is kept for its outcome, any other one is withdrawn.
Withdraw(r, kept) ==
    /\ r \in DOMAIN pending
    /\ kept = pending[r].committing
    /\ \/ /\ kept
          /\ pending' = [pending EXCEPT ![r].retain = TRUE]
          /\ UNCHANGED token
       \/ /\ ~kept
          /\ pending' = Without(pending, {r})
          /\ token' = token \union {r}

\* forward_cancellation, with the exits of its caller.
ForwardCancellation(r) ==
    /\ at[r] = "forward"
    /\ forwarded' = forwarded \union {r}
    /\ \/ /\ r \notin DOMAIN pending
          /\ Answer(r, "cancelled") /\ permits' = permits + 1
          /\ UNCHANGED <<pending, token, events, emitFaults>>
       \/ \E kept \in BOOLEAN :
            /\ Withdraw(r, kept)
            /\ \/ /\ Emits("cancel", r)
                  /\ \/ kept /\ at' = [at EXCEPT ![r] = "await"] /\ UNCHANGED <<answer, permits>>
                     \/ ~kept /\ Answer(r, "cancelled") /\ permits' = permits + 1
               \/ EmitFails /\ Answer(r, "error") /\ permits' = permits + 1
    /\ UNCHANGED <<ready, order, responses, expired, elapsed, chan,
                   calls, frontVars, histVars, stops, disposals>>

\* mark_timeout_elapsed, with the exits of its caller.
MarkTimeoutElapsed(r) ==
    /\ at[r] = "timeout"
    /\ elapsed' = elapsed \union {r}
    /\ \/ /\ r \notin DOMAIN pending
          /\ Answer(r, "timeout") /\ permits' = permits + 1
          /\ UNCHANGED <<pending, token, events, emitFaults>>
       \/ \E kept \in BOOLEAN :
            /\ Withdraw(r, kept)
            /\ \/ /\ kept
                  /\ at' = [at EXCEPT ![r] = "await"]
                  /\ UNCHANGED <<answer, permits, events, emitFaults>>
               \/ /\ ~kept /\ permits' = permits + 1
                  /\ \/ Emits("cancel", r) /\ Answer(r, "timeout")
                     \/ EmitFails /\ Answer(r, "error")
    /\ UNCHANGED <<ready, order, responses, expired, forwarded, chan,
                   calls, frontVars, histVars, stops, disposals>>

\* retain_committed_outcome
RetainCommittedOutcome(r, response) ==
    LET queue   == IF r \in DOMAIN responses THEN order ELSE Append(order, r)
        evicted == IF Len(queue) > MaxOutcomes THEN {Head(queue)} ELSE {}
    IN  /\ order' = IF evicted = {} THEN queue ELSE Tail(queue)
        /\ responses' = Without(With(responses, r, response), evicted)

\* record_uncertain_outcome, its first critical section.
RecordUncertainOutcome(r) ==
    /\ at[r] = "uncertain"
    /\ \/ /\ r \in DOMAIN pending
          /\ pending' = Without(pending, {r})
          /\ at' = [at EXCEPT ![r] = "retain"]
          /\ UNCHANGED <<answer, permits>>
       \/ /\ r \notin DOMAIN pending
          /\ Answer(r, "uncertain")
          /\ permits' = permits + 1
          /\ UNCHANGED pending
    /\ UNCHANGED <<ready, order, responses, expired, elapsed, forwarded, token, chan,
                   events, calls, frontVars, histVars, boundVars>>

\* record_uncertain_outcome, its second critical section.
RetainUncertainOutcome(r) ==
    /\ at[r] = "retain"
    /\ RetainCommittedOutcome(r, "uncertain")
    /\ Answer(r, "uncertain")
    /\ permits' = permits + 1
    /\ UNCHANGED <<ready, pending, expired, elapsed, forwarded, token, chan,
                   events, calls, frontVars, histVars, boundVars>>

-----------------------------------------------------------------------------
(* The environment of a dispatch *)

\* Its deadline passes.
Expire(r) ==
    /\ at[r] \notin {"new", "done"} /\ r \notin expired
    /\ expired' = expired \union {r}
    /\ UNCHANGED <<brokerVars, at, elapsed, forwarded, token, chan, answer,
                   events, calls, frontVars, histVars, boundVars>>

\* Its client cancels it (McpCancellationToken::cancel).
CancelToken(r) ==
    /\ at[r] \notin {"new", "done"} /\ r \notin token
    /\ token' = token \union {r}
    /\ UNCHANGED <<brokerVars, at, expired, elapsed, forwarded, chan, answer,
                   events, calls, frontVars, histVars, boundVars>>

\* What unregister_dispatcher and cancel_non_committing_requests do to the
\* entries S they cancel.
CancelEntries(S) ==
    /\ token' = token \union S
    /\ chan' = [r \in Requests |-> IF r \in S THEN "cancelled" ELSE chan[r]]

NonCommitting == {r \in DOMAIN pending : ~pending[r].committing}

\* cancel_non_committing_requests, which stopping the server calls.  An event
\* that cannot be emitted ends the loop.
CancelNonCommittingRequests ==
    /\ stops < MaxStops /\ stops' = stops + 1
    /\ \E S \in SUBSET NonCommitting :
         /\ CancelEntries(S)
         /\ pending' = Without(pending, S)
         /\ stopped' = stopped \union {r \in S : at[r] \in {"slot", "emit"}}
         /\ \E s \in [1..Cardinality(S) -> S] :
              /\ {s[i] : i \in DOMAIN s} = S
              /\ LET sent(n) == events \o [i \in 1..n |-> [kind |-> "cancel", req |-> s[i]]]
                 IN  \/ /\ S = NonCommitting
                        /\ events' = sent(Cardinality(S))
                        /\ UNCHANGED emitFaults
                     \/ /\ S # {} /\ emitFaults < MaxEmitFaults
                        /\ events' = sent(Cardinality(S) - 1)
                        /\ emitFaults' = emitFaults + 1
    /\ UNCHANGED <<ready, order, responses, permits, at, expired, elapsed, forwarded, answer,
                   calls, frontVars, known, reported, disposals>>

-----------------------------------------------------------------------------
(* The frontend: bridge and runtime *)

Send(seq) == calls' = calls \o seq

\* The commands that wait for the promise of q, once q settles with result.
\* complete is only called for the ones the bridge still tracks.
Followers(q) == {r \in tracked \intersect DOMAIN promise : promise[r] = q}


\* request.resolve or request.reject, the caching of a success, and what the
\* bridge does with the settled promise; "others" it has stopped tracking.
Settle(q, result, others) ==
    /\ cmd' = [cmd EXCEPT ![q] = "settled"]
    /\ cached' = IF result = "success" /\ Key[q] # NoKey THEN cached \union {Key[q]} ELSE cached
    /\ tracked' = (tracked \ others) \ Followers(q)
    /\ \E s \in [1..Cardinality(Followers(q) \ others) -> Followers(q) \ others] :
         /\ {s[i] : i \in DOMAIN s} = Followers(q) \ others
         /\ Send([i \in DOMAIN s |-> [kind |-> "complete", req |-> s[i], response |-> result]])

\* A request with the same key that has not settled.
InFlight(r) == {q \in DOMAIN promise : /\ promise[q] = q /\ Key[q] = Key[r] /\ Key[r] # NoKey
                                       /\ cmd[q] # "settled"}

\* runCommand and execute: the answer comes from the cache, from the request in
\* flight, or from a new entry at the end of the mutation tail.
RunCommand(r) ==
    \/ /\ bridge = "disposed"
       /\ UNCHANGED <<tracked, cmd, promise, tail, calls>>
    \/ /\ bridge # "disposed"
       /\ Key[r] \in cached
       /\ Send(<<[kind |-> "complete", req |-> r, response |-> "success"]>>)
       /\ UNCHANGED <<tracked, cmd, promise, tail>>
    \/ /\ bridge # "disposed"
       /\ Key[r] \notin cached
       /\ tracked' = tracked \union {r}
       /\ UNCHANGED calls
       /\ \/ /\ InFlight(r) # {}
             /\ \E q \in InFlight(r) : promise' = With(promise, r, q)
             /\ UNCHANGED <<cmd, tail>>
          \/ /\ InFlight(r) = {}
             /\ promise' = With(promise, r, r)
             /\ cmd' = [cmd EXCEPT ![r] = "queued"]
             /\ tail' = Append(tail, r)

\* cancelCommand, and cancel of the runtime behind the abort signal: a queued
\* command is rejected at once, a running one finds the signal later, and a
\* committing one is left alone.
CancelCommand(r) ==
    \/ /\ r \notin tracked \/ cmd[r] = "committing"
       /\ UNCHANGED <<tracked, cmd, cached, aborted, calls>>
    \/ /\ r \in tracked /\ cmd[r] = "queued"
       /\ aborted' = aborted \union {r}
       /\ Settle(r, "cancelled", {r})
    \/ /\ r \in tracked /\ cmd[r] \in {"none", "running"}
       /\ tracked' = tracked \ {r}
       /\ aborted' = IF cmd[r] = "running" THEN aborted \union {r} ELSE aborted
       /\ UNCHANGED <<cmd, cached, calls>>

\* The webview handles the next event.
HandleEvent ==
    /\ events # <<>>
    /\ events' = Tail(events)
    /\ LET e == Head(events)
       IN  \/ /\ e.kind = "request" /\ RunCommand(e.req)
              /\ UNCHANGED <<aborted, cached>>
           \/ /\ e.kind = "cancel" /\ CancelCommand(e.req)
              /\ UNCHANGED <<promise, tail>>
    /\ UNCHANGED <<brokerVars, taskVars, bridge, effects, histVars, boundVars>>

\* runRequest of the next command of the tail, up to its handler.  What was
\* settled while it was queued is passed over.
RunRequest ==
    /\ tail # <<>>
    /\ LET r == Head(tail)
       IN  /\ \/ /\ cmd[r] = "queued"
                 /\ cmd' = [cmd EXCEPT ![r] = "running"]
                 /\ UNCHANGED tail
              \/ /\ cmd[r] = "settled"
                 /\ tail' = Tail(tail)
                 /\ UNCHANGED cmd
    /\ UNCHANGED <<brokerVars, taskVars, events, calls, bridge, tracked, aborted, promise,
                   cached, effects, histVars, boundVars>>

\* beginCommit: an aborted command ends as cancelled; another one passes the
\* point of no return and reports it, without waiting for the report to arrive.
BeginCommit(r) ==
    /\ cmd[r] = "running"
    /\ \/ /\ r \in aborted
          /\ Settle(r, "cancelled", {})
       \/ /\ r \notin aborted
          /\ cmd' = [cmd EXCEPT ![r] = "committing"]
          /\ IF r \in tracked THEN Send(<<[kind |-> "committing", req |-> r]>>) ELSE UNCHANGED calls
          /\ UNCHANGED <<tracked, cached>>
    /\ UNCHANGED <<brokerVars, taskVars, events, bridge, aborted, promise,
                   tail, effects, histVars, boundVars>>

\* The handler ends: with its effect, with an error and without one (the
\* handlers turn failures after the effect into warnings), or, before
\* beginCommit, having had nothing to change.
HandlerEnds(r) ==
    /\ \/ /\ cmd[r] = "committing"
          /\ Settle(r, "success", {})
          /\ effects' = [effects EXCEPT ![r] = @ + 1]
       \/ /\ cmd[r] \in {"running", "committing"}
          /\ Settle(r, "error", {})
          /\ UNCHANGED effects
       \/ /\ cmd[r] = "running"
          /\ Settle(r, IF r \in aborted THEN "cancelled" ELSE "success", {})
          /\ UNCHANGED effects
    /\ UNCHANGED <<brokerVars, taskVars, events, bridge, aborted, promise,
                   tail, histVars, boundVars>>

\* The backend executes the next call of the frontend:
\* record_progress or complete_application_command.
RecordProgress(r) ==
    /\ pending' = IF r \in DOMAIN pending THEN [pending EXCEPT ![r].committing = TRUE] ELSE pending
    /\ known' = IF r \in DOMAIN pending THEN known \union {r} ELSE known
    /\ UNCHANGED <<order, responses, chan, reported>>

\* complete_application_command and update_retained_outcome
CompleteApplicationCommand(r, response) ==
    /\ reported' = With(reported, r, response)
    /\ UNCHANGED known
    /\ pending' = Without(pending, {r})
    /\ \/ /\ r \in DOMAIN pending
          /\ IF pending[r].retain THEN RetainCommittedOutcome(r, response)
                                  ELSE UNCHANGED <<order, responses>>
          /\ chan' = [chan EXCEPT ![r] = response]
       \/ /\ r \notin DOMAIN pending
          /\ responses' = IF r \in DOMAIN responses THEN With(responses, r, response) ELSE responses
          /\ UNCHANGED <<order, chan>>

HandleCall ==
    /\ calls # <<>>
    /\ calls' = Tail(calls)
    /\ LET c == Head(calls)
       IN  \/ c.kind = "committing" /\ RecordProgress(c.req)
           \/ c.kind = "complete" /\ CompleteApplicationCommand(c.req, c.response)
    /\ UNCHANGED <<ready, permits, at, expired, elapsed, forwarded, token, answer,
                   events, frontVars, stopped, boundVars>>

\* dispose of the bridge, and unregister_dispatcher which it calls first.
UnregisterDispatcher ==
    /\ bridge = "started"
    /\ disposals < MaxDisposals /\ disposals' = disposals + 1
    /\ bridge' = "unregistered"
    /\ ready' = FALSE
    /\ CancelEntries(NonCommitting)
    /\ pending' = [r \in DOMAIN pending \ NonCommitting |-> [pending[r] EXCEPT !.retain = TRUE]]
    /\ UNCHANGED <<order, responses, permits, at, expired, elapsed, forwarded, answer, events,
                   calls, tracked, cmd, aborted, promise, tail, cached, effects, histVars,
                   stops, emitFaults>>

\* The rest of dispose: every command is aborted and no longer tracked.
Dispose ==
    /\ bridge = "unregistered"
    /\ bridge' = "disposed"
    /\ aborted' = aborted \union {r \in tracked : cmd[r] \in {"queued", "running"}}
    /\ cmd' = [r \in Requests |-> IF r \in tracked /\ cmd[r] = "queued" THEN "settled" ELSE cmd[r]]
    /\ tracked' = {}
    /\ UNCHANGED <<brokerVars, taskVars, events, calls, promise, tail, cached, effects,
                   histVars, boundVars>>

\* start, and register_dispatcher.
RegisterDispatcher ==
    /\ bridge = "disposed"
    /\ bridge' = "started"
    /\ ready' = TRUE
    /\ UNCHANGED <<pending, order, responses, permits, taskVars, events, calls, tracked, cmd,
                   aborted, promise, tail, cached, effects, histVars, boundVars>>

-----------------------------------------------------------------------------
TaskStep(r) ==
    \/ Dispatch(r) \/ InsertPending(r) \/ AcquireSlot(r) \/ EmitRequest(r)
    \/ AwaitCompletion(r) \/ ForwardCancellation(r) \/ MarkTimeoutElapsed(r)
    \/ RecordUncertainOutcome(r) \/ RetainUncertainOutcome(r)

FrontendStep ==
    \/ HandleEvent \/ RunRequest \/ HandleCall
    \/ \E r \in Requests : BeginCommit(r) \/ HandlerEnds(r)

Next ==
    \/ \E r \in Requests : TaskStep(r) \/ Expire(r) \/ CancelToken(r)
    \/ FrontendStep
    \/ CancelNonCommittingRequests
    \/ UnregisterDispatcher \/ Dispose \/ RegisterDispatcher

\* Tasks are polled and deadlines pass; clients, the frontend and the user need
\* not do anything.
Fairness == \A r \in Requests :
    /\ WF_vars(at[r] # "new" /\ TaskStep(r))
    /\ WF_vars(Expire(r))

Spec == Init /\ [][Next]_vars
FairSpec == Spec /\ Fairness

-----------------------------------------------------------------------------
(* Properties *)

TypeOK ==
    /\ ready \in BOOLEAN /\ permits \in 0..MaxConcurrent
    /\ DOMAIN pending \subseteq Requests
    /\ at \in [Requests -> {"new", "insert", "slot", "emit", "await", "forward", "timeout",
                            "uncertain", "retain", "done"}]
    /\ bridge \in {"started", "unregistered", "disposed"}
    /\ cmd \in [Requests -> {"none", "queued", "running", "committing", "settled"}]

\* Every exit of a dispatch frees what it took: permits return, and an entry
\* outlives its caller only as a commit under way whose outcome is kept.
NothingLeaks ==
    /\ permits + Cardinality({r \in Requests : at[r] \in
         {"emit", "await", "forward", "timeout", "uncertain", "retain"}}) = MaxConcurrent
    /\ \A r \in DOMAIN pending : at[r] = "done" => pending[r].committing /\ pending[r].retain

\* buildIdempotencyKey: however often a client retries a command with its key,
\* after timeouts, cancellations and lost answers, it takes effect once.
EffectOncePerKey ==
    \A r, q \in Requests : Key[r] = Key[q] /\ Key[r] # NoKey /\ effects[r] + effects[q] > 1 => r = q

\* cancel of the runtime: a command whose cancellation was accepted has no
\* effect, however late its handler notices.
CancelledHasNoEffect == \A r \in aborted : effects[r] = 0

\* Every dispatch is answered: by the frontend, or by its deadline and the
\* grace period after it.
EveryDispatchAnswered == \A r \in Requests : at[r] = "insert" ~> at[r] = "done"

\* "Stopping MCP cancels every request that has not entered commit."
StoppedNeverTakesEffect == \A r \in stopped : effects[r] = 0

\* "timeout/cancellation after `committing` returning or recording the final
\* committed outcome": a request whose commit the broker knew of and whose
\* success arrived is answered with it, or the outcome is retained.
CommittedOutcomeKept ==
    \A r \in known : at[r] = "done" /\ r \in DOMAIN reported /\ answer[r] \in {"timeout", "cancelled"}
        => r \in DOMAIN responses

\* "late success updates lookup": a retained uncertain outcome is replaced by
\* the outcome that arrives later.
LateOutcomeRecorded ==
    \A r \in Requests : at[r] = "done" /\ r \in DOMAIN responses /\ r \in DOMAIN reported
        => responses[r] = reported[r]
=============================================================================
