----------------------------- MODULE DurableQueue -----------------------------
(***************************************************************************)
(* What automatic saving promises the user.  Edits are numbered in the     *)
(* order they are accepted.  They become durable in that order, each in    *)
(* exactly one commit, in batches that leave no gap, except for the        *)
(* commands the user explicitly gives up; and only what is durable or      *)
(* given up is ever acknowledged.                                          *)
(***************************************************************************)
EXTENDS Integers, Sequences

VARIABLES
    accepted,      \* how many edits were accepted
    log,           \* the commits, each the set of edits it carries
    discarded,     \* edits the user gave up
    acknowledged   \* the edits through this one are reported as saved

vars == <<accepted, log, discarded, acknowledged>>

Settled == discarded \union UNION {log[i] : i \in DOMAIN log}

\* The edits from the first unsettled one through n.
Batch(n) == 1..n \ Settled

Init ==
    /\ accepted = 0
    /\ log = <<>>
    /\ discarded = {}
    /\ acknowledged = 0

AcceptEdit ==
    /\ accepted' = accepted + 1
    /\ UNCHANGED <<log, discarded, acknowledged>>

Commit(n) ==
    /\ Batch(n) # {}
    /\ log' = Append(log, Batch(n))
    /\ UNCHANGED <<accepted, discarded, acknowledged>>

Acknowledge(n) ==
    /\ 1..n \subseteq Settled
    /\ acknowledged < n
    /\ acknowledged' = n
    /\ UNCHANGED <<accepted, log, discarded>>

\* Giving up is acknowledged at once.
Discard(n) ==
    /\ Batch(n) # {}
    /\ discarded' = discarded \union Batch(n)
    /\ acknowledged' = n
    /\ UNCHANGED <<accepted, log>>

Next ==
    \/ AcceptEdit
    \/ \E n \in 1..accepted : Commit(n) \/ Acknowledge(n) \/ Discard(n)

Spec == Init /\ [][Next]_vars
=============================================================================
