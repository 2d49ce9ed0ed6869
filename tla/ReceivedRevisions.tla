------------------------- MODULE ReceivedRevisions -------------------------
(***************************************************************************)
(* The revisions a coordinator has received (markReceived in               *)
(* projectPersistence/coordinator.ts).  Commits of other clients arrive    *)
(* more than once and in any order; a set of all their revisions would     *)
(* grow without end, so the code keeps the revision up to which it has all *)
(* of them and the intervals beyond it.  RevisionSet is the set, which the   *)
(* intervals are shown to implement.                                       *)
(***************************************************************************)
EXTENDS Integers, Sequences, FiniteSets

CONSTANTS MaxRevision,  \* bound on the revisions that arrive
          Opened        \* the revision the project was opened at

\* What the constants must be; the module that instantiates this one assumes it.
RevisionsAssumption == MaxRevision \in Nat /\ Opened \in 0..MaxRevision

VARIABLES receivedThrough,  \* every revision up to this one was received
          receivedRanges,   \* the intervals beyond, a sequence of <<first, last>>
          projected         \* Revision -> how often its commit was projected

vars == <<receivedThrough, receivedRanges, projected>>

Revisions == 1..MaxRevision

Init ==
    /\ receivedThrough = Opened
    /\ receivedRanges = <<>>
    /\ projected = [r \in Revisions |-> 0]

Greatest(m, n) == IF m >= n THEN m ELSE n
Longest(counts) == CHOOSE n \in counts : \A m \in counts : m <= n

\* How many intervals lie before r and do not touch it.
Before(r) == Cardinality({i \in DOMAIN receivedRanges : receivedRanges[i][2] < r - 1})

\* How many of the intervals at the front the new interval <<r, r>> takes up: each
\* starts within, or next to, what it has grown to.
Absorbed(ranges, r) ==
    Longest({n \in 0..Len(ranges) : \A i \in 1..n :
                ranges[i][1] <= (IF i = 1 THEN r ELSE Greatest(r, ranges[i - 1][2])) + 1})

\* The intervals with r in them.
Inserted(r) ==
    LET behind == SubSeq(receivedRanges, Before(r) + 1, Len(receivedRanges))
        taken  == Absorbed(behind, r)
        first  == IF taken > 0 /\ behind[1][1] < r THEN behind[1][1] ELSE r
        last   == IF taken > 0 THEN Greatest(r, behind[taken][2]) ELSE r
    IN  SubSeq(receivedRanges, 1, Before(r)) \o <<<<first, last>>>>
            \o SubSeq(behind, taken + 1, Len(behind))

\* How many intervals at the front continue receivedThrough.
Continuing(ranges) ==
    Longest({n \in 0..Len(ranges) : \A i \in 1..n :
                ranges[i][1] = (IF i = 1 THEN receivedThrough ELSE ranges[i - 1][2]) + 1})

\* Mutant of Known: only the revisions received in order count.
KnownInOrder(r) == r <= receivedThrough

Known(r) ==
    \/ r <= receivedThrough
    \/ \E i \in DOMAIN receivedRanges : r \in receivedRanges[i][1]..receivedRanges[i][2]

\* A commit with revision r arrives; it is projected if it is new.
Receive(r) ==
    /\ ~Known(r)
    /\ LET ranges == Inserted(r)
            n == Continuing(ranges)
       IN  /\ receivedThrough' = IF n = 0 THEN receivedThrough ELSE ranges[n][2]
           /\ receivedRanges' = SubSeq(ranges, n + 1, Len(ranges))
    /\ projected' = [projected EXCEPT ![r] = @ + 1]

\* It is dropped if it is known.
ReceiveAgain(r) == Known(r) /\ UNCHANGED vars

Next == \E r \in Revisions : Receive(r) \/ ReceiveAgain(r)

Spec == Init /\ [][Next]_vars

-----------------------------------------------------------------------------
(* Properties *)

\* The intervals are kept as short as they can be: in order, apart from each
\* other and from what was received in order.
Compact ==
    \A i \in DOMAIN receivedRanges :
        /\ receivedRanges[i][1] \in Revisions /\ receivedRanges[i][2] \in Revisions
        /\ receivedRanges[i][1] <= receivedRanges[i][2]
        /\ receivedRanges[i][1] >
               (IF i = 1 THEN receivedThrough ELSE receivedRanges[i - 1][2]) + 1

Set == INSTANCE RevisionSet WITH received <- {r \in Revisions : Known(r)}

\* The intervals are the set of the received revisions: whatever the order of
\* arrival and however often a commit arrives, it is projected exactly once.
Implements == Set!Spec

=============================================================================
