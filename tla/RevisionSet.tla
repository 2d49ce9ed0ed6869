---------------------------- MODULE RevisionSet ----------------------------
(***************************************************************************)
(* What the record of received revisions promises: it is a set that only   *)
(* grows, and the commit of a revision is projected when the revision      *)
(* enters it, and never again.                                             *)
(***************************************************************************)
EXTENDS Integers

CONSTANTS MaxRevision, Opened

VARIABLES received,   \* revisions the frontend knows of
          projected   \* how often the commit of each was projected

Revisions == 1..MaxRevision

Init ==
    /\ received = 1..Opened
    /\ projected = [r \in Revisions |-> 0]

Receive(r) ==
    /\ r \notin received
    /\ received' = received \cup {r}
    /\ projected' = [projected EXCEPT ![r] = 1]

Next == \E r \in Revisions : Receive(r)

Spec == Init /\ [][Next]_<<received, projected>>
=============================================================================
