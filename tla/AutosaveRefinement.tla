--------------------------- MODULE AutosaveRefinement ---------------------------
(***************************************************************************)
(* Proof that the persistence coordinator over its backend is a durable    *)
(* queue, for any number of edits, flushes, commits of others and faults.  *)
(*                                                                         *)
(* The log of the abstract queue is the own receipts in the order of their *)
(* revisions.  A commit appends to it because its revision is the newest,  *)
(* and appends the next batch because a call that can still commit is one  *)
(* of the head: calls of an entry that left the queue are answered by the  *)
(* receipt of their operation or refused by its cancellation, never both.  *)
(* OrderInv says this on top of the inductive invariant of AutosaveProofs; *)
(* as there, operators of the coordinator keep what calls rely on, and     *)
(* each action is one step of the abstract queue or none.                  *)
(*                                                                         *)
(* The second part is what the status "saved" promises: with nothing       *)
(* queued, the file has every document as the stores show it.  The stores  *)
(* show what the last entry that touches a document leaves of it; what no  *)
(* entry touches is in the file already, and the head is in the file once  *)
(* its id has a receipt.  It is committed once, by a call that carries     *)
(* what the head asks for (StoredInv), since OrderInv leaves no other call *)
(* that can still commit.                                                  *)
(***************************************************************************)
EXTENDS AutosaveProofs, FiniteSetTheorems

-----------------------------------------------------------------------------
(* The log of the own commits *)

Own(R) == {o \in DOMAIN R : EditsIn(R, o) # {}}

\* How many own receipts of R are not newer than the one of o.
Rank(R, o) == Cardinality({p \in Own(R) : R[p].revision <= R[o].revision})
Nth(R, i) == CHOOSE o \in Own(R) : Rank(R, o) = i
Log(R) == [i \in 1..Cardinality(Own(R)) |-> EditsIn(R, Nth(R, i))]

\* Each place of the log is the rank of a receipt.
Ranked(R) ==
    /\ IsFiniteSet(DOMAIN R)
    /\ \A i \in 1..Cardinality(Own(R)) : \E o \in Own(R) : Rank(R, o) = i

LEMMA OwnLogIs == OwnLog = Log(receipts)
BY DEF OwnLog, Log, Nth, Rank, Own, Edits, EditsIn

LEMMA OwnLogWillBe == OwnLog' = Log(receipts')
BY DEF OwnLog, Log, Nth, Rank, Own, Edits, EditsIn

LEMMA OwnIsFinite == ASSUME NEW R, IsFiniteSet(DOMAIN R)
                     PROVE  IsFiniteSet(Own(R)) /\ Cardinality(Own(R)) \in Nat
<1>1. Own(R) \subseteq DOMAIN R BY DEF Own
<1> QED BY <1>1, FS_Subset, FS_CardinalityType

LEMMA NthIsOwn == ASSUME NEW R, Ranked(R), NEW i \in 1..Cardinality(Own(R))
                  PROVE  Nth(R, i) \in Own(R)
BY DEF Ranked, Nth

\* A commit without edits is not in the log.
LEMMA SameLog ==
    ASSUME NEW R, NEW S, Ranked(R), IsFiniteSet(DOMAIN S),
           Own(S) = Own(R), \A o \in Own(R) : S[o] = R[o]
    PROVE  Log(S) = Log(R) /\ Ranked(S)
<1>1. ASSUME NEW o \in Own(R) PROVE Rank(S, o) = Rank(R, o)
  <2>1. {p \in Own(S) : S[p].revision <= S[o].revision}
          = {p \in Own(R) : R[p].revision <= R[o].revision}
    OBVIOUS
  <2> QED BY <2>1 DEF Rank
<1>2. ASSUME NEW i PROVE Nth(S, i) = Nth(R, i)
  <2>1. \A o : (o \in Own(S) /\ Rank(S, o) = i) <=> (o \in Own(R) /\ Rank(R, o) = i)
    BY <1>1
  <2> QED BY <2>1, Zenon DEF Nth
<1>3. \A i \in 1..Cardinality(Own(R)) : EditsIn(S, Nth(S, i)) = EditsIn(R, Nth(R, i))
  BY <1>2, NthIsOwn DEF EditsIn
<1>4. Log(S) = Log(R)
  BY <1>3 DEF Log
<1>5. Ranked(S) BY <1>1 DEF Ranked
<1> QED BY <1>4, <1>5

\* A commit with edits is appended to it.
LEMMA LongerLog ==
    ASSUME NEW R, NEW S, NEW x, Ranked(R), x \notin DOMAIN R, DOMAIN S = DOMAIN R \cup {x},
           \A p \in DOMAIN R : S[p] = R[p] /\ R[p].revision \in Int
                               /\ R[p].revision < S[x].revision,
           S[x].revision \in Int, EditsIn(S, x) # {}
    PROVE  Log(S) = Append(Log(R), EditsIn(S, x)) /\ Ranked(S)
<1> DEFINE n == Cardinality(Own(R))
<1>1. Own(S) = Own(R) \cup {x} /\ x \notin Own(R) BY DEF Own, EditsIn
<1>2. IsFiniteSet(Own(R)) /\ n \in Nat BY OwnIsFinite DEF Ranked
<1>3. IsFiniteSet(DOMAIN S) BY FS_AddElement DEF Ranked
<1>4. Cardinality(Own(S)) = n + 1 BY <1>1, <1>2, FS_AddElement
<1>5. \A p \in Own(R) : S[p] = R[p] /\ R[p].revision \in Int /\ R[p].revision < S[x].revision
  BY DEF Own
<1>6. ASSUME NEW o \in Own(R) PROVE Rank(S, o) = Rank(R, o) /\ Rank(R, o) # n + 1
  <2> DEFINE older == {p \in Own(R) : R[p].revision <= R[o].revision}
  <2>1. {p \in Own(S) : S[p].revision <= S[o].revision} = older BY <1>1, <1>5
  <2>2. Cardinality(older) <= n /\ Cardinality(older) \in Nat
    <3>1. older \subseteq Own(R) OBVIOUS
    <3> QED BY <3>1, <1>2, FS_Subset, FS_CardinalityType
  <2>3. Rank(S, o) = Rank(R, o) BY <2>1 DEF Rank
  <2>4. Rank(R, o) = Cardinality(older) BY DEF Rank
  <2> HIDE DEF older
  <2> QED BY <2>2, <2>3, <2>4, <1>2
<1>7. Rank(S, x) = n + 1
  <2>1. {p \in Own(S) : S[p].revision <= S[x].revision} = Own(S) BY <1>1, <1>5
  <2> QED BY <2>1, <1>4 DEF Rank
<1>8. ASSUME NEW i \in 1..n PROVE Nth(S, i) = Nth(R, i)
  <2>1. \A o : (o \in Own(S) /\ Rank(S, o) = i) <=> (o \in Own(R) /\ Rank(R, o) = i)
    BY <1>1, <1>2, <1>6, <1>7
  <2> QED BY <2>1, Zenon DEF Nth
<1>9. Nth(S, n + 1) = x
  <2>1. \A o \in Own(S) : Rank(S, o) = n + 1 => o = x BY <1>1, <1>6
  <2> QED BY <2>1, <1>1, <1>7 DEF Nth
<1>10. Log(S) = Append(Log(R), EditsIn(S, x))
  <2>1. \A i \in 1..n : EditsIn(S, Nth(S, i)) = EditsIn(R, Nth(R, i))
    BY <1>5, <1>8, NthIsOwn DEF EditsIn
  <2> DEFINE T == {EditsIn(S, o) : o \in Own(S)}
  <2>2. Log(R) = [i \in 1..n |-> EditsIn(R, Nth(R, i))] BY DEF Log
  <2>3. Log(S) = [i \in 1..n + 1 |-> EditsIn(S, Nth(S, i))] BY <1>4 DEF Log
  <2>4. IsSeq(Log(R)) /\ Len(Log(R)) = n
    <3>1. Log(R) = [i \in 1..n |-> Log(R)[i]] BY <2>2
    <3> QED BY <3>1, <1>2, SeqOf
  <2>5. IsSeq(Log(S)) /\ Len(Log(S)) = n + 1
    <3>1. Log(S) = [i \in 1..n + 1 |-> Log(S)[i]] BY <2>3
    <3> QED BY <3>1, <1>2, SeqOf
  <2> HIDE DEF n
  <2> DEFINE a == Append(Log(R), EditsIn(S, x))
  <2>6. /\ IsSeq(a) /\ Len(a) = n + 1 /\ a[n + 1] = EditsIn(S, x)
        /\ \A i \in 1..n : a[i] = Log(R)[i]
    BY <2>4, AppendSeq
  <2> HIDE DEF a
  <2>7. \A i \in 1..n + 1 : i \in 1..n \/ i = n + 1 BY <1>2 DEF n
  <2>8. \A i \in 1..n + 1 : Log(S)[i] = a[i] BY <2>1, <2>2, <2>3, <2>6, <2>7, <1>9 DEF n
  <2>9. a = [i \in 1..n + 1 |-> a[i]] BY <2>6, SeqLen
  <2>10. Log(S) = [i \in 1..n + 1 |-> Log(S)[i]] BY <2>3
  <2> QED BY <2>8, <2>9, <2>10 DEF a
<1>11. \A i \in 1..n + 1 : \E o \in Own(S) : Rank(S, o) = i
  <2>1. \A i \in 1..n + 1 : i \in 1..n \/ i = n + 1 BY <1>2
  <2>2. \A i \in 1..n : \E o \in Own(R) : Rank(R, o) = i BY DEF Ranked
  <2> QED BY <2>1, <2>2, <1>1, <1>6, <1>7
<1> QED BY <1>3, <1>4, <1>10, <1>11 DEF Ranked

-----------------------------------------------------------------------------
(* What a handler does to the head *)

\* The head was sent and stays.
Stays(s, t) ==
    /\ Sent(s) /\ Sent(t) /\ Op(t) = Op(s)
    /\ t.entries[1].first = s.entries[1].first
    /\ t.entries[1].last = s.entries[1].last
    /\ t.entries[1].draft = s.entries[1].draft

\* A head that was sent leaves the queue when its id is among the settled ones, X,
\* and a head is sent under a new id.
Moves(s, t, X) ==
    /\ s.operations <= t.operations /\ s.acknowledged <= t.acknowledged
    /\ Sent(s) => Stays(s, t) \/ (Op(s) \in X /\ s.entries[1].last <= t.acknowledged)
    /\ Sent(t) => Stays(s, t) \/ s.operations < Op(t)

Keeps(s, t, X) == Moves(s, t, X) /\ t.sequence = s.sequence /\ t.discarded = s.discarded
Calm(s, t, X) == Keeps(s, t, X) /\ t.acknowledged = s.acknowledged

LEMMA HeadFacts ==
    ASSUME NEW s, NEW R, Good(s, R)
    PROVE  /\ Shaped(s) /\ s.operations \in Nat /\ s.acknowledged \in Nat
           /\ Len(s.entries) \in Nat /\ IsSeq(s.entries) /\ DOMAIN s.entries = 1..Len(s.entries)
           /\ Len(s.entries) # 0 =>
                /\ 1 \in 1..Len(s.entries) /\ Head(s.entries) = s.entries[1]
                /\ s.entries[1].first \in Nat /\ s.entries[1].last \in Nat
                /\ s.entries[1].first = s.acknowledged + 1
                /\ s.entries[1].first <= s.entries[1].last
                /\ s.entries[1].last <= s.sequence
           /\ Sent(s) => Op(s) \in 1..s.operations
<1>1. Shaped(s) /\ Chained(s) /\ HeadIsSent(s) BY DEF Good
<1>2. IsSeq(s.entries) BY <1>1 DEF Shaped
<1>3. Len(s.entries) \in Nat /\ DOMAIN s.entries = 1..Len(s.entries) BY <1>2, SeqLen
<1>4. Len(s.entries) # 0 => 1 \in 1..Len(s.entries) BY <1>3
<1>5. Len(s.entries) # 0 => s.entries[1].first \in Nat /\ s.entries[1].last \in Nat
  BY <1>1, <1>4 DEF Shaped
<1>6. Len(s.entries) # 0 => /\ s.entries[1].first = s.acknowledged + 1
                            /\ s.entries[1].first <= s.entries[1].last
                            /\ s.entries[1].last <= s.sequence
  BY <1>1, <1>4 DEF Chained
<1>7. s.operations \in Nat /\ s.acknowledged \in Nat BY <1>1 DEF Shaped
<1>8. Sent(s) => Op(s) \in 1..s.operations BY <1>1 DEF HeadIsSent
<1> QED BY <1>1, <1>2, <1>3, <1>4, <1>5, <1>6, <1>7, <1>8

LEMMA MovesThenMoves ==
    ASSUME NEW s, NEW t, NEW u, NEW R, NEW X, Good(s, R), Good(t, R), Good(u, R),
           Moves(s, t, X), Moves(t, u, X)
    PROVE  Moves(s, u, X)
<1>1. /\ s.operations <= t.operations /\ t.operations <= u.operations
      /\ s.acknowledged <= t.acknowledged /\ t.acknowledged <= u.acknowledged
  BY DEF Moves
<1>2. /\ s.operations \in Nat /\ t.operations \in Nat /\ u.operations \in Nat
      /\ s.acknowledged \in Nat /\ t.acknowledged \in Nat /\ u.acknowledged \in Nat
  BY HeadFacts
<1>3. s.operations <= u.operations /\ s.acknowledged <= u.acknowledged BY <1>1, <1>2
<1>4. Stays(s, t) /\ Stays(t, u) => Stays(s, u) BY DEF Stays
<1>5. ASSUME Sent(s)
      PROVE  Stays(s, u) \/ (Op(s) \in X /\ s.entries[1].last <= u.acknowledged)
  <2>1. s.entries[1].last \in Nat BY <1>5, HeadFacts DEF Sent
  <2>2. CASE Stays(s, t)
    <3>1. Sent(t) /\ Op(t) = Op(s) /\ t.entries[1].last = s.entries[1].last BY <2>2 DEF Stays
    <3>2. Stays(t, u) \/ (Op(t) \in X /\ t.entries[1].last <= u.acknowledged)
      BY <3>1 DEF Moves
    <3> QED BY <2>2, <3>1, <3>2, <1>4
  <2>3. CASE Op(s) \in X /\ s.entries[1].last <= t.acknowledged
    BY <2>1, <2>3, <1>1, <1>2
  <2> QED BY <1>5, <2>2, <2>3 DEF Moves
<1>6. ASSUME Sent(u) PROVE Stays(s, u) \/ s.operations < Op(u)
  <2>1. Op(u) \in Nat BY <1>6, <1>2, HeadFacts
  <2>2. Stays(t, u) \/ t.operations < Op(u) BY <1>6 DEF Moves
  <2>3. CASE t.operations < Op(u) BY <2>1, <2>3, <1>1, <1>2
  <2>4. CASE Stays(t, u)
    <3>1. Sent(t) /\ Op(u) = Op(t) BY <2>4 DEF Stays
    <3>2. Stays(s, t) \/ s.operations < Op(t) BY <3>1 DEF Moves
    <3> QED BY <2>4, <3>1, <3>2, <1>4
  <2> QED BY <2>2, <2>3, <2>4
<1> QED BY <1>3, <1>5, <1>6 DEF Moves

LEMMA KeepsThenKeeps ==
    ASSUME NEW s, NEW t, NEW u, NEW R, NEW X, Good(s, R), Good(t, R), Good(u, R),
           Keeps(s, t, X), Keeps(t, u, X)
    PROVE  Keeps(s, u, X)
BY MovesThenMoves DEF Keeps

LEMMA CalmThenCalm ==
    ASSUME NEW s, NEW t, NEW u, NEW R, NEW X, Good(s, R), Good(t, R), Good(u, R),
           Calm(s, t, X), Calm(t, u, X)
    PROVE  Calm(s, u, X)
BY KeepsThenKeeps DEF Calm

\* The same head, whatever else changes.
LEMMA SameHead ==
    ASSUME NEW s, NEW t, NEW R, NEW X, Good(s, R),
           t.operations = s.operations, t.acknowledged = s.acknowledged,
           t.sequence = s.sequence, t.discarded = s.discarded,
           Len(t.entries) = Len(s.entries),
           Len(s.entries) # 0 =>
             /\ t.entries[1].first = s.entries[1].first
             /\ t.entries[1].last = s.entries[1].last
             /\ t.entries[1].context = s.entries[1].context
             /\ t.entries[1].draft = s.entries[1].draft
    PROVE  Calm(s, t, X)
<1>1. s.operations \in Nat /\ s.acknowledged \in Nat BY HeadFacts
<1>2. Sent(s) <=> Sent(t) BY DEF Sent, HasContext
<1>3. Sent(s) => Stays(s, t) BY <1>2 DEF Stays, Sent, Op
<1> QED BY <1>1, <1>2, <1>3 DEF Calm, Keeps, Moves

LEMMA SameEntriesCalm ==
    ASSUME NEW s, NEW t, NEW R, NEW X, Good(s, R), t.entries = s.entries,
           t.operations = s.operations, t.acknowledged = s.acknowledged,
           t.sequence = s.sequence, t.discarded = s.discarded
    PROVE  Calm(s, t, X)
BY SameHead

LEMMA SameIsCalm == ASSUME NEW s, NEW t, NEW R, NEW X, Good(s, R), Same(s, t)
                    PROVE  Calm(s, t, X)
BY SameEntriesCalm DEF Same

LEMMA AgreeIsCalm ==
    ASSUME NEW s, NEW t, NEW R, NEW X, Good(s, R), Agree(s, t),
           \A k \in 1..Len(s.entries) : t.entries[k].draft = s.entries[k].draft
    PROVE  Calm(s, t, X)
<1>1. Len(s.entries) # 0 => 1 \in 1..Len(s.entries) BY HeadFacts
<1> QED BY <1>1, SameHead DEF Agree, EntriesAlike

LEMMA SealIsCalm == ASSUME NEW s, NEW R, NEW X, Good(s, R) PROVE Calm(s, Seal(s), X)
<1> DEFINE t == Seal(s)
           n == Len(s.entries)
<1>1. DOMAIN s = Fields BY HeadFacts DEF Shaped
<1>2. CASE s.unsealed
  <2>1. n # 0 BY <1>2 DEF Good, HeadIsSent
  <2>2. n \in Nat /\ DOMAIN s.entries = 1..n /\ 1 \in 1..n /\ n \in 1..n BY <2>1, HeadFacts
  <2>3. /\ t.entries = [s.entries EXCEPT ![n].ready = TRUE]
        /\ t.operations = s.operations /\ t.acknowledged = s.acknowledged
        /\ t.sequence = s.sequence /\ t.discarded = s.discarded
    BY <1>1, <1>2 DEF Fields, Seal
  <2>4. DOMAIN s.entries[1] = EntryFields BY <2>2, HeadFacts DEF Shaped
  <2>5. EntriesAlike(s.entries, t.entries) BY <2>1, <2>3, HeadFacts, ReadyEntry
  <2> HIDE DEF t
  <2>6. t.entries[1].draft = s.entries[1].draft
    BY <2>2, <2>3, <2>4 DEF EntryFields
  <2>7. Len(t.entries) = Len(s.entries) /\ t.entries[1].first = s.entries[1].first
        /\ t.entries[1].last = s.entries[1].last /\ t.entries[1].context = s.entries[1].context
    BY <2>2, <2>5 DEF EntriesAlike
  <2> QED BY <2>3, <2>6, <2>7, SameHead DEF t
<1>3. CASE ~s.unsealed
  <2>1. Same(s, t) BY <1>1, <1>3, HeadFacts DEF Shaped, Fields, Seal, Same
  <2> QED BY <2>1, SameIsCalm
<1> QED BY <1>2, <1>3

\* pump sends the head under its id, or under a new one.
LEMMA SendIsCalm ==
    ASSUME NEW s, NEW R, NEW X, Good(s, R), Len(s.entries) # 0
    PROVE  Calm(s, Send(s), X)
<1> DEFINE e == Head(s.entries)
           req == Prepare(s, e)
           new == [e EXCEPT !.request = req, !.context = NewContext(s, e, req)]
           h == IF HasContext(e) THEN e ELSE new
           t == Send(s)
<1>1. /\ e = s.entries[1] /\ 1 \in 1..Len(s.entries) /\ DOMAIN s.entries = 1..Len(s.entries)
      /\ s.operations \in Nat /\ s.acknowledged \in Nat
  BY HeadFacts
<1>2. DOMAIN s = Fields /\ DOMAIN e = EntryFields BY <1>1, HeadFacts DEF Shaped
<1>3. /\ t.entries = [s.entries EXCEPT ![1] = h]
      /\ t.operations = (IF HasContext(e) THEN s.operations ELSE s.operations + 1)
      /\ t.acknowledged = s.acknowledged
      /\ t.sequence = s.sequence /\ t.discarded = s.discarded
  BY <1>2 DEF Fields, Send
<1>4. new.context.op = s.operations + 1
  <2>1. new.context = NewContext(s, e, req) BY <1>2 DEF EntryFields
  <2> QED BY <2>1, NewContextOp
<1> HIDE DEF e, new, t
<1>5. t.entries[1] = h BY <1>1, <1>3
<1>6. CASE HasContext(e)
  <2>1. s.entries = [i \in 1..Len(s.entries) |-> s.entries[i]] BY HeadFacts, SeqLen
  <2>2. h = s.entries[1] BY <1>1, <1>6
  <2>3. t.entries = s.entries BY <2>1, <2>2, <1>1, <1>3
  <2> QED BY <2>3, <1>3, <1>6, SameEntriesCalm DEF t
<1>7. CASE ~HasContext(e)
  <2>1. ~Sent(s) BY <1>1, <1>7 DEF Sent
  <2>2. Op(t) = s.operations + 1 BY <1>4, <1>5, <1>7 DEF Op
  <2>3. s.operations < Op(t) BY <2>2, <1>1
  <2>4. s.operations <= t.operations /\ s.acknowledged <= t.acknowledged BY <1>1, <1>3, <1>7
  <2> QED BY <2>1, <2>3, <2>4, <1>3 DEF Calm, Keeps, Moves, t
<1> QED BY <1>6, <1>7

LEMMA PumpIsCalm == ASSUME NEW s, NEW R, NEW X, Good(s, R) PROVE Calm(s, Pump(s), X)
<1> DEFINE t == Pump(s)
<1>1. DOMAIN s = Fields /\ (s.entries = <<>> <=> Len(s.entries) = 0)
  BY HeadFacts, SeqLen DEF Shaped
<1>2. \/ t = s
      \/ \E b \in BOOLEAN : t = [s EXCEPT !.timer = b]
      \/ t = Send(s) /\ Len(s.entries) # 0
  BY <1>1 DEF Pump
<1>3. CASE t = s BY <1>3, SameEntriesCalm
<1>4. ASSUME NEW b \in BOOLEAN, t = [s EXCEPT !.timer = b] PROVE Calm(s, t, X)
  <2>1. /\ t.entries = s.entries /\ t.operations = s.operations
        /\ t.acknowledged = s.acknowledged
        /\ t.sequence = s.sequence /\ t.discarded = s.discarded
    BY <1>1, <1>4 DEF Fields
  <2> QED BY <2>1, SameEntriesCalm
<1>5. CASE t = Send(s) /\ Len(s.entries) # 0 BY <1>5, SendIsCalm
<1> QED BY <1>2, <1>3, <1>4, <1>5

LEMMA SettleIsCalm ==
    ASSUME NEW s, NEW R, NEW X, NEW F, NEW outcome, Good(s, R)
    PROVE  Calm(s, Settle(s, F, outcome), X)
<1> DEFINE t == Settle(s, F, outcome)
<1>1. DOMAIN s = Fields BY HeadFacts DEF Shaped
<1>2. /\ t.entries = s.entries /\ t.operations = s.operations
      /\ t.acknowledged = s.acknowledged
      /\ t.sequence = s.sequence /\ t.discarded = s.discarded
  BY <1>1 DEF Fields, Settle
<1> HIDE DEF t
<1> QED BY <1>2, SameEntriesCalm DEF t

LEMMA FailIsCalm ==
    ASSUME NEW s, NEW R, NEW X, NEW first, Good(s, R) PROVE Calm(s, Fail(s, first), X)
<1> DEFINE u == [s EXCEPT !.active = FALSE, !.error = TRUE]
           t == Settle(u, Flushes(s, "waiting"), "rejected")
<1>1. DOMAIN s = Fields BY HeadFacts DEF Shaped
<1>2. Same(s, u) BY <1>1, HeadFacts DEF Shaped, Fields, Same
<1>3. Good(u, R) BY <1>2, SameIsQuiet DEF Quiet
<1>4. Calm(s, u, X) BY <1>2, SameIsCalm
<1> HIDE DEF u
<1>5. Calm(u, t, X) BY <1>3, SettleIsCalm
<1>6. CASE Fail(s, first) = s
  <2>1. Calm(s, s, X) BY SameEntriesCalm
  <2> QED BY <2>1, <1>6
<1>7. CASE Fail(s, first) = t
  <2>1. Good(t, R) BY <1>7, FailIsQuiet DEF Quiet
  <2> QED BY <2>1, <1>3, <1>4, <1>5, <1>7, CalmThenCalm
<1> QED BY <1>6, <1>7 DEF Fail, u

\* The head of s, and of u, leaves; none of the others was sent.
LEMMA ShiftMoves ==
    ASSUME NEW s, NEW u, NEW R, NEW X, Good(s, R), Len(s.entries) # 0, Sent(s) => Op(s) \in X,
           DOMAIN u = Fields, u.entries = s.entries, u.operations = s.operations
    PROVE  /\ Moves(s, Shift(u), X)
           /\ Shift(u).acknowledged = s.entries[1].last
           /\ Shift(u).sequence = u.sequence /\ Shift(u).discarded = u.discarded
           /\ Shift(u).sent = u.sent
<1> DEFINE e == s.entries[1]
           v == [u EXCEPT !.entries = Tail(@), !.active = FALSE,
                          !.acknowledged = Head(u.entries).last, !.pumpDue = TRUE]
           t == Shift(u)
           n == Len(s.entries)
<1>1. /\ Head(u.entries) = e
      /\ n \in Nat /\ s.acknowledged \in Nat /\ s.operations \in Nat
      /\ e.first \in Nat /\ e.last \in Nat
      /\ e.first = s.acknowledged + 1 /\ e.first <= e.last
  BY HeadFacts
<1>2. t = Settle(v, Reached(v), "resolved") BY DEF Shift
<1> HIDE DEF t, e, n
<1>3. /\ t.entries = Tail(s.entries) /\ t.operations = s.operations
      /\ t.acknowledged = e.last
      /\ t.sequence = u.sequence /\ t.discarded = u.discarded /\ t.sent = u.sent
  <2>1. /\ DOMAIN v = Fields /\ v.entries = Tail(s.entries) /\ v.operations = s.operations
        /\ v.acknowledged = e.last
        /\ v.sequence = u.sequence /\ v.discarded = u.discarded /\ v.sent = u.sent
    BY <1>1 DEF Fields
  <2> HIDE DEF v
  <2>2. /\ t.entries = v.entries /\ t.operations = v.operations
        /\ t.acknowledged = v.acknowledged
        /\ t.sequence = v.sequence /\ t.discarded = v.discarded /\ t.sent = v.sent
    BY <2>1, <1>2 DEF Settle, Fields
  <2> QED BY <2>1, <2>2
<1>4. ~Sent(t)
  <2>1. /\ Len(t.entries) = n - 1
        /\ \A i \in 1..n - 1 : t.entries[i] = s.entries[i + 1]
    BY <1>3, TailSeq, HeadFacts DEF n
  <2>2. SUFFICES ASSUME Len(t.entries) # 0 PROVE ~HasContext(t.entries[1]) BY DEF Sent
  <2>3. n # 0 /\ n - 1 # 0 BY <2>1, <2>2 DEF n
  <2>4. 1 \in 1..n - 1 /\ 1 + 1 \in 1..n /\ 1 + 1 # 1 BY <2>3, <1>1
  <2>5. \A i \in 1..n : i # 1 => ~HasContext(s.entries[i]) BY DEF Good, HeadIsSent, n
  <2> QED BY <2>1, <2>4, <2>5
<1>5. s.acknowledged <= t.acknowledged /\ e.last <= t.acknowledged BY <1>1, <1>3
<1> QED BY <1>1, <1>3, <1>4, <1>5 DEF Moves, t, e

\* Only a commit under the head's id, which is settled then, makes it leave.
LEMMA AcceptKeeps ==
    ASSUME NEW s, NEW first, NEW op, NEW throws, NEW X, Good(s, receipts),
           op \in DOMAIN receipts, DOMAIN receipts \subseteq X
    PROVE  Keeps(s, Accept(s, first, op, throws), X)
<1> DEFINE v == Note(s, op)
           t == [v EXCEPT !.received = @ \union {receipts[op].revision},
                          !.projected = Append(@, op)]
           u == Accept(s, first, op, throws)
<1>1. Shaped(s) /\ Good(u, receipts) BY AcceptIsQuiet DEF Good, Quiet
<1>2. \/ u = s \/ u = Fail(s, first) \/ u = Fail(v, first)
      \/ /\ u = Shift(t) /\ IsHead(s, first) /\ HasContext(Head(s.entries))
         /\ Head(s.entries).context.op = op
  BY DEF Accept
<1>3. Same(s, v) BY <1>1 DEF Shaped, Fields, Same, Note
<1>4. Same(s, t) BY <1>1 DEF Shaped, Fields, Same, Note
<1> HIDE DEF t, v, u
<1>5. Good(v, receipts) /\ Good(t, receipts) BY <1>3, <1>4, SameIsQuiet DEF Quiet
<1>6. Calm(s, v, X) /\ Calm(s, t, X) BY <1>3, <1>4, SameIsCalm
<1>7. CASE u = s BY <1>7, SameEntriesCalm DEF Calm, u
<1>8. CASE u = Fail(s, first) BY <1>8, FailIsCalm DEF Calm, u
<1>9. CASE u = Fail(v, first)
  <2>1. Calm(v, u, X) BY <1>5, <1>9, FailIsCalm
  <2> QED BY <2>1, <1>1, <1>5, <1>6, CalmThenCalm DEF Calm, u
<1>10. ASSUME u = Shift(t), IsHead(s, first), HasContext(Head(s.entries)),
              Head(s.entries).context.op = op
       PROVE  Keeps(s, u, X)
  <2>1. Len(s.entries) # 0 /\ Head(s.entries) = s.entries[1] BY <1>1, <1>10, HeadIs, HeadFacts
  <2>2. Op(s) \in X BY <2>1, <1>10 DEF Op
  <2> QED BY <2>1, <2>2, <1>4, <1>10, ShiftMoves DEF Keeps, Same
<1> QED BY <1>2, <1>7, <1>8, <1>9, <1>10 DEF u

LEMMA FlushPendingIsCalm ==
    ASSUME NEW s, NEW R, NEW X, NEW i, NEW n, Good(s, R), i \in Flushes(s, "chained")
    PROVE  Calm(s, FlushPending(s, i, n), X)
<1> DEFINE t == IF s.projections = <<>> THEN s ELSE Drain(s, n)
           through == t.flushes[i].through
           u == IF t.unsealed /\ t.entries[Len(t.entries)].first <= through THEN Seal(t) ELSE t
           v == [u EXCEPT
                  !.entries = [k \in DOMAIN u.entries |->
                     [u.entries[k] EXCEPT !.ready = @ \/ u.entries[k].first <= through]],
                  !.flushes[i].state = "waiting",
                  !.error = FALSE]
           r == FlushPending(s, i, n)
<1>1. r = Settle(t, {i}, "rejected") \/ r = Settle(t, {i}, "resolved") \/ r = Pump(v)
  BY DEF FlushPending
<1>2. Same(s, t) BY DrainIsSame DEF Good, Shaped, Same
<1> HIDE DEF t, r
<1>3. Good(t, R) BY <1>2, SameIsQuiet DEF Quiet
<1>4. Calm(s, t, X) BY <1>2, SameIsCalm
<1>5. Good(r, R) BY FlushPendingIsSafe DEF Safe, r
<1>6. CASE r = Settle(t, {i}, "rejected") \/ r = Settle(t, {i}, "resolved")
  <2>1. Calm(t, r, X) BY <1>3, <1>6, SettleIsCalm
  <2> QED BY <2>1, <1>3, <1>4, <1>5, CalmThenCalm DEF r
<1>7. CASE r = Pump(v)
  <2>1. Good(u, R) /\ Calm(t, u, X)
    <3>1. CASE u = Seal(t) BY <3>1, <1>3, SealIsQuiet, SealIsCalm DEF Quiet
    <3>2. CASE u = t BY <3>2, <1>3, SameEntriesCalm
    <3> QED BY <3>1, <3>2
  <2> HIDE DEF u
  <2>2. i \in Flushes(u, "chained") /\ Shaped(u)
    <3>1. Agree(t, u)  /\ u.flushes = t.flushes
      <4>1. Shaped(t) /\ (t.unsealed => Len(t.entries) # 0) BY <1>3 DEF Good, HeadIsSent
      <4> QED BY <4>1, SealAgrees, SameEntries DEF u, Agree, Shaped
    <3> QED BY <3>1, <2>1, <1>2 DEF Flushes, Same, Good
  <2> HIDE DEF through
  <2>3. Good(v, R) /\ Calm(u, v, X)
    <3>1. /\ Agree(u, v) /\ v.recovering = u.recovering /\ v.sent = u.sent
          /\ \A k \in 1..Len(u.entries) : v.entries[k].draft = u.entries[k].draft
      BY <2>2, WaitAgrees
    <3> HIDE DEF v
    <3>2. Good(v, R) BY <2>1, <3>1, AgreeIsQuiet DEF Quiet
    <3>3. Calm(u, v, X) BY <2>1, <3>1, AgreeIsCalm
    <3> QED BY <3>2, <3>3
  <2>4. Calm(v, Pump(v), X) BY <2>3, PumpIsCalm
  <2> QED BY <2>1, <2>3, <2>4, <1>3, <1>4, <1>5, <1>7, CalmThenCalm DEF r
<1> QED BY <1>1, <1>6, <1>7

-----------------------------------------------------------------------------
(* The order of the commits *)

\* The log has the own receipts, by their revisions.
LogIsTrue ==
    /\ Ranked(receipts) /\ committedRevision \in Nat
    /\ \A o \in DOMAIN receipts : /\ receipts[o].revision \in Int
                                  /\ receipts[o].revision <= committedRevision
    /\ UNION {Log(receipts)[i] : i \in DOMAIN Log(receipts)}
         = UNION {EditsIn(receipts, o) : o \in DOMAIN receipts}

\* What was committed is acknowledged or the head.
InOrder(s, R) ==
    \A o \in Own(R) : /\ o \in 1..s.operations
                      /\ EditsIn(R, o) \subseteq 1..s.acknowledged \/ (Sent(s) /\ Op(s) = o)

\* A commit under way that can still happen is of the head; X are the settled ids.
CommitIsOfHead(c, s, X) ==
    c.kind = "commit" /\ c.answer = "none" /\ c.context.op \notin X
      => Sent(s) /\ Op(s) = c.context.op

\* The answer "cancelled" is about a fenced id, C, and a head that is being
\* resolved keeps its id meanwhile.
ResolveIsOfHead(c, s, C) ==
    c.kind \in {"recover", "resolve"} /\ ~c.late
      => /\ c.answer \in {"none", "committed", "cancelled"}
         /\ c.answer = "cancelled" => c.context.op \in C
         /\ IsHead(s, c.entry) => /\ Sent(s) /\ Op(s) = c.context.op
                                  /\ c.kind = "recover" <=> IsRecords(s.entries[1])

CallFits(c, s, X, C) == CommitIsOfHead(c, s, X) /\ ResolveIsOfHead(c, s, C)

\* The ids the backend has settled.
SettledIds == DOMAIN receipts \cup cancelled

OrderInv ==
    /\ LogIsTrue
    /\ cancelled \cap DOMAIN receipts = {}
    /\ InOrder(q, receipts)
    /\ q.discarded \subseteq 1..q.acknowledged
    /\ \A c \in calls : CallFits(c, q, SettledIds, cancelled)

\* A step refines the queue and keeps what that rests on.
Refines == OrderInv' /\ [Promise!Next]_(Promise!vars)

\* A head that moves on is in order still.
LEMMA MovesInOrder ==
    ASSUME NEW s, NEW t, NEW R, NEW X, Good(s, R), Good(t, R), Moves(s, t, X), InOrder(s, R)
    PROVE  InOrder(t, R)
<1> SUFFICES ASSUME NEW o \in Own(R)
             PROVE  /\ o \in 1..t.operations
                    /\ EditsIn(R, o) \subseteq 1..t.acknowledged \/ (Sent(t) /\ Op(t) = o)
  BY DEF InOrder
<1>1. /\ s.operations <= t.operations /\ s.acknowledged <= t.acknowledged
      /\ s.operations \in Nat /\ t.operations \in Nat
      /\ s.acknowledged \in Nat /\ t.acknowledged \in Nat
  BY HeadFacts DEF Moves
<1>2. /\ o \in 1..s.operations
      /\ EditsIn(R, o) \subseteq 1..s.acknowledged \/ (Sent(s) /\ Op(s) = o)
  BY DEF InOrder
<1>3. o \in 1..t.operations BY <1>1, <1>2
<1>4. CASE EditsIn(R, o) \subseteq 1..s.acknowledged
  <2>1. \A x \in 1..s.acknowledged : x \in 1..t.acknowledged BY <1>1
  <2> QED BY <2>1, <1>3, <1>4
<1>5. CASE Sent(s) /\ Op(s) = o
  <2>1. CASE Stays(s, t) BY <2>1, <1>3, <1>5 DEF Stays
  <2>2. CASE s.entries[1].last <= t.acknowledged
    <3>1. EditsIn(R, o) = HeadEdits(s) BY <1>5 DEF Good, ReceiptIsTrue, Own
    <3>2. s.entries[1].first \in Nat /\ s.entries[1].last \in Nat
          /\ s.entries[1].first = s.acknowledged + 1
      BY <1>5, HeadFacts DEF Sent
    <3>3. \A x \in HeadEdits(s) : x \in 1..t.acknowledged BY <2>2, <3>2, <1>1 DEF HeadEdits
    <3> QED BY <3>1, <3>3, <1>3
  <2> QED BY <2>1, <2>2, <1>5 DEF Moves
<1> QED BY <1>2, <1>4, <1>5

\* A call that was under way fits the head that moved on.
LEMMA MovesFit ==
    ASSUME NEW s, NEW t, NEW R, NEW X, NEW C, Good(s, R), Good(t, R), Moves(s, t, X),
           NEW c, CallIsTrue(c, s, R), CallFits(c, s, X, C)
    PROVE  CallFits(c, t, X, C)
<1>1. /\ s.acknowledged <= t.acknowledged /\ c.entry \in Nat
      /\ s.acknowledged \in Nat /\ t.acknowledged \in Nat
  BY HeadFacts DEF Moves, CallIsTrue
<1>2. CommitIsOfHead(c, t, X)
  <2> SUFFICES ASSUME c.kind = "commit", c.answer = "none", c.context.op \notin X
               PROVE  Sent(t) /\ Op(t) = c.context.op
    BY DEF CommitIsOfHead
  <2>1. Sent(s) /\ Op(s) = c.context.op BY DEF CallFits, CommitIsOfHead
  <2>2. Stays(s, t) BY <2>1 DEF Moves
  <2> QED BY <2>1, <2>2 DEF Stays
<1>3. ASSUME IsHead(t, c.entry) PROVE IsHead(s, c.entry) /\ (Sent(s) => Stays(s, t))
  <2>1. Len(t.entries) # 0 /\ t.entries[1].first = c.entry BY <1>3, HeadIs DEF Good
  <2>2. c.entry = t.acknowledged + 1 BY <2>1, HeadFacts
  <2>3. ~(c.entry <= s.acknowledged) BY <2>2, <1>1
  <2>4. IsHead(s, c.entry) BY <2>3 DEF CallIsTrue
  <2>5. /\ s.entries[1].first = c.entry /\ s.entries[1].last \in Nat
        /\ s.entries[1].first <= s.entries[1].last
    BY <2>4, HeadIs, HeadFacts DEF Good
  <2>6. ~(s.entries[1].last <= t.acknowledged) BY <2>2, <2>5, <1>1
  <2> QED BY <2>4, <2>6 DEF Moves
<1>4. ResolveIsOfHead(c, t, C)
  <2>1. CASE ~IsHead(t, c.entry) BY <2>1 DEF CallFits, ResolveIsOfHead
  <2>2. CASE IsHead(t, c.entry) BY <2>2, <1>3 DEF CallFits, ResolveIsOfHead, Stays, IsRecords
  <2> QED BY <2>1, <2>2
<1> QED BY <1>2, <1>4 DEF CallFits

\* A call that goes out for the head fits it.
LEMMA CallOfHeadFits ==
    ASSUME NEW s, NEW R, NEW X, NEW C, NEW kind, Good(s, R), Sent(s),
           kind \in {"recover", "resolve"} => (kind = "recover" <=> IsRecords(s.entries[1]))
    PROVE  CallFits(Call(kind, s), s, X, C)
<1> DEFINE c == Call(kind, s)
<1>1. Head(s.entries) = s.entries[1] BY HeadFacts DEF Sent
<1>2. c.kind = kind /\ c.answer = "none" /\ c.context.op = Op(s) BY <1>1 DEF Call, Op
<1> HIDE DEF c
<1>3. CommitIsOfHead(c, s, X) BY <1>2 DEF CommitIsOfHead
<1>4. ResolveIsOfHead(c, s, C)
  <2>1. c.answer \in {"none", "committed", "cancelled"} /\ c.answer # "cancelled" BY <1>2
  <2> QED BY <2>1, <1>2 DEF ResolveIsOfHead
<1> QED BY <1>3, <1>4 DEF CallFits, c

-----------------------------------------------------------------------------
(* Steps of the coordinator *)

\* A step that leaves the file alone and accepts an edit or acknowledges some.
LEMMA QueueStep ==
    ASSUME IInv, IInv', OrderInv, receipts' = receipts, q'.discarded = q.discarded,
           \/ q'.sequence = q.sequence /\ q.acknowledged <= q'.acknowledged
           \/ q'.sequence = q.sequence + 1 /\ q'.acknowledged = q.acknowledged
    PROVE  [Promise!Next]_(Promise!vars)
<1>1. OwnLog' = OwnLog BY OwnLogIs, OwnLogWillBe
<1>2. CASE q'.sequence = q.sequence + 1 /\ q'.acknowledged = q.acknowledged
  <2>1. Promise!AcceptEdit BY <1>1, <1>2 DEF Promise!AcceptEdit
  <2> QED BY <2>1 DEF Promise!Next
<1>3. CASE q'.sequence = q.sequence /\ q.acknowledged = q'.acknowledged
  BY <1>1, <1>3 DEF Promise!vars
<1>4. CASE q'.sequence = q.sequence /\ q.acknowledged <= q'.acknowledged
           /\ q.acknowledged # q'.acknowledged
  <2> DEFINE n == q'.acknowledged
  <2>1. Good(q', receipts') /\ Good(q, receipts) BY DEF IInv
  <2>2. n \in Nat /\ q.acknowledged \in Nat /\ q.sequence \in Nat /\ n <= q.sequence
    BY <2>1, <1>4 DEF Good, Shaped, Chained
  <2>3. q.acknowledged < n /\ n \in 1..q.sequence BY <2>2, <1>4
  <2>4. 1..n \subseteq Promise!Settled
    <3>1. 1..n \subseteq (UNION {EditsIn(receipts, o) : o \in DOMAIN receipts}) \cup q.discarded
      BY <2>1 DEF Good, Saved
    <3>2. UNION {OwnLog[i] : i \in DOMAIN OwnLog}
            = UNION {EditsIn(receipts, o) : o \in DOMAIN receipts}
      BY OwnLogIs DEF OrderInv, LogIsTrue
    <3> QED BY <3>1, <3>2 DEF Promise!Settled
  <2>5. Promise!Acknowledge(n) BY <2>3, <2>4, <1>1, <1>4 DEF Promise!Acknowledge
  <2> QED BY <2>3, <2>5 DEF Promise!Next
<1> QED BY <1>2, <1>3, <1>4

\* A step that leaves the file alone and keeps the head in order.
LEMMA OrderKept ==
    ASSUME IInv, IInv', OrderInv, UNCHANGED file, Moves(q, q', SettledIds),
           q'.discarded \subseteq 1..q'.acknowledged,
           \A c \in calls' : \/ CallIsTrue(c, q, receipts) /\ CallFits(c, q, SettledIds, cancelled)
                             \/ CallFits(c, q', SettledIds, cancelled)
    PROVE  OrderInv'
<1>1. /\ Good(q, receipts) /\ Good(q', receipts)
      /\ receipts' = receipts /\ cancelled' = cancelled /\ committedRevision' = committedRevision
  BY DEF IInv, file
<1>2. LogIsTrue'
  <2>1. LogIsTrue BY DEF OrderInv
  <2> QED BY <2>1, <1>1 DEF LogIsTrue
<1>3. InOrder(q', receipts) BY <1>1, MovesInOrder DEF OrderInv
<1>4. \A c \in calls' : CallFits(c, q', SettledIds, cancelled)
  BY <1>1, MovesFit
<1>5. SettledIds' = SettledIds BY <1>1 DEF SettledIds
<1> QED BY <1>1, <1>2, <1>3, <1>4, <1>5 DEF OrderInv

LEMMA KeptSteps ==
    ASSUME IInv, IInv', OrderInv, UNCHANGED file, Keeps(q, q', SettledIds),
           \A c \in calls' : \/ CallIsTrue(c, q, receipts) /\ CallFits(c, q, SettledIds, cancelled)
                             \/ CallFits(c, q', SettledIds, cancelled)
    PROVE  Refines
<1>1. /\ q'.sequence = q.sequence /\ q.acknowledged <= q'.acknowledged
      /\ q'.discarded = q.discarded /\ Moves(q, q', SettledIds)
  BY DEF Keeps, Moves
<1>2. q'.discarded \subseteq 1..q'.acknowledged
  <2>1. q.acknowledged \in Nat /\ q'.acknowledged \in Nat BY HeadFacts DEF IInv
  <2>2. \A x \in 1..q.acknowledged : x \in 1..q'.acknowledged BY <2>1, <1>1
  <2> QED BY <2>2, <1>1 DEF OrderInv
<1>3. OrderInv' BY <1>1, <1>2, OrderKept
<1>4. [Promise!Next]_(Promise!vars) BY <1>1, QueueStep DEF file
<1> QED BY <1>3, <1>4 DEF Refines

\* The commit that a handler sends fits the head.
LEMMA BecomesFits ==
    ASSUME IInv, IInv', OrderInv, NEW t, NEW others, Becomes(t, others),
           t.sent # q.sent => Sent(t), UNCHANGED file,
           \A c \in others : CallIsTrue(c, q, receipts) /\ CallFits(c, q, SettledIds, cancelled)
    PROVE  \A c \in calls' : \/ CallIsTrue(c, q, receipts) /\ CallFits(c, q, SettledIds, cancelled)
                             \/ CallFits(c, q', SettledIds, cancelled)
<1>1. q' = t /\ calls' \subseteq others \cup {Call("commit", t)} BY DEF Becomes
<1>2. t.sent = q.sent => calls' = others BY DEF Becomes
<1>3. Good(t, receipts) BY <1>1 DEF IInv, file
<1>4. Sent(t) => CallFits(Call("commit", t), t, SettledIds, cancelled)
  BY <1>3, CallOfHeadFits
<1> QED BY <1>1, <1>2, <1>4

LEMMA CallsAreFit ==
    ASSUME IInv, OrderInv
    PROVE  \A c \in calls : CallIsTrue(c, q, receipts) /\ CallFits(c, q, SettledIds, cancelled)
BY DEF IInv, CallsAreTrue, OrderInv

\* A handler that keeps the head in order, by calls that were under way.
LEMMA HandlerKeeps ==
    ASSUME IInv, IInv', OrderInv, NEW t, NEW others, Becomes(t, others), UNCHANGED file,
           others \subseteq calls, t.sent # q.sent => Sent(t), Keeps(q, t, SettledIds)
    PROVE  Refines
<1>1. \A c \in others : CallIsTrue(c, q, receipts) /\ CallFits(c, q, SettledIds, cancelled)
  BY CallsAreFit
<1>2. q' = t BY DEF Becomes
<1> QED BY <1>1, <1>2, BecomesFits, KeptSteps

\* A record that agrees with q on what counts, and then pump.
LEMMA PumpKeeps ==
    ASSUME IInv, IInv', OrderInv, NEW t, Quiet(q, t, receipts), Calm(q, t, SettledIds),
           Becomes(Pump(t), calls), UNCHANGED file
    PROVE  Refines
<1>1. Good(q, receipts) /\ Good(t, receipts) /\ t.sent = q.sent BY DEF IInv, Quiet
<1>2. Safe(t, Pump(t), receipts) BY <1>1, PumpIsSafe
<1>3. Calm(t, Pump(t), SettledIds) BY <1>1, PumpIsCalm
<1>4. Keeps(q, Pump(t), SettledIds) BY <1>1, <1>2, <1>3, KeepsThenKeeps DEF Calm, Safe
<1>5. Pump(t).sent # q.sent => Sent(Pump(t)) BY <1>1, <1>2 DEF Safe
<1> QED BY <1>4, <1>5, HandlerKeeps

-----------------------------------------------------------------------------
(* Edits *)

\* An edit was added that the head has no part in, if it was sent.
LEMMA EditSteps ==
    ASSUME IInv, IInv', OrderInv, NEW t, Quiet(q, t, receipts), Moves(q, t, SettledIds),
           t.sequence = q.sequence + 1, t.acknowledged = q.acknowledged,
           t.discarded = q.discarded, Becomes(Pump(t), calls), UNCHANGED file
    PROVE  Refines
<1> DEFINE u == Pump(t)
<1>1. Good(q, receipts) /\ Good(t, receipts) /\ t.sent = q.sent BY DEF IInv, Quiet
<1>2. Safe(t, u, receipts) /\ Calm(t, u, SettledIds) BY <1>1, PumpIsSafe, PumpIsCalm
<1>3. q' = u BY DEF Becomes
<1> HIDE DEF u
<1>4. Moves(q, u, SettledIds) BY <1>1, <1>2, MovesThenMoves DEF Calm, Keeps, Safe
<1>5. /\ u.sequence = q.sequence + 1 /\ u.acknowledged = q.acknowledged
      /\ u.discarded = q.discarded
  BY <1>2 DEF Calm, Keeps
<1>6. u.sent # q.sent => Sent(u) BY <1>1, <1>2 DEF Safe
<1>7. \A c \in calls' : \/ CallIsTrue(c, q, receipts) /\ CallFits(c, q, SettledIds, cancelled)
                        \/ CallFits(c, q', SettledIds, cancelled)
  BY <1>6, CallsAreFit, BecomesFits DEF u
<1>8. OrderInv' BY <1>3, <1>4, <1>5, <1>7, OrderKept DEF OrderInv
<1>9. [Promise!Next]_(Promise!vars) BY <1>3, <1>5, QueueStep DEF file
<1> QED BY <1>8, <1>9 DEF Refines

LEMMA HeadStays ==
    ASSUME NEW s, NEW t, NEW R, NEW X, Good(s, R),
           t.operations = s.operations, t.acknowledged = s.acknowledged,
           Sent(t) <=> Sent(s), Sent(s) => t.entries[1] = s.entries[1]
    PROVE  Moves(s, t, X)
<1>1. s.operations \in Nat /\ s.acknowledged \in Nat BY HeadFacts
<1>2. Sent(s) => Stays(s, t) BY DEF Stays, Op
<1> QED BY <1>1, <1>2 DEF Moves

LEMMA ExtendsMoves ==
    ASSUME NEW s, NEW t, NEW e, NEW R, NEW X, Good(s, R), e.context = NoContext,
           t.entries = Append(s.entries, e),
           t.operations = s.operations, t.acknowledged = s.acknowledged
    PROVE  Moves(s, t, X)
<1> DEFINE n == Len(s.entries)
<1>1. n \in Nat /\ IsSeq(s.entries) BY HeadFacts
<1>2. /\ Len(t.entries) = n + 1 /\ t.entries[n + 1] = e
      /\ \A i \in 1..n : t.entries[i] = s.entries[i]
  BY <1>1, AppendSeq
<1> HIDE DEF n
<1>3. CASE n = 0 BY <1>2, <1>3, HeadStays DEF Sent, HasContext, n
<1>4. CASE n # 0
  <2>1. 1 \in 1..n /\ n + 1 # 0 BY <1>1, <1>4
  <2> QED BY <2>1, <1>2, <1>4, HeadStays DEF Sent, n
<1> QED BY <1>3, <1>4

LEMMA CoalesceMoves ==
    ASSUME NEW s, NEW d, NEW expected, NEW R, NEW X, Good(s, R), s.unsealed
    PROVE  /\ Moves(s, Coalesce(s, d, expected), X)
           /\ Coalesce(s, d, expected).sequence = s.sequence + 1
           /\ Coalesce(s, d, expected).acknowledged = s.acknowledged
           /\ Coalesce(s, d, expected).discarded = s.discarded
<1> DEFINE n == Len(s.entries)
           t == Coalesce(s, d, expected)
           w == s.entries[n].draft.documents
           W == [x \in DOMAIN w \union {d} |->
                  IF x # d THEN w[x]
                  ELSE [expected |-> IF d \in DOMAIN w THEN w[d].expected ELSE expected,
                        body |-> s.sequence + 1]]
           a == [s EXCEPT !.sequence = @ + 1]
           b == [a EXCEPT !.entries[n].last = s.sequence + 1]
<1>1. /\ n \in Nat /\ n # 0 /\ n \in 1..n /\ 1 \in 1..n /\ DOMAIN s.entries = 1..n
      /\ DOMAIN s = Fields /\ \A i \in 1..n : DOMAIN s.entries[i] = EntryFields
  BY HeadFacts DEF Good, HeadIsSent, Shaped
<1>2. t = [b EXCEPT !.entries[n].draft.documents = W] BY DEF Coalesce
<1> HIDE DEF n, W
<1>3. /\ DOMAIN b = Fields /\ b.entries = [s.entries EXCEPT ![n].last = s.sequence + 1]
      /\ b.sequence = s.sequence + 1 /\ b.operations = s.operations
      /\ b.acknowledged = s.acknowledged /\ b.discarded = s.discarded
  BY <1>1 DEF Fields
<1> HIDE DEF a, b, t
<1>4. /\ t.entries = [b.entries EXCEPT ![n].draft.documents = W]
      /\ t.sequence = s.sequence + 1 /\ t.operations = s.operations
      /\ t.acknowledged = s.acknowledged /\ t.discarded = s.discarded
  BY <1>2, <1>3 DEF Fields
<1>5. /\ DOMAIN b.entries = 1..n /\ DOMAIN t.entries = 1..n
      /\ n # 1 => t.entries[1] = s.entries[1]
      /\ n = 1 => t.entries[1].context = s.entries[1].context
  BY <1>1, <1>3, <1>4 DEF EntryFields
<1>6. Len(t.entries) = n
  <2>1. t.entries = [i \in 1..n |-> t.entries[i]] BY <1>1, <1>3, <1>4
  <2> QED BY <2>1, <1>1, SeqOf
<1>7. n = 1 => ~Sent(s) BY DEF Good, HeadIsSent, Open, n
<1>8. Sent(t) <=> Sent(s) BY <1>1, <1>5, <1>6 DEF Sent, HasContext, n
<1>9. Moves(s, t, X) BY <1>4, <1>5, <1>7, <1>8, HeadStays
<1> QED BY <1>4, <1>9 DEF t

LEMMA EnqueueDocumentRefines ==
    ASSUME IInv, IInv', OrderInv, NEW d, NEW e, EnqueueDocument(d, e) PROVE Refines
<1> DEFINE draft == [NoDraft EXCEPT !.documents =
                       [x \in {d} |-> [expected |-> e, body |-> q.sequence + 1]]]
           entry == [first |-> q.sequence + 1, last |-> q.sequence + 1, ready |-> FALSE,
                     draft |-> draft, context |-> NoContext, request |-> NoMap]
           u == [NewEntry(q, FALSE, draft) EXCEPT !.unsealed = TRUE]
           t == IF q.unsealed THEN Coalesce(q, d, e) ELSE u
<1>1. /\ ~q.closed /\ ~q.closing /\ q.sequence < MaxEdits /\ Becomes(Pump(t), calls)
      /\ UNCHANGED file
  BY DEF EnqueueDocument, Editable
<1>2. Good(q, receipts) BY DEF IInv
<1>3. CASE q.unsealed
  <2>1. Quiet(q, t, receipts) BY <1>1, <1>2, <1>3, CoalesceIsQuiet
  <2>2. /\ Moves(q, t, SettledIds) /\ t.sequence = q.sequence + 1
        /\ t.acknowledged = q.acknowledged /\ t.discarded = q.discarded
    BY <1>2, <1>3, CoalesceMoves
  <2> QED BY <2>1, <2>2, <1>1, EditSteps
<1>4. CASE ~q.unsealed
  <2> HIDE DEF draft
  <2>1. /\ DOMAIN u = Fields /\ u.entries = Append(q.entries, entry) /\ u.unsealed \in BOOLEAN
        /\ u.sequence = q.sequence + 1 /\ u.acknowledged = q.acknowledged
        /\ u.operations = q.operations /\ u.discarded = q.discarded
        /\ u.recovering = q.recovering /\ u.sent = q.sent /\ u.flushes = q.flushes
        /\ u.closing = q.closing /\ u.closed = q.closed
    BY <1>2 DEF Good, Shaped, Fields, NewEntry
  <2>2. /\ DOMAIN entry = EntryFields /\ entry.first = q.sequence + 1
        /\ entry.last = q.sequence + 1 /\ entry.context = NoContext
    BY DEF EntryFields
  <2> HIDE DEF u, entry
  <2>3. Quiet(q, u, receipts) BY <2>1, <2>2, <1>1, <1>2, <1>4, ExtendsIsQuiet
  <2>4. Moves(q, u, SettledIds) BY <2>1, <2>2, <1>2, ExtendsMoves
  <2> QED BY <2>1, <2>3, <2>4, <1>1, <1>4, EditSteps
<1> QED BY <1>3, <1>4

LEMMA SubmitRefines ==
    ASSUME IInv, IInv', OrderInv, NEW draft, Submit(draft) PROVE Refines
<1> DEFINE s == Seal(q)
           entry == [first |-> s.sequence + 1, last |-> s.sequence + 1, ready |-> TRUE,
                     draft |-> draft, context |-> NoContext, request |-> NoMap]
           t == NewEntry(s, TRUE, draft)
<1>1. /\ ~q.closed /\ ~q.closing /\ q.sequence < MaxEdits /\ Becomes(Pump(t), calls)
      /\ UNCHANGED file
  BY DEF Submit, Editable
<1>2. Good(q, receipts) BY DEF IInv
<1>3. Quiet(q, s, receipts) /\ ~s.unsealed /\ Calm(q, s, SettledIds)
  BY <1>2, SealIsQuiet, SealIsCalm
<1>4. s.closed = q.closed /\ s.closing = q.closing /\ s.sequence = q.sequence
  BY <1>2, SealAgrees DEF Good, HeadIsSent, Agree
<1> HIDE DEF s
<1>5. Good(s, receipts) BY <1>3 DEF Quiet
<1>6. /\ DOMAIN t = Fields /\ t.entries = Append(s.entries, entry) /\ t.unsealed = s.unsealed
      /\ t.sequence = s.sequence + 1 /\ t.acknowledged = s.acknowledged
      /\ t.operations = s.operations /\ t.discarded = s.discarded
      /\ t.recovering = s.recovering /\ t.sent = s.sent /\ t.flushes = s.flushes
      /\ t.closing = s.closing /\ t.closed = s.closed
  BY <1>5 DEF Good, Shaped, Fields, NewEntry
<1>7. s.unsealed \in BOOLEAN BY <1>5 DEF Good, Shaped
<1>8. /\ DOMAIN entry = EntryFields /\ entry.first = s.sequence + 1
      /\ entry.last = s.sequence + 1 /\ entry.context = NoContext
  BY DEF EntryFields
<1> HIDE DEF t, entry
<1>9. Quiet(s, t, receipts) BY <1>1, <1>3, <1>4, <1>5, <1>6, <1>7, <1>8, ExtendsIsQuiet
<1>10. Moves(s, t, SettledIds) BY <1>5, <1>6, <1>8, ExtendsMoves
<1>11. Quiet(q, t, receipts) /\ Moves(q, t, SettledIds)
  BY <1>2, <1>3, <1>5, <1>9, <1>10, QuietThenQuiet, MovesThenMoves DEF Calm, Keeps, Quiet
<1>12. /\ t.sequence = q.sequence + 1 /\ t.acknowledged = q.acknowledged
       /\ t.discarded = q.discarded
  BY <1>3, <1>6 DEF Calm, Keeps
<1> QED BY <1>1, <1>11, <1>12, EditSteps DEF t, s

LEMMA CaptureBarrierRefines ==
    ASSUME IInv, IInv', OrderInv, CaptureBarrier PROVE Refines
<1>1. Good(q, receipts) /\ Becomes(Seal(q), calls) /\ UNCHANGED file
  BY DEF IInv, CaptureBarrier
<1>2. Quiet(q, Seal(q), receipts) /\ Calm(q, Seal(q), SettledIds)
  BY <1>1, SealIsQuiet, SealIsCalm
<1> QED BY <1>1, <1>2, HandlerKeeps DEF Calm, Quiet

-----------------------------------------------------------------------------
(* Flushes *)

\* A flush of the record s, which has the calls and flushes of q.
LEMMA FlushThroughRefines ==
    ASSUME IInv, IInv', OrderInv, NEW s, NEW through \in Nat, NEW closes \in BOOLEAN, NEW n,
           NEW r, Quiet(q, r, receipts), Calm(q, r, SettledIds),
           IF closes THEN /\ ~r.closing /\ s = [r EXCEPT !.closing = TRUE]
                          /\ through = r.sequence
                     ELSE s = r,
           FlushThrough(s, through, closes, n), UNCHANGED file
    PROVE  Refines
<1> DEFINE f == [through |-> through, closes |-> closes, state |-> "chained"]
           t == [s EXCEPT !.flushes = Append(@, f)]
           u == [t EXCEPT !.active = TRUE, !.recovering = TRUE, !.sent = @ + 1]
           i == Len(s.flushes) + 1
<1>1. /\ Good(q, receipts) /\ Good(r, receipts) /\ Good(q', receipts)
      /\ r.sent = q.sent /\ r.recovering = q.recovering
  BY DEF Quiet, IInv, file
<1>2. DOMAIN r = Fields BY <1>1 DEF Good, Shaped
<1>3. /\ DOMAIN s = Fields /\ s.entries = r.entries /\ s.unsealed = r.unsealed
      /\ s.sequence = r.sequence /\ s.acknowledged = r.acknowledged
      /\ s.operations = r.operations /\ s.discarded = r.discarded
      /\ s.recovering = r.recovering /\ s.sent = r.sent /\ s.flushes = r.flushes
      /\ IF closes THEN s.closing = TRUE ELSE s.closing = r.closing
      /\ s.closed = r.closed
  BY <1>2 DEF Fields
<1>4. /\ Len(s.flushes) < MaxFlushes
      /\ \/ Recoverable(s, through) /\ q' = u /\ calls' = calls \union {Call("recover", u)}
         \/ q' = t /\ calls' = calls
         \/ Becomes(FlushPending(t, i, n), calls)
  BY DEF FlushThrough
<1>5. /\ DOMAIN t = Fields /\ t.entries = r.entries /\ t.unsealed = r.unsealed
      /\ t.sequence = r.sequence /\ t.acknowledged = r.acknowledged
      /\ t.operations = r.operations /\ t.discarded = r.discarded
      /\ t.recovering = r.recovering /\ t.sent = r.sent /\ t.flushes = Append(r.flushes, f)
      /\ t.closing = s.closing /\ t.closed = r.closed
  BY <1>3 DEF Fields
<1>6. /\ DOMAIN u = Fields /\ u.entries = r.entries
      /\ u.sequence = r.sequence /\ u.acknowledged = r.acknowledged
      /\ u.operations = r.operations /\ u.discarded = r.discarded
  BY <1>5 DEF Fields
<1> HIDE DEF t, u
<1>7. r.sent \in Nat /\ r.recovering \in BOOLEAN BY <1>1 DEF Good, Shaped
<1>8. Good(t, receipts)
  <2>1. /\ t.recovering \in BOOLEAN /\ t.sent \in Nat /\ Good(r, receipts)
        /\ Len(r.flushes) < MaxFlushes
    BY <1>1, <1>3, <1>4, <1>5, <1>7
  <2>2. IF closes THEN ~r.closing /\ t.closing = TRUE /\ through = r.sequence
                  ELSE t.closing = r.closing
    BY <1>3, <1>5
  <2> QED BY <2>1, <2>2, <1>5, AddFlush
<1>9. Calm(r, t, SettledIds) /\ Calm(r, u, SettledIds)
  BY <1>1, <1>5, <1>6, SameEntriesCalm
<1>10. Calm(q, t, SettledIds) BY <1>1, <1>8, <1>9, CalmThenCalm
<1>11. ASSUME Recoverable(s, through), q' = u, calls' = calls \union {Call("recover", u)}
       PROVE  Refines
  <2>1. Sent(u) /\ IsRecords(u.entries[1])
    <3>1. /\ s.entries # <<>> /\ HasContext(Head(s.entries)) /\ IsRecords(Head(s.entries))
      BY <1>11 DEF Recoverable
    <3>2. Len(r.entries) # 0 /\ Head(s.entries) = r.entries[1]
      BY <3>1, <1>1, <1>3, HeadFacts, SeqLen
    <3> QED BY <3>1, <3>2, <1>6 DEF Sent
  <2>2. CallFits(Call("recover", u), u, SettledIds, cancelled)
    BY <2>1, <1>1, <1>11, CallOfHeadFits
  <2>3. Keeps(q, u, SettledIds) BY <1>1, <1>9, <1>11, CalmThenCalm DEF Calm
  <2> QED BY <2>2, <2>3, <1>11, CallsAreFit, KeptSteps
<1>12. ASSUME q' = t, calls' = calls PROVE Refines
  BY <1>10, <1>12, CallsAreFit, KeptSteps DEF Calm
<1>13. ASSUME Becomes(FlushPending(t, i, n), calls) PROVE Refines
  <2> DEFINE v == FlushPending(t, i, n)
  <2>1. i \in Flushes(t, "chained")
    <3>1. IsSeq(r.flushes) /\ Len(r.flushes) \in Nat BY <1>1, SeqLen DEF Good, Shaped
    <3>2. IsSeq(t.flushes) /\ Len(t.flushes) = i /\ t.flushes[i] = f
      BY <3>1, <1>3, <1>5, AppendSeq
    <3>3. i \in DOMAIN t.flushes BY <3>1, <3>2, <1>3, SeqLen
    <3> QED BY <3>2, <3>3 DEF Flushes
  <2>2. Safe(t, v, receipts) /\ Calm(t, v, SettledIds)
    BY <2>1, <1>8, FlushPendingIsSafe, FlushPendingIsCalm
  <2>3. Becomes(v, calls) BY <1>13
  <2> HIDE DEF v
  <2>4. Keeps(q, v, SettledIds) BY <2>2, <1>1, <1>8, <1>10, CalmThenCalm DEF Calm, Safe
  <2>5. v.sent # q.sent => Sent(v) BY <2>2, <1>1, <1>5 DEF Safe
  <2> QED BY <2>3, <2>4, <2>5, HandlerKeeps
<1> QED BY <1>4, <1>11, <1>12, <1>13

LEMMA FlushRefines ==
    ASSUME IInv, IInv', OrderInv, NEW through \in 1..MaxEdits, NEW n, Flush(through, n)
    PROVE  Refines
<1>1. Quiet(q, q, receipts) BY DEF IInv, Quiet, CallsKeep
<1>2. Calm(q, q, SettledIds) BY SameEntriesCalm DEF IInv
<1>3. through \in Nat BY AutosaveBounds
<1>4. FlushThrough(q, through, FALSE, n) /\ UNCHANGED file BY DEF Flush
<1> QED BY <1>1, <1>2, <1>3, <1>4, FlushThroughRefines

LEMMA CloseRefines == ASSUME IInv, IInv', OrderInv, NEW n, Close(n) PROVE Refines
<1> DEFINE r == Seal(q)
           s == [r EXCEPT !.closing = TRUE]
<1>1. Good(q, receipts) BY DEF IInv
<1>2. Quiet(q, r, receipts) /\ Calm(q, r, SettledIds) BY <1>1, SealIsQuiet, SealIsCalm
<1>3. r.closing = q.closing /\ r.sequence = q.sequence
  BY <1>1, SealAgrees DEF Good, HeadIsSent, Agree
<1>4. q.sequence \in Nat BY <1>1 DEF Good, Shaped
<1>5. FlushThrough(s, q.sequence, TRUE, n) /\ ~q.closing /\ UNCHANGED file
  BY DEF Close
<1> HIDE DEF r
<1> QED BY <1>2, <1>3, <1>4, <1>5, FlushThroughRefines

LEMMA FlushGoesOnRefines ==
    ASSUME IInv, IInv', OrderInv, NEW n, FlushGoesOn(n) PROVE Refines
<1> DEFINE least(i) == \A j \in Flushes(q, "chained") : i <= j
           i == CHOOSE i \in Flushes(q, "chained") : least(i)
<1>1. /\ Flushes(q, "chained") # {} /\ Becomes(FlushPending(q, i, n), calls)
      /\ UNCHANGED file
  BY DEF FlushGoesOn
<1>2. Good(q, receipts) BY DEF IInv
<1>3. \E m \in Flushes(q, "chained") : least(m)
  <2>1. Flushes(q, "chained") \subseteq Nat
    BY <1>2, SeqLen DEF Good, Shaped, Flushes
  <2> QED BY <1>1, <2>1, LeastOf
<1> HIDE DEF least
<1>4. i \in Flushes(q, "chained") BY <1>3
<1> HIDE DEF i
<1>5. /\ Safe(q, FlushPending(q, i, n), receipts)
      /\ Calm(q, FlushPending(q, i, n), SettledIds)
  BY <1>2, <1>4, FlushPendingIsSafe, FlushPendingIsCalm
<1> QED BY <1>1, <1>5, HandlerKeeps DEF Safe, Calm

-----------------------------------------------------------------------------
(* The other steps of the coordinator *)

LEMMA ResolveFailedOperationRefines ==
    ASSUME IInv, IInv', OrderInv, ResolveFailedOperation PROVE Refines
<1> DEFINE s == [q EXCEPT !.active = TRUE, !.sent = @ + 1]
<1>1. /\ q.entries # <<>> /\ HasContext(Head(q.entries)) /\ ~IsRecords(Head(q.entries))
      /\ q' = s /\ calls' = calls \union {Call("resolve", s)} /\ UNCHANGED file
  BY DEF ResolveFailedOperation
<1>2. Good(q, receipts) /\ Good(s, receipts) BY <1>1 DEF IInv, file
<1>3. DOMAIN q = Fields /\ Len(q.entries) # 0 /\ Head(q.entries) = q.entries[1]
  BY <1>1, <1>2, HeadFacts, SeqLen DEF Shaped
<1>4. /\ s.entries = q.entries /\ s.sequence = q.sequence /\ s.acknowledged = q.acknowledged
      /\ s.operations = q.operations /\ s.discarded = q.discarded
  BY <1>3 DEF Fields
<1> HIDE DEF s
<1>5. Calm(q, s, SettledIds) BY <1>2, <1>4, SameEntriesCalm
<1>6. Sent(s) /\ ~IsRecords(s.entries[1]) BY <1>1, <1>3, <1>4 DEF Sent
<1>7. CallFits(Call("resolve", s), s, SettledIds, cancelled) BY <1>2, <1>6, CallOfHeadFits
<1> QED BY <1>1, <1>5, <1>7, CallsAreFit, KeptSteps DEF Calm

LEMMA WindowElapsesRefines ==
    ASSUME IInv, IInv', OrderInv, WindowElapses PROVE Refines
<1> DEFINE n == Len(q.entries)
<1>1. /\ q.unsealed /\ q' = [q EXCEPT !.entries[n].ready = TRUE]
      /\ calls' = calls /\ UNCHANGED file
  BY DEF WindowElapses
<1>2. /\ Good(q, receipts) /\ Shaped(q) /\ n # 0 /\ n \in 1..n /\ DOMAIN q = Fields
      /\ DOMAIN q.entries = 1..n /\ 1 \in 1..n
  <2>1. Good(q, receipts) BY DEF IInv
  <2>2. Shaped(q) /\ n # 0 BY <2>1, <1>1 DEF Good, HeadIsSent
  <2>3. DOMAIN q = Fields BY <2>2 DEF Shaped
  <2>4. n \in Nat /\ DOMAIN q.entries = 1..n BY <2>2, SeqLen DEF Shaped
  <2> QED BY <2>1, <2>2, <2>3, <2>4
<1>3. /\ q'.entries = [q.entries EXCEPT ![n].ready = TRUE]
      /\ q'.sequence = q.sequence /\ q'.acknowledged = q.acknowledged
      /\ q'.operations = q.operations /\ q'.discarded = q.discarded
  BY <1>1, <1>2 DEF Fields
<1>4. EntriesAlike(q.entries, q'.entries) BY <1>2, <1>3, ReadyEntry
<1>5. q'.entries[1].draft = q.entries[1].draft
  <2>1. DOMAIN q.entries[1] = EntryFields BY <1>2 DEF Shaped
  <2> QED BY <2>1, <1>2, <1>3 DEF EntryFields
<1>6. Calm(q, q', SettledIds) BY <1>2, <1>3, <1>4, <1>5, SameHead DEF EntriesAlike
<1> QED BY <1>1, <1>6, CallsAreFit, KeptSteps DEF Calm

\* Records that are the same on what counts are pumped.
LEMMA SamePumpKeeps ==
    ASSUME IInv, IInv', OrderInv, NEW t, Same(q, t), Becomes(Pump(t), calls), UNCHANGED file
    PROVE  Refines
<1>1. Quiet(q, t, receipts) /\ Calm(q, t, SettledIds)
  BY SameIsQuiet, SameIsCalm DEF IInv
<1> QED BY <1>1, PumpKeeps

LEMMA TimerFiresRefines ==
    ASSUME IInv, IInv', OrderInv, TimerFires PROVE Refines
<1> DEFINE t == [q EXCEPT !.timer = FALSE]
<1>1. Becomes(Pump(t), calls) /\ UNCHANGED file BY DEF TimerFires
<1>2. Same(q, t) BY DEF IInv, Good, Shaped, Fields, Same
<1> HIDE DEF t
<1> QED BY <1>1, <1>2, SamePumpKeeps

LEMMA PumpLaterRefines ==
    ASSUME IInv, IInv', OrderInv, PumpLater PROVE Refines
<1> DEFINE t == [q EXCEPT !.pumpDue = FALSE]
<1>1. Becomes(Pump(t), calls) /\ UNCHANGED file BY DEF PumpLater
<1>2. Same(q, t) BY DEF IInv, Good, Shaped, Fields, Same
<1> HIDE DEF t
<1> QED BY <1>1, <1>2, SamePumpKeeps

\* A handler that accepts a commit or fails.
LEMMA AcceptRefines ==
    ASSUME IInv, IInv', OrderInv, NEW first, NEW op \in DOMAIN receipts, NEW throws,
           NEW others, others \subseteq calls,
           Becomes(Accept(q, first, op, throws), others), UNCHANGED file
    PROVE  Refines
<1>1. Good(q, receipts) /\ DOMAIN receipts \subseteq SettledIds BY DEF IInv, SettledIds
<1>2. Quiet(q, Accept(q, first, op, throws), receipts) BY <1>1, AcceptIsQuiet
<1>3. Keeps(q, Accept(q, first, op, throws), SettledIds) BY <1>1, AcceptKeeps
<1> QED BY <1>2, <1>3, HandlerKeeps DEF Quiet

LEMMA SettleCommitRefines ==
    ASSUME IInv, IInv', OrderInv, NEW c \in calls, NEW throws, SettleCommit(c, throws)
    PROVE  Refines
<1>1. CallIsTrue(c, q, receipts) /\ Good(q, receipts) BY DEF IInv, CallsAreTrue
<1>2. UNCHANGED file /\ calls \ {c} \subseteq calls BY DEF SettleCommit
<1>3. CASE c.answer = "committed"
  <2>1. Becomes(Accept(q, c.entry, c.context.op, throws), calls \ {c})
    BY <1>3 DEF SettleCommit
  <2> QED BY <2>1, <1>1, <1>2, <1>3, AcceptRefines DEF CallIsTrue
<1>4. CASE c.answer # "committed"
  <2>1. Becomes(Fail(q, c.entry), calls \ {c}) BY <1>4 DEF SettleCommit
  <2>2. Quiet(q, Fail(q, c.entry), receipts) /\ Calm(q, Fail(q, c.entry), SettledIds)
    BY <1>1, FailIsQuiet, FailIsCalm
  <2> QED BY <2>1, <2>2, <1>2, HandlerKeeps DEF Quiet, Calm
<1> QED BY <1>3, <1>4

LEMMA DeliverEventRefines ==
    ASSUME IInv, IInv', OrderInv, NEW op \in events, NEW throws, NEW n,
           DeliverEvent(op, throws, n)
    PROVE  Refines
<1> DEFINE r == receipts[op].revision
           s == [q EXCEPT !.received = @ \union {r}, !.revision = Larger(@, r),
                          !.projections = Append(@, op)]
<1>1. Good(q, receipts) /\ op \in DOMAIN receipts /\ UNCHANGED file
  BY DEF IInv, DeliverEvent
<1>2. \/ q' = q /\ calls' = calls
      \/ Becomes(Accept(q, Head(q.entries).first, op, throws), calls)
      \/ Becomes(Pump(Drain(s, n)), calls)
      \/ Becomes(Drain(s, n), calls)
  BY DEF DeliverEvent
<1>3. Same(q, s) BY <1>1 DEF Good, Shaped, Fields, Same
<1> HIDE DEF s
<1>4. Quiet(q, s, receipts) BY <1>1, <1>3, SameIsQuiet
<1>5. Same(q, Drain(s, n)) BY <1>3, <1>4, DrainIsSame DEF Quiet, Good, Same
<1>6. CASE q' = q /\ calls' = calls
  <2>1. Calm(q, q', SettledIds) BY <1>1, <1>6, SameEntriesCalm
  <2> QED BY <2>1, <1>1, <1>6, CallsAreFit, KeptSteps DEF Calm
<1>7. CASE Becomes(Accept(q, Head(q.entries).first, op, throws), calls)
  BY <1>1, <1>7, AcceptRefines
<1>8. CASE Becomes(Pump(Drain(s, n)), calls) BY <1>1, <1>5, <1>8, SamePumpKeeps
<1>9. CASE Becomes(Drain(s, n), calls)
  <2>1. Calm(q, Drain(s, n), SettledIds) BY <1>1, <1>5, SameIsCalm
  <2> QED BY <2>1, <1>1, <1>5, <1>9, HandlerKeeps DEF Same, Calm
<1> QED BY <1>2, <1>6, <1>7, <1>8, <1>9

LEMMA FailCallRefines ==
    ASSUME IInv, IInv', OrderInv, NEW c \in calls, FailCall(c) PROVE Refines
<1> DEFINE e == [c EXCEPT !.late = TRUE]
           v == [Unfenced(q, c.entry) EXCEPT !.recovering = FALSE]
           w == Fail(q, c.entry)
           t == IF c.kind = "recover" THEN v ELSE w
<1>1. Good(q, receipts) /\ UNCHANGED file BY DEF IInv, FailCall
<1>2. PICK others \in {calls \ {c}, (calls \ {c}) \union {e}} :
        (c.answer # "none" => others = calls \ {c}) /\ Becomes(t, others)
  BY DEF FailCall
<1>3. CallIsTrue(c, q, receipts) /\ CallFits(c, q, SettledIds, cancelled) BY CallsAreFit
<1>4. /\ DOMAIN e = CallFields /\ e.late = TRUE /\ e.kind = c.kind /\ e.entry = c.entry
      /\ e.context = c.context /\ e.request = c.request /\ e.answer = c.answer
  BY <1>3 DEF CallIsTrue, CallFields
<1> HIDE DEF e
<1>5. c.answer = "none" => CallIsTrue(e, q, receipts) BY <1>3, <1>4 DEF CallIsTrue
<1>6. CallFits(e, q, SettledIds, cancelled)
  BY <1>3, <1>4 DEF CallFits, CommitIsOfHead, ResolveIsOfHead
<1>7. \A x \in others : CallIsTrue(x, q, receipts) /\ CallFits(x, q, SettledIds, cancelled)
  BY <1>2, <1>5, <1>6, CallsAreFit
<1>8. Keeps(q, t, SettledIds) /\ t.sent = q.sent
  <2>1. CASE c.kind = "recover"
    <3>1. /\ v.entries = q.entries /\ v.sequence = q.sequence
          /\ v.acknowledged = q.acknowledged /\ v.operations = q.operations
          /\ v.discarded = q.discarded /\ v.sent = q.sent
      BY <1>1 DEF Good, Shaped, Fields, Unfenced
    <3> HIDE DEF v
    <3>2. Calm(q, v, SettledIds) BY <3>1, <1>1, SameEntriesCalm
    <3> QED BY <2>1, <3>1, <3>2 DEF Calm
  <2>2. CASE c.kind # "recover"
    <3>1. Quiet(q, w, receipts) /\ Calm(q, w, SettledIds) BY <1>1, FailIsQuiet, FailIsCalm
    <3> HIDE DEF w
    <3> QED BY <2>2, <3>1 DEF Calm, Quiet
  <2> QED BY <2>1, <2>2
<1> HIDE DEF t
<1>9. q' = t BY <1>2 DEF Becomes
<1>10. \A x \in calls' : \/ CallIsTrue(x, q, receipts) /\ CallFits(x, q, SettledIds, cancelled)
                         \/ CallFits(x, q', SettledIds, cancelled)
  BY <1>1, <1>2, <1>7, <1>8, BecomesFits
<1> QED BY <1>1, <1>8, <1>9, <1>10, KeptSteps

\* The recovered head loses its fenced id.
LEMMA FencedRefines ==
    ASSUME IInv, IInv', OrderInv, NEW c \in calls, c.kind = "recover", c.answer # "none",
           c.answer # "committed", IsHead(q, c.entry),
           Len(q'.entries) = Len(q.entries), q'.entries[1].first = q.entries[1].first,
           ~Sent(q'), q'.operations = q.operations, q'.acknowledged = q.acknowledged,
           q'.sequence = q.sequence, q'.discarded = q.discarded,
           calls' = calls \ {c}, UNCHANGED file
    PROVE  Refines
<1>1. /\ Good(q, receipts) /\ Good(q', receipts)
      /\ receipts' = receipts /\ cancelled' = cancelled /\ committedRevision' = committedRevision
  BY DEF IInv, file
<1>2. Recovers(c) /\ ~c.late BY DEF IInv, CallsAreTrue, CallIsTrue, Recovers
<1>3. /\ Sent(q) /\ Op(q) = c.context.op /\ c.context.op \in cancelled
      /\ IsRecords(q.entries[1])
  BY <1>2, CallsAreFit DEF CallFits, ResolveIsOfHead
<1>4. Op(q) \notin DOMAIN receipts /\ Op(q) \in SettledIds
  BY <1>3 DEF OrderInv, SettledIds
<1>5. LogIsTrue'
  <2>1. LogIsTrue BY DEF OrderInv
  <2> QED BY <2>1, <1>1 DEF LogIsTrue
<1>6. InOrder(q', receipts)
  BY <1>4 DEF OrderInv, InOrder, Own
<1>7. ASSUME NEW e \in calls \ {c} PROVE CallFits(e, q', SettledIds, cancelled)
  <2>1. CallFits(e, q, SettledIds, cancelled) BY CallsAreFit
  <2>2. CommitIsOfHead(e, q', SettledIds) BY <2>1, <1>4 DEF CallFits, CommitIsOfHead
  <2>3. IsHead(q', e.entry) => IsHead(q, e.entry) BY <1>1, HeadIs DEF Good
  <2>4. ~Recovers(e) BY <1>2 DEF IInv, CallsAreTrue, OneRecovery
  <2>5. ResolveIsOfHead(e, q', cancelled)
    BY <2>1, <2>3, <2>4, <1>3 DEF CallFits, ResolveIsOfHead, Recovers
  <2> QED BY <2>2, <2>5 DEF CallFits
<1>8. SettledIds' = SettledIds BY <1>1 DEF SettledIds
<1>9. OrderInv' BY <1>1, <1>5, <1>6, <1>7, <1>8 DEF OrderInv
<1>10. [Promise!Next]_(Promise!vars)
  <2>1. q.acknowledged <= q'.acknowledged BY <1>1, HeadFacts
  <2> QED BY <2>1, <1>1, QueueStep
<1> QED BY <1>9, <1>10 DEF Refines

LEMMA SettleRecoverRefines ==
    ASSUME IInv, IInv', OrderInv, NEW c \in calls, NEW throws, SettleRecover(c, throws)
    PROVE  Refines
<1> DEFINE a == Accept(q, c.entry, c.context.op, throws)
           b == Fenced(q, c.entry, c.revision)
           u == IF c.answer = "committed" THEN a ELSE b
           s == [u EXCEPT !.recovering = FALSE]
           t == IF IsHead(s, c.entry) /\ s.error
                THEN Settle(s, Flushes(s, "chained"), "rejected") ELSE s
<1>1. /\ CallIsTrue(c, q, receipts) /\ Good(q, receipts) /\ UNCHANGED file
      /\ c.kind = "recover" /\ c.answer # "none" /\ Becomes(t, calls \ {c})
  BY DEF IInv, CallsAreTrue, SettleRecover
<1>2. q' = t /\ Good(t, receipts) /\ calls \ {c} \subseteq calls BY <1>1 DEF Becomes, IInv, file
<1>3. c.answer = "committed" => Quiet(q, a, receipts) /\ Keeps(q, a, SettledIds)
  <2>1. DOMAIN receipts \subseteq SettledIds BY DEF SettledIds
  <2> QED BY <2>1, <1>1, AcceptIsQuiet, AcceptKeeps DEF CallIsTrue
<1>4. DOMAIN b = Fields /\ b.sent = q.sent BY <1>1 DEF Good, Shaped, Fields, Fenced
<1>5. DOMAIN u = Fields /\ u.sent = q.sent
  BY <1>3, <1>4 DEF Quiet, Good, Shaped
<1> HIDE DEF a, u
<1>6. /\ t.entries = u.entries /\ t.operations = u.operations
      /\ t.acknowledged = u.acknowledged /\ t.sequence = u.sequence
      /\ t.discarded = u.discarded /\ t.sent = u.sent
  <2>1. /\ DOMAIN s = Fields /\ s.entries = u.entries /\ s.operations = u.operations
        /\ s.acknowledged = u.acknowledged /\ s.sequence = u.sequence
        /\ s.discarded = u.discarded /\ s.sent = u.sent
    BY <1>5 DEF Fields
  <2> HIDE DEF s
  <2> QED BY <2>1 DEF Settle, Fields
<1> HIDE DEF t
<1>7. CASE c.answer = "committed"
  <2>1. Good(u, receipts) /\ Keeps(q, u, SettledIds) BY <1>3, <1>7 DEF Quiet, u
  <2>2. Calm(u, t, SettledIds) BY <2>1, <1>6, SameEntriesCalm
  <2>3. Keeps(q, t, SettledIds) BY <2>1, <2>2, <1>1, <1>2, KeepsThenKeeps DEF Calm
  <2> QED BY <2>3, <1>1, <1>2, <1>5, <1>6, HandlerKeeps
<1>8. CASE c.answer # "committed" /\ ~IsHead(q, c.entry)
  <2>1. u = q BY <1>8 DEF u, Fenced
  <2>2. Keeps(q, t, SettledIds) BY <2>1, <1>1, <1>6, SameEntriesCalm DEF Calm
  <2> QED BY <2>2, <1>1, <1>2, <1>5, <1>6, HandlerKeeps
<1>9. CASE c.answer # "committed" /\ IsHead(q, c.entry)
  <2> DEFINE n == Len(q.entries)
  <2>1. /\ n \in Nat /\ n # 0 /\ DOMAIN q.entries = 1..n /\ 1 \in 1..n /\ DOMAIN q = Fields
        /\ DOMAIN q.entries[1] = EntryFields
    BY <1>1, <1>9, HeadIs, HeadFacts DEF Good, Shaped
  <2> HIDE DEF n
  <2>2. /\ u.entries = [q.entries EXCEPT ![1].context = NoContext, ![1].ready = TRUE]
        /\ u.operations = q.operations /\ u.acknowledged = q.acknowledged
        /\ u.sequence = q.sequence /\ u.discarded = q.discarded
    BY <2>1, <1>9 DEF u, Fenced, Fields
  <2>3. Len(u.entries) = n /\ u.entries[1].first = q.entries[1].first
        /\ u.entries[1].context = NoContext
    <3>1. u.entries = [i \in 1..n |-> u.entries[i]] BY <2>1, <2>2
    <3>2. Len(u.entries) = n BY <3>1, <2>1, SeqOf
    <3> QED BY <3>2, <2>1, <2>2 DEF EntryFields
  <2>4. ~Sent(t) BY <2>3, <1>6 DEF Sent, HasContext
  <2>5. calls' = calls \ {c} BY <1>1, <1>5, <1>6 DEF Becomes
  <2> QED BY <2>2, <2>3, <2>4, <2>5, <1>1, <1>2, <1>6, <1>9, FencedRefines DEF n
<1> QED BY <1>7, <1>8, <1>9

\* The batch that is next is the head's, if its id has no receipt.
LEMMA BatchIsHead ==
    ASSUME IInv, OrderInv, Sent(q), Op(q) \notin DOMAIN receipts
    PROVE  /\ Promise!Batch(q.entries[1].last) = HeadEdits(q) /\ HeadEdits(q) # {}
           /\ q.entries[1].last \in 1..q.sequence
<1> DEFINE e == q.entries[1]
           D == UNION {EditsIn(receipts, o) : o \in DOMAIN receipts}
<1>1. Good(q, receipts) BY DEF IInv
<1>2. /\ q.acknowledged \in Nat /\ e.first \in Nat /\ e.last \in Nat /\ q.sequence \in Nat
      /\ e.first = q.acknowledged + 1 /\ e.first <= e.last /\ e.last <= q.sequence
  BY <1>1, HeadFacts DEF Sent, Shaped
<1>3. Promise!Settled = q.discarded \cup D
  <2>1. UNION {OwnLog[i] : i \in DOMAIN OwnLog} = D BY OwnLogIs DEF OrderInv, LogIsTrue
  <2> QED BY <2>1 DEF Promise!Settled
<1>4. 1..q.acknowledged \subseteq q.discarded \cup D BY <1>1 DEF Good, Saved
<1>5. D \subseteq 1..q.acknowledged
  <2> SUFFICES ASSUME NEW o \in DOMAIN receipts
               PROVE  EditsIn(receipts, o) \subseteq 1..q.acknowledged
    OBVIOUS
  <2> QED BY DEF OrderInv, InOrder, Own
<1>6. q.discarded \subseteq 1..q.acknowledged BY DEF OrderInv
<1> HIDE DEF D
<1>7. Promise!Settled = 1..q.acknowledged BY <1>3, <1>4, <1>5, <1>6
<1>8. Promise!Batch(e.last) = 1..e.last \ 1..q.acknowledged BY <1>7 DEF Promise!Batch
<1>9. 1..e.last \ 1..q.acknowledged = HeadEdits(q) BY <1>2 DEF HeadEdits
<1>10. e.first \in HeadEdits(q) /\ e.last \in 1..q.sequence BY <1>2 DEF HeadEdits
<1> QED BY <1>8, <1>9, <1>10

\* The user gives up a command whose id was fenced.
LEMMA GiveUpRefines ==
    ASSUME IInv, IInv', OrderInv, NEW c \in calls, c.kind = "resolve", c.answer # "none",
           c.answer # "committed", IsHead(q, c.entry), UNCHANGED file,
           Becomes(Shift([q EXCEPT !.revision = Larger(@, c.revision), !.error = FALSE,
                                   !.discarded = @ \union c.request.edits]), calls \ {c})
    PROVE  Refines
<1> DEFINE u == [q EXCEPT !.revision = Larger(@, c.revision), !.error = FALSE,
                          !.discarded = @ \union c.request.edits]
           t == Shift(u)
<1>1. /\ Good(q, receipts) /\ CallIsTrue(c, q, receipts)
      /\ Becomes(t, calls \ {c}) /\ q' = t /\ receipts' = receipts
  BY DEF IInv, CallsAreTrue, Becomes, file
<1>2. ~c.late /\ c.request.edits = HeadEdits(q) BY <1>1 DEF CallIsTrue
<1>3. Sent(q) /\ Op(q) \in cancelled BY <1>2, CallsAreFit DEF CallFits, ResolveIsOfHead
<1>4. Op(q) \notin DOMAIN receipts /\ Op(q) \in SettledIds
  BY <1>3 DEF OrderInv, SettledIds
<1>5. /\ DOMAIN u = Fields /\ u.entries = q.entries /\ u.operations = q.operations
      /\ u.sequence = q.sequence /\ u.discarded = q.discarded \cup HeadEdits(q)
      /\ u.sent = q.sent
  BY <1>1, <1>2 DEF Good, Shaped, Fields
<1> HIDE DEF u
<1>6. /\ Moves(q, t, SettledIds) /\ t.acknowledged = q.entries[1].last
      /\ t.sequence = q.sequence /\ t.discarded = q.discarded \cup HeadEdits(q)
      /\ t.sent = q.sent
  BY <1>1, <1>3, <1>4, <1>5, ShiftMoves DEF Sent
<1> HIDE DEF t
<1>7. t.discarded \subseteq 1..t.acknowledged
  <2>1. /\ q.acknowledged \in Nat /\ q.entries[1].first \in Nat /\ q.entries[1].last \in Nat
        /\ q.entries[1].first = q.acknowledged + 1
        /\ q.entries[1].first <= q.entries[1].last
    BY <1>1, <1>3, HeadFacts DEF Sent
  <2>2. \A x \in 1..q.acknowledged : x \in 1..q.entries[1].last BY <2>1
  <2>3. \A x \in HeadEdits(q) : x \in 1..q.entries[1].last BY <2>1 DEF HeadEdits
  <2> QED BY <2>2, <2>3, <1>6 DEF OrderInv
<1>8. \A e \in calls' : \/ CallIsTrue(e, q, receipts) /\ CallFits(e, q, SettledIds, cancelled)
                        \/ CallFits(e, q', SettledIds, cancelled)
  BY <1>1, <1>6, CallsAreFit, BecomesFits
<1>9. OrderInv' BY <1>1, <1>6, <1>7, <1>8, OrderKept
<1>10. Promise!Discard(q.entries[1].last) /\ q.entries[1].last \in 1..q.sequence
  <2>1. OwnLog' = OwnLog BY <1>1, OwnLogIs, OwnLogWillBe
  <2> QED BY <2>1, <1>1, <1>3, <1>4, <1>6, BatchIsHead DEF Promise!Discard
<1>11. [Promise!Next]_(Promise!vars) BY <1>10 DEF Promise!Next
<1> QED BY <1>9, <1>11 DEF Refines

LEMMA SettleResolveRefines ==
    ASSUME IInv, IInv', OrderInv, NEW c \in calls, NEW throws, SettleResolve(c, throws)
    PROVE  Refines
<1>1. /\ CallIsTrue(c, q, receipts) /\ Good(q, receipts) /\ UNCHANGED file
      /\ c.kind = "resolve" /\ c.answer # "none" /\ calls \ {c} \subseteq calls
  BY DEF IInv, CallsAreTrue, SettleResolve
<1>2. CASE c.answer = "committed"
  <2>1. Becomes(Accept(q, c.entry, c.context.op, throws), calls \ {c})
    BY <1>2 DEF SettleResolve
  <2> QED BY <2>1, <1>1, <1>2, AcceptRefines DEF CallIsTrue
<1>3. CASE c.answer # "committed" /\ IsHead(q, c.entry)
  BY <1>1, <1>3, GiveUpRefines DEF SettleResolve
<1>4. CASE c.answer # "committed" /\ ~IsHead(q, c.entry)
  <2>1. Becomes(q, calls \ {c}) BY <1>4 DEF SettleResolve
  <2>2. Keeps(q, q, SettledIds) BY <1>1, SameEntriesCalm DEF Calm
  <2> QED BY <2>1, <2>2, <1>1, HandlerKeeps
<1> QED BY <1>2, <1>3, <1>4

-----------------------------------------------------------------------------
(* The backend *)

\* A commit is the newest of the log, if it has edits.
LEMMA CommitIsLogged ==
    ASSUME NEW ctx, NEW req, Backend!Commit(ctx, req), LogIsTrue
    PROVE  /\ LogIsTrue' /\ cancelled' = cancelled /\ ctx.op \notin cancelled
           /\ OwnLog' = IF req.edits = {} THEN OwnLog ELSE Append(OwnLog, req.edits)
<1> DEFINE x == ctx.op
           S == receipts'
           D == UNION {EditsIn(receipts, o) : o \in DOMAIN receipts}
<1>1. /\ x \notin DOMAIN receipts /\ DOMAIN S = DOMAIN receipts \cup {x}
      /\ \A p \in DOMAIN receipts : S[p] = receipts[p]
      /\ EditsIn(S, x) = req.edits
  BY CommitAdds
<1>2. Backend!Outcome(ctx, req) = "committed" BY DEF Backend!Commit
<1>3. x \notin cancelled
  BY <1>1, <1>2 DEF Backend!Outcome, Backend!OperationState
<1>4. /\ committedRevision' = committedRevision + 1 /\ cancelled' = cancelled
      /\ S[x] = Backend!Receipt(ctx, req, committedRevision)
  BY <1>1 DEF Backend!Commit, Backend!WriteCommit
<1>5. S[x].revision = committedRevision + 1 BY <1>4 DEF Backend!Receipt
<1>6. /\ committedRevision \in Nat /\ Ranked(receipts)
      /\ \A o \in DOMAIN receipts : /\ receipts[o].revision \in Int
                                    /\ receipts[o].revision <= committedRevision
      /\ UNION {Log(receipts)[i] : i \in DOMAIN Log(receipts)} = D
  BY DEF LogIsTrue
<1>7. \A o \in DOMAIN S : /\ S[o].revision \in Int
                          /\ S[o].revision <= committedRevision + 1
  BY <1>1, <1>5, <1>6
<1> HIDE DEF S, x, D
<1>8. UNION {EditsIn(S, o) : o \in DOMAIN S} = D \cup req.edits
  <2>1. \A o \in DOMAIN receipts : EditsIn(S, o) = EditsIn(receipts, o) BY <1>1 DEF EditsIn
  <2> QED BY <2>1, <1>1 DEF D
<1>9. Ranked(S) /\ Log(S) = IF req.edits = {} THEN Log(receipts)
                                              ELSE Append(Log(receipts), req.edits)
  <2>1. CASE req.edits = {}
    <3>1. IsFiniteSet(DOMAIN S) BY <1>1, <1>6, FS_AddElement DEF Ranked
    <3>2. Own(S) = Own(receipts) BY <2>1, <1>1 DEF Own, EditsIn
    <3>3. \A o \in Own(receipts) : S[o] = receipts[o] BY <1>1 DEF Own
    <3> QED BY <2>1, <3>1, <3>2, <3>3, <1>6, SameLog
  <2>2. CASE req.edits # {}
    <3>1. \A p \in DOMAIN receipts : /\ S[p] = receipts[p] /\ receipts[p].revision \in Int
                                     /\ receipts[p].revision < S[x].revision
      BY <1>1, <1>5, <1>6 DEF x, S
    <3>2. S[x].revision \in Int BY <1>5, <1>6 DEF x, S
    <3> QED BY <2>2, <3>1, <3>2, <1>1, <1>6, LongerLog
  <2> QED BY <2>1, <2>2
<1>10. UNION {Log(S)[i] : i \in DOMAIN Log(S)} = D \cup req.edits
  <2>1. CASE req.edits = {} BY <2>1, <1>6, <1>9
  <2>2. CASE req.edits # {}
    <3> DEFINE l == Log(receipts)
               n == Cardinality(Own(receipts))
    <3>1. l = [i \in 1..n |-> l[i]] /\ DOMAIN l = 1..n BY DEF Log
    <3>2. n \in Nat BY <1>6, OwnIsFinite DEF Ranked
    <3> HIDE DEF n, l
    <3>3. IsSeq(l) /\ Len(l) = n BY <3>1, <3>2, SeqOf
    <3> DEFINE m == Append(l, req.edits)
    <3>4. /\ IsSeq(m) /\ Len(m) = n + 1 /\ m[n + 1] = req.edits
          /\ \A i \in 1..n : m[i] = l[i]
      BY <3>3, AppendSeq
    <3> HIDE DEF m
    <3>5. DOMAIN m = 1..n + 1 BY <3>4, SeqLen
    <3>6. 1..n + 1 = 1..n \cup {n + 1} BY <3>2
    <3>7. {m[i] : i \in DOMAIN m} = {l[i] : i \in DOMAIN l} \cup {req.edits}
      BY <3>1, <3>4, <3>5, <3>6
    <3>8. Log(S) = m BY <2>2, <1>9 DEF m, l
    <3>9. UNION {l[i] : i \in DOMAIN l} = D BY <1>6 DEF l
    <3> QED BY <3>7, <3>8, <3>9
  <2> QED BY <2>1, <2>2
<1>11. LogIsTrue'
  <2>1. committedRevision' \in Nat BY <1>4, <1>6
  <2> QED BY <2>1, <1>4, <1>7, <1>8, <1>9, <1>10 DEF LogIsTrue, S
<1>12. OwnLog' = IF req.edits = {} THEN OwnLog ELSE Append(OwnLog, req.edits)
  BY <1>9, OwnLogIs, OwnLogWillBe DEF S
<1> QED BY <1>3, <1>4, <1>11, <1>12 DEF x

\* An answered call fits as the others do, whatever more is settled.
LEMMA AnswerFits ==
    ASSUME NEW c \in calls, NEW answer, Answer(c, answer), c.answer = "none",
           NEW s, NEW X, NEW Y, NEW C, NEW D, X \subseteq Y, C \subseteq D,
           \A e \in calls : CallFits(e, s, X, C), DOMAIN c = CallFields,
           \/ c.kind = "commit" /\ answer \in {"committed", "error"}
           \/ /\ answer \in {"committed", "cancelled"}
              /\ answer = "cancelled" => c.context.op \in D
    PROVE  \A e \in calls' : CallFits(e, s, Y, D)
<1> DEFINE a == [c EXCEPT !.answer = answer, !.revision = committedRevision]
<1>1. /\ a.kind = c.kind /\ a.late = c.late /\ a.entry = c.entry
      /\ a.context = c.context /\ a.answer = answer
  BY DEF CallFields
<1>2. calls' \subseteq calls \cup {a} BY DEF Answer
<1> HIDE DEF a
<1>3. ASSUME NEW e \in calls PROVE CallFits(e, s, Y, D)
  BY <1>3 DEF CallFits, CommitIsOfHead, ResolveIsOfHead
<1>4. CallFits(a, s, Y, D)
  <2>1. CommitIsOfHead(a, s, Y) BY <1>1 DEF CommitIsOfHead
  <2>2. ResolveIsOfHead(a, s, D) BY <1>1 DEF CallFits, ResolveIsOfHead
  <2> QED BY <2>1, <2>2 DEF CallFits
<1> QED BY <1>2, <1>3, <1>4

LEMMA ExecuteCommitRefines ==
    ASSUME IInv, IInv', OrderInv, NEW c \in calls, ExecuteCommit(c) PROVE Refines
<1> DEFINE x == c.context.op
<1>1. q' = q /\ c.answer = "none" /\ c.kind = "commit" BY DEF ExecuteCommit
<1>2. /\ Good(q, receipts) /\ CallIsTrue(c, q, receipts)
      /\ \A e \in calls : CallFits(e, q, SettledIds, cancelled)
  BY CallsAreFit DEF IInv
<1>3. DOMAIN c = CallFields BY <1>2 DEF CallIsTrue
<1>4. ASSUME Backend!Commit(c.context, c.request), Answer(c, "committed") PROVE Refines
  <2>1. /\ x \notin DOMAIN receipts /\ DOMAIN receipts' = DOMAIN receipts \cup {x}
        /\ \A p \in DOMAIN receipts : receipts'[p] = receipts[p]
        /\ EditsIn(receipts', x) = c.request.edits
    BY <1>4, CommitAdds
  <2>2. /\ LogIsTrue' /\ cancelled' = cancelled /\ x \notin cancelled
        /\ OwnLog' = IF c.request.edits = {} THEN OwnLog ELSE Append(OwnLog, c.request.edits)
    BY <1>4, CommitIsLogged DEF OrderInv
  <2>3. Sent(q) /\ Op(q) = x
    BY <2>1, <2>2, <1>1, <1>2 DEF CallFits, CommitIsOfHead, SettledIds
  <2>4. c.request.edits = HeadEdits(q) BY <2>3, <1>2 DEF CallIsTrue
  <2>5. /\ Promise!Batch(q.entries[1].last) = HeadEdits(q) /\ HeadEdits(q) # {}
        /\ q.entries[1].last \in 1..q.sequence
    BY <2>1, <2>3, BatchIsHead
  <2>6. Promise!Commit(q.entries[1].last)
    BY <2>2, <2>4, <2>5, <1>1 DEF Promise!Commit
  <2>7. [Promise!Next]_(Promise!vars) BY <2>5, <2>6 DEF Promise!Next
  <2>8. InOrder(q, receipts')
    <3>1. x \in 1..q.operations BY <1>2 DEF CallIsTrue
    <3>2. \A o \in Own(receipts') : o = x \/ (o \in Own(receipts)
                                              /\ EditsIn(receipts', o) = EditsIn(receipts, o))
      BY <2>1 DEF Own, EditsIn
    <3> QED BY <3>1, <3>2, <2>3 DEF OrderInv, InOrder
  <2>9. SettledIds \subseteq SettledIds' BY <2>1, <2>2 DEF SettledIds
  <2>10. \A e \in calls' : CallFits(e, q, SettledIds', cancelled)
    BY <2>9, <1>1, <1>2, <1>3, <1>4, AnswerFits
  <2>11. OrderInv' BY <2>1, <2>2, <2>8, <2>10, <1>1 DEF OrderInv
  <2> QED BY <2>7, <2>11 DEF Refines
<1>5. ASSUME NEW answer \in {"committed", "error"}, Answer(c, answer), UNCHANGED file
      PROVE  Refines
  <2>1. \A e \in calls' : CallFits(e, q, SettledIds, cancelled)
    BY <1>1, <1>2, <1>3, <1>5, AnswerFits
  <2>2. Keeps(q, q', SettledIds) BY <1>1, <1>2, SameEntriesCalm DEF Calm
  <2> QED BY <2>1, <2>2, <1>1, <1>5, KeptSteps
<1> QED BY <1>4, <1>5 DEF ExecuteCommit

LEMMA ExecuteResolveRefines ==
    ASSUME IInv, IInv', OrderInv, NEW c \in calls, ExecuteResolve(c) PROVE Refines
<1>1. q' = q /\ c.answer = "none" BY DEF ExecuteResolve
<1>2. /\ Good(q, receipts) /\ DOMAIN c = CallFields
      /\ \A e \in calls : CallFits(e, q, SettledIds, cancelled)
  BY CallsAreFit DEF IInv, CallIsTrue
<1>3. ASSUME Answer(c, "committed"), UNCHANGED file PROVE Refines
  <2>1. \A e \in calls' : CallFits(e, q, SettledIds, cancelled)
    BY <1>1, <1>2, <1>3, AnswerFits
  <2>2. Keeps(q, q', SettledIds) BY <1>1, <1>2, SameEntriesCalm DEF Calm
  <2> QED BY <2>1, <2>2, <1>1, <1>3, KeptSteps
<1>4. ASSUME Answer(c, "cancelled"), Backend!ResolveOperation(c.context) PROVE Refines
  <2>1. /\ c.context.op \notin DOMAIN receipts /\ cancelled' = cancelled \cup {c.context.op}
        /\ receipts' = receipts /\ committedRevision' = committedRevision
    BY <1>4 DEF Backend!ResolveOperation
  <2>2. SettledIds \subseteq SettledIds' /\ cancelled \subseteq cancelled'
    BY <2>1 DEF SettledIds
  <2>3. \A e \in calls' : CallFits(e, q, SettledIds', cancelled')
    BY <2>1, <2>2, <1>1, <1>2, <1>4, AnswerFits
  <2>4. LogIsTrue'
    <3>1. LogIsTrue BY DEF OrderInv
    <3> QED BY <3>1, <2>1 DEF LogIsTrue
  <2>5. OrderInv' BY <2>1, <2>3, <2>4, <1>1 DEF OrderInv
  <2>6. [Promise!Next]_(Promise!vars)
    <3>1. q.acknowledged <= q'.acknowledged BY <1>1, <1>2, HeadFacts
    <3> QED BY <3>1, <2>1, <1>1, QueueStep
  <2> QED BY <2>5, <2>6 DEF Refines
<1> QED BY <1>3, <1>4 DEF ExecuteResolve

LEMMA ExternalCommitRefines ==
    ASSUME IInv, IInv', OrderInv, NEW req \in ExternalRequests, ExternalCommit(req)
    PROVE  Refines
<1>1. req.edits = {}
  <2>1. \E p, s : req = [patch |-> p, datasets |-> s, edits |-> {}]
    BY Zenon DEF ExternalRequests
  <2> QED BY <2>1
<1>2. PICK op \in Operations \ (OwnOperations \union DOMAIN receipts) :
        /\ Backend!Commit([op |-> op, epoch |-> 1, revision |-> committedRevision,
                           documents |-> NoMap, datasets |-> NoMap], req)
        /\ q' = q /\ calls' = calls
  BY DEF ExternalCommit
<1>3. Good(q, receipts) BY DEF IInv
<1> DEFINE ctx == [op |-> op, epoch |-> 1, revision |-> committedRevision,
                   documents |-> NoMap, datasets |-> NoMap]
<1>4. Backend!Commit(ctx, req) /\ ctx.op = op BY <1>2
<1> HIDE DEF ctx
<1>5. /\ op \notin DOMAIN receipts /\ DOMAIN receipts' = DOMAIN receipts \cup {op}
      /\ \A p \in DOMAIN receipts : receipts'[p] = receipts[p]
      /\ EditsIn(receipts', op) = {}
  BY <1>1, <1>4, CommitAdds
<1>6. LogIsTrue' /\ cancelled' = cancelled /\ op \notin cancelled /\ OwnLog' = OwnLog
  BY <1>1, <1>4, CommitIsLogged DEF OrderInv
<1>7. InOrder(q, receipts')
  <2>1. \A o \in Own(receipts') : /\ o \in Own(receipts)
                                  /\ EditsIn(receipts', o) = EditsIn(receipts, o)
    BY <1>5 DEF Own, EditsIn
  <2> QED BY <2>1 DEF OrderInv, InOrder
<1>8. SettledIds \subseteq SettledIds' BY <1>5, <1>6 DEF SettledIds
<1>9. \A e \in calls : CallFits(e, q, SettledIds', cancelled)
  BY <1>8, CallsAreFit DEF CallFits, CommitIsOfHead
<1>10. OrderInv' BY <1>2, <1>5, <1>6, <1>7, <1>9 DEF OrderInv
<1>11. UNCHANGED Promise!vars BY <1>2, <1>6 DEF Promise!vars
<1> QED BY <1>10, <1>11 DEF Refines

-----------------------------------------------------------------------------
LEMMA OrderInitially == Init => OrderInv /\ Promise!Init
<1> SUFFICES ASSUME Init PROVE OrderInv /\ Promise!Init OBVIOUS
<1>1. /\ committedRevision = 0 /\ receipts = [x \in {} |-> 0] /\ cancelled = {} /\ calls = {}
  BY DEF Init, Backend!Init, Backend!NoFunction
<1>2. q.sequence = 0 /\ q.acknowledged = 0 /\ q.discarded = {} BY DEF Init
<1>3. DOMAIN receipts = {} BY <1>1
<1>4. Own(receipts) = {} BY <1>3 DEF Own
<1>5. Cardinality(Own(receipts)) = 0 /\ 1..0 = {} BY <1>4, FS_EmptySet
<1>6. Log(receipts) = << >> /\ DOMAIN Log(receipts) = {}
  BY <1>5 DEF Log
<1>7. Ranked(receipts) BY <1>3, <1>5, FS_EmptySet DEF Ranked
<1>8. LogIsTrue BY <1>1, <1>3, <1>6, <1>7 DEF LogIsTrue
<1>9. InOrder(q, receipts) BY <1>4 DEF InOrder
<1>10. OrderInv BY <1>1, <1>2, <1>8, <1>9 DEF OrderInv
<1>11. Promise!Init BY <1>2, <1>6, OwnLogIs DEF Promise!Init
<1> QED BY <1>10, <1>11

LEMMA UserStepRefines == ASSUME IInv, IInv', OrderInv, UserStep PROVE Refines
<1>1. ASSUME NEW d \in Documents, NEW e \in Known(d), EnqueueDocument(d, e) PROVE Refines
  BY <1>1, EnqueueDocumentRefines
<1>2. ASSUME NEW d \in Documents, NEW e \in Known(d), SubmitMove(d, e) \/ SubmitDelete(d, e)
      PROVE Refines
  BY <1>2, SubmitRefines DEF SubmitMove, SubmitDelete
<1>3. ASSUME NEW s \in Datasets, SubmitTable(s) PROVE Refines
  BY <1>3, SubmitRefines DEF SubmitTable
<1>4. CASE CaptureBarrier BY <1>4, CaptureBarrierRefines
<1>5. ASSUME NEW n \in 0..Len(q.projections),
             (\E through \in 1..MaxEdits : Flush(through, n)) \/ Close(n)
      PROVE  Refines
  BY <1>5, FlushRefines, CloseRefines
<1>6. CASE ResolveFailedOperation BY <1>6, ResolveFailedOperationRefines
<1> QED BY <1>1, <1>2, <1>3, <1>4, <1>5, <1>6 DEF UserStep

LEMMA TaskRefines == ASSUME IInv, IInv', OrderInv, Task PROVE Refines
<1>1. CASE TimerFires BY <1>1, TimerFiresRefines
<1>2. ASSUME NEW c \in calls, SettleCall(c) PROVE Refines
  BY <1>2, SettleCommitRefines, SettleResolveRefines, SettleRecoverRefines DEF SettleCall
<1>3. ASSUME NEW c \in calls, FailCall(c) PROVE Refines BY <1>3, FailCallRefines
<1>4. ASSUME NEW op \in events, NEW throws \in BOOLEAN, NEW n \in 0..Len(q.projections) + 1,
             DeliverEvent(op, throws, n)
      PROVE  Refines
  BY <1>4, DeliverEventRefines
<1> QED BY <1>1, <1>2, <1>3, <1>4 DEF Task

LEMMA StepRefines == IInv /\ IInv' /\ OrderInv /\ [Next]_vars => Refines
<1> SUFFICES ASSUME IInv, IInv', OrderInv, [Next]_vars PROVE Refines OBVIOUS
<1>1. CASE UserStep BY <1>1, UserStepRefines
<1>2. CASE WindowElapses BY <1>2, WindowElapsesRefines
<1>3. CASE Microtask BY <1>3, PumpLaterRefines, FlushGoesOnRefines DEF Microtask
<1>4. CASE Task BY <1>4, TaskRefines
<1>5. ASSUME NEW c \in calls, Execute(c) PROVE Refines
  BY <1>5, ExecuteCommitRefines, ExecuteResolveRefines DEF Execute
<1>6. ASSUME NEW req \in ExternalRequests, ExternalCommit(req) PROVE Refines
  BY <1>6, ExternalCommitRefines
<1>7. CASE UNCHANGED vars
  <2>1. q' = q /\ calls' = calls /\ UNCHANGED file BY <1>7 DEF vars, file
  <2>2. Keeps(q, q', SettledIds) BY <2>1, SameEntriesCalm DEF Calm, IInv
  <2> QED BY <2>1, <2>2, CallsAreFit, KeptSteps
<1> QED BY <1>1, <1>2, <1>3, <1>4, <1>5, <1>6, <1>7 DEF Next

\* The coordinator over the backend is a durable queue: edits are committed in the
\* order they were accepted, each once, and only what is durable or was given up
\* is acknowledged, whatever calls fail, arrive late or are repeated.
THEOREM CoordinatorIsADurableQueue == Spec => ImplementsDurableQueue
<1>1. Init => IInv /\ OrderInv /\ Promise!Init BY Initially, OrderInitially
<1>2. IInv /\ OrderInv /\ [Next]_vars => IInv' /\ OrderInv' /\ [Promise!Next]_(Promise!vars)
  BY Inductive, StepRefines DEF Refines
<1> QED BY <1>1, <1>2, PTL DEF Spec, ImplementsDurableQueue, Promise!Spec

-----------------------------------------------------------------------------
(* What the queue, the file and the stores have of a document *)

DraftFields == {"documents", "moves", "deletes", "tables"}

Touches(e, d) == d \in DOMAIN e.draft.documents \cup DOMAIN e.draft.deletes

\* What the entry e, which touches d, leaves of d.
Left(e, d) == IF d \in DOMAIN e.draft.documents THEN e.draft.documents[d].body ELSE NoBody

\* The places in the queue of the entries that touch d.
Queued(s, d) == {k \in 1..Len(s.entries) : Touches(s.entries[k], d)}

\* The request req is the draft, as far as bodies go.
Asks(req, draft) ==
    /\ DOMAIN req.patch.documents = DOMAIN draft.documents
    /\ \A d \in DOMAIN draft.documents :
         req.patch.documents[d].body = draft.documents[d].body
    /\ req.patch.deletes = DOMAIN draft.deletes

\* What is coalesced into deletes nothing, a table command touches no document,
\* and no draft both writes and deletes one.
DraftsAreApart(s) ==
    /\ \A k \in 1..Len(s.entries) :
         /\ DOMAIN s.entries[k].draft = DraftFields
         /\ DOMAIN s.entries[k].draft.documents \cap DOMAIN s.entries[k].draft.deletes = {}
         /\ ~IsRecords(s.entries[k]) =>
              /\ DOMAIN s.entries[k].draft.documents = {}
              /\ DOMAIN s.entries[k].draft.deletes = {}
    /\ s.unsealed => /\ DOMAIN s.entries[Len(s.entries)].draft.deletes = {}
                     /\ IsRecords(s.entries[Len(s.entries)])

RequestIsDraft(s) == Sent(s) => Asks(s.entries[1].request, s.entries[1].draft)

\* The stores show what the last entry that touches a document leaves of it.
ShowsLatest(s, st) ==
    \A d \in Documents : \A k \in Queued(s, d) :
        (\A j \in Queued(s, d) : j <= k) => st[d] = Left(s.entries[k], d)

\* What no entry touches is in the file as it is shown.
FileIsCurrent(s, st, cat) ==
    \A d \in Documents : Queued(s, d) = {} => cat.body[d] \in {st[d], External}

\* What the head leaves is in the file once it has a receipt.
HeadIsInFile(s, cat, R) ==
    Sent(s) /\ Op(s) \in DOMAIN R =>
      \A d \in Documents : Touches(s.entries[1], d) =>
          cat.body[d] \in {Left(s.entries[1], d), External}

Bodies(s, st, cat, R) ==
    /\ DraftsAreApart(s) /\ RequestIsDraft(s)
    /\ ShowsLatest(s, st) /\ FileIsCurrent(s, st, cat) /\ HeadIsInFile(s, cat, R)

\* A call under the head's id carries the head's request.
Carries(c, s) == Sent(s) /\ c.context.op = Op(s) => c.request = s.entries[1].request

CatalogFields ==
    {"revision", "bodyRevision", "watermark", "folder", "body", "folders", "settings"}

StoredInv ==
    /\ Bodies(q, store, catalog, receipts)
    /\ \A c \in calls : Carries(c, q)
    /\ DOMAIN catalog = CatalogFields /\ DOMAIN store = Documents

\* The entries of t have the drafts of s; a head that was sent stands, and another
\* is sent under the next id with its draft.
Alike(s, t) ==
    /\ Len(s.entries) \in Nat /\ Len(t.entries) = Len(s.entries)
    /\ \A k \in 1..Len(s.entries) : t.entries[k].draft = s.entries[k].draft
    /\ t.unsealed => s.unsealed
    /\ Sent(s) => /\ Sent(t) /\ t.entries[1].context = s.entries[1].context
                  /\ t.entries[1].request = s.entries[1].request
    /\ ~Sent(s) /\ Sent(t) => /\ Op(t) = s.operations + 1
                              /\ Asks(t.entries[1].request, t.entries[1].draft)
    /\ ~Sent(s) /\ ~Sent(t) => t.operations = s.operations

LEMMA AlikeThenAlike ==
    ASSUME NEW s, NEW t, NEW u, Alike(s, t), Alike(t, u) PROVE Alike(s, u)
<1>1. /\ Len(s.entries) \in Nat /\ Len(u.entries) = Len(s.entries)
      /\ \A k \in 1..Len(s.entries) : u.entries[k].draft = s.entries[k].draft
      /\ u.unsealed => s.unsealed
  BY DEF Alike
<1>2. Sent(s) => /\ Sent(u) /\ u.entries[1].context = s.entries[1].context
                 /\ u.entries[1].request = s.entries[1].request
  BY DEF Alike
<1>3. ASSUME ~Sent(s), Sent(u)
      PROVE  /\ Op(u) = s.operations + 1
             /\ Asks(u.entries[1].request, u.entries[1].draft)
  <2>1. CASE Sent(t)
    <3>1. /\ Op(t) = s.operations + 1 /\ Asks(t.entries[1].request, t.entries[1].draft)
      BY <1>3, <2>1 DEF Alike
    <3>2. /\ u.entries[1].context = t.entries[1].context
          /\ u.entries[1].request = t.entries[1].request
      BY <2>1 DEF Alike
    <3>3. u.entries[1].draft = t.entries[1].draft
      <4>1. Len(t.entries) \in Nat /\ Len(t.entries) # 0 BY <2>1 DEF Alike, Sent
      <4>2. 1 \in 1..Len(t.entries) BY <4>1
      <4> QED BY <4>2 DEF Alike
    <3> QED BY <3>1, <3>2, <3>3 DEF Op
  <2>2. CASE ~Sent(t)
    <3>1. t.operations = s.operations BY <1>3, <2>2 DEF Alike
    <3> QED BY <3>1, <1>3, <2>2 DEF Alike
  <2> QED BY <2>1, <2>2
<1>4. ~Sent(s) /\ ~Sent(u) => u.operations = s.operations BY DEF Alike
<1> QED BY <1>1, <1>2, <1>3, <1>4 DEF Alike

\* The same head and drafts, whatever else changes.
LEMMA SameDrafts ==
    ASSUME NEW s, NEW t, NEW R, Good(s, R), t.operations = s.operations,
           t.unsealed => s.unsealed, Len(t.entries) = Len(s.entries),
           \A k \in 1..Len(s.entries) : t.entries[k].draft = s.entries[k].draft,
           Len(s.entries) # 0 => /\ t.entries[1].context = s.entries[1].context
                                 /\ t.entries[1].request = s.entries[1].request
    PROVE  Alike(s, t)
<1>1. Len(s.entries) \in Nat BY HeadFacts
<1>2. Sent(s) <=> Sent(t) BY DEF Sent, HasContext
<1>3. Sent(s) => Len(s.entries) # 0 BY DEF Sent
<1> QED BY <1>1, <1>2, <1>3 DEF Alike

LEMMA SameEntriesAlike ==
    ASSUME NEW s, NEW t, NEW R, Good(s, R), t.entries = s.entries,
           t.operations = s.operations, t.unsealed => s.unsealed
    PROVE  Alike(s, t)
BY SameDrafts

LEMMA SameIsAlike == ASSUME NEW s, NEW t, NEW R, Good(s, R), Same(s, t) PROVE Alike(s, t)
BY SameEntriesAlike DEF Same

LEMMA AgreeIsAlike ==
    ASSUME NEW s, NEW t, NEW R, Good(s, R), Agree(s, t),
           \A k \in 1..Len(s.entries) : t.entries[k].draft = s.entries[k].draft
    PROVE  Alike(s, t)
<1>1. Len(s.entries) # 0 => 1 \in 1..Len(s.entries) BY HeadFacts
<1>2. t.unsealed => s.unsealed BY DEF Agree
<1> QED BY <1>1, <1>2, SameDrafts DEF Agree, EntriesAlike

LEMMA SealIsAlike == ASSUME NEW s, NEW R, Good(s, R) PROVE Alike(s, Seal(s))
<1> DEFINE t == Seal(s)
           n == Len(s.entries)
<1>1. DOMAIN s = Fields BY HeadFacts DEF Shaped
<1>2. CASE s.unsealed
  <2>1. n # 0 BY <1>2 DEF Good, HeadIsSent
  <2>2. n \in Nat /\ DOMAIN s.entries = 1..n /\ n \in 1..n BY <2>1, HeadFacts
  <2>3. t.entries = [s.entries EXCEPT ![n].ready = TRUE]
    BY <1>1, <1>2 DEF Fields, Seal
  <2>4. \A k \in 1..n : DOMAIN s.entries[k] = EntryFields BY HeadFacts DEF Shaped
  <2>5. Agree(s, t) BY SealAgrees DEF Good, HeadIsSent
  <2> HIDE DEF t, n
  <2>6. \A k \in 1..n : t.entries[k].draft = s.entries[k].draft
    BY <2>2, <2>3, <2>4 DEF EntryFields
  <2> QED BY <2>5, <2>6, AgreeIsAlike DEF t, n
<1>3. CASE ~s.unsealed
  <2>1. Same(s, t) BY <1>1, <1>3, HeadFacts DEF Shaped, Fields, Seal, Same
  <2> QED BY <2>1, SameIsAlike
<1> QED BY <1>2, <1>3

\* What pump makes of a draft asks for the draft.
LEMMA PreparedAsks == ASSUME NEW s, NEW e PROVE Asks(Prepare(s, e), e.draft)
<1> DEFINE expected == [d \in DOMAIN e.draft.documents |->
             IF d \in s.ownDeleted THEN 0 ELSE Raise(s, d, e.draft.documents[d].expected)]
           W == [d \in DOMAIN expected |->
                  [expected |-> expected[d], proposed |-> expected[d] + 1,
                   folder |-> "", body |-> e.draft.documents[d].body]]
           M == [d \in DOMAIN e.draft.moves |->
                  [expected |-> Raise(s, d, e.draft.moves[d]), folder |-> ""]]
           p == [Backend!EmptyPatch EXCEPT !.documents = W, !.moves = M,
                                           !.deletes = DOMAIN e.draft.deletes]
<1>1. Prepare(s, e) = [patch |-> p, datasets |-> DOMAIN e.draft.tables,
                       edits |-> e.first..e.last]
  BY DEF Prepare
<1>2. DOMAIN W = DOMAIN e.draft.documents OBVIOUS
<1>3. \A d \in DOMAIN e.draft.documents : W[d].body = e.draft.documents[d].body OBVIOUS
<1> HIDE DEF W, M
<1>4. p.documents = W /\ p.deletes = DOMAIN e.draft.deletes BY DEF Backend!EmptyPatch
<1> HIDE DEF p
<1>5. Prepare(s, e).patch = p BY <1>1
<1> QED BY <1>2, <1>3, <1>4, <1>5 DEF Asks

LEMMA SendIsAlike ==
    ASSUME NEW s, NEW R, Good(s, R), Len(s.entries) # 0 PROVE Alike(s, Send(s))
<1> DEFINE e == Head(s.entries)
           req == Prepare(s, e)
           new == [e EXCEPT !.request = req, !.context = NewContext(s, e, req)]
           h == IF HasContext(e) THEN e ELSE new
           t == Send(s)
           n == Len(s.entries)
<1>1. /\ e = s.entries[1] /\ 1 \in 1..n /\ DOMAIN s.entries = 1..n /\ n \in Nat
      /\ s.operations \in Nat
  BY HeadFacts
<1>2. DOMAIN s = Fields /\ DOMAIN e = EntryFields BY <1>1, HeadFacts DEF Shaped
<1>3. /\ t.entries = [s.entries EXCEPT ![1] = h]
      /\ t.operations = (IF HasContext(e) THEN s.operations ELSE s.operations + 1)
      /\ t.unsealed => s.unsealed
  BY <1>2 DEF Fields, Send
<1>4. /\ new.context = NewContext(s, e, req) /\ new.request = req /\ new.draft = e.draft
  BY <1>2 DEF EntryFields
<1>5. new.context.op = s.operations + 1 BY <1>4, NewContextOp
<1>6. Asks(new.request, new.draft) BY <1>4, PreparedAsks
<1> HIDE DEF e, new, t, n, req
<1>7. h.draft = e.draft BY <1>4
<1> HIDE DEF h
<1>8. DOMAIN t.entries = 1..n /\ t.entries[1] = h
      /\ \A k \in 1..n : k # 1 => t.entries[k] = s.entries[k]
  BY <1>1, <1>3
<1>9. Len(t.entries) = n
  <2>1. t.entries = [k \in 1..n |-> t.entries[k]] BY <1>1, <1>3
  <2> QED BY <2>1, <1>1, SeqOf
<1>10. \A k \in 1..n : t.entries[k].draft = s.entries[k].draft BY <1>1, <1>7, <1>8
<1>11. CASE HasContext(e)
  <2>1. h = s.entries[1] BY <1>1, <1>11 DEF h
  <2>2. Sent(s) /\ Sent(t) BY <2>1, <1>1, <1>8, <1>9, <1>11 DEF Sent, n
  <2> QED BY <2>1, <2>2, <1>1, <1>3, <1>8, <1>9, <1>10 DEF Alike, t, n
<1>12. CASE ~HasContext(e)
  <2>1. h = new BY <1>12 DEF h
  <2>2. ~Sent(s) BY <1>1, <1>12 DEF Sent
  <2>3. HasContext(new) BY <1>1, <1>5 DEF HasContext, NoContext
  <2>4. Sent(t) BY <2>1, <2>3, <1>8, <1>9 DEF Sent, n
  <2>5. Op(t) = s.operations + 1 BY <2>1, <1>5, <1>8 DEF Op
  <2>6. Asks(t.entries[1].request, t.entries[1].draft) BY <2>1, <1>6, <1>8
  <2> QED BY <2>2, <2>4, <2>5, <2>6, <1>1, <1>3, <1>9, <1>10 DEF Alike, t, n
<1> QED BY <1>11, <1>12

LEMMA PumpIsAlike == ASSUME NEW s, NEW R, Good(s, R) PROVE Alike(s, Pump(s))
<1> DEFINE t == Pump(s)
<1>1. DOMAIN s = Fields /\ (s.entries = <<>> <=> Len(s.entries) = 0)
  BY HeadFacts, SeqLen DEF Shaped
<1>2. \/ t = s
      \/ \E b \in BOOLEAN : t = [s EXCEPT !.timer = b]
      \/ t = Send(s) /\ Len(s.entries) # 0
  BY <1>1 DEF Pump
<1>3. CASE t = s BY <1>3, SameEntriesAlike
<1>4. ASSUME NEW b \in BOOLEAN, t = [s EXCEPT !.timer = b] PROVE Alike(s, t)
  <2>1. t.entries = s.entries /\ t.operations = s.operations /\ t.unsealed = s.unsealed
    BY <1>1, <1>4 DEF Fields
  <2> QED BY <2>1, SameEntriesAlike
<1>5. CASE t = Send(s) /\ Len(s.entries) # 0 BY <1>5, SendIsAlike
<1> QED BY <1>2, <1>3, <1>4, <1>5

LEMMA SettleIsAlike ==
    ASSUME NEW s, NEW R, NEW F, NEW outcome, Good(s, R)
    PROVE  Alike(s, Settle(s, F, outcome))
<1> DEFINE t == Settle(s, F, outcome)
<1>1. DOMAIN s = Fields BY HeadFacts DEF Shaped
<1>2. t.entries = s.entries /\ t.operations = s.operations /\ t.unsealed = s.unsealed
  BY <1>1 DEF Fields, Settle
<1> HIDE DEF t
<1> QED BY <1>2, SameEntriesAlike DEF t

LEMMA FailIsAlike ==
    ASSUME NEW s, NEW R, NEW first, Good(s, R) PROVE Alike(s, Fail(s, first))
<1> DEFINE u == [s EXCEPT !.active = FALSE, !.error = TRUE]
           t == Settle(u, Flushes(s, "waiting"), "rejected")
<1>1. DOMAIN s = Fields BY HeadFacts DEF Shaped
<1>2. Same(s, u) BY <1>1, HeadFacts DEF Shaped, Fields, Same
<1>3. Good(u, R) BY <1>2, SameIsQuiet DEF Quiet
<1>4. Alike(s, u) BY <1>2, SameIsAlike
<1> HIDE DEF u
<1>5. Alike(u, t) BY <1>3, SettleIsAlike
<1>6. Alike(s, s) BY SameEntriesAlike
<1>7. Alike(s, t) BY <1>4, <1>5, AlikeThenAlike
<1> QED BY <1>6, <1>7 DEF Fail, u

LEMMA FlushPendingIsAlike ==
    ASSUME NEW s, NEW R, NEW i, NEW n, Good(s, R), i \in Flushes(s, "chained")
    PROVE  Alike(s, FlushPending(s, i, n))
<1> DEFINE t == IF s.projections = <<>> THEN s ELSE Drain(s, n)
           through == t.flushes[i].through
           u == IF t.unsealed /\ t.entries[Len(t.entries)].first <= through THEN Seal(t) ELSE t
           v == [u EXCEPT
                  !.entries = [k \in DOMAIN u.entries |->
                     [u.entries[k] EXCEPT !.ready = @ \/ u.entries[k].first <= through]],
                  !.flushes[i].state = "waiting",
                  !.error = FALSE]
           r == FlushPending(s, i, n)
<1>1. r = Settle(t, {i}, "rejected") \/ r = Settle(t, {i}, "resolved") \/ r = Pump(v)
  BY DEF FlushPending
<1>2. Same(s, t) BY DrainIsSame DEF Good, Shaped, Same
<1> HIDE DEF t, r
<1>3. Good(t, R) BY <1>2, SameIsQuiet DEF Quiet
<1>4. Alike(s, t) BY <1>2, SameIsAlike
<1>5. CASE r = Settle(t, {i}, "rejected") \/ r = Settle(t, {i}, "resolved")
  <2>1. Alike(t, r) BY <1>3, <1>5, SettleIsAlike
  <2> QED BY <2>1, <1>4, AlikeThenAlike DEF r
<1>6. CASE r = Pump(v)
  <2>1. Good(u, R) /\ Alike(t, u)
    <3>1. CASE u = Seal(t) BY <3>1, <1>3, SealIsQuiet, SealIsAlike DEF Quiet
    <3>2. CASE u = t BY <3>2, <1>3, SameEntriesAlike
    <3> QED BY <3>1, <3>2
  <2>2. i \in Flushes(u, "chained") /\ Shaped(u)
    <3>1. u.flushes = t.flushes
      <4>1. Shaped(t) /\ (t.unsealed => Len(t.entries) # 0) BY <1>3 DEF Good, HeadIsSent
      <4> QED BY <4>1, SealAgrees DEF u
    <3> QED BY <3>1, <2>1, <1>2 DEF Flushes, Same, Good
  <2> HIDE DEF u, through
  <2>3. Good(v, R) /\ Alike(u, v)
    <3>1. /\ Agree(u, v) /\ v.recovering = u.recovering /\ v.sent = u.sent
          /\ \A k \in 1..Len(u.entries) : v.entries[k].draft = u.entries[k].draft
      BY <2>2, WaitAgrees
    <3> HIDE DEF v
    <3>2. Good(v, R) BY <2>1, <3>1, AgreeIsQuiet DEF Quiet
    <3>3. Alike(u, v) BY <2>1, <3>1, AgreeIsAlike
    <3> QED BY <3>2, <3>3
  <2>4. Alike(v, Pump(v)) BY <2>3, PumpIsAlike
  <2>5. Alike(s, v) BY <2>1, <2>3, <1>4, AlikeThenAlike
  <2> QED BY <2>4, <2>5, <1>6, AlikeThenAlike DEF r
<1> QED BY <1>1, <1>5, <1>6

-----------------------------------------------------------------------------
(* What steps of the coordinator keep of that *)

LEMMA SameDraft ==
    ASSUME NEW e, NEW f, e.draft = f.draft
    PROVE  /\ IsRecords(e) <=> IsRecords(f)
           /\ \A d : /\ Touches(e, d) <=> Touches(f, d)
                     /\ Left(e, d) = Left(f, d)
BY DEF IsRecords, Touches, Left

LEMMA HeadIsOwn == ASSUME NEW s, NEW R, Good(s, R), Sent(s) PROVE Op(s) \in OwnOperations
<1>1. /\ Op(s) \in 1..s.operations /\ s.operations \in Nat
      /\ s.acknowledged \in Nat /\ s.sequence \in Nat
  BY HeadFacts DEF Shaped
<1>2. s.acknowledged < s.sequence /\ s.sequence <= MaxEdits
  <2>1. /\ s.entries[1].first \in Nat /\ s.entries[1].last \in Nat
        /\ s.entries[1].first = s.acknowledged + 1
        /\ s.entries[1].first <= s.entries[1].last /\ s.entries[1].last <= s.sequence
    BY HeadFacts DEF Sent
  <2>2. s.sequence <= MaxEdits BY DEF Good, Chained
  <2> QED BY <2>1, <2>2, <1>1
<1>3. /\ s.operations <= s.acknowledged + Len(s.flushes) + 1
      /\ Len(s.flushes) <= MaxFlushes /\ Len(s.flushes) \in Nat
  BY SeqLen DEF Good, IdsArePaid, Shaped
<1>4. MaxEdits \in Nat /\ MaxFlushes \in Nat BY AutosaveBounds
<1> QED BY <1>1, <1>2, <1>3, <1>4 DEF OwnOperations

\* An id that was just taken has no receipt.
LEMMA FreshIsNew ==
    ASSUME NEW s, NEW t, NEW R, Good(s, R), Good(t, R), Sent(t), Op(t) = s.operations + 1
    PROVE  Op(t) \notin DOMAIN R
<1>1. s.operations \in Nat BY HeadFacts DEF Shaped
<1>2. Op(t) \in OwnOperations BY HeadIsOwn
<1>3. Op(t) \notin 1..s.operations BY <1>1
<1> QED BY <1>2, <1>3 DEF Good, ReceiptIsTrue

\* What rests on the drafts alone.
LEMMA DraftsKept ==
    ASSUME NEW s, NEW t, NEW st, NEW cat, NEW R, Good(s, R), Bodies(s, st, cat, R),
           Len(t.entries) = Len(s.entries), t.unsealed => s.unsealed,
           \A k \in 1..Len(s.entries) : t.entries[k].draft = s.entries[k].draft
    PROVE  /\ DraftsAreApart(t) /\ ShowsLatest(t, st) /\ FileIsCurrent(t, st, cat)
           /\ \A k \in 1..Len(s.entries) : \A d :
                 /\ Touches(t.entries[k], d) <=> Touches(s.entries[k], d)
                 /\ Left(t.entries[k], d) = Left(s.entries[k], d)
<1> DEFINE n == Len(s.entries)
<1>1. n \in Nat BY HeadFacts
<1>2. \A k \in 1..n : /\ IsRecords(t.entries[k]) <=> IsRecords(s.entries[k])
                      /\ \A d : /\ Touches(t.entries[k], d) <=> Touches(s.entries[k], d)
                                /\ Left(t.entries[k], d) = Left(s.entries[k], d)
  BY SameDraft
<1>3. \A d : Queued(t, d) = Queued(s, d) /\ Queued(s, d) \subseteq 1..n
  BY <1>2 DEF Queued
<1>4. DraftsAreApart(t)
  <2>1. t.unsealed => s.unsealed /\ n # 0 BY DEF Good, HeadIsSent
  <2>2. n # 0 => n \in 1..n BY <1>1
  <2> QED BY <2>1, <2>2, <1>2 DEF Bodies, DraftsAreApart
<1>5. ShowsLatest(t, st) BY <1>2, <1>3 DEF Bodies, ShowsLatest
<1>6. FileIsCurrent(t, st, cat) BY <1>3 DEF Bodies, FileIsCurrent
<1> QED BY <1>2, <1>4, <1>5, <1>6

LEMMA AlikeKeepsBodies ==
    ASSUME NEW s, NEW t, NEW st, NEW cat, NEW R, Good(s, R), Good(t, R), Alike(s, t),
           Bodies(s, st, cat, R)
    PROVE  Bodies(t, st, cat, R)
<1> DEFINE n == Len(s.entries)
<1>1. /\ n \in Nat /\ Len(t.entries) = n
      /\ \A k \in 1..n : t.entries[k].draft = s.entries[k].draft
      /\ t.unsealed => s.unsealed
  BY DEF Alike
<1>2. /\ DraftsAreApart(t) /\ ShowsLatest(t, st) /\ FileIsCurrent(t, st, cat)
      /\ \A k \in 1..n : \A d : /\ Touches(t.entries[k], d) <=> Touches(s.entries[k], d)
                                /\ Left(t.entries[k], d) = Left(s.entries[k], d)
  BY <1>1, DraftsKept
<1>3. n # 0 => 1 \in 1..n BY <1>1
<1>4. RequestIsDraft(t)
  <2>1. CASE Sent(s)
    <3>1. n # 0 BY <2>1 DEF Sent
    <3> QED BY <2>1, <3>1, <1>1, <1>3 DEF Alike, Bodies, RequestIsDraft
  <2>2. CASE ~Sent(s) BY <2>2 DEF Alike, RequestIsDraft
  <2> QED BY <2>1, <2>2
<1>5. HeadIsInFile(t, cat, R)
  <2>1. CASE Sent(s)
    <3>1. n # 0 BY <2>1 DEF Sent
    <3>2. Op(t) = Op(s) BY <2>1 DEF Alike, Op
    <3> QED BY <2>1, <3>1, <3>2, <1>2, <1>3 DEF Bodies, HeadIsInFile
  <2>2. CASE ~Sent(s)
    <3>1. Sent(t) => Op(t) = s.operations + 1 BY <2>2 DEF Alike
    <3> QED BY <3>1, FreshIsNew DEF HeadIsInFile
  <2> QED BY <2>1, <2>2
<1> QED BY <1>2, <1>4, <1>5 DEF Bodies

LEMMA AlikeCarries ==
    ASSUME NEW s, NEW t, NEW c, NEW R, Good(s, R), CallIsTrue(c, s, R), Alike(s, t),
           Carries(c, s)
    PROVE  Carries(c, t)
<1>1. CASE Sent(s)
  <2>1. Op(t) = Op(s) /\ t.entries[1].request = s.entries[1].request
    BY <1>1 DEF Alike, Op
  <2> QED BY <2>1, <1>1 DEF Carries
<1>2. CASE ~Sent(s)
  <2>1. c.context.op \in 1..s.operations /\ s.operations \in Nat
    BY HeadFacts DEF CallIsTrue
  <2>2. Sent(t) => Op(t) = s.operations + 1 BY <1>2 DEF Alike
  <2> QED BY <2>1, <2>2 DEF Carries
<1> QED BY <1>1, <1>2

\* The head leaves when the file has what it left, if another client did not
\* write over it.
LEMMA ShiftKeepsBodies ==
    ASSUME NEW s, NEW t, NEW st, NEW cat, NEW R, Good(s, R), Good(t, R), Len(s.entries) # 0,
           t.entries = Tail(s.entries), t.unsealed = s.unsealed, Bodies(s, st, cat, R),
           \A d \in Documents : Touches(s.entries[1], d) =>
               cat.body[d] \in {Left(s.entries[1], d), External}
    PROVE  Bodies(t, st, cat, R) /\ ~Sent(t)
<1> DEFINE n == Len(s.entries)
<1>1. n \in Nat /\ n # 0 /\ IsSeq(s.entries) BY HeadFacts
<1>2. Len(t.entries) = n - 1 /\ \A k \in 1..n - 1 : t.entries[k] = s.entries[k + 1]
  BY <1>1, TailSeq
<1> HIDE DEF n
<1>3. ~Sent(t)
  <2>1. \A k \in 1..n : k # 1 => ~HasContext(s.entries[k]) BY DEF Good, HeadIsSent, n
  <2>2. n - 1 # 0 => 1 \in 1..n - 1 /\ 1 + 1 \in 1..n /\ 1 + 1 # 1 BY <1>1
  <2> QED BY <2>1, <2>2, <1>2 DEF Sent
<1>4. \A d, k : k \in Queued(t, d) <=> k \in 1..n - 1 /\ k + 1 \in Queued(s, d)
  <2>1. \A k \in 1..n - 1 : k + 1 \in 1..n BY <1>1
  <2> QED BY <2>1, <1>2 DEF Queued, n
<1>5. \A d, j : j \in Queued(s, d) => j = 1 \/ (j \in Nat /\ j - 1 \in Queued(t, d))
  <2> SUFFICES ASSUME NEW d, NEW j \in Queued(s, d), j # 1
               PROVE  j \in Nat /\ j - 1 \in Queued(t, d)
    OBVIOUS
  <2>1. j \in 1..n BY DEF Queued, n
  <2>2. j \in Nat /\ j - 1 \in 1..n - 1 /\ (j - 1) + 1 = j BY <2>1, <1>1
  <2> QED BY <2>2, <1>4
<1>6. DraftsAreApart(t)
  <2>1. \A k \in 1..n - 1 : k + 1 \in 1..n BY <1>1
  <2>2. t.unsealed => n - 1 # 0 BY <1>2 DEF Good, HeadIsSent
  <2>3. n - 1 # 0 => n - 1 \in 1..n - 1 /\ (n - 1) + 1 = n BY <1>1
  <2>4. t.unsealed => t.entries[n - 1] = s.entries[n] BY <2>2, <2>3, <1>2
  <2>5. t.unsealed => /\ DOMAIN t.entries[n - 1].draft.deletes = {}
                      /\ IsRecords(t.entries[n - 1])
    BY <2>4 DEF Bodies, DraftsAreApart, n
  <2>6. \A k \in 1..n - 1 :
         /\ DOMAIN t.entries[k].draft = DraftFields
         /\ DOMAIN t.entries[k].draft.documents \cap DOMAIN t.entries[k].draft.deletes = {}
         /\ ~IsRecords(t.entries[k]) => /\ DOMAIN t.entries[k].draft.documents = {}
                                        /\ DOMAIN t.entries[k].draft.deletes = {}
    BY <2>1, <1>2 DEF Bodies, DraftsAreApart, n
  <2> QED BY <2>5, <2>6, <1>2 DEF DraftsAreApart
<1>7. ShowsLatest(t, st)
  <2> SUFFICES ASSUME NEW d \in Documents, NEW k \in Queued(t, d),
                      \A j \in Queued(t, d) : j <= k
               PROVE  st[d] = Left(t.entries[k], d)
    BY DEF ShowsLatest
  <2>1. k \in 1..n - 1 /\ k \in Nat /\ k + 1 \in Queued(s, d) BY <1>1, <1>4
  <2>2. \A j \in Queued(s, d) : j <= k + 1
    <3> SUFFICES ASSUME NEW j \in Queued(s, d) PROVE j <= k + 1 OBVIOUS
    <3>1. j = 1 \/ (j \in Nat /\ j - 1 <= k) BY <1>5
    <3> QED BY <3>1, <2>1
  <2>3. st[d] = Left(s.entries[k + 1], d) BY <2>1, <2>2 DEF Bodies, ShowsLatest
  <2> QED BY <2>1, <2>3, <1>2
<1>8. FileIsCurrent(t, st, cat)
  <2> SUFFICES ASSUME NEW d \in Documents, Queued(t, d) = {}
               PROVE  cat.body[d] \in {st[d], External}
    BY DEF FileIsCurrent
  <2>1. CASE Queued(s, d) = {} BY <2>1 DEF Bodies, FileIsCurrent
  <2>2. CASE Queued(s, d) # {}
    <3>1. \A j \in Queued(s, d) : j = 1 BY <1>5
    <3>2. 1 \in Queued(s, d) /\ \A j \in Queued(s, d) : j <= 1 BY <2>2, <3>1
    <3>3. st[d] = Left(s.entries[1], d) BY <3>2 DEF Bodies, ShowsLatest
    <3>4. Touches(s.entries[1], d) BY <3>2 DEF Queued
    <3> QED BY <3>3, <3>4
  <2> QED BY <2>1, <2>2
<1> QED BY <1>3, <1>6, <1>7, <1>8 DEF Bodies, RequestIsDraft, HeadIsInFile

\* A new entry, which the stores show from now on.
LEMMA ExtendsKeepsBodies ==
    ASSUME NEW s, NEW t, NEW e, NEW st, NEW sn, NEW cat, NEW R, Good(s, R),
           Bodies(s, st, cat, R), t.entries = Append(s.entries, e), e.context = NoContext,
           \A d \in Documents : sn[d] = IF Touches(e, d) THEN Left(e, d) ELSE st[d],
           DOMAIN e.draft = DraftFields,
           DOMAIN e.draft.documents \cap DOMAIN e.draft.deletes = {},
           ~IsRecords(e) => DOMAIN e.draft.documents = {} /\ DOMAIN e.draft.deletes = {},
           t.unsealed => DOMAIN e.draft.deletes = {} /\ IsRecords(e)
    PROVE  /\ Bodies(t, sn, cat, R)
           /\ Sent(t) => Sent(s) /\ t.entries[1] = s.entries[1]
<1> DEFINE n == Len(s.entries)
<1>1. n \in Nat /\ IsSeq(s.entries) BY HeadFacts
<1>2. /\ Len(t.entries) = n + 1 /\ t.entries[n + 1] = e
      /\ \A k \in 1..n : t.entries[k] = s.entries[k]
  BY <1>1, AppendSeq
<1> HIDE DEF n
<1>3. \A k \in 1..n + 1 : k \in 1..n \/ k = n + 1 BY <1>1
<1>4. \A k \in 1..n : k \in 1..n + 1 /\ k \in Nat /\ k <= n BY <1>1
<1>5. Sent(t) => Sent(s) /\ t.entries[1] = s.entries[1]
  <2>1. CASE n = 0 BY <2>1, <1>2 DEF Sent, HasContext
  <2>2. CASE n # 0
    <3>1. 1 \in 1..n BY <2>2, <1>1
    <3> QED BY <3>1, <2>2, <1>2 DEF Sent, n
  <2> QED BY <2>1, <2>2
<1>6. DraftsAreApart(t)
  <2>1. \A k \in 1..n + 1 :
         /\ DOMAIN t.entries[k].draft = DraftFields
         /\ DOMAIN t.entries[k].draft.documents \cap DOMAIN t.entries[k].draft.deletes = {}
         /\ ~IsRecords(t.entries[k]) => /\ DOMAIN t.entries[k].draft.documents = {}
                                        /\ DOMAIN t.entries[k].draft.deletes = {}
    BY <1>2, <1>3 DEF Bodies, DraftsAreApart, n
  <2> QED BY <2>1, <1>2 DEF DraftsAreApart
<1>7. RequestIsDraft(t) BY <1>5 DEF Bodies, RequestIsDraft
<1>8. \A d : Queued(t, d) = IF Touches(e, d) THEN Queued(s, d) \cup {n + 1} ELSE Queued(s, d)
  BY <1>1, <1>2, <1>3, <1>4 DEF Queued, n
<1>9. \A d : Queued(s, d) \subseteq 1..n BY DEF Queued, n
<1>10. ShowsLatest(t, sn)
  <2> SUFFICES ASSUME NEW d \in Documents, NEW k \in Queued(t, d),
                      \A j \in Queued(t, d) : j <= k
               PROVE  sn[d] = Left(t.entries[k], d)
    BY DEF ShowsLatest
  <2>1. CASE Touches(e, d)
    <3>1. k = n + 1
      <4>1. n + 1 \in Queued(t, d) BY <2>1, <1>8
      <4>2. n + 1 <= k BY <4>1
      <4>3. k \in 1..n \/ k = n + 1 BY <2>1, <1>8, <1>9
      <4> QED BY <4>2, <4>3, <1>1
    <3> QED BY <2>1, <3>1, <1>2
  <2>2. CASE ~Touches(e, d)
    <3>1. Queued(t, d) = Queued(s, d) BY <2>2, <1>8
    <3>2. st[d] = Left(s.entries[k], d) BY <3>1 DEF Bodies, ShowsLatest
    <3> QED BY <2>2, <3>1, <3>2, <1>2, <1>9
  <2> QED BY <2>1, <2>2
<1>11. FileIsCurrent(t, sn, cat)
  <2> SUFFICES ASSUME NEW d \in Documents, Queued(t, d) = {}
               PROVE  cat.body[d] \in {sn[d], External}
    BY DEF FileIsCurrent
  <2>1. ~Touches(e, d) /\ Queued(s, d) = {} BY <1>8
  <2> QED BY <2>1 DEF Bodies, FileIsCurrent
<1>12. HeadIsInFile(t, cat, R) BY <1>5 DEF Bodies, HeadIsInFile, Op
<1> QED BY <1>5, <1>6, <1>7, <1>10, <1>11, <1>12 DEF Bodies

\* An edit that is coalesced into the last entry.
LEMMA CoalesceKeepsBodies ==
    ASSUME NEW s, NEW d, NEW expected, NEW st, NEW sn, NEW cat, NEW R, Good(s, R), s.unsealed,
           Bodies(s, st, cat, R),
           \A x \in Documents : sn[x] = IF x = d THEN s.sequence + 1 ELSE st[x]
    PROVE  LET t == Coalesce(s, d, expected) IN
           /\ Bodies(t, sn, cat, R)
           /\ Sent(t) => Sent(s) /\ t.entries[1] = s.entries[1]
<1> DEFINE n == Len(s.entries)
           t == Coalesce(s, d, expected)
           w == s.entries[n].draft.documents
           W == [x \in DOMAIN w \union {d} |->
                  IF x # d THEN w[x]
                  ELSE [expected |-> IF d \in DOMAIN w THEN w[d].expected ELSE expected,
                        body |-> s.sequence + 1]]
           a == [s EXCEPT !.sequence = @ + 1]
           b == [a EXCEPT !.entries[n].last = s.sequence + 1]
<1>1. /\ n \in Nat /\ n # 0 /\ n \in 1..n /\ 1 \in 1..n /\ DOMAIN s.entries = 1..n
      /\ DOMAIN s = Fields /\ \A i \in 1..n : DOMAIN s.entries[i] = EntryFields
  BY HeadFacts DEF Good, HeadIsSent, Shaped
<1>2. /\ \A k \in 1..n :
            /\ DOMAIN s.entries[k].draft = DraftFields
            /\ DOMAIN s.entries[k].draft.documents \cap DOMAIN s.entries[k].draft.deletes = {}
            /\ ~IsRecords(s.entries[k]) => /\ DOMAIN s.entries[k].draft.documents = {}
                                           /\ DOMAIN s.entries[k].draft.deletes = {}
      /\ DOMAIN s.entries[n].draft.deletes = {} /\ IsRecords(s.entries[n])
  BY DEF Bodies, DraftsAreApart
<1>3. t = [b EXCEPT !.entries[n].draft.documents = W] BY DEF Coalesce
<1>4. /\ DOMAIN W = DOMAIN w \cup {d} /\ W[d].body = s.sequence + 1
      /\ \A x \in DOMAIN w : x # d => W[x] = w[x]
  OBVIOUS
<1> HIDE DEF n, W
<1>5. /\ DOMAIN b = Fields /\ b.entries = [s.entries EXCEPT ![n].last = s.sequence + 1]
      /\ b.unsealed
  BY <1>1 DEF Fields
<1> HIDE DEF a, b, t
<1>6. t.entries = [b.entries EXCEPT ![n].draft.documents = W] /\ t.unsealed
  BY <1>3, <1>5 DEF Fields
<1>7. /\ DOMAIN b.entries = 1..n /\ DOMAIN b.entries[n] = EntryFields
      /\ \A k \in 1..n : k # n => b.entries[k] = s.entries[k]
      /\ b.entries[n].draft = s.entries[n].draft /\ b.entries[n].context = s.entries[n].context
  BY <1>1, <1>5 DEF EntryFields
<1>8. /\ DOMAIN t.entries = 1..n /\ \A k \in 1..n : k # n => t.entries[k] = s.entries[k]
      /\ t.entries[n].context = s.entries[n].context
      /\ t.entries[n].draft = [s.entries[n].draft EXCEPT !.documents = W]
  BY <1>1, <1>6, <1>7 DEF EntryFields
<1>9. /\ DOMAIN t.entries[n].draft = DraftFields
      /\ t.entries[n].draft.documents = W
      /\ t.entries[n].draft.deletes = s.entries[n].draft.deletes
      /\ t.entries[n].draft.tables = s.entries[n].draft.tables
  BY <1>1, <1>2, <1>8 DEF DraftFields
<1>10. Len(t.entries) = n
  <2>1. t.entries = [i \in 1..n |-> t.entries[i]] BY <1>1, <1>6, <1>7
  <2> QED BY <2>1, <1>1, SeqOf
<1>11. Sent(t) => Sent(s) /\ t.entries[1] = s.entries[1]
  <2>1. CASE n = 1
    <3>1. ~Sent(s) BY <2>1 DEF Good, HeadIsSent, Open, n
    <3> QED BY <2>1, <3>1, <1>1, <1>8, <1>10 DEF Sent, HasContext, n
  <2>2. CASE n # 1 BY <2>2, <1>1, <1>8, <1>10 DEF Sent, n
  <2> QED BY <2>1, <2>2
<1>12. \A k \in 1..n : k # n => \A x : /\ Touches(t.entries[k], x) <=> Touches(s.entries[k], x)
                                       /\ Left(t.entries[k], x) = Left(s.entries[k], x)
  BY <1>8
<1>13. \A x : Touches(t.entries[n], x) <=> x = d \/ Touches(s.entries[n], x)
  BY <1>4, <1>9 DEF Touches, w
<1>14. Left(t.entries[n], d) = s.sequence + 1 BY <1>4, <1>9 DEF Left
<1>15. \A x : x # d => Left(t.entries[n], x) = Left(s.entries[n], x)
  BY <1>4, <1>9 DEF Left, w
<1>16. DraftsAreApart(t)
  <2>1. IsRecords(t.entries[n]) BY <1>2, <1>9 DEF IsRecords
  <2>2. \A k \in 1..n :
         /\ DOMAIN t.entries[k].draft = DraftFields
         /\ DOMAIN t.entries[k].draft.documents \cap DOMAIN t.entries[k].draft.deletes = {}
         /\ ~IsRecords(t.entries[k]) => /\ DOMAIN t.entries[k].draft.documents = {}
                                        /\ DOMAIN t.entries[k].draft.deletes = {}
    <3> SUFFICES ASSUME NEW k \in 1..n
                 PROVE  /\ DOMAIN t.entries[k].draft = DraftFields
                        /\ DOMAIN t.entries[k].draft.documents
                              \cap DOMAIN t.entries[k].draft.deletes = {}
                        /\ ~IsRecords(t.entries[k]) =>
                              /\ DOMAIN t.entries[k].draft.documents = {}
                              /\ DOMAIN t.entries[k].draft.deletes = {}
      OBVIOUS
    <3>1. CASE k = n BY <3>1, <2>1, <1>2, <1>9
    <3>2. CASE k # n BY <3>2, <1>2, <1>8
    <3> QED BY <3>1, <3>2
  <2> QED BY <2>1, <2>2, <1>2, <1>9, <1>10 DEF DraftsAreApart
<1>17. RequestIsDraft(t) BY <1>11 DEF Bodies, RequestIsDraft
<1>18. \A x : Queued(t, x) = IF x = d THEN Queued(s, x) \cup {n} ELSE Queued(s, x)
  <2>1. \A x, k : k \in Queued(t, x) <=> k \in 1..n /\ Touches(t.entries[k], x)
    BY <1>10 DEF Queued
  <2>2. \A x, k : k \in Queued(s, x) <=> k \in 1..n /\ Touches(s.entries[k], x)
    BY DEF Queued, n
  <2>3. \A x, k : k \in 1..n => (Touches(t.entries[k], x)
                               <=> Touches(s.entries[k], x) \/ (k = n /\ x = d))
    BY <1>12, <1>13
  <2>4. \A x, k : k \in Queued(t, x) <=> k \in Queued(s, x) \/ (k = n /\ x = d)
    BY <2>1, <2>2, <2>3, <1>1
  <2> SUFFICES ASSUME NEW x
               PROVE  Queued(t, x) = IF x = d THEN Queued(s, x) \cup {n} ELSE Queued(s, x)
    OBVIOUS
  <2> DEFINE T == Queued(t, x)
             S == Queued(s, x)
  <2>5. \A k : k \in T <=> k \in S \/ (k = n /\ x = d) BY <2>4
  <2> HIDE DEF T, S
  <2>6. T = IF x = d THEN S \cup {n} ELSE S BY <2>5
  <2> QED BY <2>6 DEF T, S
<1>19. \A x : Queued(s, x) \subseteq 1..n BY DEF Queued, n
<1>20. ShowsLatest(t, sn)
  <2> SUFFICES ASSUME NEW x \in Documents, NEW k \in Queued(t, x),
                      \A j \in Queued(t, x) : j <= k
               PROVE  sn[x] = Left(t.entries[k], x)
    BY DEF ShowsLatest
  <2>1. CASE x = d
    <3>1. n \in Queued(t, x) /\ k \in 1..n BY <2>1, <1>1, <1>18, <1>19
    <3>2. n <= k BY <3>1
    <3>3. k = n BY <3>1, <3>2, <1>1
    <3> QED BY <2>1, <3>3, <1>14
  <2>2. CASE x # d
    <3>1. k \in Queued(s, x) /\ \A j \in Queued(s, x) : j <= k BY <2>2, <1>18
    <3>2. st[x] = Left(s.entries[k], x) BY <3>1 DEF Bodies, ShowsLatest
    <3>3. k \in 1..n BY <3>1, <1>19
    <3>4. Left(t.entries[k], x) = Left(s.entries[k], x) BY <2>2, <3>3, <1>12, <1>15
    <3> QED BY <2>2, <3>2, <3>4
  <2> QED BY <2>1, <2>2
<1>21. FileIsCurrent(t, sn, cat)
  <2> SUFFICES ASSUME NEW x \in Documents, Queued(t, x) = {}
               PROVE  cat.body[x] \in {sn[x], External}
    BY DEF FileIsCurrent
  <2>1. x # d /\ Queued(s, x) = {} BY <1>18
  <2> QED BY <2>1 DEF Bodies, FileIsCurrent
<1>22. HeadIsInFile(t, cat, R) BY <1>11 DEF Bodies, HeadIsInFile, Op
<1> QED BY <1>11, <1>16, <1>17, <1>20, <1>21, <1>22 DEF Bodies, t

-----------------------------------------------------------------------------
(* What a patch makes of the bodies *)

LEMMA EnsuredBody ==
    ASSUME NEW cat, DOMAIN cat = CatalogFields, NEW P
    PROVE  LET ensured == Backend!EnsureFolders(cat, P)
           IN  DOMAIN ensured = CatalogFields /\ ensured.body = cat.body
BY DEF Backend!EnsureFolders, CatalogFields

LEMMA AdvancedBody ==
    ASSUME NEW cat, DOMAIN cat = CatalogFields, NEW D, NEW B
    PROVE  LET advanced == Backend!Advance(cat, D, B)
           IN  DOMAIN advanced = CatalogFields /\ advanced.body = cat.body
BY DEF Backend!Advance, CatalogFields

LEMMA WrittenBody ==
    ASSUME NEW cat, DOMAIN cat = CatalogFields, NEW W
    PROVE  LET written == Backend!WriteDocuments(cat, W)
           IN  /\ DOMAIN written = CatalogFields
               /\ \A d \in Documents :
                    written.body[d] = IF d \in DOMAIN W THEN W[d].body ELSE cat.body[d]
<1> DEFINE a == Backend!Advance(cat, DOMAIN W, DOMAIN W)
           f == [d \in Documents |-> IF d \in DOMAIN W THEN W[d].folder ELSE a.folder[d]]
           b == [d \in Documents |-> IF d \in DOMAIN W THEN W[d].body ELSE a.body[d]]
           w == [a EXCEPT !.folder = f, !.body = b]
           P == {W[d].folder : d \in DOMAIN W}
<1>1. DOMAIN a = CatalogFields /\ a.body = cat.body BY AdvancedBody
<1>2. Backend!WriteDocuments(cat, W) = Backend!EnsureFolders(w, P)
  BY DEF Backend!WriteDocuments
<1>3. \A d \in Documents : b[d] = IF d \in DOMAIN W THEN W[d].body ELSE cat.body[d]
  BY <1>1
<1> HIDE DEF a, f, b, P
<1>4. DOMAIN w = CatalogFields /\ w.body = b BY <1>1 DEF CatalogFields
<1> HIDE DEF w
<1> QED BY <1>2, <1>3, <1>4, EnsuredBody

LEMMA MovedBody ==
    ASSUME NEW cat, DOMAIN cat = CatalogFields, NEW M
    PROVE  LET moved == Backend!MoveDocuments(cat, M)
           IN  DOMAIN moved = CatalogFields /\ moved.body = cat.body
<1> DEFINE a == Backend!Advance(cat, DOMAIN M, {d \in DOMAIN M : cat.bodyRevision[d] # 0})
           f == [d \in Documents |-> IF d \in DOMAIN M THEN M[d].folder ELSE a.folder[d]]
           w == [a EXCEPT !.folder = f]
           P == {M[d].folder : d \in DOMAIN M}
<1>1. DOMAIN a = CatalogFields /\ a.body = cat.body BY AdvancedBody
<1>2. Backend!MoveDocuments(cat, M) = Backend!EnsureFolders(w, P)
  BY DEF Backend!MoveDocuments
<1> HIDE DEF a, f, P
<1>3. DOMAIN w = CatalogFields /\ w.body = cat.body BY <1>1 DEF CatalogFields
<1> HIDE DEF w
<1> QED BY <1>2, <1>3, EnsuredBody

LEMMA PatchedBody ==
    ASSUME NEW cat, DOMAIN cat = CatalogFields, NEW p
    PROVE  LET patched == Backend!ApplyPatch(cat, p)
           IN  /\ DOMAIN patched = CatalogFields
               /\ \A d \in Documents :
                    patched.body[d] = IF d \in p.deletes THEN NoBody
                                      ELSE IF d \in DOMAIN p.documents THEN p.documents[d].body
                                      ELSE cat.body[d]
<1> DEFINE c == Backend!AfterCreate(cat, p)
           w == Backend!AfterWrite(cat, p)
           m == Backend!AfterMove(cat, p)
           x == Backend!AfterDelete(cat, p)
           s == Backend!AfterSettings(cat, p)
<1>1. DOMAIN c = CatalogFields /\ c.body = cat.body BY EnsuredBody DEF Backend!AfterCreate
<1>2. w = Backend!WriteDocuments(c, p.documents) BY DEF Backend!AfterWrite
<1>3. m = Backend!MoveDocuments(w, p.moves) BY DEF Backend!AfterMove
<1>4. x = Backend!DeleteDocuments(m, p.deletes) BY DEF Backend!AfterDelete
<1>5. s = Backend!WriteSettings(x, p.settings) BY DEF Backend!AfterSettings
<1>6. Backend!ApplyPatch(cat, p) = Backend!DeleteFolders(s, p.deletedFolders)
  BY DEF Backend!ApplyPatch
<1> HIDE DEF c, w, m, x, s
<1>7. /\ DOMAIN w = CatalogFields
      /\ \A d \in Documents :
           w.body[d] = IF d \in DOMAIN p.documents THEN p.documents[d].body ELSE cat.body[d]
  BY <1>1, <1>2, WrittenBody
<1>8. DOMAIN m = CatalogFields /\ m.body = w.body BY <1>3, <1>7, MovedBody
<1>9. /\ DOMAIN x = CatalogFields
      /\ x.body = [d \in Documents |-> IF d \in p.deletes THEN NoBody ELSE m.body[d]]
  BY <1>4, <1>8 DEF Backend!DeleteDocuments, CatalogFields
<1>10. DOMAIN s = CatalogFields /\ s.body = x.body
  BY <1>5, <1>9 DEF Backend!WriteSettings, CatalogFields
<1>11. /\ DOMAIN Backend!ApplyPatch(cat, p) = CatalogFields
       /\ Backend!ApplyPatch(cat, p).body = s.body
  BY <1>6, <1>10 DEF Backend!DeleteFolders, CatalogFields
<1> QED BY <1>7, <1>8, <1>9, <1>10, <1>11

-----------------------------------------------------------------------------
(* Steps of the coordinator *)

\* The calls of C go on as calls of calls do.
GoOn(C) == \A c \in C : \E e \in calls : c.context = e.context /\ c.request = e.request

\* A handler and the call it may send for the head.
LEMMA HandlerStores ==
    ASSUME IInv, IInv', StoredInv, UNCHANGED file, DOMAIN store' = Documents,
           NEW others, NEW kind, GoOn(others), calls' \subseteq others \cup {Call(kind, q')},
           Bodies(q', store', catalog, receipts),
           \A c : CallIsTrue(c, q, receipts) /\ Carries(c, q) => Carries(c, q')
    PROVE  StoredInv'
<1>1. Good(q', receipts) /\ receipts' = receipts /\ catalog' = catalog
  BY DEF IInv, file
<1>2. \A c \in calls : CallIsTrue(c, q, receipts) /\ Carries(c, q)
  BY DEF IInv, CallsAreTrue, StoredInv
<1>3. \A c \in others : Carries(c, q')
  <2> SUFFICES ASSUME NEW c \in others PROVE Carries(c, q') OBVIOUS
  <2>1. PICK e \in calls : c.context = e.context /\ c.request = e.request BY DEF GoOn
  <2>2. Carries(e, q') BY <1>2
  <2> QED BY <2>1, <2>2 DEF Carries
<1>4. Carries(Call(kind, q'), q')
  <2>1. Sent(q') => Head(q'.entries) = q'.entries[1] BY <1>1, HeadFacts DEF Sent
  <2>2. Call(kind, q').request = Head(q'.entries).request BY DEF Call
  <2> QED BY <2>1, <2>2 DEF Carries
<1> QED BY <1>1, <1>3, <1>4 DEF StoredInv

LEMMA AlikeStores ==
    ASSUME IInv, IInv', StoredInv, UNCHANGED <<file, store>>, NEW others, NEW kind,
           GoOn(others), calls' \subseteq others \cup {Call(kind, q')}, Alike(q, q')
    PROVE  StoredInv'
<1>1. Good(q, receipts) /\ Good(q', receipts) BY DEF IInv, file
<1>2. Bodies(q', store, catalog, receipts) BY <1>1, AlikeKeepsBodies DEF StoredInv
<1>3. \A c : CallIsTrue(c, q, receipts) /\ Carries(c, q) => Carries(c, q')
  BY <1>1, AlikeCarries
<1>4. store' = store /\ DOMAIN store = Documents BY DEF StoredInv
<1> QED BY <1>2, <1>3, <1>4, HandlerStores

LEMMA BecomesAlike ==
    ASSUME IInv, IInv', StoredInv, UNCHANGED <<file, store>>, NEW t, NEW others,
           others \subseteq calls, Becomes(t, others), Alike(q, t)
    PROVE  StoredInv'
<1>1. q' = t /\ calls' \subseteq others \cup {Call("commit", q')} BY DEF Becomes
<1>2. GoOn(others) BY DEF GoOn
<1> QED BY <1>1, <1>2, AlikeStores

LEMMA SameHeadCarries ==
    ASSUME NEW s, NEW t, NEW c, Carries(c, s), Sent(t) => Sent(s) /\ t.entries[1] = s.entries[1]
    PROVE  Carries(c, t)
BY DEF Carries, Op

LEMMA SamePumpStores ==
    ASSUME IInv, IInv', StoredInv, UNCHANGED <<file, store>>, NEW t, Same(q, t),
           Becomes(Pump(t), calls)
    PROVE  StoredInv'
<1>1. Good(q, receipts) BY DEF IInv
<1>2. Good(t, receipts) /\ Alike(q, t) BY <1>1, SameIsQuiet, SameIsAlike DEF Quiet
<1>3. Alike(t, Pump(t)) BY <1>2, PumpIsAlike
<1> QED BY <1>2, <1>3, AlikeThenAlike, BecomesAlike

\* An edit, and then pump.
LEMMA EditStores ==
    ASSUME IInv, IInv', StoredInv, UNCHANGED file, DOMAIN store' = Documents, NEW t,
           Quiet(q, t, receipts), Bodies(t, store', catalog, receipts),
           \A c : CallIsTrue(c, q, receipts) /\ Carries(c, q) => Carries(c, t),
           Becomes(Pump(t), calls)
    PROVE  StoredInv'
<1>1. q' = Pump(t) /\ calls' \subseteq calls \cup {Call("commit", q')} BY DEF Becomes
<1>2. Good(t, receipts) /\ Good(q', receipts) /\ CallsKeep(q, t, receipts)
  BY DEF IInv, file, Quiet
<1>3. Alike(t, q') BY <1>1, <1>2, PumpIsAlike
<1>4. Bodies(q', store', catalog, receipts) BY <1>2, <1>3, AlikeKeepsBodies
<1>5. ASSUME NEW c, CallIsTrue(c, q, receipts), Carries(c, q) PROVE Carries(c, q')
  <2>1. Carries(c, t) BY <1>5
  <2> QED BY <2>1, <1>2, <1>3, <1>5, AlikeCarries DEF CallsKeep
<1>6. GoOn(calls) BY DEF GoOn
<1> QED BY <1>1, <1>4, <1>5, <1>6, HandlerStores

LEMMA EnqueueDocumentStores ==
    ASSUME IInv, IInv', StoredInv, NEW d \in Documents, NEW expected,
           EnqueueDocument(d, expected)
    PROVE  StoredInv'
<1> DEFINE draft == [NoDraft EXCEPT !.documents =
                       [x \in {d} |-> [expected |-> expected, body |-> q.sequence + 1]]]
           entry == [first |-> q.sequence + 1, last |-> q.sequence + 1, ready |-> FALSE,
                     draft |-> draft, context |-> NoContext, request |-> NoMap]
           u == [NewEntry(q, FALSE, draft) EXCEPT !.unsealed = TRUE]
           t == IF q.unsealed THEN Coalesce(q, d, expected) ELSE u
<1>1. /\ ~q.closed /\ ~q.closing /\ q.sequence < MaxEdits /\ Becomes(Pump(t), calls)
      /\ UNCHANGED file /\ store' = [store EXCEPT ![d] = q.sequence + 1]
  BY DEF EnqueueDocument, Editable
<1>2. Good(q, receipts) /\ Bodies(q, store, catalog, receipts) /\ DOMAIN store = Documents
  BY DEF IInv, StoredInv
<1>3. /\ DOMAIN store' = Documents
      /\ \A x \in Documents : store'[x] = IF x = d THEN q.sequence + 1 ELSE store[x]
  BY <1>1, <1>2
<1>4. CASE q.unsealed
  <2>1. Quiet(q, t, receipts) BY <1>1, <1>2, <1>4, CoalesceIsQuiet
  <2>2. /\ Bodies(t, store', catalog, receipts)
        /\ Sent(t) => Sent(q) /\ t.entries[1] = q.entries[1]
    BY <1>2, <1>3, <1>4, CoalesceKeepsBodies
  <2>3. \A c : Carries(c, q) => Carries(c, t) BY <2>2, SameHeadCarries
  <2> QED BY <2>1, <2>2, <2>3, <1>1, <1>3, EditStores
<1>5. CASE ~q.unsealed
  <2>1. /\ DOMAIN draft = DraftFields /\ DOMAIN draft.documents = {d}
        /\ draft.documents[d].body = q.sequence + 1
        /\ DOMAIN draft.deletes = {} /\ draft.tables = NoMap
    BY DEF NoDraft, NoMap, DraftFields
  <2> HIDE DEF draft
  <2>2. /\ DOMAIN u = Fields /\ u.entries = Append(q.entries, entry) /\ u.unsealed \in BOOLEAN
        /\ u.sequence = q.sequence + 1 /\ u.acknowledged = q.acknowledged
        /\ u.operations = q.operations /\ u.discarded = q.discarded
        /\ u.recovering = q.recovering /\ u.sent = q.sent /\ u.flushes = q.flushes
        /\ u.closing = q.closing /\ u.closed = q.closed
    BY <1>2 DEF Good, Shaped, Fields, NewEntry
  <2>3. /\ DOMAIN entry = EntryFields /\ entry.first = q.sequence + 1
        /\ entry.last = q.sequence + 1 /\ entry.context = NoContext /\ entry.draft = draft
    BY DEF EntryFields
  <2> HIDE DEF u, entry
  <2>4. Quiet(q, u, receipts) BY <2>2, <2>3, <1>1, <1>2, <1>5, ExtendsIsQuiet
  <2>5. IsRecords(entry) BY <2>1, <2>3 DEF IsRecords
  <2>6. \A x : /\ Touches(entry, x) <=> x = d
               /\ Left(entry, d) = q.sequence + 1
    BY <2>1, <2>3 DEF Touches, Left
  <2>7. \A x \in Documents : store'[x] = IF Touches(entry, x) THEN Left(entry, x) ELSE store[x]
    BY <2>6, <1>3
  <2>8. /\ Bodies(u, store', catalog, receipts)
        /\ Sent(u) => Sent(q) /\ u.entries[1] = q.entries[1]
    <3>1. Good(q, receipts) BY <1>2
    <3>2. Bodies(q, store, catalog, receipts) BY <1>2
    <3>3. DOMAIN entry.draft = DraftFields BY <2>1, <2>3
    <3>4. DOMAIN entry.draft.documents \cap DOMAIN entry.draft.deletes = {} BY <2>1, <2>3
    <3>5. DOMAIN entry.draft.deletes = {} /\ entry.context = NoContext BY <2>1, <2>3
    <3>6. ASSUME NEW w, NEW sn, w.entries = Append(q.entries, entry),
                 \A x \in Documents :
                   sn[x] = IF Touches(entry, x) THEN Left(entry, x) ELSE store[x]
          PROVE  /\ Bodies(w, sn, catalog, receipts)
                 /\ Sent(w) => Sent(q) /\ w.entries[1] = q.entries[1]
      <4> HIDE DEF t
      <4>1. ~IsRecords(entry) => /\ DOMAIN entry.draft.documents = {}
                                /\ DOMAIN entry.draft.deletes = {}
        BY <2>5
      <4>2. w.unsealed => DOMAIN entry.draft.deletes = {} /\ IsRecords(entry) BY <2>5, <3>5
      <4>3. w.entries = Append(q.entries, entry) BY <3>6
      <4>4. \A x \in Documents :
              sn[x] = IF Touches(entry, x) THEN Left(entry, x) ELSE store[x]
        BY <3>6
      <4>5. entry.context = NoContext BY <3>5
      <4> QED
        BY <3>1, <3>2, <3>3, <3>4, <4>1, <4>2, <4>3, <4>4, <4>5, ExtendsKeepsBodies, SMTT(30)
    <3>7. u.entries = Append(q.entries, entry) BY <2>2
    <3> HIDE DEF t
    <3> QED BY <3>6, <3>7, <2>7
  <2>9. \A c : Carries(c, q) => Carries(c, u) BY <2>8, SameHeadCarries
  <2> QED BY <2>4, <2>8, <2>9, <1>1, <1>3, <1>5, EditStores
<1> QED BY <1>4, <1>5

\* A command, which the stores show as the draft has it.
LEMMA SubmitStores ==
    ASSUME IInv, IInv', StoredInv, NEW draft, Submit(draft), DOMAIN store' = Documents,
           DOMAIN draft = DraftFields, DOMAIN draft.documents = {},
           draft.tables # NoMap => DOMAIN draft.deletes = {},
           \A x \in Documents :
             store'[x] = IF x \in DOMAIN draft.deletes THEN NoBody ELSE store[x]
    PROVE  StoredInv'
<1> DEFINE s == Seal(q)
           entry == [first |-> s.sequence + 1, last |-> s.sequence + 1, ready |-> TRUE,
                     draft |-> draft, context |-> NoContext, request |-> NoMap]
           t == NewEntry(s, TRUE, draft)
<1>1. /\ ~q.closed /\ ~q.closing /\ q.sequence < MaxEdits /\ Becomes(Pump(t), calls)
      /\ UNCHANGED file
  BY DEF Submit, Editable
<1>2. Good(q, receipts) /\ Bodies(q, store, catalog, receipts) BY DEF IInv, StoredInv
<1>3. Quiet(q, s, receipts) /\ ~s.unsealed /\ Alike(q, s)
  BY <1>2, SealIsQuiet, SealIsAlike
<1>4. s.closed = q.closed /\ s.closing = q.closing /\ s.sequence = q.sequence
  BY <1>2, SealAgrees DEF Good, HeadIsSent, Agree
<1> HIDE DEF s
<1>5. Good(s, receipts) BY <1>3 DEF Quiet
<1>6. Bodies(s, store, catalog, receipts) BY <1>2, <1>3, <1>5, AlikeKeepsBodies
<1>7. /\ DOMAIN t = Fields /\ t.entries = Append(s.entries, entry) /\ t.unsealed = s.unsealed
      /\ t.sequence = s.sequence + 1 /\ t.acknowledged = s.acknowledged
      /\ t.operations = s.operations /\ t.discarded = s.discarded
      /\ t.recovering = s.recovering /\ t.sent = s.sent /\ t.flushes = s.flushes
      /\ t.closing = s.closing /\ t.closed = s.closed
  BY <1>5 DEF Good, Shaped, Fields, NewEntry
<1>8. s.unsealed \in BOOLEAN BY <1>5 DEF Good, Shaped
<1>9. /\ DOMAIN entry = EntryFields /\ entry.first = s.sequence + 1
      /\ entry.last = s.sequence + 1 /\ entry.context = NoContext /\ entry.draft = draft
  BY DEF EntryFields
<1> HIDE DEF t, entry
<1>10. Quiet(s, t, receipts) BY <1>1, <1>3, <1>4, <1>5, <1>7, <1>8, <1>9, ExtendsIsQuiet
<1>11. \A x : /\ Touches(entry, x) <=> x \in DOMAIN draft.deletes
              /\ Left(entry, x) = NoBody
  BY <1>9 DEF Touches, Left
<1>12. IsRecords(entry) <=> draft.tables = NoMap BY <1>9 DEF IsRecords
<1>13. \A x \in Documents : store'[x] = IF Touches(entry, x) THEN Left(entry, x) ELSE store[x]
  BY <1>11
<1>14. /\ Bodies(t, store', catalog, receipts)
       /\ Sent(t) => Sent(s) /\ t.entries[1] = s.entries[1]
  BY <1>3, <1>5, <1>6, <1>7, <1>9, <1>12, <1>13, ExtendsKeepsBodies
<1>15. Quiet(q, t, receipts) BY <1>3, <1>10, QuietThenQuiet
<1>16. \A c : CallIsTrue(c, q, receipts) /\ Carries(c, q) => Carries(c, t)
  <2> SUFFICES ASSUME NEW c, CallIsTrue(c, q, receipts), Carries(c, q) PROVE Carries(c, t)
    OBVIOUS
  <2>1. Carries(c, s) BY <1>2, <1>3, AlikeCarries
  <2> QED BY <2>1, <1>14, SameHeadCarries
<1> QED BY <1>1, <1>14, <1>15, <1>16, EditStores DEF t, s

LEMMA CaptureBarrierStores == ASSUME IInv, IInv', StoredInv, CaptureBarrier PROVE StoredInv'
<1>1. /\ Good(q, receipts) /\ Becomes(Seal(q), calls) /\ UNCHANGED <<file, store>>
  BY DEF IInv, CaptureBarrier
<1>2. Alike(q, Seal(q)) BY <1>1, SealIsAlike
<1> QED BY <1>1, <1>2, BecomesAlike

\* A flush of the record s, which has the calls and flushes of q.
LEMMA FlushThroughStores ==
    ASSUME IInv, IInv', StoredInv, NEW s, NEW through \in Nat, NEW closes \in BOOLEAN, NEW n,
           NEW r, Quiet(q, r, receipts), Alike(q, r),
           IF closes THEN /\ ~r.closing /\ s = [r EXCEPT !.closing = TRUE]
                          /\ through = r.sequence
                     ELSE s = r,
           FlushThrough(s, through, closes, n), UNCHANGED <<file, store>>
    PROVE  StoredInv'
<1> DEFINE f == [through |-> through, closes |-> closes, state |-> "chained"]
           t == [s EXCEPT !.flushes = Append(@, f)]
           u == [t EXCEPT !.active = TRUE, !.recovering = TRUE, !.sent = @ + 1]
           i == Len(s.flushes) + 1
<1>1. /\ Good(q, receipts) /\ Good(r, receipts) /\ Good(q', receipts)
      /\ r.sent = q.sent /\ r.recovering = q.recovering
  BY DEF Quiet, IInv, file
<1>2. DOMAIN r = Fields BY <1>1 DEF Good, Shaped
<1>3. /\ DOMAIN s = Fields /\ s.entries = r.entries /\ s.unsealed = r.unsealed
      /\ s.sequence = r.sequence /\ s.acknowledged = r.acknowledged
      /\ s.operations = r.operations /\ s.discarded = r.discarded
      /\ s.recovering = r.recovering /\ s.sent = r.sent /\ s.flushes = r.flushes
      /\ IF closes THEN s.closing = TRUE ELSE s.closing = r.closing
      /\ s.closed = r.closed
  BY <1>2 DEF Fields
<1>4. /\ Len(s.flushes) < MaxFlushes
      /\ \/ q' = u /\ calls' = calls \union {Call("recover", u)}
         \/ q' = t /\ calls' = calls
         \/ Becomes(FlushPending(t, i, n), calls)
  BY DEF FlushThrough
<1>5. /\ DOMAIN t = Fields /\ t.entries = r.entries /\ t.unsealed = r.unsealed
      /\ t.sequence = r.sequence /\ t.acknowledged = r.acknowledged
      /\ t.operations = r.operations /\ t.discarded = r.discarded
      /\ t.recovering = r.recovering /\ t.sent = r.sent /\ t.flushes = Append(r.flushes, f)
      /\ t.closing = s.closing /\ t.closed = r.closed
  BY <1>3 DEF Fields
<1>6. /\ u.entries = r.entries /\ u.operations = r.operations /\ u.unsealed = r.unsealed
  BY <1>5 DEF Fields
<1> HIDE DEF t, u
<1>7. r.sent \in Nat /\ r.recovering \in BOOLEAN BY <1>1 DEF Good, Shaped
<1>8. Good(t, receipts)
  <2>1. /\ t.recovering \in BOOLEAN /\ t.sent \in Nat /\ Good(r, receipts)
        /\ Len(r.flushes) < MaxFlushes
    BY <1>1, <1>3, <1>4, <1>5, <1>7
  <2>2. IF closes THEN ~r.closing /\ t.closing = TRUE /\ through = r.sequence
                  ELSE t.closing = r.closing
    BY <1>3, <1>5
  <2> QED BY <2>1, <2>2, <1>5, AddFlush
<1>9. Alike(r, t) /\ Alike(r, u) BY <1>1, <1>5, <1>6, SameEntriesAlike
<1>10. Alike(q, t) /\ Alike(q, u) BY <1>9, AlikeThenAlike
<1>11. GoOn(calls) BY DEF GoOn
<1>12. CASE q' = u /\ calls' = calls \union {Call("recover", u)}
  BY <1>10, <1>11, <1>12, AlikeStores
<1>13. CASE q' = t /\ calls' = calls BY <1>10, <1>11, <1>13, AlikeStores
<1>14. CASE Becomes(FlushPending(t, i, n), calls)
  <2>1. i \in Flushes(t, "chained")
    <3>1. IsSeq(r.flushes) /\ Len(r.flushes) \in Nat BY <1>1, SeqLen DEF Good, Shaped
    <3>2. IsSeq(t.flushes) /\ Len(t.flushes) = i /\ t.flushes[i] = f
      BY <3>1, <1>3, <1>5, AppendSeq
    <3>3. i \in DOMAIN t.flushes BY <3>1, <3>2, <1>3, SeqLen
    <3> QED BY <3>2, <3>3 DEF Flushes
  <2>2. Alike(t, FlushPending(t, i, n)) BY <2>1, <1>8, FlushPendingIsAlike
  <2> QED BY <2>2, <1>10, <1>14, AlikeThenAlike, BecomesAlike
<1> QED BY <1>4, <1>12, <1>13, <1>14

LEMMA FlushStores ==
    ASSUME IInv, IInv', StoredInv, NEW through \in 1..MaxEdits, NEW n, Flush(through, n)
    PROVE  StoredInv'
<1>1. Quiet(q, q, receipts) BY DEF IInv, Quiet, CallsKeep
<1>2. Alike(q, q) BY SameEntriesAlike DEF IInv
<1>3. through \in Nat BY AutosaveBounds
<1>4. FlushThrough(q, through, FALSE, n) /\ UNCHANGED <<file, store>> BY DEF Flush
<1> QED BY <1>1, <1>2, <1>3, <1>4, FlushThroughStores

LEMMA CloseStores == ASSUME IInv, IInv', StoredInv, NEW n, Close(n) PROVE StoredInv'
<1> DEFINE r == Seal(q)
           s == [r EXCEPT !.closing = TRUE]
<1>1. Good(q, receipts) BY DEF IInv
<1>2. Quiet(q, r, receipts) /\ Alike(q, r) BY <1>1, SealIsQuiet, SealIsAlike
<1>3. r.closing = q.closing /\ r.sequence = q.sequence
  BY <1>1, SealAgrees DEF Good, HeadIsSent, Agree
<1>4. q.sequence \in Nat BY <1>1 DEF Good, Shaped
<1>5. FlushThrough(s, q.sequence, TRUE, n) /\ ~q.closing /\ UNCHANGED <<file, store>>
  BY DEF Close
<1> HIDE DEF r
<1> QED BY <1>2, <1>3, <1>4, <1>5, FlushThroughStores

LEMMA FlushGoesOnStores ==
    ASSUME IInv, IInv', StoredInv, NEW n, FlushGoesOn(n) PROVE StoredInv'
<1> DEFINE least(i) == \A j \in Flushes(q, "chained") : i <= j
           i == CHOOSE i \in Flushes(q, "chained") : least(i)
<1>1. /\ Flushes(q, "chained") # {} /\ Becomes(FlushPending(q, i, n), calls)
      /\ UNCHANGED <<file, store>>
  BY DEF FlushGoesOn
<1>2. Good(q, receipts) BY DEF IInv
<1>3. \E m \in Flushes(q, "chained") : least(m)
  <2>1. Flushes(q, "chained") \subseteq Nat
    BY <1>2, SeqLen DEF Good, Shaped, Flushes
  <2> QED BY <1>1, <2>1, LeastOf
<1> HIDE DEF least
<1>4. i \in Flushes(q, "chained") BY <1>3
<1> HIDE DEF i
<1>5. Alike(q, FlushPending(q, i, n)) BY <1>2, <1>4, FlushPendingIsAlike
<1> QED BY <1>1, <1>5, BecomesAlike

LEMMA ResolveFailedOperationStores ==
    ASSUME IInv, IInv', StoredInv, ResolveFailedOperation PROVE StoredInv'
<1> DEFINE s == [q EXCEPT !.active = TRUE, !.sent = @ + 1]
<1>1. /\ q' = s /\ calls' = calls \union {Call("resolve", s)} /\ UNCHANGED <<file, store>>
  BY DEF ResolveFailedOperation
<1>2. Good(q, receipts) BY DEF IInv
<1>3. s.entries = q.entries /\ s.operations = q.operations /\ s.unsealed = q.unsealed
  BY <1>2 DEF Good, Shaped, Fields
<1> HIDE DEF s
<1>4. Alike(q, s) BY <1>2, <1>3, SameEntriesAlike
<1>5. GoOn(calls) BY DEF GoOn
<1> QED BY <1>1, <1>4, <1>5, AlikeStores

LEMMA WindowElapsesStores ==
    ASSUME IInv, IInv', StoredInv, WindowElapses PROVE StoredInv'
<1> DEFINE n == Len(q.entries)
<1>1. /\ q.unsealed /\ q' = [q EXCEPT !.entries[n].ready = TRUE]
      /\ calls' = calls /\ UNCHANGED <<file, store>>
  BY DEF WindowElapses
<1>2. /\ Good(q, receipts) /\ Shaped(q) /\ n # 0 /\ n \in Nat /\ n \in 1..n
      /\ DOMAIN q = Fields /\ DOMAIN q.entries = 1..n
  <2>1. Good(q, receipts) BY DEF IInv
  <2>2. Shaped(q) /\ n # 0 BY <2>1, <1>1 DEF Good, HeadIsSent
  <2>3. DOMAIN q = Fields BY <2>2 DEF Shaped
  <2>4. n \in Nat /\ DOMAIN q.entries = 1..n BY <2>2, SeqLen DEF Shaped
  <2> QED BY <2>1, <2>2, <2>3, <2>4
<1>3. /\ q'.entries = [q.entries EXCEPT ![n].ready = TRUE]
      /\ q'.operations = q.operations /\ q'.unsealed = q.unsealed
  BY <1>1, <1>2 DEF Fields
<1>4. EntriesAlike(q.entries, q'.entries) BY <1>2, <1>3, ReadyEntry
<1>5. \A k \in 1..n : q'.entries[k].draft = q.entries[k].draft
  <2>1. \A k \in 1..n : DOMAIN q.entries[k] = EntryFields BY <1>2 DEF Shaped
  <2> QED BY <2>1, <1>2, <1>3 DEF EntryFields
<1>6. n # 0 => 1 \in 1..n BY <1>2
<1>7. Alike(q, q') BY <1>2, <1>3, <1>4, <1>5, <1>6, SameDrafts DEF EntriesAlike
<1>8. GoOn(calls) BY DEF GoOn
<1> QED BY <1>1, <1>7, <1>8, AlikeStores

LEMMA TimerFiresStores == ASSUME IInv, IInv', StoredInv, TimerFires PROVE StoredInv'
<1> DEFINE t == [q EXCEPT !.timer = FALSE]
<1>1. Becomes(Pump(t), calls) /\ UNCHANGED <<file, store>> BY DEF TimerFires
<1>2. Same(q, t) BY DEF IInv, Good, Shaped, Fields, Same
<1> HIDE DEF t
<1> QED BY <1>1, <1>2, SamePumpStores

LEMMA PumpLaterStores == ASSUME IInv, IInv', StoredInv, PumpLater PROVE StoredInv'
<1> DEFINE t == [q EXCEPT !.pumpDue = FALSE]
<1>1. Becomes(Pump(t), calls) /\ UNCHANGED <<file, store>> BY DEF PumpLater
<1>2. Same(q, t) BY DEF IInv, Good, Shaped, Fields, Same
<1> HIDE DEF t
<1> QED BY <1>1, <1>2, SamePumpStores

LEMMA SubmitMoveStores ==
    ASSUME IInv, IInv', StoredInv, NEW d \in Documents, NEW expected, SubmitMove(d, expected)
    PROVE  StoredInv'
<1> DEFINE draft == [NoDraft EXCEPT !.moves = [x \in {d} |-> expected]]
<1>1. Submit(draft) /\ store' = store BY DEF SubmitMove
<1>2. /\ DOMAIN draft = DraftFields /\ DOMAIN draft.documents = {}
      /\ DOMAIN draft.deletes = {} /\ draft.tables = NoMap
  BY DEF NoDraft, NoMap, DraftFields
<1> HIDE DEF draft
<1>3. DOMAIN store' = Documents BY <1>1 DEF StoredInv
<1>4. \A x \in Documents : store'[x] = IF x \in DOMAIN draft.deletes THEN NoBody ELSE store[x]
  BY <1>1, <1>2
<1> QED BY <1>1, <1>2, <1>3, <1>4, SubmitStores

LEMMA SubmitDeleteStores ==
    ASSUME IInv, IInv', StoredInv, NEW d \in Documents, NEW expected, SubmitDelete(d, expected)
    PROVE  StoredInv'
<1> DEFINE draft == [NoDraft EXCEPT !.deletes = [x \in {d} |-> expected]]
<1>1. Submit(draft) /\ store' = [store EXCEPT ![d] = NoBody] BY DEF SubmitDelete
<1>2. /\ DOMAIN draft = DraftFields /\ DOMAIN draft.documents = {}
      /\ DOMAIN draft.deletes = {d} /\ draft.tables = NoMap
  BY DEF NoDraft, NoMap, DraftFields
<1> HIDE DEF draft
<1>3. DOMAIN store = Documents BY DEF StoredInv
<1>4. DOMAIN store' = Documents BY <1>1, <1>3
<1>5. \A x \in Documents : store'[x] = IF x \in DOMAIN draft.deletes THEN NoBody ELSE store[x]
  BY <1>1, <1>2, <1>3
<1> QED BY <1>1, <1>2, <1>4, <1>5, SubmitStores

LEMMA SubmitTableStores ==
    ASSUME IInv, IInv', StoredInv, NEW s \in Datasets, SubmitTable(s) PROVE StoredInv'
<1> DEFINE draft == [NoDraft EXCEPT !.tables = [x \in {s} |-> generations[s]]]
<1>1. Submit(draft) /\ store' = store BY DEF SubmitTable
<1>2. /\ DOMAIN draft = DraftFields /\ DOMAIN draft.documents = {}
      /\ DOMAIN draft.deletes = {}
  BY DEF NoDraft, NoMap, DraftFields
<1> HIDE DEF draft
<1>3. DOMAIN store' = Documents BY <1>1 DEF StoredInv
<1>4. \A x \in Documents : store'[x] = IF x \in DOMAIN draft.deletes THEN NoBody ELSE store[x]
  BY <1>1, <1>2
<1> QED BY <1>1, <1>2, <1>3, <1>4, SubmitStores

-----------------------------------------------------------------------------
(* Answers and events *)

\* A head that leaves was written, or touches nothing.
LEMMA ShiftStores ==
    ASSUME NEW s, NEW u, NEW t, NEW st, NEW cat, NEW R, Good(s, R), Len(s.entries) # 0,
           Bodies(s, st, cat, R), DOMAIN u = Fields, u.entries = s.entries,
           u.unsealed = s.unsealed, t = Shift(u), Good(t, R),
           \A d \in Documents : Touches(s.entries[1], d) =>
               cat.body[d] \in {Left(s.entries[1], d), External}
    PROVE  Bodies(t, st, cat, R) /\ ~Sent(t)
<1> DEFINE v == [u EXCEPT !.entries = Tail(@), !.active = FALSE,
                          !.acknowledged = Head(u.entries).last, !.pumpDue = TRUE]
<1>1. t = Settle(v, Reached(v), "resolved") BY DEF Shift
<1>2. DOMAIN v = Fields /\ v.entries = Tail(s.entries) /\ v.unsealed = s.unsealed
  BY DEF Fields
<1> HIDE DEF v
<1>3. t.entries = Tail(s.entries) /\ t.unsealed = s.unsealed
  BY <1>1, <1>2 DEF Settle, Fields
<1> QED BY <1>3, ShiftKeepsBodies

\* A commit of the head, or a failure of it.
LEMMA AcceptStores ==
    ASSUME NEW s, NEW first, NEW op, NEW throws, NEW st, NEW cat, Good(s, receipts),
           op \in DOMAIN receipts, Bodies(s, st, cat, receipts)
    PROVE  LET u == Accept(s, first, op, throws)
           IN  /\ Bodies(u, st, cat, receipts)
               /\ \A c : CallIsTrue(c, s, receipts) /\ Carries(c, s) => Carries(c, u)
<1> DEFINE v == Note(s, op)
           t == [v EXCEPT !.received = @ \union {receipts[op].revision},
                          !.projected = Append(@, op)]
           u == Accept(s, first, op, throws)
<1>1. Shaped(s) /\ Good(u, receipts) BY AcceptIsQuiet DEF Good, Quiet
<1>2. \/ u = s \/ u = Fail(s, first) \/ u = Fail(v, first)
      \/ /\ u = Shift(t) /\ IsHead(s, first) /\ HasContext(Head(s.entries))
         /\ Head(s.entries).context.op = op
  BY DEF Accept
<1>3. Same(s, v) BY <1>1 DEF Shaped, Fields, Same, Note
<1>4. Same(s, t) BY <1>1 DEF Shaped, Fields, Same, Note
<1> HIDE DEF t, v, u
<1>5. Good(v, receipts) BY <1>3, SameIsQuiet DEF Quiet
<1>6. ASSUME Alike(s, u)
      PROVE  /\ Bodies(u, st, cat, receipts)
             /\ \A c : CallIsTrue(c, s, receipts) /\ Carries(c, s) => Carries(c, u)
  BY <1>1, <1>6, AlikeKeepsBodies, AlikeCarries
<1>7. CASE u = s \/ u = Fail(s, first)
  <2>1. Alike(s, u) BY <1>7, SameEntriesAlike, FailIsAlike
  <2> QED BY <2>1, <1>6 DEF u
<1>8. CASE u = Fail(v, first)
  <2>1. Alike(s, v) /\ Alike(v, u) BY <1>3, <1>5, <1>8, SameIsAlike, FailIsAlike
  <2>2. Alike(s, u) BY <2>1, AlikeThenAlike
  <2> QED BY <2>2, <1>6 DEF u
<1>9. ASSUME u = Shift(t), IsHead(s, first), HasContext(Head(s.entries)),
             Head(s.entries).context.op = op
      PROVE  Bodies(u, st, cat, receipts) /\ ~Sent(u)
  <2>1. Len(s.entries) # 0 /\ Head(s.entries) = s.entries[1] BY <1>1, <1>9, HeadIs, HeadFacts
  <2>2. Sent(s) /\ Op(s) = op BY <2>1, <1>9 DEF Sent, Op
  <2>3. \A d \in Documents : Touches(s.entries[1], d) =>
            cat.body[d] \in {Left(s.entries[1], d), External}
    BY <2>2 DEF Bodies, HeadIsInFile
  <2>4. DOMAIN t = Fields /\ t.entries = s.entries /\ t.unsealed = s.unsealed
    BY <1>4 DEF Same
  <2> QED BY <2>1, <2>3, <2>4, <1>1, <1>9, ShiftStores
<1> QED BY <1>2, <1>7, <1>8, <1>9 DEF u, Carries

LEMMA AcceptedStores ==
    ASSUME IInv, IInv', StoredInv, NEW first, NEW op \in DOMAIN receipts, NEW throws,
           NEW others, others \subseteq calls,
           Becomes(Accept(q, first, op, throws), others), UNCHANGED <<file, store>>
    PROVE  StoredInv'
<1>1. q' = Accept(q, first, op, throws) /\ calls' \subseteq others \cup {Call("commit", q')}
  BY DEF Becomes
<1>2. Good(q, receipts) /\ Bodies(q, store, catalog, receipts) /\ DOMAIN store = Documents
  BY DEF IInv, StoredInv
<1>3. /\ Bodies(q', store, catalog, receipts)
      /\ \A c : CallIsTrue(c, q, receipts) /\ Carries(c, q) => Carries(c, q')
  BY <1>1, <1>2, AcceptStores
<1>4. GoOn(others) BY DEF GoOn
<1> QED BY <1>1, <1>2, <1>3, <1>4, HandlerStores

LEMMA SettleCommitStores ==
    ASSUME IInv, IInv', StoredInv, NEW c \in calls, NEW throws, SettleCommit(c, throws)
    PROVE  StoredInv'
<1>1. CallIsTrue(c, q, receipts) /\ Good(q, receipts) BY DEF IInv, CallsAreTrue
<1>2. UNCHANGED <<file, store>> /\ calls \ {c} \subseteq calls BY DEF SettleCommit
<1>3. CASE c.answer = "committed"
  <2>1. Becomes(Accept(q, c.entry, c.context.op, throws), calls \ {c})
    BY <1>3 DEF SettleCommit
  <2> QED BY <2>1, <1>1, <1>2, <1>3, AcceptedStores DEF CallIsTrue
<1>4. CASE c.answer # "committed"
  <2>1. Becomes(Fail(q, c.entry), calls \ {c}) BY <1>4 DEF SettleCommit
  <2>2. Alike(q, Fail(q, c.entry)) BY <1>1, FailIsAlike
  <2> QED BY <2>1, <2>2, <1>2, BecomesAlike
<1> QED BY <1>3, <1>4

LEMMA DeliverEventStores ==
    ASSUME IInv, IInv', StoredInv, NEW op \in events, NEW throws, NEW n,
           DeliverEvent(op, throws, n)
    PROVE  StoredInv'
<1> DEFINE r == receipts[op].revision
           s == [q EXCEPT !.received = @ \union {r}, !.revision = Larger(@, r),
                          !.projections = Append(@, op)]
<1>1. Good(q, receipts) /\ op \in DOMAIN receipts /\ UNCHANGED <<file, store>>
  BY DEF IInv, DeliverEvent
<1>2. \/ q' = q /\ calls' = calls
      \/ Becomes(Accept(q, Head(q.entries).first, op, throws), calls)
      \/ Becomes(Pump(Drain(s, n)), calls)
      \/ Becomes(Drain(s, n), calls)
  BY DEF DeliverEvent
<1>3. Same(q, s) BY <1>1 DEF Good, Shaped, Fields, Same
<1> HIDE DEF s
<1>4. Quiet(q, s, receipts) BY <1>1, <1>3, SameIsQuiet
<1>5. Same(q, Drain(s, n)) BY <1>3, <1>4, DrainIsSame DEF Quiet, Good, Same
<1>6. CASE q' = q /\ calls' = calls
  <2>1. Alike(q, q') BY <1>1, <1>6, SameEntriesAlike
  <2>2. GoOn(calls) BY DEF GoOn
  <2> QED BY <2>1, <2>2, <1>1, <1>6, AlikeStores
<1>7. CASE Becomes(Accept(q, Head(q.entries).first, op, throws), calls)
  BY <1>1, <1>7, AcceptedStores
<1>8. CASE Becomes(Pump(Drain(s, n)), calls) BY <1>1, <1>5, <1>8, SamePumpStores
<1>9. CASE Becomes(Drain(s, n), calls)
  <2>1. Alike(q, Drain(s, n)) BY <1>1, <1>5, SameIsAlike
  <2> QED BY <2>1, <1>1, <1>9, BecomesAlike
<1> QED BY <1>2, <1>6, <1>7, <1>8, <1>9

LEMMA FailCallStores ==
    ASSUME IInv, IInv', StoredInv, NEW c \in calls, FailCall(c) PROVE StoredInv'
<1> DEFINE e == [c EXCEPT !.late = TRUE]
           v == [Unfenced(q, c.entry) EXCEPT !.recovering = FALSE]
           w == Fail(q, c.entry)
           t == IF c.kind = "recover" THEN v ELSE w
<1>1. Good(q, receipts) /\ UNCHANGED <<file, store>> BY DEF IInv, FailCall
<1>2. PICK others \in {calls \ {c}, (calls \ {c}) \union {e}} : Becomes(t, others)
  BY DEF FailCall
<1>3. DOMAIN c = CallFields BY DEF IInv, CallsAreTrue, CallIsTrue
<1>4. e.context = c.context /\ e.request = c.request BY <1>3 DEF CallFields
<1> HIDE DEF e
<1>5. GoOn(others) BY <1>2, <1>4 DEF GoOn
<1>6. Alike(q, t)
  <2>1. CASE c.kind = "recover"
    <3>1. v.entries = q.entries /\ v.operations = q.operations /\ v.unsealed = q.unsealed
      BY <1>1 DEF Good, Shaped, Fields, Unfenced
    <3> HIDE DEF v
    <3>2. Alike(q, v) BY <3>1, <1>1, SameEntriesAlike
    <3> QED BY <2>1, <3>2
  <2>2. CASE c.kind # "recover"
    <3>1. Alike(q, w) BY <1>1, FailIsAlike
    <3> HIDE DEF w
    <3> QED BY <2>2, <3>1
  <2> QED BY <2>1, <2>2
<1> HIDE DEF t
<1>7. q' = t /\ calls' \subseteq others \cup {Call("commit", q')} BY <1>2 DEF Becomes
<1> QED BY <1>1, <1>5, <1>6, <1>7, AlikeStores

LEMMA SettleRecoverStores ==
    ASSUME IInv, IInv', StoredInv, NEW c \in calls, NEW throws, SettleRecover(c, throws)
    PROVE  StoredInv'
<1> DEFINE a == Accept(q, c.entry, c.context.op, throws)
           b == Fenced(q, c.entry, c.revision)
           u == IF c.answer = "committed" THEN a ELSE b
           s == [u EXCEPT !.recovering = FALSE]
           t == IF IsHead(s, c.entry) /\ s.error
                THEN Settle(s, Flushes(s, "chained"), "rejected") ELSE s
<1>1. /\ CallIsTrue(c, q, receipts) /\ Good(q, receipts) /\ UNCHANGED <<file, store>>
      /\ Becomes(t, calls \ {c})
  BY DEF IInv, CallsAreTrue, SettleRecover
<1>2. /\ q' = t /\ Good(t, receipts) /\ calls' \subseteq calls \cup {Call("commit", q')}
      /\ GoOn(calls)
  BY <1>1 DEF Becomes, IInv, file, GoOn
<1>3. Bodies(q, store, catalog, receipts) /\ store' = store /\ DOMAIN store = Documents
  BY <1>1 DEF StoredInv
<1>4. c.answer = "committed" => Good(a, receipts)
  BY <1>1, AcceptIsQuiet DEF CallIsTrue, Quiet
<1>5. DOMAIN b = Fields BY <1>1 DEF Good, Shaped, Fields, Fenced
<1>6. DOMAIN u = Fields BY <1>4, <1>5 DEF Good, Shaped
<1> HIDE DEF a, u
<1>7. /\ t.entries = u.entries /\ t.operations = u.operations /\ t.unsealed = u.unsealed
  <2>1. /\ DOMAIN s = Fields /\ s.entries = u.entries /\ s.operations = u.operations
        /\ s.unsealed = u.unsealed
    BY <1>6 DEF Fields
  <2> HIDE DEF s
  <2> QED BY <2>1 DEF Settle, Fields
<1> HIDE DEF t
<1>8. CASE c.answer = "committed"
  <2>1. u = a /\ Good(u, receipts) BY <1>4, <1>8 DEF u
  <2>2. /\ Bodies(u, store, catalog, receipts)
        /\ \A e : CallIsTrue(e, q, receipts) /\ Carries(e, q) => Carries(e, u)
    BY <2>1, <1>1, <1>3, <1>8, AcceptStores DEF a, CallIsTrue
  <2>3. Alike(u, t) BY <2>1, <1>7, SameEntriesAlike
  <2>4. Bodies(t, store, catalog, receipts) BY <2>1, <2>2, <2>3, <1>2, AlikeKeepsBodies
  <2>5. \A e : Carries(e, u) => Carries(e, t) BY <1>7 DEF Carries, Sent, Op
  <2> QED BY <2>2, <2>4, <2>5, <1>1, <1>2, <1>3, HandlerStores
<1>9. CASE c.answer # "committed" /\ ~IsHead(q, c.entry)
  <2>1. u = q BY <1>9 DEF u, Fenced
  <2>2. Alike(q, t) BY <2>1, <1>1, <1>7, SameEntriesAlike
  <2> QED BY <2>2, <1>1, <1>2, AlikeStores
<1>10. CASE c.answer # "committed" /\ IsHead(q, c.entry)
  <2> DEFINE n == Len(q.entries)
  <2>1. /\ n \in Nat /\ n # 0 /\ DOMAIN q.entries = 1..n /\ 1 \in 1..n /\ DOMAIN q = Fields
        /\ \A k \in 1..n : DOMAIN q.entries[k] = EntryFields
    BY <1>1, <1>10, HeadIs, HeadFacts DEF Good, Shaped
  <2> HIDE DEF n
  <2>2. /\ u.entries = [q.entries EXCEPT ![1].context = NoContext, ![1].ready = TRUE]
        /\ u.unsealed = q.unsealed
    BY <2>1, <1>10 DEF u, Fenced, Fields
  <2>3. Len(u.entries) = n
    <3>1. u.entries = [i \in 1..n |-> u.entries[i]] BY <2>1, <2>2
    <3> QED BY <3>1, <2>1, SeqOf
  <2>4. /\ u.entries[1].context = NoContext
        /\ \A k \in 1..n : u.entries[k].draft = q.entries[k].draft
    BY <2>1, <2>2 DEF EntryFields
  <2>5. ~Sent(t) BY <2>4, <1>7 DEF Sent, HasContext
  <2>6. DraftsAreApart(t) /\ ShowsLatest(t, store) /\ FileIsCurrent(t, store, catalog)
    BY <2>2, <2>3, <2>4, <1>1, <1>3, <1>7, DraftsKept DEF n
  <2>7. Bodies(t, store, catalog, receipts)
    BY <2>5, <2>6 DEF Bodies, RequestIsDraft, HeadIsInFile
  <2>8. \A e : Carries(e, t) BY <2>5 DEF Carries
  <2> QED BY <2>7, <2>8, <1>1, <1>2, <1>3, HandlerStores
<1> QED BY <1>8, <1>9, <1>10

\* Only commands that touch no document are given up.
LEMMA SettleResolveStores ==
    ASSUME IInv, IInv', OrderInv, StoredInv, NEW c \in calls, NEW throws,
           SettleResolve(c, throws)
    PROVE  StoredInv'
<1> DEFINE u == [q EXCEPT !.revision = Larger(@, c.revision), !.error = FALSE,
                          !.discarded = @ \union c.request.edits]
<1>1. /\ CallIsTrue(c, q, receipts) /\ Good(q, receipts) /\ c.kind = "resolve"
      /\ c.answer # "none" /\ UNCHANGED <<file, store>> /\ calls \ {c} \subseteq calls
  BY DEF IInv, CallsAreTrue, SettleResolve
<1>2. CASE c.answer = "committed"
  <2>1. Becomes(Accept(q, c.entry, c.context.op, throws), calls \ {c})
    BY <1>2 DEF SettleResolve
  <2> QED BY <2>1, <1>1, <1>2, AcceptedStores DEF CallIsTrue
<1>3. CASE c.answer # "committed" /\ IsHead(q, c.entry)
  <2>1. Becomes(Shift(u), calls \ {c}) BY <1>3 DEF SettleResolve
  <2>2. Good(q', receipts) /\ q' = Shift(u) BY <2>1, <1>1 DEF IInv, file, Becomes
  <2>3. DOMAIN u = Fields /\ u.entries = q.entries /\ u.unsealed = q.unsealed
    BY <1>1 DEF Good, Shaped, Fields
  <2> HIDE DEF u
  <2>4. ~c.late BY <1>1 DEF CallIsTrue
  <2>5. ~IsRecords(q.entries[1]) /\ Sent(q)
    BY <2>4, <1>1, <1>3, CallsAreFit DEF CallFits, ResolveIsOfHead
  <2>6. Len(q.entries) # 0 /\ 1 \in 1..Len(q.entries) BY <2>5, <1>1, HeadFacts DEF Sent
  <2>7. Bodies(q, store, catalog, receipts) /\ DOMAIN store = Documents BY DEF StoredInv
  <2>8. \A d : ~Touches(q.entries[1], d)
    BY <2>5, <2>6, <2>7 DEF Bodies, DraftsAreApart, Touches
  <2>9. Bodies(q', store, catalog, receipts) /\ ~Sent(q')
    BY <2>2, <2>3, <2>6, <2>7, <2>8, <1>1, ShiftStores
  <2>10. \A e : Carries(e, q') BY <2>9 DEF Carries
  <2>11. calls' \subseteq (calls \ {c}) \cup {Call("commit", q')} /\ GoOn(calls \ {c})
    BY <2>1, <2>2 DEF Becomes, GoOn
  <2> QED BY <2>7, <2>9, <2>10, <2>11, <1>1, HandlerStores
<1>4. CASE c.answer # "committed" /\ ~IsHead(q, c.entry)
  <2>1. Becomes(q, calls \ {c}) BY <1>4 DEF SettleResolve
  <2>2. Alike(q, q) BY <1>1, SameEntriesAlike
  <2> QED BY <2>1, <2>2, <1>1, BecomesAlike
<1> QED BY <1>2, <1>3, <1>4

-----------------------------------------------------------------------------
(* The backend *)

\* An answered call carries what it carried.
LEMMA AnswerCarries ==
    ASSUME IInv, StoredInv, NEW c \in calls, NEW answer, Answer(c, answer)
    PROVE  \A e \in calls' : Carries(e, q)
<1> DEFINE a == [c EXCEPT !.answer = answer, !.revision = committedRevision]
<1>1. DOMAIN c = CallFields BY DEF IInv, CallsAreTrue, CallIsTrue
<1>2. a.context = c.context /\ a.request = c.request BY <1>1 DEF CallFields
<1>3. calls' \subseteq calls \cup {a} BY DEF Answer
<1> HIDE DEF a
<1>4. Carries(a, q) BY <1>2 DEF StoredInv, Carries
<1> QED BY <1>3, <1>4 DEF StoredInv

\* What a commit does to the catalog.
LEMMA CommitPatches ==
    ASSUME NEW ctx, NEW req, Backend!Commit(ctx, req), DOMAIN catalog = CatalogFields
    PROVE  /\ DOMAIN catalog' = CatalogFields
           /\ \A d \in Documents :
                catalog'.body[d] = IF d \in req.patch.deletes THEN NoBody
                                   ELSE IF d \in DOMAIN req.patch.documents
                                        THEN req.patch.documents[d].body ELSE catalog.body[d]
<1> DEFINE p == req.patch
           patched == Backend!ApplyPatch(catalog, p)
<1>1. catalog' = patched BY DEF Backend!Commit, Backend!WriteCommit
<1>2. /\ DOMAIN patched = CatalogFields
      /\ \A d \in Documents :
           patched.body[d] = IF d \in p.deletes THEN NoBody
                             ELSE IF d \in DOMAIN p.documents THEN p.documents[d].body
                             ELSE catalog.body[d]
  BY PatchedBody
<1> HIDE DEF patched
<1> QED BY <1>1, <1>2

\* The head is written once, under its id.
LEMMA ExecuteCommitStores ==
    ASSUME IInv, IInv', OrderInv, StoredInv, NEW c \in calls, ExecuteCommit(c)
    PROVE  StoredInv'
<1> DEFINE x == c.context.op
           req == c.request
           e == q.entries[1]
<1>1. q' = q /\ store' = store /\ c.answer = "none" /\ c.kind = "commit"
  BY DEF ExecuteCommit
<1>2. /\ Bodies(q, store, catalog, receipts) /\ DOMAIN store = Documents
      /\ DOMAIN catalog = CatalogFields /\ Carries(c, q)
  BY DEF StoredInv
<1>3. ASSUME Backend!Commit(c.context, c.request), Answer(c, "committed") PROVE StoredInv'
  <2>1. x \notin DOMAIN receipts BY <1>3, CommitAdds
  <2>2. x \notin cancelled BY <1>3, CommitIsLogged DEF OrderInv
  <2>3. Sent(q) /\ Op(q) = x
    BY <2>1, <2>2, <1>1, CallsAreFit DEF CallFits, CommitIsOfHead, SettledIds
  <2>4. Asks(req, e.draft)
    BY <2>3, <1>2 DEF Bodies, RequestIsDraft, Carries
  <2>5. /\ DOMAIN catalog' = CatalogFields
        /\ \A d \in Documents :
             catalog'.body[d] = IF d \in req.patch.deletes THEN NoBody
                                ELSE IF d \in DOMAIN req.patch.documents
                                     THEN req.patch.documents[d].body ELSE catalog.body[d]
    BY <1>2, <1>3, CommitPatches
  <2>6. 1 \in 1..Len(q.entries) BY <2>3, HeadFacts DEF Sent, IInv
  <2>7. DOMAIN e.draft.documents \cap DOMAIN e.draft.deletes = {}
    BY <2>6, <1>2 DEF Bodies, DraftsAreApart
  <2> HIDE DEF req, e
  <2>8. \A d \in Documents : catalog'.body[d] = IF Touches(e, d) THEN Left(e, d)
                                                ELSE catalog.body[d]
    BY <2>4, <2>5, <2>7 DEF Asks, Touches, Left
  <2>9. FileIsCurrent(q, store, catalog')
    <3> SUFFICES ASSUME NEW d \in Documents, Queued(q, d) = {}
                 PROVE  catalog'.body[d] \in {store[d], External}
      BY DEF FileIsCurrent
    <3>1. ~Touches(e, d) BY <2>6 DEF Queued, e
    <3> QED BY <3>1, <2>8, <1>2 DEF Bodies, FileIsCurrent
  <2>10. HeadIsInFile(q, catalog', receipts') BY <2>8 DEF HeadIsInFile, e
  <2>11. Bodies(q, store, catalog', receipts')
    BY <2>9, <2>10, <1>2 DEF Bodies
  <2>12. \A b \in calls' : Carries(b, q) BY <1>3, AnswerCarries
  <2> QED BY <2>5, <2>11, <2>12, <1>1, <1>2 DEF StoredInv
<1>4. ASSUME NEW answer, Answer(c, answer), UNCHANGED file PROVE StoredInv'
  <2>1. \A b \in calls' : Carries(b, q) BY <1>4, AnswerCarries
  <2> QED BY <2>1, <1>1, <1>2, <1>4 DEF StoredInv, file
<1> QED BY <1>3, <1>4 DEF ExecuteCommit

LEMMA ExecuteResolveStores ==
    ASSUME IInv, StoredInv, NEW c \in calls, ExecuteResolve(c) PROVE StoredInv'
<1>1. /\ q' = q /\ store' = store /\ catalog' = catalog /\ receipts' = receipts
      /\ \E answer : Answer(c, answer)
  BY DEF ExecuteResolve, file, Backend!ResolveOperation
<1>2. \A b \in calls' : Carries(b, q) BY <1>1, AnswerCarries
<1> QED BY <1>1, <1>2 DEF StoredInv

\* Another client writes its own body, and no receipt of the head.
LEMMA ExternalCommitStores ==
    ASSUME IInv, StoredInv, NEW req \in ExternalRequests, ExternalCommit(req)
    PROVE  StoredInv'
<1>1. /\ req.patch.deletes = {}
      /\ \A d \in DOMAIN req.patch.documents : req.patch.documents[d].body = External
  <2> DEFINE written(d) == [x \in {d} |->
               [expected |-> catalog.revision[d], proposed |-> catalog.revision[d] + 1,
                folder |-> "", body |-> External]]
             over(d) == [Backend!EmptyPatch EXCEPT !.documents = written(d)]
  <2>1. ExternalRequests =
          {[patch |-> over(d), datasets |-> {}, edits |-> {}] : d \in Documents}
          \cup {[patch |-> Backend!EmptyPatch, datasets |-> {s}, edits |-> {}] : s \in Datasets}
    BY DEF ExternalRequests
  <2>2. \A d : over(d).deletes = {} /\ over(d).documents = written(d)
    BY DEF Backend!EmptyPatch
  <2>3. \A d : \A x \in DOMAIN written(d) : written(d)[x].body = External OBVIOUS
  <2>4. Backend!EmptyPatch.deletes = {} /\ DOMAIN Backend!EmptyPatch.documents = {}
    BY DEF Backend!EmptyPatch, Backend!NoFunction
  <2> HIDE DEF written, over
  <2>5. (\E d : req.patch = over(d)) \/ req.patch = Backend!EmptyPatch BY <2>1
  <2> QED BY <2>2, <2>3, <2>4, <2>5
<1>2. PICK op \in Operations \ (OwnOperations \union DOMAIN receipts) :
        /\ Backend!Commit([op |-> op, epoch |-> 1, revision |-> committedRevision,
                           documents |-> NoMap, datasets |-> NoMap], req)
        /\ q' = q /\ calls' = calls /\ store' = store
  BY DEF ExternalCommit
<1> DEFINE ctx == [op |-> op, epoch |-> 1, revision |-> committedRevision,
                   documents |-> NoMap, datasets |-> NoMap]
<1>3. Backend!Commit(ctx, req) /\ ctx.op = op BY <1>2
<1> HIDE DEF ctx
<1>4. DOMAIN receipts' = DOMAIN receipts \cup {op} BY <1>3, CommitAdds
<1>5. /\ Bodies(q, store, catalog, receipts) /\ DOMAIN store = Documents
      /\ DOMAIN catalog = CatalogFields /\ \A c \in calls : Carries(c, q)
  BY DEF StoredInv
<1>6. /\ DOMAIN catalog' = CatalogFields
      /\ \A d \in Documents : catalog'.body[d] \in {catalog.body[d], External}
  BY <1>1, <1>3, <1>5, CommitPatches
<1>7. ~(Sent(q) /\ op = Op(q)) BY <1>2, HeadIsOwn DEF IInv
<1>8. FileIsCurrent(q, store, catalog') BY <1>5, <1>6 DEF Bodies, FileIsCurrent
<1>9. HeadIsInFile(q, catalog', receipts')
  BY <1>4, <1>5, <1>6, <1>7 DEF Bodies, HeadIsInFile
<1>10. Bodies(q, store, catalog', receipts') BY <1>5, <1>8, <1>9 DEF Bodies
<1> QED BY <1>2, <1>5, <1>6, <1>10 DEF StoredInv

-----------------------------------------------------------------------------
LEMMA StoredInitially == Init => StoredInv
<1> SUFFICES ASSUME Init PROVE StoredInv OBVIOUS
<1>1. calls = {} /\ store = [d \in Documents |-> NoBody] BY DEF Init
<1>2. q.entries = <<>> /\ q.unsealed = FALSE BY DEF Init
<1>3. catalog = Backend!EmptyCatalog BY DEF Init, Backend!Init
<1>4. DOMAIN catalog = CatalogFields /\ catalog.body = [d \in Documents |-> NoBody]
  BY <1>3 DEF Backend!EmptyCatalog, CatalogFields
<1>5. Len(q.entries) = 0 /\ 1..0 = {} BY <1>2
<1>6. ~Sent(q) /\ \A d : Queued(q, d) = {} BY <1>5 DEF Sent, Queued
<1>7. DraftsAreApart(q) BY <1>2, <1>5 DEF DraftsAreApart
<1>8. Bodies(q, store, catalog, receipts)
  BY <1>1, <1>4, <1>6, <1>7
     DEF Bodies, RequestIsDraft, ShowsLatest, FileIsCurrent, HeadIsInFile
<1> QED BY <1>1, <1>4, <1>8 DEF StoredInv

LEMMA UserStepStores == ASSUME IInv, IInv', StoredInv, UserStep PROVE StoredInv'
<1>1. ASSUME NEW d \in Documents, NEW e \in Known(d),
             EnqueueDocument(d, e) \/ SubmitMove(d, e) \/ SubmitDelete(d, e)
      PROVE  StoredInv'
  BY <1>1, EnqueueDocumentStores, SubmitMoveStores, SubmitDeleteStores
<1>2. ASSUME NEW s \in Datasets, SubmitTable(s) PROVE StoredInv' BY <1>2, SubmitTableStores
<1>3. CASE CaptureBarrier BY <1>3, CaptureBarrierStores
<1>4. ASSUME NEW n \in 0..Len(q.projections),
             (\E through \in 1..MaxEdits : Flush(through, n)) \/ Close(n)
      PROVE  StoredInv'
  BY <1>4, FlushStores, CloseStores
<1>5. CASE ResolveFailedOperation BY <1>5, ResolveFailedOperationStores
<1> QED BY <1>1, <1>2, <1>3, <1>4, <1>5 DEF UserStep

LEMMA TaskStores == ASSUME IInv, IInv', OrderInv, StoredInv, Task PROVE StoredInv'
<1>1. CASE TimerFires BY <1>1, TimerFiresStores
<1>2. ASSUME NEW c \in calls, SettleCall(c) PROVE StoredInv'
  BY <1>2, SettleCommitStores, SettleResolveStores, SettleRecoverStores DEF SettleCall
<1>3. ASSUME NEW c \in calls, FailCall(c) PROVE StoredInv' BY <1>3, FailCallStores
<1>4. ASSUME NEW op \in events, NEW throws \in BOOLEAN, NEW n \in 0..Len(q.projections) + 1,
             DeliverEvent(op, throws, n)
      PROVE  StoredInv'
  BY <1>4, DeliverEventStores
<1> QED BY <1>1, <1>2, <1>3, <1>4 DEF Task

LEMMA StepStores == IInv /\ IInv' /\ OrderInv /\ StoredInv /\ [Next]_vars => StoredInv'
<1> SUFFICES ASSUME IInv, IInv', OrderInv, StoredInv, [Next]_vars PROVE StoredInv' OBVIOUS
<1>1. CASE UserStep BY <1>1, UserStepStores
<1>2. CASE WindowElapses BY <1>2, WindowElapsesStores
<1>3. CASE Microtask BY <1>3, PumpLaterStores, FlushGoesOnStores DEF Microtask
<1>4. CASE Task BY <1>4, TaskStores
<1>5. ASSUME NEW c \in calls, Execute(c) PROVE StoredInv'
  BY <1>5, ExecuteCommitStores, ExecuteResolveStores DEF Execute
<1>6. ASSUME NEW req \in ExternalRequests, ExternalCommit(req) PROVE StoredInv'
  BY <1>6, ExternalCommitStores
<1>7. CASE UNCHANGED vars BY <1>7 DEF vars, StoredInv
<1> QED BY <1>1, <1>2, <1>3, <1>4, <1>5, <1>6, <1>7 DEF Next

\* With nothing queued, every document in the file is what the stores show, or
\* what another client wrote over it, whatever calls failed, were repeated or
\* came late before.
THEOREM SavedIsStored == Spec => []SavedMeansStored
<1>1. Init => IInv /\ OrderInv /\ StoredInv BY Initially, OrderInitially, StoredInitially
<1>2. IInv /\ OrderInv /\ StoredInv /\ [Next]_vars => IInv' /\ OrderInv' /\ StoredInv'
  BY Inductive, StepRefines, StepStores DEF Refines
<1>3. StoredInv => SavedMeansStored
  <2> SUFFICES ASSUME StoredInv, q.entries = <<>>, NEW d \in Documents
               PROVE  catalog.body[d] \in {store[d], External}
    BY DEF SavedMeansStored
  <2>1. Len(q.entries) = 0 /\ 1..0 = {} OBVIOUS
  <2>2. Queued(q, d) = {} BY <2>1 DEF Queued
  <2> QED BY <2>2 DEF StoredInv, Bodies, FileIsCurrent
<1> QED BY <1>1, <1>2, <1>3, PTL DEF Spec
=============================================================================
