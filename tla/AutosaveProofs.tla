---------------------------- MODULE AutosaveProofs ----------------------------
(***************************************************************************)
(* Proofs that what the persistence coordinator reports as saved is saved, *)
(* for any number of edits, flushes, commits of others and faults.         *)
(*                                                                         *)
(* The queue holds, without gaps, the edits that were accepted and not yet *)
(* acknowledged.  Once an entry was sent its edits stand, whatever its     *)
(* operation is called later; and an operation id stands for one request,  *)
(* so that a receipt under the head's id is a receipt of the head's edits. *)
(* Ids are enough because each one is paid by an edit that was accepted or *)
(* by a flush that recovered one.                                          *)
(*                                                                         *)
(* A handler of the coordinator is a composition of operators on its       *)
(* record.  Each operator gets a lemma that it leads from a good record to *)
(* a good one and keeps what the calls under way rely on; each action is   *)
(* then a few of these lemmas.                                             *)
(***************************************************************************)
EXTENDS Autosave, SequenceTheorems, WellFoundedInduction, TLAPS

Fields ==
    {"entries", "unsealed", "timer", "pumpDue", "sequence", "acknowledged", "revision",
     "active", "recovering", "error", "ownDocuments", "ownDeleted", "ownDatasets",
     "received", "projections", "projectionError", "closing", "closed", "operations",
     "sent", "flushes", "projected", "discarded"}
EntryFields == {"first", "last", "ready", "draft", "context", "request"}
FlushFields == {"through", "closes", "state"}
CallFields == {"kind", "entry", "id", "context", "request", "late", "answer", "revision"}
IsSeq(x) == \E S : x \in Seq(S)

\* The record of the coordinator, and the values of its fields that count.
Shaped(s) ==
    /\ DOMAIN s = Fields
    /\ IsSeq(s.entries) /\ IsSeq(s.flushes)
    /\ \A i \in 1..Len(s.entries) :
         /\ DOMAIN s.entries[i] = EntryFields
         /\ s.entries[i].first \in Nat /\ s.entries[i].last \in Nat
    /\ \A i \in 1..Len(s.flushes) :
         /\ DOMAIN s.flushes[i] = FlushFields
         /\ s.flushes[i].through \in Nat /\ s.flushes[i].closes \in BOOLEAN
    /\ s.sequence \in Nat /\ s.acknowledged \in Nat /\ s.operations \in Nat /\ s.sent \in Nat
    /\ s.unsealed \in BOOLEAN /\ s.recovering \in BOOLEAN
    /\ s.closing \in BOOLEAN /\ s.closed \in BOOLEAN

\* The entries have the edits from the first unacknowledged one to the last.
Chained(s) ==
    /\ s.acknowledged <= s.sequence /\ s.sequence <= MaxEdits
    /\ Len(s.entries) = 0 => s.acknowledged = s.sequence
    /\ Len(s.entries) # 0 => /\ s.entries[1].first = s.acknowledged + 1
                             /\ s.entries[Len(s.entries)].last = s.sequence
    /\ \A i \in 1..Len(s.entries) : /\ s.acknowledged < s.entries[i].first
                                    /\ s.entries[i].first <= s.entries[i].last
                                    /\ s.entries[i].last <= s.sequence
    /\ \A i, j \in 1..Len(s.entries) : i < j => s.entries[i].last < s.entries[j].first
    /\ \A i, j \in 1..Len(s.entries) : j = i + 1 => s.entries[j].first = s.entries[i].last + 1

Open(s) == s.unsealed /\ Len(s.entries) = 1
Sent(s) == Len(s.entries) # 0 /\ HasContext(s.entries[1])
Op(s) == s.entries[1].context.op
HeadEdits(s) == s.entries[1].first..s.entries[1].last

\* Only the head was sent, and what was sent is no longer coalesced into.
HeadIsSent(s) ==
    /\ \A i \in 1..Len(s.entries) : i # 1 => ~HasContext(s.entries[i])
    /\ s.unsealed => Len(s.entries) # 0
    /\ Sent(s) => /\ Op(s) \in 1..s.operations
                  /\ s.entries[1].request.edits = HeadEdits(s)
                  /\ ~Open(s)

Unsettled(s) == {i \in 1..Len(s.flushes) : s.flushes[i].state \in {"chained", "waiting"}}

\* A flush resolves when its edits are acknowledged; close awaits one flush
\* through the last edit.
FlushesAreTrue(s) ==
    /\ \A i \in 1..Len(s.flushes) :
          s.flushes[i].state = "resolved" => s.flushes[i].through <= s.acknowledged
    /\ \A i \in Unsettled(s) :
          s.flushes[i].closes => s.closing /\ s.flushes[i].through = s.sequence
    /\ \A i, j \in Unsettled(s) : s.flushes[i].closes /\ s.flushes[j].closes => i = j
    /\ s.closed => s.acknowledged = s.sequence

\* Ids are paid by edits and flushes: by the acknowledged edits and one of the head
\* if it was sent, and by a flush each but for the recovery under way.
IdsArePaid(s) ==
    /\ s.operations <= s.acknowledged + Len(s.flushes) + 1
    /\ ~Sent(s) \/ s.recovering => s.operations <= s.acknowledged + Len(s.flushes)
    /\ ~Sent(s) /\ s.recovering => s.operations < s.acknowledged + Len(s.flushes)
    /\ Len(s.flushes) <= MaxFlushes

\* The edits of the operation o by the receipts R.
EditsIn(R, o) == R[o].digest.request.edits

\* Acknowledged edits are in the file or given up.
Saved(s, R) == 1..s.acknowledged \subseteq (UNION {EditsIn(R, o) : o \in DOMAIN R}) \cup s.discarded

\* A receipt under the head's id is of the head's edits, and every other receipt
\* is of an earlier id or of another client.
ReceiptIsTrue(s, R) ==
    /\ Sent(s) /\ Op(s) \in DOMAIN R => EditsIn(R, Op(s)) = HeadEdits(s)
    /\ \A o \in DOMAIN R : o \in 1..s.operations \/ o \notin OwnOperations

Good(s, R) ==
    /\ Shaped(s) /\ Chained(s) /\ HeadIsSent(s) /\ FlushesAreTrue(s) /\ IdsArePaid(s)
    /\ Saved(s, R) /\ ReceiptIsTrue(s, R)

\* A call carries the edits of its entry, and under the head's id its request.
CallIsTrue(c, s, R) ==
    /\ DOMAIN c = CallFields /\ c.late \in BOOLEAN
    /\ c.context.op \in 1..s.operations
    /\ c.entry \in Nat
    /\ c.entry <= s.acknowledged \/ IsHead(s, c.entry)
    /\ IsHead(s, c.entry) => c.request.edits = HeadEdits(s) /\ ~Open(s)
    /\ Sent(s) /\ c.context.op = Op(s) => c.request.edits = HeadEdits(s)
    /\ c.late => c.answer = "none"
    /\ c.answer = "committed" => c.context.op \in DOMAIN R

\* One recovery is under way while the coordinator waits for one.
Recovers(c) == c.kind = "recover" /\ ~c.late
OneRecovery(C, s) ==
    /\ \A c \in C : Recovers(c) => s.recovering
    /\ \A c, e \in C : Recovers(c) /\ Recovers(e) => c = e

CallsAreTrue(C, s, R) == (\A c \in C : CallIsTrue(c, s, R)) /\ OneRecovery(C, s)

IInv ==
    /\ Good(q, receipts)
    /\ CallsAreTrue(calls, q, receipts)
    /\ events \subseteq DOMAIN receipts

-----------------------------------------------------------------------------
(* Sequences, whatever their elements are *)

LEMMA SeqLen == ASSUME NEW x, IsSeq(x)
                PROVE  /\ Len(x) \in Nat /\ DOMAIN x = 1..Len(x)
                       /\ x = [i \in 1..Len(x) |-> x[i]]
                       /\ x = <<>> <=> Len(x) = 0
<1>1. PICK S : x \in Seq(S) BY DEF IsSeq
<1>2. Len(x) \in Nat /\ DOMAIN x = 1..Len(x) /\ x \in [1..Len(x) -> S] BY <1>1, LenProperties
<1>3. x = <<>> <=> Len(x) = 0 BY <1>1, EmptySeq
<1> QED BY <1>2, <1>3

LEMMA SeqOf == ASSUME NEW x, NEW n \in Nat, x = [i \in 1..n |-> x[i]]
               PROVE  IsSeq(x) /\ Len(x) = n
<1> DEFINE S == {x[i] : i \in 1..n}
<1>1. x \in [1..n -> S] OBVIOUS
<1>2. x \in Seq(S) BY <1>1
<1>3. Len(x) \in Nat /\ DOMAIN x = 1..Len(x) BY <1>2, LenProperties
<1>4. 1..Len(x) = 1..n BY <1>1, <1>3
<1>5. Len(x) = n BY <1>3, <1>4
<1>6. IsSeq(x) BY <1>2, Zenon DEF IsSeq
<1> QED BY <1>5, <1>6

LEMMA AppendSeq == ASSUME NEW x, NEW e, IsSeq(x)
                   PROVE  /\ IsSeq(Append(x, e)) /\ Len(Append(x, e)) = Len(x) + 1
                          /\ \A i \in 1..Len(x) : Append(x, e)[i] = x[i]
                          /\ Append(x, e)[Len(x) + 1] = e
<1>1. PICK S : x \in Seq(S) BY DEF IsSeq
<1> DEFINE T == S \cup {e}
<1>2. x \in Seq(T) BY <1>1, SeqMonotonic
<1>3. Append(x, e) \in Seq(T) BY <1>2
<1> HIDE DEF T
<1> QED BY <1>2, <1>3, LenProperties DEF IsSeq

LEMMA TailSeq == ASSUME NEW x, IsSeq(x), Len(x) # 0
                 PROVE  /\ IsSeq(Tail(x)) /\ Len(Tail(x)) = Len(x) - 1
                        /\ \A i \in 1..Len(x) - 1 : Tail(x)[i] = x[i + 1]
<1>1. PICK S : x \in Seq(S) BY DEF IsSeq
<1>2. x # <<>> BY SeqLen
<1> QED BY <1>1, <1>2, HeadTailProperties DEF IsSeq

LEMMA LeastOf == ASSUME NEW T, T \subseteq Nat, T # {}
                 PROVE  \E x \in T : \A y \in T : x <= y
<1>1. PICK x \in T : \A y \in T : ~(<<y, x>> \in OpToRel(<, Nat))
  BY NatLessThanWellFounded, WFMin, Zenon
<1>2. OpToRel(<, Nat) = {p \in Nat \X Nat : p[1] < p[2]} BY Zenon DEF OpToRel
<1>3. \A y \in T : ~(<<y, x>> \in {p \in Nat \X Nat : p[1] < p[2]}) BY <1>1, <1>2, Zenon
<1>4. ASSUME NEW y \in T PROVE x <= y
  <2>1. <<y, x>> \in Nat \X Nat OBVIOUS
  <2> QED BY <1>3, <2>1
<1> QED BY <1>4

-----------------------------------------------------------------------------
(* Records that agree on what counts *)

\* The entries y are those of x, but for their drafts and whether they are ready.
EntriesAlike(x, y) ==
    /\ IsSeq(y) /\ Len(y) = Len(x)
    /\ \A i \in 1..Len(x) :
         /\ DOMAIN y[i] = EntryFields
         /\ y[i].first = x[i].first /\ y[i].last = x[i].last
         /\ y[i].context = x[i].context /\ y[i].request = x[i].request

\* The flushes y are those of x; a chained one may have gone on to wait.
FlushesAlike(x, y) ==
    /\ IsSeq(y) /\ Len(y) = Len(x)
    /\ \A i \in 1..Len(x) :
         /\ DOMAIN y[i] = FlushFields
         /\ y[i].through = x[i].through /\ y[i].closes = x[i].closes
         /\ y[i].state = x[i].state \/ {x[i].state, y[i].state} \subseteq {"chained", "waiting"}

Agree(s, t) ==
    /\ DOMAIN t = Fields
    /\ EntriesAlike(s.entries, t.entries) /\ FlushesAlike(s.flushes, t.flushes)
    /\ t.unsealed \in {s.unsealed, FALSE}
    /\ t.sequence = s.sequence /\ t.acknowledged = s.acknowledged
    /\ t.operations = s.operations /\ t.discarded = s.discarded
    /\ t.recovering \in {s.recovering, FALSE} /\ t.sent \in Nat
    /\ t.closing = s.closing /\ t.closed = s.closed

\* The steps that change nothing of that.
Same(s, t) ==
    /\ DOMAIN t = Fields /\ t.entries = s.entries /\ t.flushes = s.flushes
    /\ t.unsealed = s.unsealed /\ t.sequence = s.sequence /\ t.acknowledged = s.acknowledged
    /\ t.operations = s.operations /\ t.discarded = s.discarded
    /\ t.recovering = s.recovering /\ t.sent = s.sent
    /\ t.closing = s.closing /\ t.closed = s.closed

\* The calls that are true of s are true of t.
CallsKeep(s, t, R) == \A c : CallIsTrue(c, s, R) => CallIsTrue(c, t, R)

\* The step from s to t is sound and sends nothing; it sends nothing or the
\* commit of its head.
Quiet(s, t, R) ==
    Good(t, R) /\ CallsKeep(s, t, R) /\ t.recovering = s.recovering /\ t.sent = s.sent
Safe(s, t, R) ==
    /\ Good(t, R) /\ CallsKeep(s, t, R) /\ t.recovering = s.recovering
    /\ t.sent # s.sent => Sent(t) /\ CallIsTrue(Call("commit", t), t, R)

LEMMA QuietThenQuiet == ASSUME NEW s, NEW t, NEW u, NEW R, Quiet(s, t, R), Quiet(t, u, R)
                        PROVE  Quiet(s, u, R)
BY DEF Quiet, CallsKeep

LEMMA QuietThenSafe == ASSUME NEW s, NEW t, NEW u, NEW R, Quiet(s, t, R), Safe(t, u, R)
                       PROVE  Safe(s, u, R)
BY DEF Quiet, Safe, CallsKeep

LEMMA QuietIsSafe == ASSUME NEW s, NEW t, NEW R, Quiet(s, t, R) PROVE Safe(s, t, R)
BY DEF Quiet, Safe

LEMMA HeadIs == ASSUME NEW s, NEW f, Shaped(s)
                PROVE  IsHead(s, f) <=> Len(s.entries) # 0 /\ s.entries[1].first = f
BY SeqLen DEF IsHead, Shaped

\* Records that agree have the same head.
LEMMA AgreeOnHead ==
    ASSUME NEW s, NEW t, Shaped(s), Agree(s, t)
    PROVE  /\ Shaped(t)
           /\ Sent(t) <=> Sent(s)
           /\ Sent(s) => Op(t) = Op(s) /\ t.entries[1].request = s.entries[1].request
           /\ Len(s.entries) # 0 => HeadEdits(t) = HeadEdits(s)
           /\ \A f : IsHead(t, f) <=> IsHead(s, f)
           /\ Open(t) => Open(s)
           /\ Unsettled(t) = Unsettled(s)
<1>1. Len(s.entries) \in Nat /\ Len(s.flushes) \in Nat BY SeqLen DEF Shaped
<1>2. Len(s.entries) # 0 => 1 \in 1..Len(s.entries) BY <1>1
<1>3. Shaped(t) BY <1>1 DEF Shaped, Agree, EntriesAlike, FlushesAlike
<1>4. Sent(t) <=> Sent(s) BY <1>2 DEF Sent, HasContext, Agree, EntriesAlike
<1>5. Sent(s) => Op(t) = Op(s) /\ t.entries[1].request = s.entries[1].request
  BY <1>2 DEF Sent, Op, Agree, EntriesAlike
<1>6. Len(s.entries) # 0 => HeadEdits(t) = HeadEdits(s)
  BY <1>2 DEF HeadEdits, Agree, EntriesAlike
<1>7. \A f : IsHead(t, f) <=> IsHead(s, f)
  BY <1>2, <1>3, HeadIs DEF Agree, EntriesAlike
<1>8. Open(t) => Open(s) BY DEF Open, Agree, EntriesAlike
<1>9. Unsettled(t) = Unsettled(s) BY DEF Unsettled, Agree, FlushesAlike
<1> QED BY <1>3, <1>4, <1>5, <1>6, <1>7, <1>8, <1>9

LEMMA AgreeKeeps ==
    ASSUME NEW s, NEW t, NEW R, Good(s, R), Agree(s, t)
    PROVE  Good(t, R) /\ CallsKeep(s, t, R)
<1> USE AgreeOnHead DEF Good
<1>1. Len(s.entries) \in Nat /\ Len(s.flushes) \in Nat BY SeqLen DEF Shaped
<1>2. Len(s.entries) # 0 => 1 \in 1..Len(s.entries) /\ Len(s.entries) \in 1..Len(s.entries) BY <1>1
<1>3. Shaped(t) OBVIOUS
<1>4. Chained(t) BY <1>1, <1>2, SMTT(30) DEF Chained, Agree, EntriesAlike
<1>5. HeadIsSent(t)
  <2>1. \A i \in 1..Len(t.entries) : i # 1 => ~HasContext(t.entries[i])
    BY DEF HeadIsSent, HasContext, Agree, EntriesAlike
  <2>2. t.unsealed => Len(t.entries) # 0 BY DEF HeadIsSent, Agree, EntriesAlike
  <2>3. Sent(t) => /\ Op(t) \in 1..t.operations
                   /\ t.entries[1].request.edits = HeadEdits(t)
                   /\ ~Open(t)
    <3>1. Sent(s) => Len(s.entries) # 0 BY DEF Sent
    <3>2. t.operations = s.operations BY DEF Agree
    <3> QED BY <3>1, <3>2 DEF HeadIsSent
  <2> QED BY <2>1, <2>2, <2>3 DEF HeadIsSent
<1>6. FlushesAreTrue(t)
  <2>1. Unsettled(t) = Unsettled(s) /\ \A i \in Unsettled(s) : i \in 1..Len(s.flushes)
    BY DEF Unsettled
  <2>2. \A i \in 1..Len(t.flushes) :
          t.flushes[i].state = "resolved" => t.flushes[i].through <= t.acknowledged
    BY DEF FlushesAreTrue, Agree, FlushesAlike
  <2>3. \A i \in Unsettled(t) :
          t.flushes[i].closes => t.closing /\ t.flushes[i].through = t.sequence
    BY <2>1 DEF FlushesAreTrue, Agree, FlushesAlike
  <2>4. \A i, j \in Unsettled(t) : t.flushes[i].closes /\ t.flushes[j].closes => i = j
    BY <2>1 DEF FlushesAreTrue, Agree, FlushesAlike
  <2>5. t.closed => t.acknowledged = t.sequence BY DEF FlushesAreTrue, Agree
  <2> QED BY <2>2, <2>3, <2>4, <2>5 DEF FlushesAreTrue
<1>7. IdsArePaid(t)
  <2>1. Sent(t) <=> Sent(s) OBVIOUS
  <2>2. /\ Len(t.flushes) = Len(s.flushes) /\ t.acknowledged = s.acknowledged
        /\ t.operations = s.operations /\ t.recovering \in {s.recovering, FALSE}
    BY DEF Agree, FlushesAlike
  <2>3. s.operations \in Nat /\ s.acknowledged \in Nat BY DEF Shaped
  <2> QED BY <1>1, <2>1, <2>2, <2>3 DEF IdsArePaid
<1>8. Saved(t, R) BY DEF Saved, Agree
<1>9. ReceiptIsTrue(t, R)
  <2>1. t.operations = s.operations BY DEF Agree
  <2>2. Sent(s) => Len(s.entries) # 0 BY DEF Sent
  <2> QED BY <2>1, <2>2 DEF ReceiptIsTrue
<1>10. ASSUME NEW c, CallIsTrue(c, s, R) PROVE CallIsTrue(c, t, R)
  <2>1. t.operations = s.operations /\ t.acknowledged = s.acknowledged BY DEF Agree
  <2>2. Sent(s) => Len(s.entries) # 0 BY DEF Sent
  <2>3. \A f : IsHead(s, f) => Len(s.entries) # 0 BY HeadIs
  <2> QED BY <1>10, <2>1, <2>2, <2>3 DEF CallIsTrue
<1> QED BY <1>3, <1>4, <1>5, <1>6, <1>7, <1>8, <1>9, <1>10 DEF CallsKeep

LEMMA AgreeIsQuiet ==
    ASSUME NEW s, NEW t, NEW R, Good(s, R), Agree(s, t),
           t.recovering = s.recovering, t.sent = s.sent
    PROVE  Quiet(s, t, R)
BY AgreeKeeps DEF Quiet

LEMMA SameEntries == ASSUME NEW s, Shaped(s)
                     PROVE  EntriesAlike(s.entries, s.entries) /\ FlushesAlike(s.flushes, s.flushes)
BY DEF Shaped, EntriesAlike, FlushesAlike

LEMMA SameAgrees == ASSUME NEW s, NEW t, Shaped(s), Same(s, t) PROVE Agree(s, t)
BY SameEntries DEF Same, Agree, Shaped

LEMMA SameIsQuiet == ASSUME NEW s, NEW t, NEW R, Good(s, R), Same(s, t) PROVE Quiet(s, t, R)
BY SameAgrees, AgreeIsQuiet DEF Same, Good

-----------------------------------------------------------------------------
(* The operators of the queue *)

\* The last of the entries made ready.
LEMMA ReadyEntry ==
    ASSUME NEW s, Shaped(s), Len(s.entries) # 0,
           NEW y, y = [s.entries EXCEPT ![Len(s.entries)].ready = TRUE]
    PROVE  EntriesAlike(s.entries, y)
<1> DEFINE n == Len(s.entries)
           e == [s.entries[n] EXCEPT !.ready = TRUE]
<1>1. n \in 1..n BY SeqLen DEF Shaped
<1>2. y = [s.entries EXCEPT ![n] = e] BY <1>1, SeqLen DEF Shaped
<1>3. /\ DOMAIN e = EntryFields
      /\ e.first = s.entries[n].first /\ e.last = s.entries[n].last
      /\ e.context = s.entries[n].context /\ e.request = s.entries[n].request
  BY <1>1 DEF Shaped, EntryFields
<1>4. IsSeq(s.entries) BY DEF Shaped
<1> HIDE DEF e
<1>5. IsSeq(y) /\ Len(y) = n /\ y[n] = e /\ \A j \in 1..n : j # n => y[j] = s.entries[j]
  <2>1. DOMAIN s.entries = 1..Len(s.entries) BY <1>4, SeqLen
  <2>2. y = [j \in 1..Len(s.entries) |-> y[j]] BY <1>2, <2>1
  <2>3. y[n] = e /\ \A j \in 1..n : j # n => y[j] = s.entries[j] BY <1>1, <1>2, <2>1
  <2> QED BY <1>1, <2>2, <2>3, SeqOf
<1> QED BY <1>3, <1>5 DEF EntriesAlike, Shaped

LEMMA SealAgrees ==
    ASSUME NEW s, Shaped(s), s.unsealed => Len(s.entries) # 0
    PROVE  /\ Agree(s, Seal(s)) /\ ~Seal(s).unsealed
           /\ Seal(s).recovering = s.recovering /\ Seal(s).sent = s.sent
           /\ Seal(s).flushes = s.flushes /\ Seal(s).projections = s.projections
<1> DEFINE t == Seal(s)
<1>1. CASE s.unsealed
  <2>1. t = [s EXCEPT !.entries[Len(s.entries)].ready = TRUE, !.unsealed = FALSE, !.timer = FALSE]
    BY <1>1 DEF Seal
  <2>2. /\ DOMAIN t = Fields /\ t.entries = [s.entries EXCEPT ![Len(s.entries)].ready = TRUE]
        /\ t.unsealed = FALSE /\ t.sequence = s.sequence /\ t.acknowledged = s.acknowledged
        /\ t.operations = s.operations /\ t.discarded = s.discarded
        /\ t.recovering = s.recovering /\ t.sent = s.sent /\ t.flushes = s.flushes
        /\ t.closing = s.closing /\ t.closed = s.closed /\ t.projections = s.projections
    BY <2>1 DEF Shaped, Fields
  <2> HIDE DEF t
  <2>3. EntriesAlike(s.entries, t.entries) BY <1>1, <2>2, ReadyEntry
  <2>4. Agree(s, t) BY <2>2, <2>3, SameEntries DEF Agree, Shaped
  <2> QED BY <2>2, <2>4 DEF t
<1>2. CASE ~s.unsealed
  <2>1. t = [s EXCEPT !.timer = FALSE] BY <1>2 DEF Seal
  <2>2. Same(s, t) /\ t.projections = s.projections BY <2>1 DEF Shaped, Fields, Same
  <2> HIDE DEF t
  <2>3. Agree(s, t) BY <2>2, SameAgrees
  <2> QED BY <1>2, <2>2, <2>3 DEF t, Same
<1> QED BY <1>1, <1>2

LEMMA SealIsQuiet == ASSUME NEW s, NEW R, Good(s, R) PROVE Quiet(s, Seal(s), R) /\ ~Seal(s).unsealed
<1>1. Shaped(s) /\ (s.unsealed => Len(s.entries) # 0) BY DEF Good, HeadIsSent
<1> QED BY <1>1, SealAgrees, AgreeIsQuiet

LEMMA NewContextOp == ASSUME NEW s, NEW e, NEW r PROVE NewContext(s, e, r).op = s.operations + 1
BY DEF NewContext

LEMMA PreparedEdits == ASSUME NEW s, NEW e PROVE Prepare(s, e).edits = e.first..e.last
BY DEF Prepare

\* A head without a context gets a fresh one and the request of its edits.
LEMMA SendIsSafe ==
    ASSUME NEW s, NEW R, Good(s, R), Len(s.entries) # 0
    PROVE  Safe(s, Send(s), R)
<1> DEFINE e == Head(s.entries)
           req == Prepare(s, e)
           new == [e EXCEPT !.request = req, !.context = NewContext(s, e, req)]
           h == IF HasContext(e) THEN e ELSE new
           t == Send(s)
<1>1. /\ Len(s.entries) \in Nat /\ Len(s.flushes) \in Nat
      /\ e = s.entries[1] /\ 1 \in 1..Len(s.entries) /\ DOMAIN e = EntryFields
  BY SeqLen DEF Good, Shaped
<1>2. /\ DOMAIN t = Fields /\ t.entries = [s.entries EXCEPT ![1] = h]
      /\ t.operations = (IF HasContext(e) THEN s.operations ELSE s.operations + 1)
      /\ t.unsealed = (s.unsealed /\ Len(s.entries) > 1) /\ t.sent = s.sent + 1
      /\ t.sequence = s.sequence /\ t.acknowledged = s.acknowledged
      /\ t.discarded = s.discarded /\ t.recovering = s.recovering /\ t.flushes = s.flushes
      /\ t.closing = s.closing /\ t.closed = s.closed
  BY DEF Good, Shaped, Fields, Send
<1>3. /\ DOMAIN new = EntryFields /\ new.first = e.first /\ new.last = e.last
      /\ new.request = req /\ new.context = NewContext(s, e, req)
  BY <1>1 DEF EntryFields
<1>4. req.edits = e.first..e.last BY PreparedEdits
<1>5. new.context.op = s.operations + 1 BY <1>3, NewContextOp
<1>6. s.operations \in Nat /\ s.acknowledged \in Nat /\ s.sent \in Nat /\ s.sequence \in Nat
  BY DEF Good, Shaped
<1>7. HasContext(new) BY <1>5, <1>6 DEF HasContext, NoContext
<1>8. /\ DOMAIN h = EntryFields /\ h.first = e.first /\ h.last = e.last /\ HasContext(h)
      /\ HasContext(e) => h = e
      /\ ~HasContext(e) => h.context.op = s.operations + 1 /\ h.request.edits = e.first..e.last
  BY <1>1, <1>3, <1>4, <1>5, <1>7
<1> HIDE DEF e, req, new, h, t
<1>9. /\ IsSeq(t.entries) /\ Len(t.entries) = Len(s.entries) /\ t.entries[1] = h
      /\ \A i \in 1..Len(s.entries) : i # 1 => t.entries[i] = s.entries[i]
  <2>1. IsSeq(s.entries) BY DEF Good, Shaped
  <2>2. DOMAIN s.entries = 1..Len(s.entries) BY <2>1, SeqLen
  <2>3. t.entries = [j \in 1..Len(s.entries) |-> t.entries[j]] BY <1>2, <2>2
  <2>4. t.entries[1] = h /\ \A i \in 1..Len(s.entries) : i # 1 => t.entries[i] = s.entries[i]
    BY <1>1, <1>2, <2>2
  <2> QED BY <1>1, <2>3, <2>4, SeqOf
<1>10. Sent(t) /\ (Sent(s) <=> HasContext(e)) /\ HeadEdits(t) = HeadEdits(s) /\ ~Open(t)
       /\ (HasContext(e) => Op(t) = Op(s)) /\ (~HasContext(e) => Op(t) = s.operations + 1)
  <2>1. Sent(t) /\ (Sent(s) <=> HasContext(e)) BY <1>1, <1>8, <1>9 DEF Sent
  <2>2. HeadEdits(t) = HeadEdits(s) BY <1>1, <1>8, <1>9 DEF HeadEdits
  <2>3. ~Open(t)
    <3>1. t.unsealed => Len(s.entries) > 1 BY <1>2
    <3> QED BY <3>1, <1>9 DEF Open
  <2>4. HasContext(e) => Op(t) = Op(s) BY <1>1, <1>8, <1>9 DEF Op
  <2>5. ~HasContext(e) => Op(t) = s.operations + 1 BY <1>8, <1>9 DEF Op
  <2> QED BY <2>1, <2>2, <2>3, <2>4, <2>5
<1>11. t.entries[1].request.edits = HeadEdits(t)
  <2>1. CASE HasContext(e) BY <2>1, <1>1, <1>8, <1>9, <1>10 DEF Good, HeadIsSent, HeadEdits
  <2>2. CASE ~HasContext(e) BY <2>2, <1>8, <1>9, <1>10 DEF HeadEdits
  <2> QED BY <2>1, <2>2
<1>12. Op(t) \in 1..t.operations
  <2>1. CASE HasContext(e) BY <2>1, <1>2, <1>10 DEF Good, HeadIsSent
  <2>2. CASE ~HasContext(e) BY <2>2, <1>2, <1>6, <1>10
  <2> QED BY <2>1, <2>2
<1>13. \A i \in 1..Len(s.entries) : /\ DOMAIN t.entries[i] = EntryFields
                                    /\ t.entries[i].first = s.entries[i].first
                                    /\ t.entries[i].last = s.entries[i].last
  BY <1>1, <1>8, <1>9 DEF Good, Shaped
<1>14. Shaped(t) BY <1>1, <1>2, <1>6, <1>9, <1>13, SMTT(30) DEF Good, Shaped
<1>15. Chained(t)
  <2>1. Len(s.entries) \in 1..Len(s.entries) BY <1>1
  <2> QED BY <2>1, <1>1, <1>2, <1>9, <1>13 DEF Good, Chained
<1>16. HeadIsSent(t)
  <2>1. \A i \in 1..Len(t.entries) : i # 1 => ~HasContext(t.entries[i])
    BY <1>9 DEF Good, HeadIsSent
  <2> QED BY <2>1, <1>9, <1>10, <1>11, <1>12 DEF HeadIsSent
<1>17. FlushesAreTrue(t)
  <2>1. Unsettled(t) = Unsettled(s) BY <1>2 DEF Unsettled
  <2> QED BY <2>1, <1>2 DEF Good, FlushesAreTrue
<1>18. IdsArePaid(t)
  <2>1. CASE HasContext(e) BY <2>1, <1>2, <1>10 DEF Good, IdsArePaid
  <2>2. CASE ~HasContext(e) BY <2>2, <1>1, <1>2, <1>6, <1>10 DEF Good, IdsArePaid
  <2> QED BY <2>1, <2>2
<1>19. Saved(t, R) BY <1>2 DEF Good, Saved
<1>20. ReceiptIsTrue(t, R)
  <2>1. CASE HasContext(e)
    BY <2>1, <1>2, <1>10 DEF Good, ReceiptIsTrue
  <2>2. CASE ~HasContext(e)
    <3>1. s.acknowledged < s.sequence /\ s.sequence <= MaxEdits
      BY <1>1 DEF Good, Chained, Shaped
    <3>2. s.operations + 1 \in OwnOperations
      <4>1. MaxEdits \in Nat /\ MaxFlushes \in Nat BY AutosaveBounds
      <4>2. s.operations <= s.acknowledged + Len(s.flushes) /\ Len(s.flushes) <= MaxFlushes
        BY <2>2, <1>10 DEF Good, IdsArePaid
      <4>3. s.operations + 1 <= MaxEdits + MaxFlushes BY <4>1, <4>2, <3>1, <1>1, <1>6, SMTT(30)
      <4> QED BY <4>1, <4>3, <1>6 DEF OwnOperations
    <3>3. s.operations + 1 \notin DOMAIN R
      BY <3>2, <1>6 DEF Good, ReceiptIsTrue
    <3>4. \A o \in DOMAIN R : o \in 1..t.operations \/ o \notin OwnOperations
      BY <2>2, <1>2, <1>6 DEF Good, ReceiptIsTrue
    <3> QED BY <2>2, <3>3, <3>4, <1>10 DEF ReceiptIsTrue
  <2> QED BY <2>1, <2>2
<1>21. Good(t, R) BY <1>14, <1>15, <1>16, <1>17, <1>18, <1>19, <1>20 DEF Good
<1>22. \A f : IsHead(t, f) <=> IsHead(s, f)
  BY <1>1, <1>9, <1>13, <1>14, HeadIs DEF Good
<1>23. ASSUME NEW c, CallIsTrue(c, s, R) PROVE CallIsTrue(c, t, R)
  <2>1. c.context.op \in 1..t.operations BY <1>23, <1>2, <1>6 DEF CallIsTrue
  <2>2. Sent(t) /\ c.context.op = Op(t) => c.request.edits = HeadEdits(t)
    BY <1>23, <1>6, <1>10 DEF CallIsTrue
  <2> QED BY <1>23, <2>1, <2>2, <1>2, <1>10, <1>22 DEF CallIsTrue
<1>24. CallIsTrue(Call("commit", t), t, R)
  <2> DEFINE c == Call("commit", t)
  <2>1. Head(t.entries) = t.entries[1] /\ 1 \in 1..Len(t.entries) BY <1>1, <1>9
  <2>2. /\ DOMAIN c = CallFields /\ c.late = FALSE /\ c.answer = "none"
        /\ c.context.op = Op(t) /\ c.entry = t.entries[1].first
        /\ c.request.edits = HeadEdits(t)
    BY <2>1, <1>11 DEF Call, CallFields, Op
  <2> HIDE DEF c
  <2>3. c.entry \in Nat BY <2>1, <2>2, <1>14 DEF Shaped
  <2>5. IsHead(t, c.entry)
    <3>1. Len(t.entries) # 0 BY <2>1
    <3> QED BY <3>1, <2>2, <1>14, HeadIs
  <2>4. CallIsTrue(c, t, R) BY <2>2, <2>3, <2>5, <1>10, <1>12 DEF CallIsTrue
  <2> QED BY <2>4 DEF c
<1> QED BY <1>2, <1>10, <1>21, <1>23, <1>24 DEF Safe, CallsKeep, t

LEMMA PumpIsSafe == ASSUME NEW s, NEW R, Good(s, R) PROVE Safe(s, Pump(s), R)
<1> DEFINE t == Pump(s)
<1>1. Shaped(s) /\ (s.entries = <<>> <=> Len(s.entries) = 0) BY SeqLen DEF Good, Shaped
<1>2. \/ t = s
      \/ \E b \in BOOLEAN : t = [s EXCEPT !.timer = b]
      \/ t = Send(s) /\ Len(s.entries) # 0
  BY <1>1 DEF Pump
<1>3. CASE t = s
  BY <1>3 DEF Safe, CallsKeep
<1>4. ASSUME NEW b \in BOOLEAN, t = [s EXCEPT !.timer = b] PROVE Safe(s, t, R)
  <2>1. Same(s, t) BY <1>1, <1>4 DEF Shaped, Fields, Same
  <2> QED BY <2>1, SameIsQuiet, QuietIsSafe
<1>5. CASE t = Send(s) /\ Len(s.entries) # 0 BY <1>5, SendIsSafe
<1> QED BY <1>2, <1>3, <1>4, <1>5

-----------------------------------------------------------------------------
(* Settling *)

\* Flushes that resolve have their edits acknowledged; a close among them closes.
LEMMA SettleIsQuiet ==
    ASSUME NEW s, NEW R, NEW F, NEW outcome, Good(s, R), F \subseteq Unsettled(s),
           outcome \in {"resolved", "rejected"},
           outcome = "resolved" => \A i \in F : s.flushes[i].through <= s.acknowledged
    PROVE  Quiet(s, Settle(s, F, outcome), R)
<1> DEFINE t == Settle(s, F, outcome)
           closes == \E i \in F : s.flushes[i].closes
<1>1. /\ DOMAIN t = Fields /\ t.entries = s.entries /\ t.unsealed = s.unsealed
      /\ t.sequence = s.sequence /\ t.acknowledged = s.acknowledged
      /\ t.operations = s.operations /\ t.discarded = s.discarded
      /\ t.recovering = s.recovering /\ t.sent = s.sent
      /\ t.flushes = [i \in DOMAIN s.flushes |->
              IF i \in F THEN [s.flushes[i] EXCEPT !.state = outcome] ELSE s.flushes[i]]
      /\ t.closed = (s.closed \/ (closes /\ outcome = "resolved"))
      /\ t.closing = (s.closing /\ ~closes)
  BY DEF Good, Shaped, Fields, Settle
<1> HIDE DEF t
<1>2. /\ Shaped(s) /\ Len(s.entries) \in Nat /\ Len(s.flushes) \in Nat
      /\ DOMAIN s.flushes = 1..Len(s.flushes)
  BY SeqLen DEF Good, Shaped
<1>3. \A i \in 1..Len(s.flushes) :
         /\ DOMAIN t.flushes[i] = FlushFields
         /\ t.flushes[i].through = s.flushes[i].through /\ t.flushes[i].closes = s.flushes[i].closes
         /\ t.flushes[i].state = IF i \in F THEN outcome ELSE s.flushes[i].state
  BY <1>1, <1>2 DEF Shaped, FlushFields
<1>4. IsSeq(t.flushes) /\ Len(t.flushes) = Len(s.flushes)
  <2>1. t.flushes = [i \in 1..Len(s.flushes) |-> t.flushes[i]] BY <1>1, <1>2
  <2> QED BY <2>1, <1>2, SeqOf
<1>5. Shaped(t)
  <2>1. t.closed \in BOOLEAN /\ t.closing \in BOOLEAN BY <1>1
  <2> QED BY <2>1, <1>1, <1>2, <1>3, <1>4 DEF Shaped
<1>6. /\ Sent(t) <=> Sent(s)
      /\ Op(t) = Op(s) /\ HeadEdits(t) = HeadEdits(s)
      /\ \A f : IsHead(t, f) <=> IsHead(s, f)
      /\ Open(t) <=> Open(s)
  BY <1>1 DEF Sent, Op, HeadEdits, IsHead, Open
<1>7. Chained(t) BY <1>1 DEF Good, Chained
<1>8. HeadIsSent(t) BY <1>1, <1>6 DEF Good, HeadIsSent
<1>9. Unsettled(t) = Unsettled(s) \ F
  BY <1>3, <1>4 DEF Unsettled
<1>10. FlushesAreTrue(t)
  <2> USE DEF Good, FlushesAreTrue
  <2>1. \A i \in 1..Len(t.flushes) :
          t.flushes[i].state = "resolved" => t.flushes[i].through <= t.acknowledged
    BY <1>1, <1>3, <1>4
  <2>2. \A i \in Unsettled(t) : i \in Unsettled(s) \ F /\ i \in 1..Len(s.flushes)
    BY <1>9 DEF Unsettled
  <2>3. \A i \in F : i \in Unsettled(s) /\ i \in 1..Len(s.flushes) BY DEF Unsettled
  <2>4. ASSUME NEW i \in Unsettled(t), t.flushes[i].closes
        PROVE  t.closing /\ t.flushes[i].through = t.sequence
    <3>1. i \in Unsettled(s) /\ i \notin F /\ s.flushes[i].closes BY <2>2, <2>4, <1>3
    <3>2. s.closing /\ s.flushes[i].through = s.sequence BY <3>1
    <3>3. ~closes BY <3>1, <2>3
    <3>4. t.closing BY <3>2, <3>3, <1>1
    <3> QED BY <3>2, <3>4, <2>2, <1>1, <1>3
  <2>5. \A i, j \in Unsettled(t) : t.flushes[i].closes /\ t.flushes[j].closes => i = j
    BY <2>2, <1>3
  <2>6. ASSUME t.closed PROVE t.acknowledged = t.sequence
    <3>1. CASE s.closed BY <3>1, <1>1
    <3>2. CASE closes /\ outcome = "resolved"
      <4>1. PICK i \in F : s.flushes[i].closes BY <3>2
      <4>2. s.flushes[i].through = s.sequence /\ s.flushes[i].through <= s.acknowledged
        BY <4>1, <3>2, <2>3
      <4>3. s.acknowledged <= s.sequence /\ s.acknowledged \in Nat /\ s.sequence \in Nat
        BY DEF Chained, Shaped
      <4> QED BY <4>2, <4>3, <1>1
    <3> QED BY <2>6, <3>1, <3>2, <1>1
  <2> QED BY <2>1, <2>4, <2>5, <2>6
<1>11. IdsArePaid(t) BY <1>1, <1>4, <1>6 DEF Good, IdsArePaid
<1>12. Saved(t, R) BY <1>1 DEF Good, Saved
<1>13. ReceiptIsTrue(t, R) BY <1>1, <1>6 DEF Good, ReceiptIsTrue
<1>14. Good(t, R) BY <1>5, <1>7, <1>8, <1>10, <1>11, <1>12, <1>13 DEF Good
<1>15. CallsKeep(s, t, R) BY <1>1, <1>6 DEF CallsKeep, CallIsTrue
<1> QED BY <1>1, <1>14, <1>15 DEF Quiet, t

LEMMA FlushesAreUnsettled ==
    ASSUME NEW s, Shaped(s)
    PROVE  /\ Flushes(s, "waiting") \subseteq Unsettled(s)
           /\ Flushes(s, "chained") \subseteq Unsettled(s)
BY SeqLen DEF Shaped, Flushes, Unsettled

\* A failed head stays.
LEMMA FailIsQuiet == ASSUME NEW s, NEW R, NEW first, Good(s, R) PROVE Quiet(s, Fail(s, first), R)
<1>1. CASE ~IsHead(s, first)
  <2>1. Fail(s, first) = s BY <1>1 DEF Fail
  <2> QED BY <2>1 DEF Quiet, CallsKeep
<1>2. CASE IsHead(s, first)
  <2> DEFINE t == [s EXCEPT !.active = FALSE, !.error = TRUE]
  <2>1. Fail(s, first) = Settle(t, Flushes(s, "waiting"), "rejected") BY <1>2 DEF Fail
  <2>2. Same(s, t) BY DEF Good, Shaped, Fields, Same
  <2> HIDE DEF t
  <2>3. Quiet(s, t, R) BY <2>2, SameIsQuiet
  <2>4. Flushes(s, "waiting") \subseteq Unsettled(t)
    BY <2>2, FlushesAreUnsettled DEF Good, Same, Unsettled
  <2>5. Quiet(t, Settle(t, Flushes(s, "waiting"), "rejected"), R)
    BY <2>3, <2>4, SettleIsQuiet DEF Quiet
  <2> QED BY <2>1, <2>3, <2>5, QuietThenQuiet
<1> QED BY <1>1, <1>2

\* The head leaves once its edits are saved.
LEMMA ShiftIsQuiet ==
    ASSUME NEW s, NEW R, Good(s, R), Len(s.entries) # 0, ~Open(s),
           HeadEdits(s) \subseteq (UNION {EditsIn(R, o) : o \in DOMAIN R}) \cup s.discarded
    PROVE  Quiet(s, Shift(s), R)
<1> DEFINE e == Head(s.entries)
           t == [s EXCEPT !.entries = Tail(@), !.active = FALSE, !.acknowledged = e.last,
                          !.pumpDue = TRUE]
           n == Len(s.entries)
<1>1. /\ n \in Nat /\ n # 0 /\ Len(s.flushes) \in Nat
      /\ e = s.entries[1] /\ 1 \in 1..n /\ n \in 1..n
  BY SeqLen DEF Good, Shaped
<1>2. /\ DOMAIN t = Fields /\ t.entries = Tail(s.entries) /\ t.unsealed = s.unsealed
      /\ t.sequence = s.sequence /\ t.acknowledged = e.last
      /\ t.operations = s.operations /\ t.discarded = s.discarded
      /\ t.recovering = s.recovering /\ t.sent = s.sent /\ t.flushes = s.flushes
      /\ t.closed = s.closed /\ t.closing = s.closing
  BY DEF Good, Shaped, Fields
<1>3. Shift(s) = Settle(t, Reached(t), "resolved") BY DEF Shift
<1> HIDE DEF e, t
<1>4. /\ IsSeq(t.entries) /\ Len(t.entries) = n - 1
      /\ \A i \in 1..n - 1 : t.entries[i] = s.entries[i + 1]
  <2>1. IsSeq(s.entries) BY DEF Good, Shaped
  <2> QED BY <2>1, <1>2, TailSeq
<1> HIDE DEF n
<1>5. /\ s.acknowledged \in Nat /\ s.sequence \in Nat /\ e.first \in Nat /\ e.last \in Nat
      /\ e.first = s.acknowledged + 1 /\ e.first <= e.last /\ e.last <= s.sequence
  BY <1>1 DEF Good, Shaped, Chained, n
<1>6. \A i \in 1..n - 1 : i + 1 \in 1..n BY <1>1
<1>7. Shaped(t) BY <1>2, <1>4, <1>5, <1>6 DEF Good, Shaped, n
<1>8. Chained(t)
  <2> USE DEF Good, Shaped, Chained
  <2>1. t.acknowledged <= t.sequence /\ t.sequence <= MaxEdits BY <1>2, <1>5
  <2>2. CASE n = 1
    <3>1. Len(t.entries) = 0 BY <2>2, <1>4
    <3>2. t.acknowledged = t.sequence BY <2>2, <1>1, <1>2 DEF n
    <3> QED BY <2>1, <3>1, <3>2
  <2>3. CASE n # 1
    <3>1. /\ Len(t.entries) # 0 /\ n - 1 \in 1..n - 1
          /\ 1 \in 1..n - 1 /\ 2 \in 1..n /\ (n - 1) + 1 = n
      BY <2>3, <1>1, <1>4
    <3>2. t.entries[1] = s.entries[2] /\ t.entries[n - 1] = s.entries[n]
      <4>1. 1 + 1 = 2 OBVIOUS
      <4> QED BY <3>1, <4>1, <1>4
    <3>3. s.entries[2].first = e.last + 1 BY <3>1, <1>1 DEF n
    <3>4. t.entries[1].first = t.acknowledged + 1 /\ t.entries[Len(t.entries)].last = t.sequence
      BY <3>1, <3>2, <3>3, <1>1, <1>2, <1>4 DEF n
    <3>5. ASSUME NEW i \in 1..n - 1 PROVE e.last < s.entries[i + 1].first
      <4>1. 1 \in 1..n /\ i + 1 \in 1..n /\ 1 < i + 1 BY <3>1, <1>1, <1>6
      <4>2. \A k, j \in 1..n : k < j => s.entries[k].last < s.entries[j].first
        BY DEF Good, Chained, n
      <4> QED BY <4>1, <4>2, <1>1
    <3>6. \A i \in 1..Len(t.entries) : /\ t.acknowledged < t.entries[i].first
                                       /\ t.entries[i].first <= t.entries[i].last
                                       /\ t.entries[i].last <= t.sequence
      BY <3>5, <1>2, <1>4, <1>6 DEF n
    <3>7. ASSUME NEW i \in 1..n - 1, NEW j \in 1..n - 1
          PROVE  /\ i < j => t.entries[i].last < t.entries[j].first
                 /\ j = i + 1 => t.entries[j].first = t.entries[i].last + 1
      <4>1. i + 1 \in 1..n /\ j + 1 \in 1..n BY <1>6
      <4>2. i < j => s.entries[i + 1].last < s.entries[j + 1].first
        <5>1. i < j => i + 1 < j + 1 OBVIOUS
        <5> QED BY <4>1, <5>1 DEF n
      <4>3. j = i + 1 => s.entries[j + 1].first = s.entries[i + 1].last + 1 BY <4>1 DEF n
      <4> QED BY <4>2, <4>3, <1>4
    <3>8. \A i, j \in 1..Len(t.entries) :
             /\ i < j => t.entries[i].last < t.entries[j].first
             /\ j = i + 1 => t.entries[j].first = t.entries[i].last + 1
      BY <3>7, <1>4
    <3> QED BY <2>1, <3>1, <3>4, <3>6, <3>8
  <2> QED BY <2>2, <2>3
<1>9. \A i \in 1..n - 1 : ~HasContext(t.entries[i])
  <2>1. \A i \in 1..n - 1 : i + 1 # 1 BY <1>1
  <2> QED BY <2>1, <1>4, <1>6 DEF Good, HeadIsSent, n
<1>10. ~Sent(t) BY <1>1, <1>4, <1>9 DEF Sent
<1>11. HeadIsSent(t)
  <2>1. t.unsealed => Len(t.entries) # 0
    <3>1. CASE n = 1 BY <3>1, <1>2 DEF Open, n
    <3>2. CASE n # 1 BY <3>2, <1>1, <1>4
    <3> QED BY <3>1, <3>2
  <2> QED BY <2>1, <1>4, <1>9, <1>10 DEF HeadIsSent
<1>12. FlushesAreTrue(t)
  <2>1. Unsettled(t) = Unsettled(s) BY <1>2 DEF Unsettled
  <2>2. ~s.closed BY <1>5 DEF Good, FlushesAreTrue
  <2>3. \A i \in 1..Len(s.flushes) :
          s.flushes[i].state = "resolved" => s.flushes[i].through <= e.last
    BY <1>5 DEF Good, FlushesAreTrue, Shaped
  <2> QED BY <2>1, <2>2, <2>3, <1>2 DEF Good, FlushesAreTrue
<1>13. IdsArePaid(t)
  <2>1. s.operations \in Nat BY DEF Good, Shaped
  <2>2. s.acknowledged + 1 <= t.acknowledged BY <1>2, <1>5
  <2> QED BY <2>1, <2>2, <1>1, <1>2, <1>5, <1>10 DEF Good, IdsArePaid
<1>14. Saved(t, R)
  <2>1. \A x \in 1..e.last : x \in 1..s.acknowledged \/ x \in HeadEdits(s)
    BY <1>1, <1>5 DEF HeadEdits
  <2> QED BY <2>1, <1>2 DEF Good, Saved
<1>15. ReceiptIsTrue(t, R) BY <1>2, <1>10 DEF Good, ReceiptIsTrue
<1>16. Good(t, R) BY <1>7, <1>8, <1>11, <1>12, <1>13, <1>14, <1>15 DEF Good
<1>17. ASSUME NEW c, CallIsTrue(c, s, R) PROVE CallIsTrue(c, t, R)
  <2>1. c.entry \in Nat /\ c.entry <= e.last
    <3>1. Shaped(s) BY DEF Good
    <3> QED BY <3>1, <1>1, <1>5, <1>17, HeadIs DEF CallIsTrue
  <2>2. ~IsHead(t, c.entry)
    <3>1. IsHead(t, c.entry) => Len(t.entries) # 0 /\ t.entries[1].first = c.entry
      BY <1>7, HeadIs
    <3>2. Len(t.entries) # 0 => t.entries[1].first = e.last + 1 BY <1>2, <1>8 DEF Chained
    <3> QED BY <3>1, <3>2, <2>1, <1>5
  <2> QED BY <2>1, <2>2, <1>2, <1>10, <1>17 DEF CallIsTrue
<1>18. Quiet(s, t, R) BY <1>2, <1>16, <1>17 DEF Quiet, CallsKeep
<1>19. /\ Reached(t) \subseteq Unsettled(t)
       /\ \A i \in Reached(t) : t.flushes[i].through <= t.acknowledged
  BY <1>7, FlushesAreUnsettled DEF Reached
<1>20. Quiet(t, Settle(t, Reached(t), "resolved"), R) BY <1>16, <1>19, SettleIsQuiet
<1> QED BY <1>3, <1>18, <1>20, QuietThenQuiet

\* The head leaves by a receipt of its own id, or stays.
LEMMA AcceptIsQuiet ==
    ASSUME NEW s, NEW first, NEW op, NEW throws, Good(s, receipts), op \in DOMAIN receipts
    PROVE  Quiet(s, Accept(s, first, op, throws), receipts)
<1> DEFINE t == [Note(s, op) EXCEPT !.received = @ \union {receipts[op].revision},
                                    !.projected = Append(@, op)]
           u == Accept(s, first, op, throws)
<1>1. Shaped(s) BY DEF Good
<1>2. \/ u = s \/ u = Fail(s, first) \/ u = Fail(Note(s, op), first)
      \/ /\ u = Shift(t) /\ IsHead(s, first) /\ HasContext(Head(s.entries))
         /\ Head(s.entries).context.op = op
  BY DEF Accept
<1>3. CASE u = s BY <1>3 DEF Quiet, CallsKeep
<1>4. CASE u = Fail(s, first) BY <1>4, FailIsQuiet
<1>5. CASE u = Fail(Note(s, op), first)
  <2>1. Same(s, Note(s, op)) BY <1>1 DEF Shaped, Fields, Same, Note
  <2>2. Quiet(s, Note(s, op), receipts) BY <2>1, SameIsQuiet
  <2>3. Quiet(Note(s, op), Fail(Note(s, op), first), receipts) BY <2>2, FailIsQuiet DEF Quiet
  <2> QED BY <2>2, <2>3, <1>5, QuietThenQuiet
<1>6. ASSUME u = Shift(t), IsHead(s, first), HasContext(Head(s.entries)),
             Head(s.entries).context.op = op
      PROVE  Quiet(s, u, receipts)
  <2>1. Same(s, t) BY <1>1 DEF Shaped, Fields, Same, Note
  <2> HIDE DEF t
  <2>2. Quiet(s, t, receipts) BY <2>1, SameIsQuiet
  <2>3. Len(s.entries) # 0 /\ Head(s.entries) = s.entries[1] BY <1>1, <1>6, HeadIs
  <2>4. Sent(t) /\ Op(t) = op BY <2>1, <2>3, <1>6 DEF Same, Sent, Op
  <2>5. Len(t.entries) # 0 /\ ~Open(t) BY <2>2, <2>4 DEF Quiet, Good, HeadIsSent, Sent
  <2>6. EditsIn(receipts, op) = HeadEdits(t) BY <2>2, <2>4 DEF Quiet, Good, ReceiptIsTrue
  <2>7. Quiet(t, Shift(t), receipts) BY <2>2, <2>5, <2>6, ShiftIsQuiet DEF Quiet
  <2> QED BY <2>2, <2>7, <1>6, QuietThenQuiet
<1> QED BY <1>2, <1>3, <1>4, <1>5, <1>6

-----------------------------------------------------------------------------
(* Flushes and edits *)

LEMMA DrainIsSame == ASSUME NEW s, NEW n, Shaped(s) PROVE Same(s, Drain(s, n))
BY DEF Shaped, Fields, Same, Drain

\* A flush that waits makes the entries it waits for ready.
LEMMA WaitAgrees ==
    ASSUME NEW s, NEW t, NEW i, NEW through, Shaped(s), i \in Flushes(s, "chained"),
           t = [s EXCEPT
                  !.entries = [k \in DOMAIN s.entries |->
                     [s.entries[k] EXCEPT !.ready = @ \/ s.entries[k].first <= through]],
                  !.flushes[i].state = "waiting",
                  !.error = FALSE]
    PROVE  /\ Agree(s, t) /\ t.recovering = s.recovering /\ t.sent = s.sent
           /\ \A k \in 1..Len(s.entries) : t.entries[k].draft = s.entries[k].draft
<1>1. /\ DOMAIN s.entries = 1..Len(s.entries) /\ Len(s.entries) \in Nat
      /\ DOMAIN s.flushes = 1..Len(s.flushes) /\ Len(s.flushes) \in Nat
  BY SeqLen DEF Shaped
<1>2. i \in 1..Len(s.flushes) /\ s.flushes[i].state = "chained" BY <1>1 DEF Flushes
<1>3. /\ DOMAIN t = Fields
      /\ t.entries = [k \in DOMAIN s.entries |->
           [s.entries[k] EXCEPT !.ready = @ \/ s.entries[k].first <= through]]
      /\ t.flushes = [s.flushes EXCEPT ![i].state = "waiting"]
      /\ t.unsealed = s.unsealed /\ t.sequence = s.sequence /\ t.acknowledged = s.acknowledged
      /\ t.operations = s.operations /\ t.discarded = s.discarded
      /\ t.recovering = s.recovering /\ t.sent = s.sent
      /\ t.closing = s.closing /\ t.closed = s.closed
  BY DEF Shaped, Fields
<1>4. \A k \in 1..Len(s.entries) :
        /\ DOMAIN t.entries[k] = EntryFields
        /\ t.entries[k].first = s.entries[k].first /\ t.entries[k].last = s.entries[k].last
        /\ t.entries[k].context = s.entries[k].context
        /\ t.entries[k].request = s.entries[k].request
        /\ t.entries[k].draft = s.entries[k].draft
  BY <1>1, <1>3 DEF Shaped, EntryFields
<1>5. EntriesAlike(s.entries, t.entries)
  <2>1. t.entries = [k \in 1..Len(s.entries) |-> t.entries[k]] BY <1>1, <1>3
  <2> QED BY <1>1, <1>4, <2>1, SeqOf DEF EntriesAlike
<1>6. FlushesAlike(s.flushes, t.flushes)
  <2>1. t.flushes = [k \in 1..Len(s.flushes) |-> t.flushes[k]] BY <1>1, <1>3
  <2>2. \A k \in 1..Len(s.flushes) :
          /\ DOMAIN t.flushes[k] = FlushFields
          /\ t.flushes[k].through = s.flushes[k].through
          /\ t.flushes[k].closes = s.flushes[k].closes
          /\ t.flushes[k].state = IF k = i THEN "waiting" ELSE s.flushes[k].state
    BY <1>1, <1>2, <1>3 DEF Shaped, FlushFields
  <2> QED BY <1>1, <1>2, <2>1, <2>2, SeqOf DEF FlushesAlike
<1>7. Agree(s, t) BY <1>3, <1>5, <1>6 DEF Agree, Shaped
<1> QED BY <1>3, <1>4, <1>7

\* A chained flush that goes on settles at once or waits for its edits.
LEMMA FlushPendingIsSafe ==
    ASSUME NEW s, NEW R, NEW i, NEW n, Good(s, R), i \in Flushes(s, "chained")
    PROVE  Safe(s, FlushPending(s, i, n), R)
<1> DEFINE t == IF s.projections = <<>> THEN s ELSE Drain(s, n)
           through == t.flushes[i].through
           u == IF t.unsealed /\ t.entries[Len(t.entries)].first <= through THEN Seal(t) ELSE t
           v == [u EXCEPT
                  !.entries = [k \in DOMAIN u.entries |->
                     [u.entries[k] EXCEPT !.ready = @ \/ u.entries[k].first <= through]],
                  !.flushes[i].state = "waiting",
                  !.error = FALSE]
           r == FlushPending(s, i, n)
<1>1. \/ r = Settle(t, {i}, "rejected")
      \/ r = Settle(t, {i}, "resolved") /\ t.flushes[i].through <= t.acknowledged
      \/ r = Pump(v)
  BY DEF FlushPending
<1>2. Quiet(s, t, R) /\ Same(s, t)
  <2>1. Same(s, t) BY DrainIsSame DEF Good, Shaped, Same
  <2> QED BY <2>1, SameIsQuiet
<1> HIDE DEF t, r
<1>3. i \in Flushes(t, "chained") BY <1>2 DEF Flushes, Same
<1>4. Good(t, R) /\ Shaped(t) BY <1>2 DEF Quiet, Good
<1>5. {i} \subseteq Unsettled(t) BY <1>3, <1>4, FlushesAreUnsettled
<1>6. CASE r = Settle(t, {i}, "rejected")
  <2>1. Quiet(t, r, R) BY <1>4, <1>5, <1>6, SettleIsQuiet
  <2> QED BY <2>1, <1>2, QuietThenQuiet, QuietIsSafe DEF r
<1>7. CASE r = Settle(t, {i}, "resolved") /\ t.flushes[i].through <= t.acknowledged
  <2>1. Quiet(t, r, R) BY <1>4, <1>5, <1>7, SettleIsQuiet
  <2> QED BY <2>1, <1>2, QuietThenQuiet, QuietIsSafe DEF r
<1>8. CASE r = Pump(v)
  <2>1. Quiet(t, u, R) /\ u.flushes = t.flushes
    <3>1. CASE u = Seal(t)
      <4>1. t.unsealed => Len(t.entries) # 0 BY <1>4 DEF Good, HeadIsSent
      <4> QED BY <3>1, <4>1, <1>4, SealIsQuiet, SealAgrees
    <3>2. CASE u = t BY <3>2, <1>4 DEF Quiet, CallsKeep
    <3> QED BY <3>1, <3>2
  <2>2. Good(u, R) /\ Shaped(u) BY <2>1 DEF Quiet, Good
  <2> HIDE DEF u
  <2>3. i \in Flushes(u, "chained") BY <2>1, <1>3 DEF Flushes
  <2> HIDE DEF through
  <2>4. Agree(u, v) /\ v.recovering = u.recovering /\ v.sent = u.sent
    BY <2>2, <2>3, WaitAgrees
  <2> HIDE DEF v
  <2>5. Quiet(u, v, R) BY <2>2, <2>4, AgreeIsQuiet
  <2>6. Safe(v, Pump(v), R) BY <2>5, PumpIsSafe DEF Quiet
  <2> QED BY <2>1, <2>5, <2>6, <1>2, <1>8, QuietThenQuiet, QuietThenSafe DEF r
<1> QED BY <1>1, <1>6, <1>7, <1>8

\* More edits given up.
LEMMA DiscardIsQuiet ==
    ASSUME NEW s, NEW t, NEW R, Good(s, R), s.discarded \subseteq t.discarded,
           DOMAIN t = Fields, t.entries = s.entries, t.flushes = s.flushes,
           t.unsealed = s.unsealed, t.sequence = s.sequence, t.acknowledged = s.acknowledged,
           t.operations = s.operations, t.recovering = s.recovering, t.sent = s.sent,
           t.closing = s.closing, t.closed = s.closed
    PROVE  Quiet(s, t, R)
<1>1. /\ Sent(t) <=> Sent(s)
      /\ Op(t) = Op(s) /\ HeadEdits(t) = HeadEdits(s) /\ Unsettled(t) = Unsettled(s)
      /\ \A f : IsHead(t, f) <=> IsHead(s, f)
      /\ Open(t) <=> Open(s)
  BY DEF Sent, Op, HeadEdits, Unsettled, IsHead, Open
<1>2. Shaped(t) /\ Chained(t) BY DEF Good, Shaped, Chained
<1>3. HeadIsSent(t) BY <1>1 DEF Good, HeadIsSent
<1>4. FlushesAreTrue(t) BY <1>1 DEF Good, FlushesAreTrue
<1>5. IdsArePaid(t) BY <1>1 DEF Good, IdsArePaid
<1>6. Saved(t, R) BY DEF Good, Saved
<1>7. ReceiptIsTrue(t, R) BY <1>1 DEF Good, ReceiptIsTrue
<1>8. CallsKeep(s, t, R) BY <1>1 DEF CallsKeep, CallIsTrue
<1> QED BY <1>2, <1>3, <1>4, <1>5, <1>6, <1>7, <1>8 DEF Good, Quiet

\* A further entry of one edit.
LEMMA ExtendsIsQuiet ==
    ASSUME NEW s, NEW t, NEW e, NEW R, Good(s, R), ~s.closing, ~s.closed, ~s.unsealed,
           s.sequence < MaxEdits,
           DOMAIN e = EntryFields, e.first = s.sequence + 1, e.last = s.sequence + 1,
           e.context = NoContext,
           DOMAIN t = Fields, t.entries = Append(s.entries, e), t.unsealed \in BOOLEAN,
           t.sequence = s.sequence + 1, t.acknowledged = s.acknowledged,
           t.operations = s.operations, t.discarded = s.discarded,
           t.recovering = s.recovering, t.sent = s.sent, t.flushes = s.flushes,
           t.closing = s.closing, t.closed = s.closed
    PROVE  Quiet(s, t, R)
<1> DEFINE n == Len(s.entries)
<1>1. n \in Nat /\ Len(s.flushes) \in Nat /\ IsSeq(s.entries) BY SeqLen DEF Good, Shaped
<1>2. /\ IsSeq(t.entries) /\ Len(t.entries) = n + 1 /\ t.entries[n + 1] = e
      /\ \A i \in 1..n : t.entries[i] = s.entries[i]
  BY <1>1, AppendSeq
<1>3. s.sequence \in Nat /\ s.acknowledged \in Nat /\ s.acknowledged <= s.sequence
  BY DEF Good, Shaped, Chained
<1> HIDE DEF n
<1>4. \A i \in 1..n + 1 : i \in 1..n \/ i = n + 1 BY <1>1
<1>5. Shaped(t) BY <1>2, <1>3, <1>4 DEF Good, Shaped, n
<1>6. Chained(t)
  <2> USE DEF Good, Chained
  <2>1. MaxEdits \in Nat BY AutosaveBounds
  <2>2. t.acknowledged <= t.sequence /\ t.sequence <= MaxEdits BY <2>1, <1>3
  <2>3. t.entries[1].first = t.acknowledged + 1
    <3>1. CASE n = 0 BY <3>1, <1>2 DEF n
    <3>2. CASE n # 0
      <4>1. 1 \in 1..n BY <3>2, <1>1
      <4> QED BY <3>2, <4>1, <1>2 DEF n
    <3> QED BY <3>1, <3>2
  <2>4. t.entries[Len(t.entries)].last = t.sequence BY <1>2
  <2>5. \A i \in 1..n : /\ s.acknowledged < s.entries[i].first
                        /\ s.entries[i].first <= s.entries[i].last
                        /\ s.entries[i].last <= s.sequence
                        /\ s.entries[i].first \in Nat /\ s.entries[i].last \in Nat
    BY DEF Shaped, n
  <2>6. \A i \in 1..n + 1 : /\ t.acknowledged < t.entries[i].first
                            /\ t.entries[i].first <= t.entries[i].last
                            /\ t.entries[i].last <= t.sequence
    BY <2>5, <1>2, <1>3, <1>4, SMTT(30)
  <2>7. \A i, j \in 1..n + 1 : i < j => t.entries[i].last < t.entries[j].first
    <3>1. \A i, j \in 1..n : i < j => s.entries[i].last < s.entries[j].first BY DEF n
    <3>2. SUFFICES ASSUME NEW i \in 1..n + 1, NEW j \in 1..n + 1, i < j
                   PROVE  t.entries[i].last < t.entries[j].first
      OBVIOUS
    <3>3. i \in 1..n /\ (j \in 1..n \/ j = n + 1) BY <3>2, <1>1
    <3> HIDE DEF Good, Chained
    <3>4. CASE j \in 1..n
      <4>1. s.entries[i].last < s.entries[j].first BY <3>1, <3>2, <3>3, <3>4
      <4> QED BY <4>1, <3>3, <3>4, <1>2
    <3>5. CASE j = n + 1
      <4>1. s.entries[i].last <= s.sequence /\ s.entries[i].last \in Nat BY <2>5, <3>3
      <4>2. t.entries[j].first = s.sequence + 1 BY <3>5, <1>2
      <4>3. t.entries[i] = s.entries[i] BY <3>3, <1>2
      <4> QED BY <4>1, <4>2, <4>3, <1>3
    <3> QED BY <3>3, <3>4, <3>5
  <2>8. \A i, j \in 1..n + 1 : j = i + 1 => t.entries[j].first = t.entries[i].last + 1
    <3>1. \A i, j \in 1..n : j = i + 1 => s.entries[j].first = s.entries[i].last + 1 BY DEF n
    <3>2. n # 0 => s.entries[n].last = s.sequence BY DEF n
    <3> HIDE DEF Good, Chained
    <3>3. SUFFICES ASSUME NEW i \in 1..n + 1, NEW j \in 1..n + 1, j = i + 1
                   PROVE  t.entries[j].first = t.entries[i].last + 1
      OBVIOUS
    <3>4. i \in 1..n /\ t.entries[i] = s.entries[i] BY <3>3, <1>1, <1>2
    <3>5. CASE j = n + 1
      <4>1. i = n /\ n # 0 BY <3>3, <3>4, <3>5, <1>1
      <4>2. t.entries[j].first = s.sequence + 1 BY <3>5, <1>2
      <4> QED BY <4>1, <4>2, <3>2, <3>4
    <3>6. CASE j # n + 1
      <4>1. j \in 1..n BY <3>6, <1>1
      <4>2. t.entries[j] = s.entries[j] BY <4>1, <1>2
      <4>3. s.entries[j].first = s.entries[i].last + 1 BY <4>1, <3>1, <3>3, <3>4
      <4> QED BY <4>2, <4>3, <3>4
    <3> QED BY <3>5, <3>6
  <2> QED BY <2>2, <2>3, <2>4, <2>6, <2>7, <2>8, <1>1, <1>2
<1>7. ~HasContext(e) BY DEF HasContext
<1>8. /\ Sent(t) <=> Sent(s)
      /\ n # 0 => Op(t) = Op(s) /\ HeadEdits(t) = HeadEdits(s) /\ t.entries[1] = s.entries[1]
      /\ n # 0 => ~Open(t)
  <2>1. CASE n = 0 BY <2>1, <1>2, <1>7 DEF Sent, n
  <2>2. CASE n # 0
    <3>1. 1 \in 1..n /\ n + 1 # 1 /\ n + 1 # 0 BY <2>2, <1>1
    <3> QED BY <2>2, <3>1, <1>2 DEF Sent, Op, HeadEdits, Open, n
  <2> QED BY <2>1, <2>2
<1>9. Sent(s) => n # 0 BY DEF Sent, n
<1>10. HeadIsSent(t)
  <2>1. \A i \in 1..n + 1 : i # 1 => ~HasContext(t.entries[i])
    BY <1>2, <1>4, <1>7 DEF Good, HeadIsSent, n
  <2>2. Len(t.entries) # 0 BY <1>1, <1>2
  <2> QED BY <2>1, <2>2, <1>2, <1>8, <1>9 DEF Good, HeadIsSent
<1>11. FlushesAreTrue(t)
  <2>1. Unsettled(t) = Unsettled(s) BY DEF Unsettled
  <2> QED BY <2>1 DEF Good, FlushesAreTrue
<1>12. IdsArePaid(t) BY <1>8 DEF Good, IdsArePaid
<1>13. Saved(t, R) BY DEF Good, Saved
<1>14. ReceiptIsTrue(t, R) BY <1>8, <1>9 DEF Good, ReceiptIsTrue
<1>15. Good(t, R) BY <1>5, <1>6, <1>10, <1>11, <1>12, <1>13, <1>14 DEF Good
<1>16. ASSUME NEW c, CallIsTrue(c, s, R) PROVE CallIsTrue(c, t, R)
  <2>1. c.entry \in Nat BY <1>16 DEF CallIsTrue
  <2>2. IsHead(t, c.entry) <=> t.entries[1].first = c.entry BY <1>1, <1>2, <1>5, HeadIs
  <2>3. IsHead(s, c.entry) <=> n # 0 /\ s.entries[1].first = c.entry BY HeadIs DEF Good, n
  <2>4. CASE n = 0
    <3>1. ~IsHead(s, c.entry) /\ c.entry <= s.acknowledged BY <2>3, <2>4, <1>16 DEF CallIsTrue
    <3>2. ~IsHead(t, c.entry) BY <2>1, <2>2, <2>4, <3>1, <1>2, <1>3
    <3> QED BY <2>4, <3>1, <3>2, <1>8, <1>9, <1>16 DEF CallIsTrue
  <2>5. CASE n # 0
    BY <2>2, <2>3, <2>5, <1>8, <1>9, <1>16 DEF CallIsTrue
  <2> QED BY <2>4, <2>5
<1> QED BY <1>15, <1>16 DEF Quiet, CallsKeep

\* One more edit in the last entry, which was not sent.
LEMMA CoalesceIsQuiet ==
    ASSUME NEW s, NEW R, NEW d, NEW expected, Good(s, R), ~s.closing, ~s.closed, s.unsealed,
           s.sequence < MaxEdits
    PROVE  Quiet(s, Coalesce(s, d, expected), R)
<1> DEFINE n == Len(s.entries)
           t == Coalesce(s, d, expected)
           w == s.entries[n].draft.documents
           W == [x \in DOMAIN w \union {d} |->
                  IF x # d THEN w[x]
                  ELSE [expected |-> IF d \in DOMAIN w THEN w[d].expected ELSE expected,
                        body |-> s.sequence + 1]]
<1>1. /\ n \in Nat /\ n # 0 /\ n \in 1..n /\ 1 \in 1..n /\ Len(s.flushes) \in Nat
      /\ IsSeq(s.entries) /\ DOMAIN s.entries = 1..n
  BY SeqLen DEF Good, Shaped, HeadIsSent
<1>2. t = [s EXCEPT !.sequence = @ + 1, !.entries[n].last = s.sequence + 1,
                    !.entries[n].draft.documents = W]
  BY DEF Coalesce
<1> HIDE DEF n, W
<1>3. /\ DOMAIN t = Fields /\ t.sequence = s.sequence + 1
      /\ t.entries = [s.entries EXCEPT ![n].last = s.sequence + 1, ![n].draft.documents = W]
      /\ t.unsealed = s.unsealed /\ t.acknowledged = s.acknowledged
      /\ t.operations = s.operations /\ t.discarded = s.discarded
      /\ t.recovering = s.recovering /\ t.sent = s.sent /\ t.flushes = s.flushes
      /\ t.closing = s.closing /\ t.closed = s.closed
  <2> DEFINE a == [s EXCEPT !.sequence = @ + 1]
             b == [a EXCEPT !.entries[n].last = s.sequence + 1]
  <2>1. DOMAIN s = Fields BY DEF Good, Shaped
  <2>2. t = [b EXCEPT !.entries[n].draft.documents = W] BY <1>2
  <2>3. /\ DOMAIN b = Fields /\ b.sequence = s.sequence + 1
        /\ b.entries = [s.entries EXCEPT ![n].last = s.sequence + 1]
        /\ b.unsealed = s.unsealed /\ b.acknowledged = s.acknowledged
        /\ b.operations = s.operations /\ b.discarded = s.discarded
        /\ b.recovering = s.recovering /\ b.sent = s.sent /\ b.flushes = s.flushes
        /\ b.closing = s.closing /\ b.closed = s.closed
    BY <2>1 DEF Fields
  <2> HIDE DEF a, b, t
  <2>4. /\ DOMAIN t = Fields /\ t.sequence = b.sequence
        /\ t.entries = [b.entries EXCEPT ![n].draft.documents = W]
        /\ t.unsealed = b.unsealed /\ t.acknowledged = b.acknowledged
        /\ t.operations = b.operations /\ t.discarded = b.discarded
        /\ t.recovering = b.recovering /\ t.sent = b.sent /\ t.flushes = b.flushes
        /\ t.closing = b.closing /\ t.closed = b.closed
    BY <2>2, <2>3 DEF Fields
  <2> QED BY <2>3, <2>4
<1> HIDE DEF t
<1>4. IsSeq(t.entries) /\ Len(t.entries) = n
  <2>1. t.entries = [i \in 1..n |-> t.entries[i]] BY <1>1, <1>3
  <2> QED BY <2>1, <1>1, SeqOf
<1>5. /\ \A i \in 1..n : i # n => t.entries[i] = s.entries[i]
      /\ DOMAIN t.entries[n] = EntryFields /\ t.entries[n].last = s.sequence + 1
      /\ t.entries[n].first = s.entries[n].first /\ t.entries[n].context = s.entries[n].context
      /\ t.entries[n].request = s.entries[n].request
  <2>1. DOMAIN s.entries[n] = EntryFields BY <1>1 DEF Good, Shaped, n
  <2> QED BY <2>1, <1>1, <1>3 DEF EntryFields
<1>6. s.sequence \in Nat /\ s.acknowledged \in Nat /\ s.acknowledged <= s.sequence
  BY DEF Good, Shaped, Chained
<1>7. \A i \in 1..n : /\ DOMAIN t.entries[i] = EntryFields
                      /\ t.entries[i].first = s.entries[i].first /\ t.entries[i].first \in Nat
                      /\ t.entries[i].last = IF i = n THEN s.sequence + 1 ELSE s.entries[i].last
                      /\ t.entries[i].last \in Nat
                      /\ t.entries[i].context = s.entries[i].context
  BY <1>5, <1>6, SMTT(30) DEF Good, Shaped, n
<1>8. Shaped(t)
  <2>1. /\ IsSeq(s.flushes) /\ s.operations \in Nat /\ s.sent \in Nat
        /\ s.unsealed \in BOOLEAN /\ s.recovering \in BOOLEAN
        /\ s.closing \in BOOLEAN /\ s.closed \in BOOLEAN
        /\ \A i \in 1..Len(s.flushes) :
             /\ DOMAIN s.flushes[i] = FlushFields
             /\ s.flushes[i].through \in Nat /\ s.flushes[i].closes \in BOOLEAN
    BY DEF Good, Shaped
  <2>2. t.sequence \in Nat BY <1>3, <1>6
  <2>3. \A i \in 1..Len(t.entries) : /\ DOMAIN t.entries[i] = EntryFields
                                    /\ t.entries[i].first \in Nat /\ t.entries[i].last \in Nat
    BY <1>4, <1>7
  <2> QED BY <2>1, <2>2, <2>3, <1>3, <1>4, <1>6 DEF Shaped
<1>9. Chained(t)
  <2> USE DEF Good, Chained
  <2>1. MaxEdits \in Nat BY AutosaveBounds
  <2>2. t.acknowledged <= t.sequence /\ t.sequence <= MaxEdits BY <2>1, <1>3, <1>6
  <2>3. t.entries[1].first = t.acknowledged + 1 BY <1>1, <1>3, <1>7 DEF n
  <2>4. t.entries[Len(t.entries)].last = t.sequence BY <1>1, <1>3, <1>4, <1>7
  <2>5. \A i \in 1..n : /\ s.acknowledged < s.entries[i].first
                        /\ s.entries[i].first <= s.entries[i].last
                        /\ s.entries[i].last <= s.sequence
                        /\ s.entries[i].first \in Nat /\ s.entries[i].last \in Nat
    BY DEF Shaped, n
  <2>6. ASSUME NEW i \in 1..n
        PROVE  /\ t.acknowledged < t.entries[i].first
               /\ t.entries[i].first <= t.entries[i].last
               /\ t.entries[i].last <= t.sequence
    <3> HIDE DEF Good, Chained
    <3>1. CASE i = n BY <3>1, <2>5, <1>3, <1>6, <1>7
    <3>2. CASE i # n BY <3>2, <2>5, <1>3, <1>6, <1>7
    <3> QED BY <3>1, <3>2
  <2>7. \A i, j \in 1..n :
          /\ i < j => i # n /\ s.entries[i].last < s.entries[j].first
          /\ j = i + 1 => i < j /\ s.entries[j].first = s.entries[i].last + 1
    <3>1. \A i, j \in 1..n : (i < j => i # n) /\ (j = i + 1 => i < j) BY <1>1
    <3> QED BY <3>1 DEF n
  <2>8. \A i, j \in 1..n : i < j => t.entries[i].last < t.entries[j].first
    <3> HIDE DEF Good, Chained, n
    <3> QED BY <2>7, <1>7
  <2>9. \A i, j \in 1..n : j = i + 1 => t.entries[j].first = t.entries[i].last + 1
    <3> HIDE DEF Good, Chained, n
    <3> QED BY <2>7, <1>7
  <2>10. Len(t.entries) = n /\ n # 0 BY <1>1, <1>4
  <2> HIDE DEF Good, n
  <2> QED BY <2>2, <2>3, <2>4, <2>6, <2>8, <2>9, <2>10 DEF Chained
<1>10. /\ Sent(t) <=> Sent(s)
       /\ Sent(s) => n # 1
       /\ n # 1 => Op(t) = Op(s) /\ HeadEdits(t) = HeadEdits(s) /\ t.entries[1] = s.entries[1]
       /\ n # 1 => ~Open(t)
       /\ n = 1 => Open(s)
  <2>1. Sent(t) <=> Sent(s) BY <1>1, <1>4, <1>7 DEF Sent, HasContext, n
  <2>2. n = 1 => Open(s) BY DEF Open, n
  <2>3. Sent(s) => n # 1 BY <2>2 DEF Good, HeadIsSent
  <2>4. n # 1 => t.entries[1] = s.entries[1] BY <1>1, <1>5
  <2>5. n # 1 => Op(t) = Op(s) /\ HeadEdits(t) = HeadEdits(s) BY <2>4 DEF Op, HeadEdits
  <2>6. n # 1 => ~Open(t) BY <1>4 DEF Open
  <2> QED BY <2>1, <2>2, <2>3, <2>4, <2>5, <2>6
<1>11. HeadIsSent(t)
  <2>1. \A i \in 1..n : i # 1 => ~HasContext(t.entries[i])
    BY <1>7 DEF Good, HeadIsSent, HasContext, n
  <2> QED BY <2>1, <1>1, <1>3, <1>4, <1>10 DEF Good, HeadIsSent
<1>12. FlushesAreTrue(t)
  <2>1. Unsettled(t) = Unsettled(s) BY <1>3 DEF Unsettled
  <2> QED BY <2>1, <1>3 DEF Good, FlushesAreTrue
<1>13. IdsArePaid(t) BY <1>3, <1>10 DEF Good, IdsArePaid
<1>14. Saved(t, R) BY <1>3 DEF Good, Saved
<1>15. ReceiptIsTrue(t, R) BY <1>3, <1>10 DEF Good, ReceiptIsTrue
<1>16. Good(t, R) BY <1>8, <1>9, <1>11, <1>12, <1>13, <1>14, <1>15 DEF Good
<1>17. ASSUME NEW c, CallIsTrue(c, s, R) PROVE CallIsTrue(c, t, R)
  <2>1. IsHead(t, c.entry) <=> IsHead(s, c.entry)
    BY <1>1, <1>4, <1>7, <1>8, HeadIs DEF Good, n
  <2>2. IsHead(s, c.entry) => n # 1 BY <1>10, <1>17 DEF CallIsTrue
  <2> QED BY <2>1, <2>2, <1>3, <1>10, <1>17 DEF CallIsTrue
<1> QED BY <1>3, <1>16, <1>17 DEF Quiet, CallsKeep, t

\* A further flush, which may start a recovery; close has one only.
LEMMA AddFlush ==
    ASSUME NEW s, NEW t, NEW R, NEW through \in Nat, NEW closes \in BOOLEAN, Good(s, R),
           Len(s.flushes) < MaxFlushes,
           IF closes THEN ~s.closing /\ t.closing = TRUE /\ through = s.sequence
                     ELSE t.closing = s.closing,
           DOMAIN t = Fields, t.entries = s.entries, t.unsealed = s.unsealed,
           t.flushes = Append(s.flushes,
                              [through |-> through, closes |-> closes, state |-> "chained"]),
           t.sequence = s.sequence, t.acknowledged = s.acknowledged,
           t.operations = s.operations, t.discarded = s.discarded,
           t.recovering \in BOOLEAN, t.sent \in Nat, t.closed = s.closed
    PROVE  Good(t, R) /\ CallsKeep(s, t, R)
<1> DEFINE m == Len(s.flushes)
           f == [through |-> through, closes |-> closes, state |-> "chained"]
<1>1. m \in Nat /\ IsSeq(s.flushes) BY SeqLen DEF Good, Shaped
<1>2. /\ IsSeq(t.flushes) /\ Len(t.flushes) = m + 1 /\ t.flushes[m + 1] = f
      /\ \A i \in 1..m : t.flushes[i] = s.flushes[i]
  BY <1>1, AppendSeq
<1> HIDE DEF m
<1>3. \A i \in 1..m + 1 : i \in 1..m \/ i = m + 1 BY <1>1
<1>4. /\ t.flushes[m + 1].through = through /\ t.flushes[m + 1].closes = closes
      /\ t.flushes[m + 1].state = "chained" /\ DOMAIN t.flushes[m + 1] = FlushFields
  BY <1>2 DEF FlushFields
<1>5. Shaped(t)
  <2>1. t.closing \in BOOLEAN BY DEF Good, Shaped
  <2> QED BY <2>1, <1>2, <1>3, <1>4 DEF Good, Shaped, m
<1>6. /\ Sent(t) <=> Sent(s)
      /\ Op(t) = Op(s) /\ HeadEdits(t) = HeadEdits(s)
      /\ \A x : IsHead(t, x) <=> IsHead(s, x)
      /\ Open(t) <=> Open(s)
  BY DEF Sent, Op, HeadEdits, IsHead, Open
<1>7. Chained(t) BY DEF Good, Chained
<1>8. HeadIsSent(t) BY <1>6 DEF Good, HeadIsSent
<1>9. Unsettled(t) = Unsettled(s) \cup {m + 1}
  <2>1. \A i \in 1..m : i \in 1..m + 1 BY <1>1
  <2>2. m + 1 \in 1..m + 1 BY <1>1
  <2> QED BY <2>1, <2>2, <1>2, <1>3, <1>4 DEF Unsettled, m
<1>10. FlushesAreTrue(t)
  <2> USE DEF Good, FlushesAreTrue
  <2>1. \A i \in Unsettled(s) : i \in 1..m /\ t.flushes[i] = s.flushes[i] BY <1>2 DEF Unsettled, m
  <2>2. closes => \A i \in Unsettled(s) : ~s.flushes[i].closes OBVIOUS
  <2>3. \A i \in 1..Len(t.flushes) :
          t.flushes[i].state = "resolved" => t.flushes[i].through <= t.acknowledged
    BY <1>2, <1>3, <1>4 DEF m
  <2>4. \A i \in Unsettled(t) :
          t.flushes[i].closes => t.closing /\ t.flushes[i].through = t.sequence
    BY <2>1, <1>4, <1>9
  <2>5. \A i, j \in Unsettled(t) : t.flushes[i].closes /\ t.flushes[j].closes => i = j
    BY <2>1, <2>2, <1>4, <1>9
  <2> QED BY <2>3, <2>4, <2>5
<1>11. IdsArePaid(t)
  <2>1. s.operations \in Nat /\ s.acknowledged \in Nat /\ MaxFlushes \in Nat
    BY AutosaveBounds DEF Good, Shaped
  <2>2. s.operations <= s.acknowledged + m + 1 /\ (~Sent(s) => s.operations <= s.acknowledged + m)
    <3>1. s.operations \in Int /\ s.acknowledged + m \in Int BY <2>1, <1>1
    <3>2. s.operations < s.acknowledged + m => s.operations <= s.acknowledged + m BY <3>1
    <3> QED BY <3>2 DEF Good, IdsArePaid, m
  <2>3. Len(t.flushes) = m + 1 /\ m + 1 <= MaxFlushes BY <2>1, <1>1, <1>2 DEF m
  <2>4. /\ t.operations <= t.acknowledged + Len(t.flushes)
        /\ ~Sent(s) => t.operations < t.acknowledged + Len(t.flushes)
    BY <2>1, <2>2, <2>3, <1>1
  <2>5. t.operations <= t.acknowledged + Len(t.flushes) + 1 BY <2>1, <2>3, <2>4, <1>1
  <2> QED BY <2>3, <2>4, <2>5, <1>6 DEF IdsArePaid
<1>12. Saved(t, R) BY DEF Good, Saved
<1>13. ReceiptIsTrue(t, R) BY <1>6 DEF Good, ReceiptIsTrue
<1>14. Good(t, R) BY <1>5, <1>7, <1>8, <1>10, <1>11, <1>12, <1>13 DEF Good
<1>15. CallsKeep(s, t, R) BY <1>6 DEF CallsKeep, CallIsTrue
<1> QED BY <1>14, <1>15

\* The recovered head loses its fenced id, which its recovery had paid for.
LEMMA FencedIsGood ==
    ASSUME NEW s, NEW R, NEW first, NEW revision, Good(s, R), s.recovering
    PROVE  LET t == [Fenced(s, first, revision) EXCEPT !.recovering = FALSE]
           IN  /\ Good(t, R) /\ CallsKeep(s, t, R)
               /\ t.recovering = FALSE /\ t.sent = s.sent
<1> DEFINE t == [Fenced(s, first, revision) EXCEPT !.recovering = FALSE]
<1>1. CASE ~IsHead(s, first)
  <2>1. t = [s EXCEPT !.recovering = FALSE] BY <1>1 DEF Fenced
  <2>2. /\ DOMAIN t = Fields /\ t.entries = s.entries /\ t.flushes = s.flushes
        /\ t.unsealed = s.unsealed /\ t.sequence = s.sequence /\ t.acknowledged = s.acknowledged
        /\ t.operations = s.operations /\ t.discarded = s.discarded
        /\ t.recovering = FALSE /\ t.sent = s.sent
        /\ t.closing = s.closing /\ t.closed = s.closed
    BY <2>1 DEF Good, Shaped, Fields
  <2> HIDE DEF t
  <2>3. Agree(s, t) BY <2>2, SameEntries DEF Good, Agree, Shaped
  <2> QED BY <2>2, <2>3, AgreeKeeps DEF t
<1>2. CASE IsHead(s, first)
  <2> DEFINE n == Len(s.entries)
  <2>1. /\ n \in Nat /\ n # 0 /\ 1 \in 1..n /\ n \in 1..n /\ Len(s.flushes) \in Nat
        /\ IsSeq(s.entries) /\ DOMAIN s.entries = 1..n
    <3>1. Shaped(s) BY DEF Good
    <3>2. n # 0 BY <3>1, <1>2, HeadIs
    <3>3. IsSeq(s.entries) /\ IsSeq(s.flushes) BY <3>1 DEF Shaped
    <3>4. n \in Nat /\ Len(s.flushes) \in Nat /\ DOMAIN s.entries = 1..n BY <3>3, SeqLen
    <3> QED BY <3>2, <3>3, <3>4
  <2>2. /\ DOMAIN t = Fields
        /\ t.entries = [s.entries EXCEPT ![1].context = NoContext, ![1].ready = TRUE]
        /\ t.flushes = s.flushes
        /\ t.unsealed = s.unsealed /\ t.sequence = s.sequence /\ t.acknowledged = s.acknowledged
        /\ t.operations = s.operations /\ t.discarded = s.discarded
        /\ t.recovering = FALSE /\ t.sent = s.sent
        /\ t.closing = s.closing /\ t.closed = s.closed
    BY <1>2 DEF Good, Shaped, Fields, Fenced
  <2> HIDE DEF n, t
  <2>3. IsSeq(t.entries) /\ Len(t.entries) = n
    <3>1. t.entries = [i \in 1..n |-> t.entries[i]] BY <2>1, <2>2
    <3> QED BY <3>1, <2>1, SeqOf
  <2>4. /\ \A i \in 1..n : i # 1 => t.entries[i] = s.entries[i]
        /\ DOMAIN t.entries[1] = EntryFields /\ t.entries[1].context = NoContext
        /\ t.entries[1].first = s.entries[1].first /\ t.entries[1].last = s.entries[1].last
    <3>1. DOMAIN s.entries[1] = EntryFields BY <2>1 DEF Good, Shaped, n
    <3> QED BY <3>1, <2>1, <2>2 DEF EntryFields
  <2>5. \A i \in 1..n : /\ DOMAIN t.entries[i] = EntryFields
                        /\ t.entries[i].first = s.entries[i].first
                        /\ t.entries[i].last = s.entries[i].last
    BY <2>4 DEF Good, Shaped, n
  <2>6. Shaped(t) BY <2>2, <2>3, <2>5 DEF Good, Shaped, n
  <2>7. Chained(t)
    <3>1. /\ t.entries[1].first = t.acknowledged + 1 /\ t.entries[n].last = t.sequence
          /\ t.acknowledged <= t.sequence /\ t.sequence <= MaxEdits
      BY <2>1, <2>2, <2>5 DEF Good, Chained, n
    <3>2. \A i \in 1..n : /\ t.acknowledged < t.entries[i].first
                          /\ t.entries[i].first <= t.entries[i].last
                          /\ t.entries[i].last <= t.sequence
      BY <2>2, <2>5 DEF Good, Chained, n
    <3>3. \A i, j \in 1..n : i < j => t.entries[i].last < t.entries[j].first
      BY <2>5 DEF Good, Chained, n
    <3>4. \A i, j \in 1..n : j = i + 1 => t.entries[j].first = t.entries[i].last + 1
      BY <2>5 DEF Good, Chained, n
    <3> QED BY <2>1, <2>3, <3>1, <3>2, <3>3, <3>4 DEF Chained
  <2>8. /\ ~Sent(t) /\ HeadEdits(t) = HeadEdits(s)
        /\ Open(t) <=> Open(s)
        /\ \A x : IsHead(t, x) <=> IsHead(s, x)
    <3>1. ~Sent(t) BY <2>4 DEF Sent, HasContext
    <3>2. HeadEdits(t) = HeadEdits(s) BY <2>4 DEF HeadEdits
    <3>3. Open(t) <=> Open(s) BY <2>2, <2>3 DEF Open, n
    <3>4. \A x : IsHead(t, x) <=> IsHead(s, x) BY <2>3, <2>4, <2>6, HeadIs DEF Good, n
    <3> QED BY <3>1, <3>2, <3>3, <3>4
  <2>9. HeadIsSent(t)
    <3>1. \A i \in 1..n : i # 1 => ~HasContext(t.entries[i]) BY <2>4 DEF Good, HeadIsSent, n
    <3> QED BY <3>1, <2>1, <2>3, <2>8 DEF HeadIsSent
  <2>10. FlushesAreTrue(t)
    <3>1. Unsettled(t) = Unsettled(s) BY <2>2 DEF Unsettled
    <3> QED BY <3>1, <2>2 DEF Good, FlushesAreTrue
  <2>11. IdsArePaid(t)
    <3>1. s.operations \in Nat /\ s.acknowledged \in Nat BY DEF Good, Shaped
    <3> QED BY <3>1, <2>1, <2>2 DEF Good, IdsArePaid
  <2>12. Saved(t, R) BY <2>2 DEF Good, Saved
  <2>13. ReceiptIsTrue(t, R) BY <2>2, <2>8 DEF Good, ReceiptIsTrue
  <2>14. Good(t, R) BY <2>6, <2>7, <2>9, <2>10, <2>11, <2>12, <2>13 DEF Good
  <2>15. CallsKeep(s, t, R) BY <2>2, <2>8 DEF CallsKeep, CallIsTrue
  <2> QED BY <2>2, <2>14, <2>15 DEF t
<1> QED BY <1>1, <1>2

-----------------------------------------------------------------------------
(* The actions *)

\* A step of the coordinator that keeps the receipts.
LEMMA StepKeeps ==
    ASSUME NEW t, NEW others, Good(t, receipts),
           \A c \in others : CallIsTrue(c, t, receipts), OneRecovery(others, t),
           t.sent # q.sent => CallIsTrue(Call("commit", t), t, receipts),
           Becomes(t, others), receipts' = receipts, events' \subseteq DOMAIN receipts
    PROVE  IInv'
<1>1. Good(q', receipts') BY DEF Becomes
<1>2. calls' \subseteq others \union {Call("commit", t)} BY DEF Becomes
<1>3. t.sent = q.sent => calls' = others BY DEF Becomes
<1>4. \A c \in calls' : CallIsTrue(c, q', receipts') BY <1>2, <1>3 DEF Becomes
<1>5. ~Recovers(Call("commit", t)) BY DEF Recovers, Call
<1>6. OneRecovery(calls', q') BY <1>2, <1>5 DEF OneRecovery, Becomes
<1> QED BY <1>1, <1>4, <1>6 DEF IInv, CallsAreTrue

\* The same for a safe one, by calls that were under way.
LEMMA SafeStep ==
    ASSUME IInv, NEW t, NEW others, Safe(q, t, receipts), others \subseteq calls,
           Becomes(t, others), receipts' = receipts, events' \subseteq DOMAIN receipts
    PROVE  IInv'
<1>1. Good(t, receipts) BY DEF Safe
<1>2. \A c \in others : CallIsTrue(c, t, receipts) BY DEF IInv, CallsAreTrue, Safe, CallsKeep
<1>3. OneRecovery(others, t) BY DEF IInv, CallsAreTrue, Safe, OneRecovery
<1>4. t.sent # q.sent => CallIsTrue(Call("commit", t), t, receipts) BY DEF Safe
<1> QED BY <1>1, <1>2, <1>3, <1>4, StepKeeps

LEMMA EnqueueDocumentStep ==
    ASSUME IInv, NEW d, NEW e, EnqueueDocument(d, e) PROVE IInv'
<1> DEFINE draft == [NoDraft EXCEPT !.documents =
                       [x \in {d} |-> [expected |-> e, body |-> q.sequence + 1]]]
           entry == [first |-> q.sequence + 1, last |-> q.sequence + 1, ready |-> FALSE,
                     draft |-> draft, context |-> NoContext, request |-> NoMap]
           u == [NewEntry(q, FALSE, draft) EXCEPT !.unsealed = TRUE]
           t == IF q.unsealed THEN Coalesce(q, d, e) ELSE u
<1>1. /\ ~q.closed /\ ~q.closing /\ q.sequence < MaxEdits /\ Becomes(Pump(t), calls)
      /\ receipts' = receipts /\ events' = events
  BY DEF EnqueueDocument, Editable, file
<1>2. Good(q, receipts) /\ events \subseteq DOMAIN receipts BY DEF IInv
<1>3. CASE q.unsealed
  <2>1. Quiet(q, t, receipts) BY <1>1, <1>2, <1>3, CoalesceIsQuiet
  <2>2. Safe(t, Pump(t), receipts) BY <2>1, PumpIsSafe DEF Quiet
  <2> QED BY <2>1, <2>2, <1>1, <1>2, QuietThenSafe, SafeStep
<1>4. CASE ~q.unsealed
  <2> HIDE DEF draft
  <2>1. /\ DOMAIN u = Fields /\ u.entries = Append(q.entries, entry) /\ u.unsealed \in BOOLEAN
        /\ u.sequence = q.sequence + 1 /\ u.acknowledged = q.acknowledged
        /\ u.operations = q.operations /\ u.discarded = q.discarded
        /\ u.recovering = q.recovering /\ u.sent = q.sent /\ u.flushes = q.flushes
        /\ u.closing = q.closing /\ u.closed = q.closed
    BY <1>2 DEF Good, Shaped, Fields, NewEntry
  <2>2. /\ DOMAIN entry = EntryFields /\ entry.first = q.sequence + 1
        /\ entry.last = q.sequence + 1 /\ entry.context = NoContext
    BY DEF EntryFields
  <2> HIDE DEF u, entry
  <2>3. Quiet(q, u, receipts) BY <2>1, <2>2, <1>1, <1>2, <1>4, ExtendsIsQuiet
  <2>4. Safe(u, Pump(u), receipts) BY <2>3, PumpIsSafe DEF Quiet
  <2> QED BY <2>3, <2>4, <1>1, <1>2, <1>4, QuietThenSafe, SafeStep
<1> QED BY <1>3, <1>4

LEMMA SubmitStep == ASSUME IInv, NEW draft, Submit(draft) PROVE IInv'
<1> DEFINE s == Seal(q)
           entry == [first |-> s.sequence + 1, last |-> s.sequence + 1, ready |-> TRUE,
                     draft |-> draft, context |-> NoContext, request |-> NoMap]
           t == NewEntry(s, TRUE, draft)
<1>1. /\ ~q.closed /\ ~q.closing /\ q.sequence < MaxEdits /\ Becomes(Pump(t), calls)
      /\ receipts' = receipts /\ events' = events
  BY DEF Submit, Editable, file
<1>2. Good(q, receipts) /\ events \subseteq DOMAIN receipts BY DEF IInv
<1>3. Quiet(q, s, receipts) /\ ~s.unsealed BY <1>2, SealIsQuiet
<1>4. s.closed = q.closed /\ s.closing = q.closing /\ s.sequence = q.sequence
  BY <1>2, SealAgrees DEF Good, HeadIsSent, Agree
<1> HIDE DEF s
<1>5. Good(s, receipts) BY <1>3 DEF Quiet
<1>6. /\ DOMAIN t = Fields /\ t.entries = Append(s.entries, entry) /\ t.unsealed = s.unsealed
      /\ t.sequence = s.sequence + 1 /\ t.acknowledged = s.acknowledged
      /\ t.operations = s.operations /\ t.discarded = s.discarded
      /\ t.recovering = s.recovering /\ t.sent = s.sent /\ t.flushes = s.flushes
      /\ t.closing = s.closing /\ t.closed = s.closed
  BY <1>5 DEF Good, Shaped, Fields, NewEntry
<1>7. s.unsealed \in BOOLEAN BY <1>5 DEF Good, Shaped
<1>8. /\ DOMAIN entry = EntryFields /\ entry.first = s.sequence + 1
      /\ entry.last = s.sequence + 1 /\ entry.context = NoContext
  BY DEF EntryFields
<1> HIDE DEF t, entry
<1>9. Quiet(s, t, receipts) BY <1>1, <1>3, <1>4, <1>5, <1>6, <1>7, <1>8, ExtendsIsQuiet
<1>10. Safe(t, Pump(t), receipts) BY <1>9, PumpIsSafe DEF Quiet
<1> QED BY <1>1, <1>2, <1>3, <1>9, <1>10, QuietThenQuiet, QuietThenSafe, SafeStep DEF t, s

LEMMA CaptureBarrierStep == ASSUME IInv, CaptureBarrier PROVE IInv'
<1>1. Good(q, receipts) /\ events \subseteq DOMAIN receipts BY DEF IInv
<1>2. Safe(q, Seal(q), receipts) BY <1>1, SealIsQuiet, QuietIsSafe
<1> QED BY <1>1, <1>2, SafeStep DEF CaptureBarrier, file

\* A call for a head that was sent is true of it.
LEMMA CallOfHead ==
    ASSUME NEW s, NEW R, NEW kind, Good(s, R), Sent(s)
    PROVE  /\ CallIsTrue(Call(kind, s), s, R)
           /\ Recovers(Call(kind, s)) => kind = "recover"
<1> DEFINE c == Call(kind, s)
<1>1. Shaped(s) /\ HeadIsSent(s) /\ Len(s.entries) # 0 BY DEF Good, Sent
<1>2. Head(s.entries) = s.entries[1] /\ 1 \in 1..Len(s.entries)
  BY <1>1, SeqLen DEF Shaped
<1>3. /\ DOMAIN c = CallFields /\ c.late = FALSE /\ c.answer = "none" /\ c.kind = kind
      /\ c.context.op = Op(s) /\ c.entry = s.entries[1].first
      /\ c.request.edits = s.entries[1].request.edits
  BY <1>2 DEF Call, CallFields, Op
<1> HIDE DEF c
<1>4. c.entry \in Nat /\ IsHead(s, c.entry) BY <1>1, <1>2, <1>3, HeadIs DEF Shaped
<1>5. CallIsTrue(c, s, R) BY <1>1, <1>3, <1>4 DEF CallIsTrue, HeadIsSent
<1>6. Recovers(c) => kind = "recover" BY <1>3 DEF Recovers
<1> QED BY <1>5, <1>6 DEF c

\* What a flush does to the record s, which has the calls and flushes of q.
LEMMA FlushThroughStep ==
    ASSUME IInv, NEW s, NEW through \in Nat, NEW closes \in BOOLEAN, NEW n,
           NEW r, Quiet(q, r, receipts),
           IF closes THEN /\ ~r.closing /\ s = [r EXCEPT !.closing = TRUE]
                          /\ through = r.sequence
                     ELSE s = r,
           FlushThrough(s, through, closes, n), receipts' = receipts, events' = events
    PROVE  IInv'
<1> DEFINE f == [through |-> through, closes |-> closes, state |-> "chained"]
           t == [s EXCEPT !.flushes = Append(@, f)]
           u == [t EXCEPT !.active = TRUE, !.recovering = TRUE, !.sent = @ + 1]
           i == Len(s.flushes) + 1
<1>1. /\ Good(r, receipts) /\ CallsKeep(q, r, receipts)
      /\ r.sent = q.sent /\ r.recovering = q.recovering
  BY DEF Quiet
<1>2. DOMAIN r = Fields BY <1>1 DEF Good, Shaped
<1>3. /\ DOMAIN s = Fields /\ s.entries = r.entries /\ s.unsealed = r.unsealed
      /\ s.sequence = r.sequence /\ s.acknowledged = r.acknowledged
      /\ s.operations = r.operations /\ s.discarded = r.discarded
      /\ s.recovering = r.recovering /\ s.sent = r.sent /\ s.flushes = r.flushes
      /\ IF closes THEN s.closing = TRUE ELSE s.closing = r.closing
      /\ s.closed = r.closed
  BY <1>2 DEF Fields
<1>4. /\ Len(s.flushes) < MaxFlushes
      /\ \/ Recoverable(s, through) /\ q' = u /\ calls' = calls \union {Call("recover", u)}
         \/ q' = t /\ calls' = calls
         \/ Becomes(FlushPending(t, i, n), calls)
  BY DEF FlushThrough
<1>5. /\ DOMAIN t = Fields /\ t.entries = r.entries /\ t.unsealed = r.unsealed
      /\ t.sequence = r.sequence /\ t.acknowledged = r.acknowledged
      /\ t.operations = r.operations /\ t.discarded = r.discarded
      /\ t.recovering = r.recovering /\ t.sent = r.sent /\ t.flushes = Append(r.flushes, f)
      /\ t.closing = s.closing /\ t.closed = r.closed
  BY <1>3 DEF Fields
<1>6. /\ DOMAIN u = Fields /\ u.entries = r.entries /\ u.unsealed = r.unsealed
      /\ u.sequence = r.sequence /\ u.acknowledged = r.acknowledged
      /\ u.operations = r.operations /\ u.discarded = r.discarded
      /\ u.recovering = TRUE /\ u.sent = r.sent + 1 /\ u.flushes = Append(r.flushes, f)
      /\ u.closing = s.closing /\ u.closed = r.closed
  BY <1>5 DEF Fields
<1> HIDE DEF t, u
<1>7. r.sent \in Nat /\ r.recovering \in BOOLEAN BY <1>1 DEF Good, Shaped
<1>8. Good(t, receipts) /\ CallsKeep(r, t, receipts)
  BY <1>1, <1>3, <1>4, <1>5, <1>7, AddFlush
<1>9. Good(u, receipts) /\ CallsKeep(r, u, receipts)
  <2>1. u.recovering \in BOOLEAN BY <1>6, Zenon
  <2>2. u.sent \in Nat BY <1>6, <1>7
  <2> QED BY <2>1, <2>2, <1>1, <1>3, <1>4, <1>6, AddFlush
<1>10. /\ \A c \in calls : CallIsTrue(c, r, receipts)
       /\ OneRecovery(calls, q) /\ events \subseteq DOMAIN receipts
  BY <1>1 DEF IInv, CallsAreTrue, CallsKeep
<1>11. ASSUME Recoverable(s, through), q' = u, calls' = calls \union {Call("recover", u)}
       PROVE  IInv'
  <2>1. ~q.recovering /\ Sent(u)
    <3>1. Shaped(r) BY <1>1 DEF Good
    <3>2. s.entries # <<>> /\ HasContext(Head(s.entries)) /\ ~s.recovering BY <1>11 DEF Recoverable
    <3>3. Len(r.entries) # 0 /\ HasContext(r.entries[1]) BY <3>1, <3>2, <1>3, SeqLen DEF Shaped
    <3> QED BY <3>2, <3>3, <1>1, <1>3, <1>6 DEF Sent
  <2>2. CallIsTrue(Call("recover", u), u, receipts) BY <2>1, <1>9, CallOfHead
  <2>3. \A c \in calls : ~Recovers(c) BY <2>1, <1>10 DEF OneRecovery
  <2>4. OneRecovery(calls', q') BY <2>3, <1>6, <1>11 DEF OneRecovery
  <2>5. \A c \in calls' : CallIsTrue(c, q', receipts')
    BY <2>2, <1>9, <1>10, <1>11 DEF CallsKeep
  <2> QED BY <2>4, <2>5, <1>9, <1>10, <1>11 DEF IInv, CallsAreTrue
<1>12. ASSUME q' = t, calls' = calls PROVE IInv'
  <2>1. \A c \in calls' : CallIsTrue(c, q', receipts') BY <1>8, <1>10, <1>12 DEF CallsKeep
  <2>2. OneRecovery(calls', q') BY <1>1, <1>5, <1>10, <1>12 DEF OneRecovery
  <2> QED BY <2>1, <2>2, <1>8, <1>10, <1>12 DEF IInv, CallsAreTrue
<1>13. ASSUME Becomes(FlushPending(t, i, n), calls) PROVE IInv'
  <2>1. i \in Flushes(t, "chained")
    <3>1. IsSeq(r.flushes) /\ Len(r.flushes) \in Nat BY <1>1, SeqLen DEF Good, Shaped
    <3>2. IsSeq(t.flushes) /\ Len(t.flushes) = i /\ t.flushes[i] = f
      BY <3>1, <1>3, <1>5, AppendSeq
    <3>3. i \in DOMAIN t.flushes BY <3>1, <3>2, <1>3, SeqLen
    <3> QED BY <3>2, <3>3 DEF Flushes
  <2>2. Safe(t, FlushPending(t, i, n), receipts) BY <2>1, <1>8, FlushPendingIsSafe
  <2>3. Quiet(q, t, receipts) BY <1>1, <1>5, <1>8 DEF Quiet, CallsKeep
  <2> QED BY <2>2, <2>3, <1>10, <1>13, QuietThenSafe, SafeStep
<1> QED BY <1>4, <1>11, <1>12, <1>13

LEMMA FlushStep == ASSUME IInv, NEW through \in 1..MaxEdits, NEW n, Flush(through, n) PROVE IInv'
<1>1. Quiet(q, q, receipts) BY DEF IInv, Quiet, CallsKeep
<1>2. through \in Nat BY AutosaveBounds
<1>3. FlushThrough(q, through, FALSE, n) /\ receipts' = receipts /\ events' = events
  BY DEF Flush, file
<1> QED BY <1>1, <1>2, <1>3, FlushThroughStep

LEMMA CloseStep == ASSUME IInv, NEW n, Close(n) PROVE IInv'
<1> DEFINE r == Seal(q)
           s == [r EXCEPT !.closing = TRUE]
<1>1. Good(q, receipts) BY DEF IInv
<1>2. Quiet(q, r, receipts) BY <1>1, SealIsQuiet
<1>3. r.closing = q.closing /\ r.sequence = q.sequence
  BY <1>1, SealAgrees DEF Good, HeadIsSent, Agree
<1>4. q.sequence \in Nat BY <1>1 DEF Good, Shaped
<1>5. /\ FlushThrough(s, q.sequence, TRUE, n) /\ ~q.closing
      /\ receipts' = receipts /\ events' = events
  BY DEF Close, file
<1> HIDE DEF r
<1> QED BY <1>2, <1>3, <1>4, <1>5, FlushThroughStep

-----------------------------------------------------------------------------
LEMMA ResolveFailedOperationStep == ASSUME IInv, ResolveFailedOperation PROVE IInv'
<1> DEFINE s == [q EXCEPT !.active = TRUE, !.sent = @ + 1]
<1>1. /\ q.entries # <<>> /\ HasContext(Head(q.entries))
      /\ q' = s /\ calls' = calls \union {Call("resolve", s)}
      /\ receipts' = receipts /\ events' = events
  BY DEF ResolveFailedOperation, file
<1>2. Good(q, receipts) /\ Shaped(q) BY DEF IInv, Good
<1>3. /\ DOMAIN s = Fields /\ s.entries = q.entries /\ s.flushes = q.flushes
      /\ s.unsealed = q.unsealed /\ s.sequence = q.sequence /\ s.acknowledged = q.acknowledged
      /\ s.operations = q.operations /\ s.discarded = q.discarded
      /\ s.recovering = q.recovering /\ s.sent = q.sent + 1
      /\ s.closing = q.closing /\ s.closed = q.closed
  BY <1>2 DEF Shaped, Fields
<1> HIDE DEF s
<1>4. Agree(q, s) BY <1>2, <1>3, SameEntries DEF Agree, Shaped
<1>5. Good(s, receipts) /\ CallsKeep(q, s, receipts) BY <1>2, <1>4, AgreeKeeps
<1>6. Sent(s) BY <1>1, <1>2, <1>3, SeqLen DEF Sent, Shaped
<1>7. CallIsTrue(Call("resolve", s), s, receipts) /\ ~Recovers(Call("resolve", s))
  BY <1>5, <1>6, CallOfHead
<1>8. \A c \in calls' : CallIsTrue(c, q', receipts')
  BY <1>1, <1>5, <1>7 DEF IInv, CallsAreTrue, CallsKeep
<1>9. OneRecovery(calls', q') BY <1>1, <1>3, <1>7 DEF IInv, CallsAreTrue, OneRecovery
<1> QED BY <1>1, <1>5, <1>8, <1>9 DEF IInv, CallsAreTrue

LEMMA WindowElapsesStep == ASSUME IInv, WindowElapses PROVE IInv'
<1> DEFINE y == [q.entries EXCEPT ![Len(q.entries)].ready = TRUE]
<1>1. /\ q.unsealed /\ q' = [q EXCEPT !.entries[Len(q.entries)].ready = TRUE]
      /\ calls' = calls /\ receipts' = receipts /\ events' = events
  BY DEF WindowElapses, file
<1>2. Good(q, receipts) /\ Shaped(q) /\ Len(q.entries) # 0
  BY <1>1 DEF IInv, Good, HeadIsSent
<1>3. /\ DOMAIN q' = Fields /\ q'.entries = y /\ q'.flushes = q.flushes
      /\ q'.unsealed = q.unsealed /\ q'.sequence = q.sequence /\ q'.acknowledged = q.acknowledged
      /\ q'.operations = q.operations /\ q'.discarded = q.discarded
      /\ q'.recovering = q.recovering /\ q'.sent = q.sent
      /\ q'.closing = q.closing /\ q'.closed = q.closed
  BY <1>1, <1>2 DEF Shaped, Fields
<1>4. EntriesAlike(q.entries, y) BY <1>2, ReadyEntry
<1> HIDE DEF y
<1>5. Agree(q, q') BY <1>2, <1>3, <1>4, SameEntries DEF Agree, Shaped
<1>6. Quiet(q, q', receipts) BY <1>2, <1>3, <1>5, AgreeIsQuiet
<1> QED BY <1>1, <1>6 DEF IInv, CallsAreTrue, OneRecovery, Quiet, CallsKeep

LEMMA TimerFiresStep == ASSUME IInv, TimerFires PROVE IInv'
<1> DEFINE t == [q EXCEPT !.timer = FALSE]
<1>1. Becomes(Pump(t), calls) /\ receipts' = receipts /\ events' = events
  BY DEF TimerFires, file
<1>2. Good(q, receipts) /\ events \subseteq DOMAIN receipts BY DEF IInv
<1>3. Same(q, t) BY <1>2 DEF Good, Shaped, Fields, Same
<1> HIDE DEF t
<1>4. Quiet(q, t, receipts) BY <1>2, <1>3, SameIsQuiet
<1>5. Safe(t, Pump(t), receipts) BY <1>4, PumpIsSafe DEF Quiet
<1> QED BY <1>1, <1>2, <1>4, <1>5, QuietThenSafe, SafeStep

LEMMA PumpLaterStep == ASSUME IInv, PumpLater PROVE IInv'
<1> DEFINE t == [q EXCEPT !.pumpDue = FALSE]
<1>1. Becomes(Pump(t), calls) /\ receipts' = receipts /\ events' = events
  BY DEF PumpLater, file
<1>2. Good(q, receipts) /\ events \subseteq DOMAIN receipts BY DEF IInv
<1>3. Same(q, t) BY <1>2 DEF Good, Shaped, Fields, Same
<1> HIDE DEF t
<1>4. Quiet(q, t, receipts) BY <1>2, <1>3, SameIsQuiet
<1>5. Safe(t, Pump(t), receipts) BY <1>4, PumpIsSafe DEF Quiet
<1> QED BY <1>1, <1>2, <1>4, <1>5, QuietThenSafe, SafeStep

LEMMA FlushGoesOnStep == ASSUME IInv, NEW n, FlushGoesOn(n) PROVE IInv'
<1> DEFINE least(i) == \A j \in Flushes(q, "chained") : i <= j
           i == CHOOSE i \in Flushes(q, "chained") : least(i)
<1>1. /\ Flushes(q, "chained") # {} /\ Becomes(FlushPending(q, i, n), calls)
      /\ receipts' = receipts /\ events' = events
  BY DEF FlushGoesOn, file
<1>2. Good(q, receipts) /\ events \subseteq DOMAIN receipts BY DEF IInv
<1>3. \E m \in Flushes(q, "chained") : least(m)
  <2>1. Flushes(q, "chained") \subseteq Nat
    BY <1>2, SeqLen DEF Good, Shaped, Flushes
  <2> QED BY <1>1, <2>1, LeastOf
<1> HIDE DEF least
<1>4. i \in Flushes(q, "chained") BY <1>3
<1> HIDE DEF i
<1>5. Safe(q, FlushPending(q, i, n), receipts) BY <1>2, <1>4, FlushPendingIsSafe
<1> QED BY <1>1, <1>2, <1>5, SafeStep

-----------------------------------------------------------------------------
\* One more receipt: of the head's edits if it is under the head's id.
LEMMA ReceiptIsAdded ==
    ASSUME NEW s, NEW R, NEW S, NEW o, Good(s, R), o \notin DOMAIN R,
           DOMAIN S = DOMAIN R \cup {o}, \A p \in DOMAIN R : S[p] = R[p],
           Sent(s) /\ o = Op(s) => EditsIn(S, o) = HeadEdits(s),
           o \in 1..s.operations \/ o \notin OwnOperations
    PROVE  Good(s, S) /\ \A c : CallIsTrue(c, s, R) => CallIsTrue(c, s, S)
<1>1. \A p \in DOMAIN R : p \in DOMAIN S /\ EditsIn(S, p) = EditsIn(R, p) BY DEF EditsIn
<1>2. Saved(s, S) BY <1>1 DEF Good, Saved
<1>3. ReceiptIsTrue(s, S) BY <1>1 DEF Good, ReceiptIsTrue
<1>4. Good(s, S) BY <1>2, <1>3 DEF Good
<1>5. \A c : CallIsTrue(c, s, R) => CallIsTrue(c, s, S) BY DEF CallIsTrue
<1> QED BY <1>4, <1>5

\* What a commit adds to the receipts.
LEMMA CommitAdds ==
    ASSUME NEW ctx, NEW req, Backend!Commit(ctx, req)
    PROVE  /\ ctx.op \notin DOMAIN receipts
           /\ DOMAIN receipts' = DOMAIN receipts \cup {ctx.op}
           /\ \A p \in DOMAIN receipts : receipts'[p] = receipts[p]
           /\ EditsIn(receipts', ctx.op) = req.edits
<1>1. Backend!Outcome(ctx, req) = "committed" BY DEF Backend!Commit
<1>2. ctx.op \notin DOMAIN receipts
  BY <1>1 DEF Backend!Outcome, Backend!OperationState
<1>3. receipts' = [o \in DOMAIN receipts \union {ctx.op} |->
                    IF o = ctx.op THEN Backend!Receipt(ctx, req, committedRevision)
                                  ELSE receipts[o]]
  BY DEF Backend!Commit, Backend!WriteCommit
<1>4. Backend!Receipt(ctx, req, committedRevision).digest.request = req
  BY DEF Backend!Receipt, Backend!Digest
<1> QED BY <1>2, <1>3, <1>4 DEF EditsIn

\* An answered call is as true as it was.
LEMMA AnswerKeeps ==
    ASSUME NEW c \in calls, NEW answer, Answer(c, answer), NEW s, NEW R,
           \A e \in calls : CallIsTrue(e, s, R), OneRecovery(calls, s), c.answer = "none",
           answer = "committed" => c.context.op \in DOMAIN R
    PROVE  CallsAreTrue(calls', s, R)
<1> DEFINE e == [c EXCEPT !.answer = answer, !.revision = committedRevision]
<1>1. DOMAIN c = CallFields /\ c.late \in BOOLEAN BY DEF CallIsTrue
<1>2. /\ DOMAIN e = CallFields /\ e.kind = c.kind /\ e.late = c.late /\ e.entry = c.entry
      /\ e.context = c.context /\ e.request = c.request /\ e.answer = answer
  BY <1>1 DEF CallFields
<1>3. calls' \subseteq (calls \ {c}) \cup {e} /\ (c.late => calls' \subseteq calls \ {c})
  BY DEF Answer
<1> HIDE DEF e
<1>4. ~c.late => CallIsTrue(e, s, R) BY <1>2 DEF CallIsTrue
<1>5. \A x \in calls' : CallIsTrue(x, s, R) BY <1>3, <1>4
<1>6. Recovers(e) <=> Recovers(c) BY <1>2 DEF Recovers
<1>7. OneRecovery(calls', s) BY <1>3, <1>6 DEF OneRecovery
<1> QED BY <1>5, <1>7 DEF CallsAreTrue

LEMMA ExecuteCommitStep == ASSUME IInv, NEW c \in calls, ExecuteCommit(c) PROVE IInv'
<1>1. q' = q /\ c.answer = "none" BY DEF ExecuteCommit
<1>2. /\ Good(q, receipts) /\ \A e \in calls : CallIsTrue(e, q, receipts)
      /\ OneRecovery(calls, q) /\ events \subseteq DOMAIN receipts
  BY DEF IInv, CallsAreTrue
<1>3. ASSUME Backend!Commit(c.context, c.request), Answer(c, "committed"),
             events' = events \union {c.context.op}
      PROVE  IInv'
  <2>1. /\ c.context.op \notin DOMAIN receipts
        /\ DOMAIN receipts' = DOMAIN receipts \cup {c.context.op}
        /\ \A p \in DOMAIN receipts : receipts'[p] = receipts[p]
        /\ EditsIn(receipts', c.context.op) = c.request.edits
    BY <1>3, CommitAdds
  <2>2. /\ c.context.op \in 1..q.operations
        /\ Sent(q) /\ c.context.op = Op(q) => c.request.edits = HeadEdits(q)
    BY <1>2 DEF CallIsTrue
  <2>3. Good(q, receipts') /\ \A e : CallIsTrue(e, q, receipts) => CallIsTrue(e, q, receipts')
    BY <2>1, <2>2, <1>2, ReceiptIsAdded
  <2>4. CallsAreTrue(calls', q, receipts')
    BY <2>1, <2>3, <1>1, <1>2, <1>3, AnswerKeeps
  <2> QED BY <2>1, <2>3, <2>4, <1>1, <1>2, <1>3 DEF IInv
<1>4. ASSUME Backend!Outcome(c.context, c.request) = "replayed", Answer(c, "committed"),
             events' = events \union {c.context.op}, receipts' = receipts
      PROVE  IInv'
  <2>1. Backend!OperationState(c.context, c.request) = "replayed" BY <1>4 DEF Backend!Outcome
  <2>2. c.context.op \in DOMAIN receipts BY <2>1 DEF Backend!OperationState
  <2>3. CallsAreTrue(calls', q, receipts) BY <2>2, <1>1, <1>2, <1>4, AnswerKeeps
  <2> QED BY <2>2, <2>3, <1>1, <1>2, <1>4 DEF IInv
<1>5. ASSUME Answer(c, "error"), receipts' = receipts, events' = events PROVE IInv'
  <2>1. CallsAreTrue(calls', q, receipts) BY <1>1, <1>2, <1>5, AnswerKeeps
  <2> QED BY <2>1, <1>1, <1>2, <1>5 DEF IInv
<1> QED BY <1>3, <1>4, <1>5 DEF ExecuteCommit, file

LEMMA ExecuteResolveStep == ASSUME IInv, NEW c \in calls, ExecuteResolve(c) PROVE IInv'
<1>1. q' = q /\ c.answer = "none" BY DEF ExecuteResolve
<1>2. /\ Good(q, receipts) /\ \A e \in calls : CallIsTrue(e, q, receipts)
      /\ OneRecovery(calls, q) /\ events \subseteq DOMAIN receipts
  BY DEF IInv, CallsAreTrue
<1>3. \/ /\ c.context.op \in DOMAIN receipts /\ Answer(c, "committed")
         /\ events' = events \union {c.context.op} /\ receipts' = receipts
      \/ Answer(c, "cancelled") /\ events' = events /\ receipts' = receipts
  BY DEF ExecuteResolve, file, Backend!ResolveOperation
<1>4. CallsAreTrue(calls', q, receipts) BY <1>1, <1>2, <1>3, AnswerKeeps
<1> QED BY <1>1, <1>2, <1>3, <1>4 DEF IInv

LEMMA ExternalCommitStep == ASSUME IInv, NEW req, ExternalCommit(req) PROVE IInv'
<1>1. PICK op \in Operations \ (OwnOperations \union DOMAIN receipts) :
        /\ Backend!Commit([op |-> op, epoch |-> 1, revision |-> committedRevision,
                           documents |-> NoMap, datasets |-> NoMap], req)
        /\ events' = events \union {op}
        /\ UNCHANGED <<q, store, calls, faults>>
  BY DEF ExternalCommit
<1>2. /\ op \notin DOMAIN receipts /\ DOMAIN receipts' = DOMAIN receipts \cup {op}
      /\ \A p \in DOMAIN receipts : receipts'[p] = receipts[p]
  <2> DEFINE ctx == [op |-> op, epoch |-> 1, revision |-> committedRevision,
                     documents |-> NoMap, datasets |-> NoMap]
  <2>1. Backend!Commit(ctx, req) /\ ctx.op = op BY <1>1
  <2> HIDE DEF ctx
  <2> QED BY <2>1, CommitAdds
<1>3. Good(q, receipts) BY DEF IInv
<1>4. ~(Sent(q) /\ op = Op(q))
  <2>1. MaxEdits \in Nat /\ MaxFlushes \in Nat BY AutosaveBounds
  <2>2. SUFFICES ASSUME Sent(q) PROVE Op(q) \in OwnOperations OBVIOUS
  <2>3. /\ Op(q) \in 1..q.operations /\ q.operations \in Nat /\ Len(q.entries) \in Nat
        /\ Len(q.entries) # 0 /\ Len(q.flushes) \in Nat /\ Len(q.flushes) <= MaxFlushes
        /\ q.operations <= q.acknowledged + Len(q.flushes) + 1
    BY <2>2, <1>3, SeqLen DEF Good, Shaped, HeadIsSent, IdsArePaid, Sent
  <2>4. 1 \in 1..Len(q.entries) BY <2>3
  <2>5. q.acknowledged \in Nat /\ q.sequence \in Nat /\ q.acknowledged < q.sequence
        /\ q.sequence <= MaxEdits
    <3>1. /\ q.acknowledged < q.entries[1].first /\ q.entries[1].first <= q.entries[1].last
          /\ q.entries[1].last <= q.sequence /\ q.sequence <= MaxEdits
      BY <2>4, <1>3 DEF Good, Chained
    <3>2. /\ q.acknowledged \in Nat /\ q.sequence \in Nat
          /\ q.entries[1].first \in Nat /\ q.entries[1].last \in Nat
      BY <2>4, <1>3 DEF Good, Shaped
    <3> QED BY <3>1, <3>2
  <2>6. Op(q) \in Nat /\ Op(q) >= 1 /\ Op(q) <= q.operations BY <2>3
  <2>7. q.operations <= MaxEdits + MaxFlushes BY <2>1, <2>3, <2>5
  <2> QED BY <2>1, <2>3, <2>6, <2>7 DEF OwnOperations
<1>5. Good(q, receipts') /\ \A c : CallIsTrue(c, q, receipts) => CallIsTrue(c, q, receipts')
  BY <1>1, <1>2, <1>3, <1>4, ReceiptIsAdded
<1> QED BY <1>1, <1>2, <1>5 DEF IInv, CallsAreTrue

-----------------------------------------------------------------------------
LEMMA SettleCommitStep ==
    ASSUME IInv, NEW c \in calls, NEW throws, SettleCommit(c, throws) PROVE IInv'
<1>1. CallIsTrue(c, q, receipts) /\ Good(q, receipts) /\ events \subseteq DOMAIN receipts
  BY DEF IInv, CallsAreTrue
<1> DEFINE t == IF c.answer = "committed" THEN Accept(q, c.entry, c.context.op, throws)
                ELSE Fail(q, c.entry)
<1>2. Quiet(q, t, receipts)
  <2>1. CASE c.answer = "committed" BY <2>1, <1>1, AcceptIsQuiet DEF CallIsTrue
  <2>2. CASE c.answer # "committed" BY <2>2, <1>1, FailIsQuiet
  <2> QED BY <2>1, <2>2
<1>3. Becomes(t, calls \ {c}) /\ receipts' = receipts /\ events' = events
  BY DEF SettleCommit, file
<1> HIDE DEF t
<1>4. Safe(q, t, receipts) BY <1>2, QuietIsSafe
<1> QED BY <1>1, <1>3, <1>4, SafeStep

LEMMA SettleResolveStep ==
    ASSUME IInv, NEW c \in calls, NEW throws, SettleResolve(c, throws) PROVE IInv'
<1> DEFINE u == [q EXCEPT !.revision = Larger(@, c.revision), !.error = FALSE,
                          !.discarded = @ \union c.request.edits]
           t == IF c.answer = "committed" THEN Accept(q, c.entry, c.context.op, throws)
                ELSE IF IsHead(q, c.entry) THEN Shift(u) ELSE q
<1>1. CallIsTrue(c, q, receipts) /\ Good(q, receipts) /\ events \subseteq DOMAIN receipts
  BY DEF IInv, CallsAreTrue
<1>2. Becomes(t, calls \ {c}) /\ receipts' = receipts /\ events' = events
  BY DEF SettleResolve, file
<1>3. Quiet(q, t, receipts)
  <2>1. CASE c.answer = "committed" BY <2>1, <1>1, AcceptIsQuiet DEF CallIsTrue
  <2>2. CASE c.answer # "committed" /\ IsHead(q, c.entry)
    <3>1. /\ DOMAIN u = Fields /\ u.entries = q.entries /\ u.flushes = q.flushes
          /\ u.unsealed = q.unsealed /\ u.sequence = q.sequence /\ u.acknowledged = q.acknowledged
          /\ u.operations = q.operations /\ u.discarded = q.discarded \union c.request.edits
          /\ u.recovering = q.recovering /\ u.sent = q.sent
          /\ u.closing = q.closing /\ u.closed = q.closed
      BY <1>1 DEF Good, Shaped, Fields
    <3>2. t = Shift(u) BY <2>2
    <3> HIDE DEF u, t
    <3>3. Quiet(q, u, receipts)
      <4> DEFINE v == [u EXCEPT !.discarded = q.discarded]
      <4>1. Same(q, v) BY <3>1 DEF Same, Fields
      <4>2. /\ DOMAIN v = Fields /\ v.entries = u.entries /\ v.flushes = u.flushes
            /\ v.unsealed = u.unsealed /\ v.sequence = u.sequence /\ v.acknowledged = u.acknowledged
            /\ v.operations = u.operations /\ v.discarded \subseteq u.discarded
            /\ v.recovering = u.recovering /\ v.sent = u.sent
            /\ v.closing = u.closing /\ v.closed = u.closed
        BY <3>1 DEF Fields
      <4> HIDE DEF v
      <4>3. Quiet(q, v, receipts) BY <4>1, <1>1, SameIsQuiet
      <4>4. Quiet(v, u, receipts) BY <4>2, <4>3, <3>1, DiscardIsQuiet DEF Quiet
      <4> QED BY <4>3, <4>4, QuietThenQuiet
    <3>4. Len(u.entries) # 0 /\ ~Open(u) /\ HeadEdits(u) \subseteq u.discarded
      <4>1. Len(q.entries) # 0 BY <2>2, <1>1, HeadIs DEF Good
      <4>2. c.request.edits = HeadEdits(q) /\ ~Open(q) BY <2>2, <1>1 DEF CallIsTrue
      <4> QED BY <4>1, <4>2, <3>1 DEF Open, HeadEdits
    <3>5. Good(u, receipts) BY <3>3 DEF Quiet
    <3>6. Quiet(u, Shift(u), receipts)
      <4>1. HeadEdits(u) \subseteq
               (UNION {EditsIn(receipts, o) : o \in DOMAIN receipts}) \cup u.discarded
        BY <3>4, Zenon
      <4>2. Len(u.entries) # 0 /\ ~Open(u) BY <3>4
      <4> QED BY <4>1, <4>2, <3>5, ShiftIsQuiet, Zenon
    <3> QED BY <3>2, <3>3, <3>6, QuietThenQuiet
  <2>3. CASE c.answer # "committed" /\ ~IsHead(q, c.entry)
    BY <2>3, <1>1 DEF Quiet, CallsKeep
  <2> QED BY <2>1, <2>2, <2>3
<1> HIDE DEF t
<1>4. Safe(q, t, receipts) BY <1>3, QuietIsSafe
<1> QED BY <1>1, <1>2, <1>4, SafeStep

\* A step of the coordinator that ends the recovery of the call c.
LEMMA RecoveryEnds ==
    ASSUME IInv, NEW c \in calls, Recovers(c), NEW t, NEW others,
           Good(t, receipts), CallsKeep(q, t, receipts), t.sent = q.sent,
           \A e \in others : e \in calls \ {c} \/ (CallIsTrue(e, q, receipts) /\ ~Recovers(e)),
           Becomes(t, others), receipts' = receipts, events' = events
    PROVE  IInv'
<1>1. \A e \in calls : CallIsTrue(e, q, receipts) BY DEF IInv, CallsAreTrue
<1>2. \A e \in calls \ {c} : ~Recovers(e) BY DEF IInv, CallsAreTrue, OneRecovery
<1>3. OneRecovery(others, t) BY <1>2 DEF OneRecovery
<1>4. \A e \in others : CallIsTrue(e, t, receipts) BY <1>1 DEF CallsKeep
<1>5. events' \subseteq DOMAIN receipts BY DEF IInv
<1> QED BY <1>3, <1>4, <1>5, StepKeeps

LEMMA SettleRecoverStep ==
    ASSUME IInv, NEW c \in calls, NEW throws, SettleRecover(c, throws) PROVE IInv'
<1> DEFINE u == IF c.answer = "committed" THEN Accept(q, c.entry, c.context.op, throws)
                ELSE Fenced(q, c.entry, c.revision)
           s == [u EXCEPT !.recovering = FALSE]
           t == IF IsHead(s, c.entry) /\ s.error
                THEN Settle(s, Flushes(s, "chained"), "rejected") ELSE s
<1>1. /\ CallIsTrue(c, q, receipts) /\ Good(q, receipts)
      /\ c.kind = "recover" /\ c.answer # "none"
      /\ Becomes(t, calls \ {c}) /\ receipts' = receipts /\ events' = events
  BY DEF IInv, CallsAreTrue, SettleRecover, file
<1>2. Recovers(c) BY <1>1 DEF Recovers, CallIsTrue
<1>3. q.recovering BY <1>2 DEF IInv, CallsAreTrue, OneRecovery
<1>4. Good(s, receipts) /\ CallsKeep(q, s, receipts) /\ s.sent = q.sent
  <2>1. CASE c.answer = "committed"
    <3>1. Quiet(q, u, receipts) BY <2>1, <1>1, AcceptIsQuiet DEF CallIsTrue
    <3> HIDE DEF u
    <3>2. Good(u, receipts) /\ Shaped(u) BY <3>1 DEF Quiet, Good
    <3>3. /\ DOMAIN s = Fields /\ s.entries = u.entries /\ s.flushes = u.flushes
          /\ s.unsealed = u.unsealed /\ s.sequence = u.sequence /\ s.acknowledged = u.acknowledged
          /\ s.operations = u.operations /\ s.discarded = u.discarded
          /\ s.recovering = FALSE /\ s.sent = u.sent
          /\ s.closing = u.closing /\ s.closed = u.closed
      BY <3>2 DEF Shaped, Fields
    <3> HIDE DEF s
    <3>4. Agree(u, s) BY <3>2, <3>3, SameEntries DEF Agree, Shaped
    <3> QED BY <3>1, <3>2, <3>3, <3>4, AgreeKeeps DEF Quiet, CallsKeep
  <2>2. CASE c.answer # "committed"
    BY <2>2, <1>1, <1>3, FencedIsGood
  <2> QED BY <2>1, <2>2
<1> HIDE DEF s
<1>5. Good(t, receipts) /\ CallsKeep(q, t, receipts) /\ t.sent = q.sent
  <2>1. Flushes(s, "chained") \subseteq Unsettled(s) BY <1>4, FlushesAreUnsettled DEF Good
  <2>2. Quiet(s, Settle(s, Flushes(s, "chained"), "rejected"), receipts)
    BY <2>1, <1>4, SettleIsQuiet
  <2> QED BY <2>2, <1>4 DEF Quiet, CallsKeep
<1> HIDE DEF t
<1> QED BY <1>1, <1>2, <1>5, RecoveryEnds

LEMMA FailCallStep == ASSUME IInv, NEW c \in calls, FailCall(c) PROVE IInv'
<1> DEFINE e == [c EXCEPT !.late = TRUE]
           v == [Unfenced(q, c.entry) EXCEPT !.recovering = FALSE]
           t == IF c.kind = "recover" THEN v ELSE Fail(q, c.entry)
<1>1. /\ \A x \in calls : CallIsTrue(x, q, receipts)
      /\ CallIsTrue(c, q, receipts) /\ Good(q, receipts) /\ OneRecovery(calls, q)
  BY DEF IInv, CallsAreTrue
<1>2. PICK others \in {calls \ {c}, (calls \ {c}) \union {e}} :
        (c.answer # "none" => others = calls \ {c}) /\ Becomes(t, others)
  BY DEF FailCall
<1>3. ~c.late /\ receipts' = receipts /\ events' = events BY DEF FailCall, file
<1>4. /\ DOMAIN e = CallFields /\ e.late = TRUE /\ e.kind = c.kind /\ e.entry = c.entry
      /\ e.context = c.context /\ e.request = c.request /\ e.answer = c.answer
  BY <1>1 DEF CallIsTrue, CallFields
<1> HIDE DEF e
<1>5. ~Recovers(e) /\ (c.answer = "none" => CallIsTrue(e, q, receipts))
  BY <1>1, <1>4 DEF CallIsTrue, Recovers
<1>6. \A x \in others : x \in calls \ {c} \/ (CallIsTrue(x, q, receipts) /\ ~Recovers(x))
  BY <1>2, <1>5
<1>7. CASE c.kind = "recover"
  <2>1. Recovers(c) BY <1>3, <1>7 DEF Recovers
  <2>2. /\ DOMAIN v = Fields /\ v.entries = q.entries /\ v.flushes = q.flushes
        /\ v.unsealed = q.unsealed /\ v.sequence = q.sequence /\ v.acknowledged = q.acknowledged
        /\ v.operations = q.operations /\ v.discarded = q.discarded
        /\ v.recovering = FALSE /\ v.sent = q.sent
        /\ v.closing = q.closing /\ v.closed = q.closed
    BY <1>1 DEF Good, Shaped, Fields, Unfenced
  <2>3. Becomes(v, others) BY <1>2, <1>7
  <2> HIDE DEF v
  <2>4. Agree(q, v) BY <2>2, <1>1, SameEntries DEF Agree, Good, Shaped
  <2>5. Good(v, receipts) /\ CallsKeep(q, v, receipts) BY <2>4, <1>1, AgreeKeeps
  <2> QED BY <2>1, <2>2, <2>3, <2>5, <1>3, <1>6, RecoveryEnds
<1>8. CASE c.kind # "recover"
  <2> DEFINE w == Fail(q, c.entry)
  <2>1. Quiet(q, w, receipts) /\ Becomes(w, others) BY <1>1, <1>2, <1>8, FailIsQuiet
  <2> HIDE DEF w
  <2>2. \A x \in others : CallIsTrue(x, w, receipts) BY <2>1, <1>1, <1>6 DEF Quiet, CallsKeep
  <2>3. OneRecovery(others, w) BY <2>1, <1>1, <1>6 DEF OneRecovery, Quiet
  <2>4. events' \subseteq DOMAIN receipts BY <1>3 DEF IInv
  <2> QED BY <2>1, <2>2, <2>3, <2>4, <1>3, StepKeeps DEF Quiet
<1> QED BY <1>7, <1>8

LEMMA DeliverEventStep ==
    ASSUME IInv, NEW op \in events, NEW throws, NEW n, DeliverEvent(op, throws, n) PROVE IInv'
<1> DEFINE r == receipts[op].revision
           s == [q EXCEPT !.received = @ \union {r}, !.revision = Larger(@, r),
                          !.projections = Append(@, op)]
<1>1. /\ Good(q, receipts) /\ op \in DOMAIN receipts
      /\ events' \subseteq DOMAIN receipts /\ receipts' = receipts
  BY DEF IInv, DeliverEvent, file
<1>2. \/ q' = q /\ calls' = calls
      \/ Becomes(Accept(q, Head(q.entries).first, op, throws), calls)
      \/ Becomes(Pump(Drain(s, n)), calls)
      \/ Becomes(Drain(s, n), calls)
  BY DEF DeliverEvent
<1>3. Same(q, s) BY <1>1 DEF Good, Shaped, Fields, Same
<1> HIDE DEF s
<1>4. Quiet(q, s, receipts) BY <1>1, <1>3, SameIsQuiet
<1>5. Quiet(s, Drain(s, n), receipts) BY <1>4, DrainIsSame, SameIsQuiet DEF Quiet, Good
<1>6. Quiet(q, Drain(s, n), receipts) BY <1>4, <1>5, QuietThenQuiet
<1>7. Safe(q, Pump(Drain(s, n)), receipts)
  <2>1. Safe(Drain(s, n), Pump(Drain(s, n)), receipts) BY <1>6, PumpIsSafe DEF Quiet
  <2> QED BY <2>1, <1>6, QuietThenSafe
<1>8. Safe(q, Drain(s, n), receipts) BY <1>6, QuietIsSafe
<1>9. Safe(q, Accept(q, Head(q.entries).first, op, throws), receipts)
  BY <1>1, AcceptIsQuiet, QuietIsSafe
<1>10. CASE q' = q /\ calls' = calls BY <1>1, <1>10 DEF IInv
<1> QED BY <1>1, <1>2, <1>7, <1>8, <1>9, <1>10, SafeStep

-----------------------------------------------------------------------------
LEMMA Initially == Init => IInv
<1> SUFFICES ASSUME Init PROVE IInv OBVIOUS
<1>1. calls = {} /\ events = {} /\ receipts = [x \in {} |-> 0]
  BY DEF Init, Backend!Init, Backend!NoFunction
<1>2. /\ DOMAIN q = Fields /\ q.entries = <<>> /\ q.flushes = <<>>
      /\ q.unsealed = FALSE /\ q.sequence = 0 /\ q.acknowledged = 0
      /\ q.operations = 0 /\ q.discarded = {}
      /\ q.recovering = FALSE /\ q.sent = 0
      /\ q.closing = FALSE /\ q.closed = FALSE
  BY DEF Init, Fields
<1>3. IsSeq(q.entries) /\ IsSeq(q.flushes) BY <1>2, EmptySeq DEF IsSeq
<1>4. Len(q.entries) = 0 /\ Len(q.flushes) = 0 BY <1>2
<1>5. Shaped(q)
  <2>1. /\ q.unsealed \in BOOLEAN /\ q.recovering \in BOOLEAN
        /\ q.closing \in BOOLEAN /\ q.closed \in BOOLEAN
    BY <1>2, Zenon
  <2>2. DOMAIN q = Fields BY <1>2
  <2>3. /\ q.sequence \in Nat /\ q.acknowledged \in Nat
        /\ q.operations \in Nat /\ q.sent \in Nat
    BY <1>2
  <2> QED BY <2>1, <2>2, <2>3, <1>3, <1>4 DEF Shaped
<1>6. MaxEdits \in Nat /\ MaxFlushes \in Nat BY AutosaveBounds
<1>7. Chained(q) BY <1>2, <1>4, <1>6 DEF Chained
<1>8. ~Sent(q) BY <1>4 DEF Sent
<1>9. HeadIsSent(q) BY <1>2, <1>4, <1>8 DEF HeadIsSent
<1>10. FlushesAreTrue(q) BY <1>2, <1>4 DEF FlushesAreTrue, Unsettled
<1>11. IdsArePaid(q) BY <1>2, <1>4, <1>6 DEF IdsArePaid
<1>12. Saved(q, receipts) BY <1>2 DEF Saved
<1>13. ReceiptIsTrue(q, receipts) BY <1>1, <1>8 DEF ReceiptIsTrue
<1>14. Good(q, receipts) BY <1>5, <1>7, <1>9, <1>10, <1>11, <1>12, <1>13 DEF Good
<1> QED BY <1>1, <1>14 DEF IInv, CallsAreTrue, OneRecovery

LEMMA UserStepKeeps == ASSUME IInv, UserStep PROVE IInv'
<1>1. ASSUME NEW d \in Documents, NEW e \in Known(d), EnqueueDocument(d, e) PROVE IInv'
  BY <1>1, EnqueueDocumentStep
<1>2. ASSUME NEW d \in Documents, NEW e \in Known(d), SubmitMove(d, e) \/ SubmitDelete(d, e)
      PROVE IInv'
  BY <1>2, SubmitStep DEF SubmitMove, SubmitDelete
<1>3. ASSUME NEW s \in Datasets, SubmitTable(s) PROVE IInv'
  BY <1>3, SubmitStep DEF SubmitTable
<1>4. CASE CaptureBarrier BY <1>4, CaptureBarrierStep
<1>5. ASSUME NEW n \in 0..Len(q.projections),
             (\E through \in 1..MaxEdits : Flush(through, n)) \/ Close(n)
      PROVE  IInv'
  BY <1>5, FlushStep, CloseStep
<1>6. CASE ResolveFailedOperation BY <1>6, ResolveFailedOperationStep
<1> QED BY <1>1, <1>2, <1>3, <1>4, <1>5, <1>6 DEF UserStep

LEMMA TaskKeeps == ASSUME IInv, Task PROVE IInv'
<1>1. CASE TimerFires BY <1>1, TimerFiresStep
<1>2. ASSUME NEW c \in calls, SettleCall(c) PROVE IInv'
  BY <1>2, SettleCommitStep, SettleResolveStep, SettleRecoverStep DEF SettleCall
<1>3. ASSUME NEW c \in calls, FailCall(c) PROVE IInv' BY <1>3, FailCallStep
<1>4. ASSUME NEW op \in events, NEW throws \in BOOLEAN, NEW n \in 0..Len(q.projections) + 1,
             DeliverEvent(op, throws, n)
      PROVE  IInv'
  BY <1>4, DeliverEventStep
<1> QED BY <1>1, <1>2, <1>3, <1>4 DEF Task

LEMMA Inductive == IInv /\ [Next]_vars => IInv'
<1> SUFFICES ASSUME IInv, [Next]_vars PROVE IInv' OBVIOUS
<1>1. CASE UserStep BY <1>1, UserStepKeeps
<1>2. CASE WindowElapses BY <1>2, WindowElapsesStep
<1>3. CASE Microtask BY <1>3, PumpLaterStep, FlushGoesOnStep DEF Microtask
<1>4. CASE Task BY <1>4, TaskKeeps
<1>5. ASSUME NEW c \in calls, Execute(c) PROVE IInv'
  BY <1>5, ExecuteCommitStep, ExecuteResolveStep DEF Execute
<1>6. ASSUME NEW req \in ExternalRequests, ExternalCommit(req) PROVE IInv'
  BY <1>6, ExternalCommitStep
<1>7. CASE UNCHANGED vars BY <1>7 DEF vars, IInv
<1> QED BY <1>1, <1>2, <1>3, <1>4, <1>5, <1>6, <1>7 DEF Next

\* The invariant holds in every reachable state: the queue and the receipts
\* account for every edit, and every call for the edits of its entry.
THEOREM InductiveInvariant == Spec => []IInv
<1>1. Init => IInv BY Initially
<1>2. IInv /\ [Next]_vars => IInv' BY Inductive
<1> QED BY <1>1, <1>2, PTL DEF Spec

LEMMA SavedIsDurable ==
    ASSUME Good(q, receipts) PROVE 1..q.acknowledged \subseteq Durable \union q.discarded
<1>1. \A o : EditsIn(receipts, o) = Edits(o) BY DEF EditsIn, Edits
<1>2. UNION {EditsIn(receipts, o) : o \in DOMAIN receipts}
        = UNION {Edits(o) : o \in DOMAIN receipts}
  BY <1>1
<1>3. Saved(q, receipts) BY DEF Good
<1>4. Durable = UNION {EditsIn(receipts, o) : o \in DOMAIN receipts} BY <1>2, Zenon DEF Durable
<1> QED BY <1>3, <1>4 DEF Saved

\* A flushThrough that resolves has every edit through its sequence in the file,
\* but for commands the user gave up.
THEOREM FlushMeansDurable == Spec => []FlushedIsDurable
<1>1. IInv => FlushedIsDurable
  <2> SUFFICES ASSUME IInv, NEW i \in Flushes(q, "resolved")
               PROVE  1..q.flushes[i].through \subseteq Durable \union q.discarded
    BY DEF FlushedIsDurable
  <2>1. Good(q, receipts) BY DEF IInv
  <2>2. i \in 1..Len(q.flushes) /\ q.flushes[i].state = "resolved"
    BY <2>1, SeqLen DEF Good, Shaped, Flushes
  <2>3. /\ q.flushes[i].through <= q.acknowledged
        /\ q.flushes[i].through \in Nat /\ q.acknowledged \in Nat
    BY <2>1, <2>2 DEF Good, Shaped, FlushesAreTrue
  <2>4. 1..q.flushes[i].through \subseteq 1..q.acknowledged BY <2>3
  <2> QED BY <2>1, <2>4, SavedIsDurable
<1> QED BY <1>1, InductiveInvariant, PTL

\* A coordinator that closed leaves no accepted edit behind.
THEOREM CloseLosesNothing == Spec => []ClosedLosesNothing
<1>1. IInv => ClosedLosesNothing
  <2> SUFFICES ASSUME IInv, q.closed
               PROVE  1..q.sequence \subseteq Durable \union q.discarded
    BY DEF ClosedLosesNothing
  <2>1. Good(q, receipts) BY DEF IInv
  <2>2. q.acknowledged = q.sequence BY <2>1 DEF Good, FlushesAreTrue
  <2> QED BY <2>1, <2>2, SavedIsDurable
<1> QED BY <1>1, InductiveInvariant, PTL

=============================================================================
