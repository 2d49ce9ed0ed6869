----------------------------- MODULE GraphCache -----------------------------
(***************************************************************************)
(* Memory and disk accounting of the graph caches (graph_new_cache.rs).    *)
(*                                                                         *)
(* Every coordinator keeps resident graphs and records of persisted files  *)
(* in order of last use, and draws its memory from one pool shared by the  *)
(* process.  The pool is a counter changed by atomic operations: an        *)
(* admission reads it, picks the victims it would evict, and commits with  *)
(* a compare-and-swap that another coordinator may make fail.  A           *)
(* reservation is an owned amount that its holder gives back when dropped. *)
(*                                                                         *)
(* Each cache is driven in the order render_with drives it: contains,      *)
(* restore, admit_construction, prepare_constructed_admission, insert and  *)
(* pin, persist.  Sizes are small numbers; sequences are oldest first.     *)
(***************************************************************************)
EXTENDS Naturals, Sequences, FiniteSets, FiniteSetsExt, SequencesExt

CONSTANTS
  Caches,        \* coordinators sharing the pool
  Keys,          \* graph keys
  Limit,         \* limit of the pool and of each coordinator
  DiskLimit,     \* disk budget of a coordinator
  Construction,  \* memory reserved for a build
  DiskNeed,      \* disk required by a build
  Resident,      \* [Keys -> Nat]: memory of the finished build
  Target,        \* [Keys -> Nat]: memory of the graph in the cache
  Enc,           \* [Keys -> Nat]: live file bytes of a resident graph
  File,          \* [Keys -> Nat]: bytes of the persisted copy
  Unit,          \* memory of one file record
  MinRestore,    \* least memory a restore asks for
  UnlinkFails,   \* may removing a file fail
  None

\* What the constants must be; the module that instantiates this one assumes it.
SizesAssumption ==
  /\ \A k \in Keys : Resident[k] <= Construction /\ Resident[k] <= Target[k]
  /\ {Limit, DiskLimit, Construction, DiskNeed, Unit, MinRestore} \subseteq Nat

VARIABLES
  used,   \* MemoryPool.used
  cache,  \* per coordinator: entries, disk, pinned, pending, cpu, dsk, dir, lost
  build,  \* per coordinator: the request it serves and the build's reservation
  solo    \* per coordinator: reservation of a build outside the cache lock

vars == <<used, cache, build, solo>>

Empty == [entries |-> <<>>, disk |-> <<>>, pinned |-> None, pending |-> None,
          cpu |-> 0, dsk |-> 0, dir |-> TRUE, lost |-> {}]
Idle == [at |-> "idle", key |-> None, bytes |-> 0, cas |-> FALSE, seen |-> 0]

Init ==
  /\ used = 0 /\ cache = [c \in Caches |-> Empty]
  /\ build = [c \in Caches |-> Idle] /\ solo = [c \in Caches |-> 0]

Total(size, s) == FoldLeft(LAMBDA sum, k : sum + size[k], 0, s)
Has(s, k) == \E i \in DOMAIN s : s[i] = k
Without(s, k) == SelectSeq(s, LAMBDA x : x # k)
Renew(s, k) == Append(Without(s, k), k)
MonusOf(a, b) == IF a > b THEN a - b ELSE 0        \* saturating_sub
Least(a, b) == IF a < b THEN a ELSE b

ReservedCpu(C) == C.cpu + Unit * Len(C.disk)
LiveFiles(C) == Total(Enc, C.entries)
Candidates(C) == Without(C.entries, C.pinned)
FileVictims(C) == Without(C.disk, C.pinned)

\* The graphs `ks' leave the cache with their reservations; remove also unpins.
TakeOut(C, ks) ==
  [C EXCEPT !.entries = SelectSeq(@, LAMBDA k : ~Has(ks, k)), !.cpu = @ - Total(Target, ks)]
Evict(C, ks) == [TakeOut(C, ks) EXCEPT !.pinned = IF Has(ks, @) THEN None ELSE @]
\* remove_disk and retire_disk: the record goes with its reservation.
RemoveDisk(C, ks) ==
  [C EXCEPT !.disk = SelectSeq(@, LAMBDA k : ~Has(ks, k)), !.dsk = @ - Total(File, ks),
            !.lost = @ \ Range(ks)]

\* The shortest prefix of s that satisfies Enough(prefix), as a set of at most one.
Shortest(s, Enough(_)) ==
  LET good == {n \in 0..Len(s) : Enough(SubSeq(s, 1, n))}
  IN IF good = {} THEN {} ELSE {SubSeq(s, 1, Min(good))}

\* Evicting the files in `ks' one by one: all of them, or an error part way.
EvictFiles(C, ks) ==
  {[C |-> RemoveDisk(C, ks), freed |-> Unit * Len(ks), ok |-> TRUE]}
    \cup {[C |-> RemoveDisk(C, SubSeq(ks, 1, n)), freed |-> Unit * n, ok |-> FALSE] :
            n \in IF UnlinkFails THEN 0..(Len(ks) - 1) ELSE {}}

\* construction_disk_budget: files go first, then resident graphs that hold files.
DiskBudget(C, need) ==
  LET fits(D) == need + D.dsk + LiveFiles(D) <= DiskLimit
      enough(p) == fits(RemoveDisk(C, p))
      files == Shortest(FileVictims(C), enough)
      noFiles == RemoveDisk(C, FileVictims(C))
      holders == SelectSeq(Candidates(C), LAMBDA k : Enc[k] > 0)
      enoughToo(p) == fits(Evict(noFiles, p))
  IN IF files # {} THEN UNION {EvictFiles(C, p) : p \in files}
     ELSE {IF r.ok
           THEN LET out == Shortest(holders, enoughToo) IN
                IF out = {} THEN [r EXCEPT !.ok = FALSE]
                ELSE LET p == CHOOSE x \in out : TRUE IN
                     [C |-> Evict(r.C, p), freed |-> r.freed + Total(Target, p), ok |-> TRUE]
           ELSE r : r \in EvictFiles(C, FileVictims(C))}

-----------------------------------------------------------------------------
Go(c, where) == build' = [build EXCEPT ![c].at = where]
Put(c, C) == cache' = [cache EXCEPT ![c] = C]

\* contains, and for the layered view the pin is given up on a miss.
Lookup(c, k) ==
  /\ build[c].at = "idle"
  /\ LET C == cache[c] IN
     IF Has(C.entries, k)
     THEN /\ Put(c, [C EXCEPT !.entries = Renew(@, k)])
          /\ build' = [build EXCEPT ![c] = [Idle EXCEPT !.at = "hit", !.key = k]]
     ELSE /\ \E pin \in {C.pinned, None} : Put(c, [C EXCEPT !.pinned = pin])
          /\ build' = [build EXCEPT ![c] = [Idle EXCEPT !.at = "miss", !.key = k]]
  /\ UNCHANGED <<used, solo>>

\* prepare_admission and insert of a restored graph, once evict_unpinned has
\* left only the pinned one: files go until the disk fits, then memory must do.
InsertRestored(C, u, k) ==
  LET fits(p) == LiveFiles(C) + RemoveDisk(C, p).dsk + Enc[k] <= DiskLimit
      tooLarge == Target[k] > Limit \/ Enc[k] > DiskLimit
      files == IF tooLarge THEN {<<>>} ELSE Shortest(FileVictims(C), fits)
      result(r) ==
        IF r.ok /\ ~tooLarge /\ files # {} /\ ReservedCpu(r.C) + Target[k] <= Limit
                /\ u - r.freed + Target[k] <= Limit
        THEN [C |-> [r.C EXCEPT
                       !.entries = Append(@, k), !.cpu = @ + Target[k],
                       !.pinned = IF @ = k THEN None ELSE @,
                       !.disk = IF Has(@, k) THEN Renew(@, k) ELSE @],
              u |-> u - r.freed + Target[k], ok |-> TRUE]
        ELSE [C |-> r.C, u |-> u - r.freed, ok |-> FALSE]
  IN {result(r) : r \in UNION {EvictFiles(C, p) :
        p \in IF files = {} THEN {FileVictims(C)} ELSE files}}

\* restore: a lost file is retired; otherwise everything unpinned is evicted,
\* half of what is available is reserved to validate the file, and the graph is
\* inserted while that reservation is still held (a layered graph: after it).
Restore(c) ==
  LET C == cache[c] k == build[c].key
      E == Evict(C, Candidates(C))
      u == used - Total(Target, Candidates(C))
      spare == MonusOf(Limit, ReservedCpu(E))
      validation == Least(spare, MonusOf(Limit, u)) \div 2
  IN
  /\ build[c].at = "miss"
  /\ \/ /\ ~Has(C.disk, k) /\ Go(c, "admit") /\ UNCHANGED <<used, cache>>
     \/ /\ Has(C.disk, k) /\ k \in C.lost
        /\ Put(c, RemoveDisk(C, <<k>>)) /\ used' = used - Unit /\ Go(c, "admit")
     \/ /\ Has(C.disk, k) /\ k \notin C.lost
        /\ spare < MinRestore \/ Resident[k] > validation
        /\ Put(c, E) /\ used' = u /\ Go(c, "admit")
     \/ /\ Has(C.disk, k) /\ k \notin C.lost /\ spare >= MinRestore
        /\ \E r \in EvictFiles(E, <<k>>) :           \* the file is corrupt
             /\ Put(c, r.C) /\ used' = u - r.freed
             /\ Go(c, IF r.ok THEN "admit" ELSE "end")
     \/ /\ Has(C.disk, k) /\ k \notin C.lost /\ spare >= MinRestore /\ Resident[k] <= validation
        /\ \E held \in {0, validation} : \E r \in InsertRestored(E, u + held, k) :
             /\ Put(c, r.C) /\ used' = r.u - held
             /\ Go(c, IF r.ok THEN "hit" ELSE "admit")
  /\ UNCHANGED solo

-----------------------------------------------------------------------------
(* admit_construction: asked for a render's build ("admit"), for the rest of *)
(* a finished build ("grow") and for a build outside the lock ("solo").      *)

Want(c) == IF build[c].at = "grow" THEN Target[build[c].key] - build[c].bytes ELSE Construction
Need(c) == IF build[c].at = "grow" THEN Enc[build[c].key] ELSE DiskNeed

\* Mutant of DiskFeasible: only the budget as a whole is looked at.
DiskLargeEnough(C, need) == need <= DiskLimit
DiskFeasible(C, need) ==
  need + Total(Enc, IF Has(C.entries, C.pinned) THEN <<C.pinned>> ELSE <<>>)
       + Total(File, IF Has(C.disk, C.pinned) THEN <<C.pinned>> ELSE <<>>) <= DiskLimit

Victims(c, seen) ==
  LET C == cache[c]
      local == ReservedCpu(C) + (IF C.pending = None THEN 0 ELSE Target[C.pending])
      enough(p) == /\ seen + Want(c) <= Limit + Total(Target, p)
                   /\ local + Want(c) <= Limit + Total(Target, p)
  IN Shortest(Candidates(C), enough)

Admitting(c) == build[c].at \in {"admit", "grow", "solo"}
AdmitLoad(c) ==
  /\ Admitting(c) /\ ~build[c].cas
  /\ build' = [build EXCEPT ![c] =
       IF DiskFeasible(cache[c], Need(c)) /\ Want(c) <= Limit /\ Victims(c, used) # {}
       THEN [@ EXCEPT !.cas = TRUE, !.seen = used] ELSE [@ EXCEPT !.at = "end"]]
  /\ UNCHANGED <<used, cache, solo>>

\* Compare-and-swap.  On success the victims' reservations pass to the build and
\* the surplus goes back; then the disk budget is made.
AdmitRetry(c) ==
  /\ Admitting(c) /\ build[c].cas /\ used # build[c].seen
  /\ build' = [build EXCEPT ![c].cas = FALSE] /\ UNCHANGED <<used, cache, solo>>

Admitted(c, C) ==
  LET now == [build[c] EXCEPT !.cas = FALSE] IN
  \/ /\ now.at = "admit" /\ Put(c, C) /\ UNCHANGED solo
     /\ build' = [build EXCEPT ![c] = [now EXCEPT !.at = "building", !.bytes = Construction]]
  \/ /\ now.at = "grow" /\ Put(c, [C EXCEPT !.pending = now.key]) /\ UNCHANGED solo
     /\ build' = [build EXCEPT ![c] = [now EXCEPT !.at = "ready", !.bytes = 0]]
  \/ /\ now.at = "solo" /\ Put(c, C) /\ solo' = [solo EXCEPT ![c] = Construction]
     /\ build' = [build EXCEPT ![c] = Idle]

AdmitCas(c) ==
  /\ Admitting(c) /\ build[c].cas /\ used = build[c].seen
  /\ \E out \in Victims(c, used) : \E r \in DiskBudget(TakeOut(cache[c], out), Need(c)) :
       LET after == used - Total(Target, out) - r.freed IN
       IF r.ok THEN used' = after + Want(c) /\ Admitted(c, r.C)
               ELSE used' = after /\ Put(c, r.C) /\ Go(c, "end") /\ UNCHANGED solo

\* Mutant of RetainCompleted: the difference is never given back.
RetainAll(c) ==
  /\ build[c].at = "building"
  /\ build' = [build EXCEPT ![c].at = "grow", ![c].bytes = Resident[build[c].key]]
  /\ UNCHANGED <<used, cache, solo>>

\* retain_completed_build gives back what the finished graph does not need.
RetainCompleted(c) ==
  LET left == Resident[build[c].key] IN
  /\ build[c].at = "building"
  /\ used' = used - (build[c].bytes - left)
  /\ build' = [build EXCEPT ![c].at = "grow", ![c].bytes = left]
  /\ UNCHANGED <<cache, solo>>

\* insert of the admitted graph (or the resident one again), and pin.
Publish(c) ==
  LET C == cache[c] k == build[c].key IN
  /\ \/ build[c].at = "hit" /\ Put(c, [C EXCEPT !.pinned = k]) /\ UNCHANGED used
     \/ /\ build[c].at = "ready" /\ UNCHANGED used
        /\ Put(c, [C EXCEPT !.pending = None, !.entries = Append(@, k),
                            !.cpu = @ + Target[k], !.pinned = k])
  /\ Go(c, "persist") /\ UNCHANGED solo

\* The request fails somewhere: its graph is dropped, the build's reservation
\* goes back, and render_with discards the admission on its way out.
Abandon(c) ==
  /\ build[c].at \notin {"idle", "persist", "solo"}
  /\ used' = used - build[c].bytes
                  - (IF cache[c].pending = None THEN 0 ELSE Target[cache[c].pending])
  /\ Put(c, [cache[c] EXCEPT !.pending = None])
  /\ build' = [build EXCEPT ![c] = Idle] /\ UNCHANGED solo

\* persist: room is made on disk and for the record, then the file is written;
\* any failure is only counted.
Persist(c) ==
  LET k == build[c].key
      stale == Has(cache[c].disk, k) /\ k \in cache[c].lost
      C == IF stale THEN RemoveDisk(cache[c], <<k>>) ELSE cache[c]
      u == used - (IF stale THEN Unit ELSE 0)
      fits(p) == LET D == RemoveDisk(C, p) IN
                   LiveFiles(D) + D.dsk + File[k] <= DiskLimit /\ ReservedCpu(D) + Unit <= Limit
      files == Shortest(FileVictims(C), fits)
  IN
  /\ build[c].at = "persist" /\ build' = [build EXCEPT ![c] = Idle] /\ UNCHANGED solo
  /\ IF ~C.dir \/ Has(C.disk, k) THEN UNCHANGED <<used, cache>>
     ELSE \E r \in UNION {EvictFiles(C, p) : p \in IF files = {} THEN {FileVictims(C)} ELSE files} :
       \/ used' = u - r.freed /\ Put(c, r.C)
       \/ /\ r.ok /\ files # {} /\ u - r.freed + Unit <= Limit
          /\ used' = u - r.freed + Unit
          /\ Put(c, [r.C EXCEPT !.disk = Append(@, k), !.dsk = @ + File[k]])

-----------------------------------------------------------------------------
\* A build outside the cache lock (build_with_cancel) is admitted under try_lock
\* and gives its reservation back when it ends.
SoloStart(c) ==
  /\ build[c].at = "idle" /\ solo[c] = 0
  /\ build' = [build EXCEPT ![c] = [Idle EXCEPT !.at = "solo"]] /\ UNCHANGED <<used, cache, solo>>
SoloEnd(c) ==
  /\ solo[c] > 0 /\ used' = used - solo[c] /\ solo' = [solo EXCEPT ![c] = 0]
  /\ UNCHANGED <<cache, build>>

\* unpin by a cancel or a close; release_idle_cache; reject_corrupt.
Unpin(c) ==
  /\ build[c].at = "idle" /\ Put(c, [cache[c] EXCEPT !.pinned = None])
  /\ UNCHANGED <<used, build, solo>>
EvictUnpinned(c) ==
  /\ build[c].at = "idle" /\ Put(c, Evict(cache[c], Candidates(cache[c])))
  /\ used' = used - Total(Target, Candidates(cache[c])) /\ UNCHANGED <<build, solo>>
RejectCorrupt(c) ==
  LET C == cache[c] k == build[c].key
      mine == IF Has(C.entries, k) THEN <<k>> ELSE <<>>
      D == [Evict(C, mine) EXCEPT !.pinned = IF @ = k THEN None ELSE @]
  IN
  /\ build[c].at \in {"hit", "ready"}
  /\ \E r \in EvictFiles(D, IF Has(C.disk, k) THEN <<k>> ELSE <<>>) :
       Put(c, r.C) /\ used' = used - Total(Target, mine) - r.freed
  /\ Go(c, "end") /\ UNCHANGED solo

\* invalidate (shutdown, drop): the records of files that cannot be removed stay.
Invalidate(C, gone) == [RemoveDisk(C, gone) EXCEPT !.entries = <<>>, !.cpu = 0, !.pinned = None]
Freed(C, gone) == Total(Target, C.entries) + Unit * Len(gone)
Shutdown(c) ==
  LET C == cache[c] IN
  /\ build[c].at = "idle"
  /\ \E kept \in (IF UnlinkFails THEN SUBSET Range(C.disk) ELSE {{}}) :
       LET gone == SelectSeq(C.disk, LAMBDA k : k \notin kept) IN
       Put(c, Invalidate(C, gone)) /\ used' = used - Freed(C, gone)
  /\ UNCHANGED <<build, solo>>
\* sync_epoch: also those records are forgotten, and with them the directory.
SyncEpoch(c) ==
  LET C == cache[c] IN
  /\ build[c].at = "idle"
  /\ \E dir \in (IF UnlinkFails /\ C.disk # <<>> THEN {C.dir, FALSE} ELSE {C.dir}) :
       Put(c, [Invalidate(C, C.disk) EXCEPT !.dir = dir])
  /\ used' = used - Freed(C, C.disk) /\ UNCHANGED <<build, solo>>

\* A file vanishes or is replaced behind the cache's back.
LoseFile(c, k) ==
  /\ Has(cache[c].disk, k) /\ k \notin cache[c].lost
  /\ Put(c, [cache[c] EXCEPT !.lost = @ \cup {k}]) /\ UNCHANGED <<used, build, solo>>

Next ==
  \E c \in Caches :
    \/ \E k \in Keys : Lookup(c, k) \/ LoseFile(c, k)
    \/ Restore(c) \/ AdmitLoad(c) \/ AdmitRetry(c) \/ AdmitCas(c) \/ RetainCompleted(c) \/ Publish(c)
    \/ Abandon(c) \/ Persist(c) \/ SoloStart(c) \/ SoloEnd(c)
    \/ Unpin(c) \/ EvictUnpinned(c) \/ RejectCorrupt(c) \/ Shutdown(c) \/ SyncEpoch(c)

Spec == Init /\ [][Next]_vars

-----------------------------------------------------------------------------
Held(c) ==
  Total(Target, cache[c].entries) + Unit * Len(cache[c].disk) + build[c].bytes + solo[c]
    + (IF cache[c].pending = None THEN 0 ELSE Target[cache[c].pending])

TypeOK ==
  /\ used \in Nat
  /\ \A c \in Caches :
       /\ Range(cache[c].entries) \subseteq Keys /\ Range(cache[c].disk) \subseteq Keys
       /\ IsInjective(cache[c].entries) /\ IsInjective(cache[c].disk)
       /\ cache[c].cpu \in Nat /\ cache[c].dsk \in Nat /\ build[c].bytes \in 0..Construction

\* The pool counter is exactly what live reservations hold: no failing path of
\* an admission, a restore or a build leaks memory or gives it back twice.
PoolAccounted == used = MapThenSumSet(Held, Caches)

\* However the coordinators' admissions interleave, the process never reserves
\* more than its limit.
PoolWithinLimit == used <= Limit

\* cpu_bytes and disk_bytes are the sizes of what is resident and persisted.
CountersExact ==
  \A c \in Caches : /\ cache[c].cpu = Total(Target, cache[c].entries)
                    /\ cache[c].dsk = Total(File, cache[c].disk)

\* Live files, persisted copies and an admitted graph stay within the disk budget.
DiskWithinBudget ==
  \A c \in Caches :
    LiveFiles(cache[c]) + cache[c].dsk
      + (IF cache[c].pending = None THEN 0 ELSE Enc[cache[c].pending]) <= DiskLimit

\* The graph on screen is resident, so panning never misses the cache: no
\* eviction of any kind takes the pinned graph and leaves the pin.
PinnedIsResident ==
  \A c \in Caches : cache[c].pinned # None => Has(cache[c].entries, cache[c].pinned)

\* An admission that fails evicts nothing, unless a file could not be removed
\* ("impossible request keeps all warm state").
FailureEvictsNothing ==
  \A c \in Caches :
    (build[c].at # build'[c].at /\ build'[c].at = "end" /\ build[c].at \notin {"hit", "ready", "miss"})
      => cache'[c] = cache[c]
FailureKeepsWarm == [][FailureEvictsNothing]_vars
=============================================================================
