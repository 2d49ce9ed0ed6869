------------------------ MODULE GraphCacheOwnerProofs ------------------------
(***************************************************************************)
(* Proofs about the owners of cache directories, for any number of         *)
(* processes and files, whether or not a crash can tear writes apart.      *)
(*                                                                         *)
(* A directory is safe because of three facts.  Nobody looks at it before  *)
(* its marker exists; until its header is written nobody finds it worth    *)
(* retiring; and from its lock on whoever holds a handle of its marker is  *)
(* refused.  A marker that was unlinked never comes back, so a handle of   *)
(* it, which can still be locked, does no harm.                            *)
(***************************************************************************)
EXTENDS GraphCacheOwner, TLAPS

Starting == {"made", "marked", "locked"}
Running == {"live", "creating"}
Retiring == {"opened", "check", "unlink", "rmdir"}
Places == {"new", "scan", "memory", "dead"} \cup Starting \cup Running \cup Retiring

Directories == [exists : BOOLEAN, marker : BOOLEAN, header : BOOLEAN,
                files : SUBSET Files, lines : SUBSET Files]
Processes == [at : Places, left : SUBSET Procs, on : Procs \cup {None},
              list : SUBSET Files, stop : BOOLEAN, mine : SUBSET Files,
              born : BOOLEAN]
Types ==
  /\ dir \in [Procs -> Directories]
  /\ lock \in [Procs -> Procs \cup {None}]
  /\ proc \in [Procs -> Processes]

\* A process that has no directory yet.
Early(p) ==
  \/ proc[p].at \in {"new", "made"}
  \/ proc[p].at \in {"scan"} \cup Retiring /\ ~proc[p].stop

\* A handle on a directory is held exactly while it is being retired.
HandlesAreHeld ==
  \A q \in Procs : proc[q].on # None <=> proc[q].at \in Retiring

\* Nobody has a handle of a directory without a marker.
EarlyIsUnseen ==
  \A p \in Procs : Early(p) =>
    /\ ~dir[p].marker /\ ~dir[p].header
    /\ \A q \in Procs : proc[q].on # p

\* What a process that starts has found or made.
StartedIsEmpty ==
  \A p \in Procs :
    /\ proc[p].at = "made" => dir[p].exists
    /\ proc[p].at = "marked" => dir[p].exists /\ dir[p].marker /\ ~dir[p].header
    /\ proc[p].at \in {"new"} \cup Starting => proc[p].list = {} /\ proc[p].mine = {}
    /\ proc[p].at \in {"scan", "opened", "check", "live"} => proc[p].list = {}
    /\ Early(p) => proc[p].mine = {}

\* Past the lock, a directory is its owner's.
OwnersHoldTheirLock ==
  \A p \in Procs : proc[p].at \in {"locked"} \cup Running =>
    lock[p] = p /\ dir[p].exists /\ dir[p].marker

\* Who checks a directory that still has its marker holds the lock; who unlinks
\* has seen the header; and a marker that is gone stays gone.
RetirersHoldTheLock ==
  \A q, d \in Procs : proc[q].on = d =>
    /\ proc[q].at = "check" /\ dir[d].marker => lock[d] = q
    /\ proc[q].at = "unlink" => lock[d] = q /\ dir[d].marker /\ dir[d].header
    /\ proc[q].at = "rmdir" => ~dir[d].marker

IInv ==
  /\ Types /\ HandlesAreHeld /\ EarlyIsUnseen /\ StartedIsEmpty
  /\ OwnersHoldTheirLock /\ RetirersHoldTheLock /\ LiveIsUntouched

-----------------------------------------------------------------------------
(* What an action does to the records of a process and of a directory. *)

Becomes(p, at, on, list, stop, mine) ==
  /\ proc' \in [Procs -> Processes]
  /\ proc'[p].at = at /\ proc'[p].on = on /\ proc'[p].list = list
  /\ proc'[p].stop = stop /\ proc'[p].mine = mine
  /\ \A q \in Procs \ {p} : proc'[q] = proc[q]
TurnsInto(d, exists, marker, header, files) ==
  /\ dir' \in [Procs -> Directories]
  /\ dir'[d].exists = exists /\ dir'[d].marker = marker
  /\ dir'[d].header = header /\ dir'[d].files = files
  /\ \A q \in Procs \ {d} : dir'[q] = dir[q]
GivesUpLocks(p) ==
  /\ lock' \in [Procs -> Procs \cup {None}]
  /\ \A q \in Procs : lock'[q] = IF lock[q] = p THEN None ELSE lock[q]
Locks(p, d) ==
  /\ lock' \in [Procs -> Procs \cup {None}]
  /\ lock[d] = None /\ lock'[d] = p /\ \A q \in Procs \ {d} : lock'[q] = lock[q]

LEMMA ProcessEffect ==
  ASSUME Types, NEW p \in Procs, NEW new \in Processes, proc' = [proc EXCEPT ![p] = new]
  PROVE  Becomes(p, new.at, new.on, new.list, new.stop, new.mine)
<1>1. proc \in [Procs -> Processes]
  BY DEF Types
<1>2. proc' \in [Procs -> Processes] /\ proc'[p] = new
      /\ \A q \in Procs \ {p} : proc'[q] = proc[q]
  BY <1>1, Zenon
<1> QED BY <1>2 DEF Becomes

LEMMA GoEffect ==
  ASSUME Types, NEW p \in Procs, NEW w \in Places, Go(p, w)
  PROVE  Becomes(p, w, proc[p].on, proc[p].list, proc[p].stop, proc[p].mine)
  BY DEF Types, Processes, Go, Becomes

LEMMA LeaveEffect ==
  ASSUME Types, NEW p \in Procs, NEW d, Leave(p, d)
  PROVE  Becomes(p, "scan", None, {}, proc[p].stop, proc[p].mine)
<1> DEFINE new == [proc[p] EXCEPT !.at = "scan", !.left = proc[p].left \ {d},
                                  !.on = None, !.list = {}]
<1>1. proc \in [Procs -> Processes] /\ proc[p] \in Processes
  BY DEF Types
<1>2. /\ proc[p].left \ {d} \in SUBSET Procs /\ {} \in SUBSET Files
      /\ "scan" \in Places /\ None \in Procs \cup {None}
  BY <1>1 DEF Processes, Places
<1>3. new \in Processes
  BY <1>1, <1>2 DEF Processes
<1>4. proc' = [proc EXCEPT ![p] = new]
  BY <1>1 DEF Leave, Processes
<1>5. /\ new.at = "scan" /\ new.on = None /\ new.list = {}
      /\ new.stop = proc[p].stop /\ new.mine = proc[p].mine
  BY <1>1 DEF Processes
<1> HIDE DEF new
<1> QED BY <1>1, <1>3, <1>4, <1>5 DEF Becomes

LEMMA UnlockedEffect ==
  ASSUME Types, NEW p \in Procs, lock' = Unlocked(p)
  PROVE  GivesUpLocks(p)
  BY DEF Types, Unlocked, GivesUpLocks

-----------------------------------------------------------------------------
(* Each action keeps the invariant: first what it changes, then the parts. *)

LEMMA StartScanKeeps ==
  ASSUME IInv, NEW p \in Procs, StartScan(p)
  PROVE  IInv'
<1>1. proc[p].at = "new"
  BY NoneAssumption DEF StartScan, IInv, Types, Processes
<1>2. Becomes(p, "scan", proc[p].on, proc[p].list, proc[p].stop, proc[p].mine)
  <2> DEFINE new == [proc[p] EXCEPT !.at = "scan", !.left = {d \in Procs : dir[d].exists}]
  <2>1. proc \in [Procs -> Processes] /\ proc[p] \in Processes /\ Types
    BY DEF IInv, Types
  <2>2. new \in Processes
    BY <2>1 DEF Processes, Places, Starting, Running, Retiring
  <2>3. proc' = [proc EXCEPT ![p] = new]
    BY <2>1 DEF StartScan, Processes
  <2>4. /\ new.at = "scan" /\ new.on = proc[p].on /\ new.list = proc[p].list
        /\ new.stop = proc[p].stop /\ new.mine = proc[p].mine
    BY <2>1 DEF Processes
  <2> HIDE DEF new
  <2> QED BY <2>1, <2>2, <2>3, <2>4, ProcessEffect
<1>3. dir' = dir /\ lock' = lock
  BY <1>1 DEF StartScan
<1>4. Types'
  BY <1>2, <1>3 DEF IInv, Types, Becomes
<1>5. EarlyIsUnseen'
  <2>1. \A q \in Procs : Early(q)' => Early(q) /\ ~dir'[q].marker /\ ~dir'[q].header
    BY <1>1, <1>2, <1>3 DEF Early, IInv, EarlyIsUnseen, Retiring, Becomes
  <2>2. \A q \in Procs : proc'[q].on \in {proc[q].on, None}
    BY <1>2 DEF Becomes
  <2> QED BY NoneAssumption, <1>1, <2>1, <2>2 DEF IInv, EarlyIsUnseen
<1>6. HandlesAreHeld'
  BY NoneAssumption, <1>1, <1>2 DEF IInv, Types, Retiring, Becomes, HandlesAreHeld
<1>7. StartedIsEmpty'
  BY NoneAssumption, <1>1, <1>2, <1>3
  DEF IInv, Types, Processes, Starting, Running, Retiring, Becomes, StartedIsEmpty,
      EarlyIsUnseen, Early, RetirersHoldTheLock, HandlesAreHeld
<1>8. OwnersHoldTheirLock'
  BY NoneAssumption, <1>1, <1>2, <1>3
  DEF IInv, Types, Processes, Starting, Running, Retiring, Becomes, OwnersHoldTheirLock,
      StartedIsEmpty, RetirersHoldTheLock, HandlesAreHeld
<1>9. RetirersHoldTheLock'
  BY NoneAssumption, <1>1, <1>2, <1>3
  DEF IInv, Types, Processes, Starting, Running, Retiring, Becomes, RetirersHoldTheLock,
      OwnersHoldTheirLock, EarlyIsUnseen, Early, HandlesAreHeld
<1>10. LiveIsUntouched'
  BY NoneAssumption, <1>1, <1>2, <1>3
  DEF IInv, Types, Processes, Starting, Running, Retiring, Becomes, LiveIsUntouched,
      OwnersHoldTheirLock, StartedIsEmpty, RetirersHoldTheLock, HandlesAreHeld
<1> QED BY <1>4, <1>5, <1>6, <1>7, <1>8, <1>9, <1>10 DEF IInv

LEMMA MakeDirectoryKeeps ==
  ASSUME IInv, NEW p \in Procs, MakeDirectory(p), ~proc[p].stop
  PROVE  IInv'
<1>1. proc[p].at = "scan" /\ ~proc[p].stop
  BY NoneAssumption DEF MakeDirectory, IInv, Types, Processes
<1>2. Becomes(p, "made", proc[p].on, proc[p].list, proc[p].stop, proc[p].mine)
  <2>1. Go(p, "made") /\ "made" \in Places
    BY DEF MakeDirectory, Places, Starting, Retiring
  <2> QED BY <2>1, GoEffect DEF IInv
<1>3. lock' = lock
  BY <1>1 DEF MakeDirectory
<1>4. TurnsInto(p, TRUE, FALSE, FALSE, {})
  BY <1>1 DEF MakeDirectory, NoDir, TurnsInto, IInv, Types, Directories
<1>5. Types'
  BY <1>2, <1>3, <1>4 DEF IInv, Types, Becomes, TurnsInto
<1>6. EarlyIsUnseen'
  <2>1. \A q \in Procs : Early(q)' => Early(q) /\ ~dir'[q].marker /\ ~dir'[q].header
    BY <1>1, <1>2, <1>3, <1>4 DEF Early, IInv, EarlyIsUnseen, Retiring, Becomes, TurnsInto
  <2>2. \A q \in Procs : proc'[q].on \in {proc[q].on, None}
    BY <1>2 DEF Becomes
  <2> QED BY NoneAssumption, <1>1, <2>1, <2>2 DEF IInv, EarlyIsUnseen
<1>7. HandlesAreHeld'
  BY NoneAssumption, <1>1, <1>2 DEF IInv, Types, Retiring, Becomes, HandlesAreHeld
<1>8. StartedIsEmpty'
  BY NoneAssumption, <1>1, <1>2, <1>3, <1>4
  DEF IInv, Types, Processes, Starting, Running, Retiring, Becomes, TurnsInto,
      StartedIsEmpty, EarlyIsUnseen, Early, RetirersHoldTheLock, HandlesAreHeld
<1>9. OwnersHoldTheirLock'
  BY NoneAssumption, <1>1, <1>2, <1>3, <1>4
  DEF IInv, Types, Processes, Starting, Running, Retiring, Becomes, TurnsInto,
      OwnersHoldTheirLock, StartedIsEmpty, RetirersHoldTheLock, HandlesAreHeld
<1>10. RetirersHoldTheLock'
  BY NoneAssumption, <1>1, <1>2, <1>3, <1>4
  DEF IInv, Types, Processes, Starting, Running, Retiring, Becomes, TurnsInto,
      RetirersHoldTheLock, OwnersHoldTheirLock, EarlyIsUnseen, Early, HandlesAreHeld
<1>11. LiveIsUntouched'
  BY NoneAssumption, <1>1, <1>2, <1>3, <1>4
  DEF IInv, Types, Processes, Starting, Running, Retiring, Becomes, TurnsInto,
      LiveIsUntouched, OwnersHoldTheirLock, StartedIsEmpty, RetirersHoldTheLock,
      HandlesAreHeld
<1> QED BY <1>5, <1>6, <1>7, <1>8, <1>9, <1>10, <1>11 DEF IInv

LEMMA CreateMarkerKeeps ==
  ASSUME IInv, NEW p \in Procs, CreateMarker(p)
  PROVE  IInv'
<1>1. proc[p].at = "made"
  BY NoneAssumption DEF CreateMarker, IInv, Types, Processes
<1>2. Becomes(p, "marked", proc[p].on, proc[p].list, proc[p].stop, proc[p].mine)
  <2>1. Go(p, "marked") /\ "marked" \in Places
    BY DEF CreateMarker, Places, Starting, Retiring
  <2> QED BY <2>1, GoEffect DEF IInv
<1>3. lock' = lock
  BY <1>1 DEF CreateMarker
<1>4. TurnsInto(p, dir[p].exists, TRUE, dir[p].header, dir[p].files)
  BY <1>1 DEF CreateMarker, TurnsInto, IInv, Types, Directories
<1>5. Types'
  BY <1>2, <1>3, <1>4 DEF IInv, Types, Becomes, TurnsInto
<1>6. EarlyIsUnseen'
  <2>1. \A q \in Procs : Early(q)' => Early(q) /\ ~dir'[q].marker /\ ~dir'[q].header
    BY <1>1, <1>2, <1>3, <1>4 DEF Early, IInv, EarlyIsUnseen, Retiring, Becomes, TurnsInto
  <2>2. \A q \in Procs : proc'[q].on \in {proc[q].on, None}
    BY <1>2 DEF Becomes
  <2> QED BY NoneAssumption, <1>1, <2>1, <2>2 DEF IInv, EarlyIsUnseen
<1>7. HandlesAreHeld'
  BY NoneAssumption, <1>1, <1>2 DEF IInv, Types, Retiring, Becomes, HandlesAreHeld
<1>8. StartedIsEmpty'
  BY NoneAssumption, <1>1, <1>2, <1>3, <1>4
  DEF IInv, Types, Processes, Starting, Running, Retiring, Becomes, TurnsInto,
      StartedIsEmpty, EarlyIsUnseen, Early, RetirersHoldTheLock, HandlesAreHeld
<1>9. OwnersHoldTheirLock'
  BY NoneAssumption, <1>1, <1>2, <1>3, <1>4
  DEF IInv, Types, Processes, Starting, Running, Retiring, Becomes, TurnsInto,
      OwnersHoldTheirLock, StartedIsEmpty, RetirersHoldTheLock, HandlesAreHeld
<1>10. RetirersHoldTheLock'
  BY NoneAssumption, <1>1, <1>2, <1>3, <1>4
  DEF IInv, Types, Processes, Starting, Running, Retiring, Becomes, TurnsInto,
      RetirersHoldTheLock, OwnersHoldTheirLock, EarlyIsUnseen, Early, HandlesAreHeld
<1>11. LiveIsUntouched'
  BY NoneAssumption, <1>1, <1>2, <1>3, <1>4
  DEF IInv, Types, Processes, Starting, Running, Retiring, Becomes, TurnsInto,
      LiveIsUntouched, OwnersHoldTheirLock, StartedIsEmpty, RetirersHoldTheLock,
      HandlesAreHeld
<1> QED BY <1>5, <1>6, <1>7, <1>8, <1>9, <1>10, <1>11 DEF IInv

LEMMA LockMarkerTakenKeeps ==
  ASSUME IInv, NEW p \in Procs, LockMarker(p), lock[p] # None
  PROVE  IInv'
<1>1. proc[p].at = "marked"
  BY NoneAssumption DEF LockMarker, IInv, Types, Processes
<1>2. Becomes(p, "memory", proc[p].on, proc[p].list, proc[p].stop, proc[p].mine)
  <2>1. Go(p, "memory") /\ "memory" \in Places
    BY DEF LockMarker, Places, Starting, Retiring
  <2> QED BY <2>1, GoEffect DEF IInv
<1>3. dir' = dir /\ lock' = lock
  BY <1>1 DEF LockMarker
<1>4. Types'
  BY <1>2, <1>3 DEF IInv, Types, Becomes
<1>5. EarlyIsUnseen'
  <2>1. \A q \in Procs : Early(q)' => Early(q) /\ ~dir'[q].marker /\ ~dir'[q].header
    BY <1>1, <1>2, <1>3 DEF Early, IInv, EarlyIsUnseen, Retiring, Becomes
  <2>2. \A q \in Procs : proc'[q].on \in {proc[q].on, None}
    BY <1>2 DEF Becomes
  <2> QED BY NoneAssumption, <1>1, <2>1, <2>2 DEF IInv, EarlyIsUnseen
<1>6. HandlesAreHeld'
  BY NoneAssumption, <1>1, <1>2 DEF IInv, Types, Retiring, Becomes, HandlesAreHeld
<1>7. StartedIsEmpty'
  BY NoneAssumption, <1>1, <1>2, <1>3
  DEF IInv, Types, Processes, Starting, Running, Retiring, Becomes, StartedIsEmpty,
      EarlyIsUnseen, Early, RetirersHoldTheLock, HandlesAreHeld
<1>8. OwnersHoldTheirLock'
  BY NoneAssumption, <1>1, <1>2, <1>3
  DEF IInv, Types, Processes, Starting, Running, Retiring, Becomes, OwnersHoldTheirLock,
      StartedIsEmpty, RetirersHoldTheLock, HandlesAreHeld
<1>9. RetirersHoldTheLock'
  BY NoneAssumption, <1>1, <1>2, <1>3
  DEF IInv, Types, Processes, Starting, Running, Retiring, Becomes, RetirersHoldTheLock,
      OwnersHoldTheirLock, EarlyIsUnseen, Early, HandlesAreHeld
<1>10. LiveIsUntouched'
  BY NoneAssumption, <1>1, <1>2, <1>3
  DEF IInv, Types, Processes, Starting, Running, Retiring, Becomes, LiveIsUntouched,
      OwnersHoldTheirLock, StartedIsEmpty, RetirersHoldTheLock, HandlesAreHeld
<1> QED BY <1>4, <1>5, <1>6, <1>7, <1>8, <1>9, <1>10 DEF IInv

LEMMA LockMarkerKeeps ==
  ASSUME IInv, NEW p \in Procs, LockMarker(p), lock[p] = None
  PROVE  IInv'
<1>1. proc[p].at = "marked"
  BY NoneAssumption DEF LockMarker, IInv, Types, Processes
<1>2. Becomes(p, "locked", proc[p].on, proc[p].list, proc[p].stop, proc[p].mine)
  <2>1. Go(p, "locked") /\ "locked" \in Places
    BY DEF LockMarker, Places, Starting, Retiring
  <2> QED BY <2>1, GoEffect DEF IInv
<1>3. dir' = dir
  BY <1>1 DEF LockMarker
<1>4. Locks(p, p)
  BY <1>1 DEF LockMarker, Locks, IInv, Types
<1>5. Types'
  BY <1>2, <1>3, <1>4 DEF IInv, Types, Becomes, Locks
<1>6. EarlyIsUnseen'
  <2>1. \A q \in Procs : Early(q)' => Early(q) /\ ~dir'[q].marker /\ ~dir'[q].header
    BY <1>1, <1>2, <1>3, <1>4 DEF Early, IInv, EarlyIsUnseen, Retiring, Becomes, Locks
  <2>2. \A q \in Procs : proc'[q].on \in {proc[q].on, None}
    BY <1>2 DEF Becomes
  <2> QED BY NoneAssumption, <1>1, <2>1, <2>2 DEF IInv, EarlyIsUnseen
<1>7. HandlesAreHeld'
  BY NoneAssumption, <1>1, <1>2 DEF IInv, Types, Retiring, Becomes, HandlesAreHeld
<1>8. StartedIsEmpty'
  BY NoneAssumption, <1>1, <1>2, <1>3, <1>4
  DEF IInv, Types, Processes, Starting, Running, Retiring, Becomes, Locks,
      StartedIsEmpty, EarlyIsUnseen, Early, RetirersHoldTheLock, HandlesAreHeld
<1>9. OwnersHoldTheirLock'
  BY NoneAssumption, <1>1, <1>2, <1>3, <1>4
  DEF IInv, Types, Processes, Starting, Running, Retiring, Becomes, Locks,
      OwnersHoldTheirLock, StartedIsEmpty, RetirersHoldTheLock, HandlesAreHeld
<1>10. RetirersHoldTheLock'
  BY NoneAssumption, <1>1, <1>2, <1>3, <1>4
  DEF IInv, Types, Processes, Starting, Running, Retiring, Becomes, Locks,
      RetirersHoldTheLock, OwnersHoldTheirLock, EarlyIsUnseen, Early, HandlesAreHeld
<1>11. LiveIsUntouched'
  BY NoneAssumption, <1>1, <1>2, <1>3, <1>4
  DEF IInv, Types, Processes, Starting, Running, Retiring, Becomes, Locks,
      LiveIsUntouched, OwnersHoldTheirLock, StartedIsEmpty, RetirersHoldTheLock,
      HandlesAreHeld
<1> QED BY <1>5, <1>6, <1>7, <1>8, <1>9, <1>10, <1>11 DEF IInv

LEMMA WriteHeaderKeeps ==
  ASSUME IInv, NEW p \in Procs, WriteHeader(p)
  PROVE  IInv'
<1>1. proc[p].at = "locked"
  BY NoneAssumption DEF WriteHeader, IInv, Types, Processes
<1>2. Becomes(p, "live", proc[p].on, proc[p].list, proc[p].stop, proc[p].mine)
  <2> DEFINE new == [proc[p] EXCEPT !.at = "live", !.born = TRUE]
  <2>1. proc \in [Procs -> Processes] /\ proc[p] \in Processes /\ Types
    BY DEF IInv, Types
  <2>2. new \in Processes
    BY <2>1 DEF Processes, Places, Starting, Running, Retiring
  <2>3. proc' = [proc EXCEPT ![p] = new]
    BY <2>1 DEF WriteHeader, Processes
  <2>4. /\ new.at = "live" /\ new.on = proc[p].on /\ new.list = proc[p].list
        /\ new.stop = proc[p].stop /\ new.mine = proc[p].mine
    BY <2>1 DEF Processes
  <2> HIDE DEF new
  <2> QED BY <2>1, <2>2, <2>3, <2>4, ProcessEffect
<1>3. lock' = lock
  BY <1>1 DEF WriteHeader
<1>4. TurnsInto(p, dir[p].exists, dir[p].marker, TRUE, dir[p].files)
  BY <1>1 DEF WriteHeader, TurnsInto, IInv, Types, Directories
<1>5. Types'
  BY <1>2, <1>3, <1>4 DEF IInv, Types, Becomes, TurnsInto
<1>6. EarlyIsUnseen'
  <2>1. \A q \in Procs : Early(q)' => Early(q) /\ ~dir'[q].marker /\ ~dir'[q].header
    BY <1>1, <1>2, <1>3, <1>4 DEF Early, IInv, EarlyIsUnseen, Retiring, Becomes, TurnsInto
  <2>2. \A q \in Procs : proc'[q].on \in {proc[q].on, None}
    BY <1>2 DEF Becomes
  <2> QED BY NoneAssumption, <1>1, <2>1, <2>2 DEF IInv, EarlyIsUnseen
<1>7. HandlesAreHeld'
  BY <1>1, <1>2 DEF IInv, Retiring, Becomes, HandlesAreHeld
<1>8. StartedIsEmpty'
  BY NoneAssumption, <1>1, <1>2, <1>3, <1>4
  DEF IInv, Types, Processes, Starting, Running, Retiring, Becomes, TurnsInto,
      StartedIsEmpty, EarlyIsUnseen, Early, RetirersHoldTheLock, HandlesAreHeld
<1>9. OwnersHoldTheirLock'
  BY NoneAssumption, <1>1, <1>2, <1>3, <1>4
  DEF IInv, Types, Processes, Starting, Running, Retiring, Becomes, TurnsInto,
      OwnersHoldTheirLock, StartedIsEmpty, RetirersHoldTheLock, HandlesAreHeld
<1>10. RetirersHoldTheLock'
  BY NoneAssumption, <1>1, <1>2, <1>3, <1>4
  DEF IInv, Types, Processes, Starting, Running, Retiring, Becomes, TurnsInto,
      RetirersHoldTheLock, OwnersHoldTheirLock, EarlyIsUnseen, Early, HandlesAreHeld
<1>11. LiveIsUntouched'
  BY NoneAssumption, <1>1, <1>2, <1>3, <1>4
  DEF IInv, Types, Processes, Starting, Running, Retiring, Becomes, TurnsInto,
      LiveIsUntouched, OwnersHoldTheirLock, StartedIsEmpty, RetirersHoldTheLock,
      HandlesAreHeld
<1> QED BY <1>5, <1>6, <1>7, <1>8, <1>9, <1>10, <1>11 DEF IInv

LEMMA CreateFileKeeps ==
  ASSUME IInv, NEW p \in Procs, NEW f \in Files, CreateFile(p, f)
  PROVE  IInv'
<1>1. proc[p].at = "live"
  BY NoneAssumption DEF CreateFile, IInv, Types, Processes
<1>2. Becomes(p, "creating", proc[p].on, {f}, proc[p].stop, proc[p].mine)
  <2> DEFINE new == [proc[p] EXCEPT !.at = "creating", !.list = {f}]
  <2>1. proc \in [Procs -> Processes] /\ proc[p] \in Processes /\ Types
    BY DEF IInv, Types
  <2>2. new \in Processes
    BY <2>1 DEF Processes, Places, Starting, Running, Retiring
  <2>3. proc' = [proc EXCEPT ![p] = new]
    BY <2>1 DEF CreateFile, Processes
  <2>4. /\ new.at = "creating" /\ new.on = proc[p].on /\ new.list = {f}
        /\ new.stop = proc[p].stop /\ new.mine = proc[p].mine
    BY <2>1 DEF Processes
  <2> HIDE DEF new
  <2> QED BY <2>1, <2>2, <2>3, <2>4, ProcessEffect
<1>3. lock' = lock
  BY <1>1 DEF CreateFile
<1>4. TurnsInto(p, dir[p].exists, dir[p].marker, dir[p].header, dir[p].files \cup {f})
  BY <1>1 DEF CreateFile, TurnsInto, IInv, Types, Directories
<1>5. Types'
  BY <1>2, <1>3, <1>4 DEF IInv, Types, Becomes, TurnsInto
<1>6. EarlyIsUnseen'
  <2>1. \A q \in Procs : Early(q)' => Early(q) /\ ~dir'[q].marker /\ ~dir'[q].header
    BY <1>1, <1>2, <1>3, <1>4 DEF Early, IInv, EarlyIsUnseen, Retiring, Becomes, TurnsInto
  <2>2. \A q \in Procs : proc'[q].on \in {proc[q].on, None}
    BY <1>2 DEF Becomes
  <2> QED BY NoneAssumption, <1>1, <2>1, <2>2 DEF IInv, EarlyIsUnseen
<1>7. HandlesAreHeld'
  BY <1>1, <1>2 DEF IInv, Retiring, Becomes, HandlesAreHeld
<1>8. StartedIsEmpty'
  BY NoneAssumption, <1>1, <1>2, <1>3, <1>4
  DEF IInv, Types, Processes, Starting, Running, Retiring, Becomes, TurnsInto,
      StartedIsEmpty, EarlyIsUnseen, Early, RetirersHoldTheLock, HandlesAreHeld
<1>9. OwnersHoldTheirLock'
  BY NoneAssumption, <1>1, <1>2, <1>3, <1>4
  DEF IInv, Types, Processes, Starting, Running, Retiring, Becomes, TurnsInto,
      OwnersHoldTheirLock, StartedIsEmpty, RetirersHoldTheLock, HandlesAreHeld
<1>10. RetirersHoldTheLock'
  BY NoneAssumption, <1>1, <1>2, <1>3, <1>4
  DEF IInv, Types, Processes, Starting, Running, Retiring, Becomes, TurnsInto,
      RetirersHoldTheLock, OwnersHoldTheirLock, EarlyIsUnseen, Early, HandlesAreHeld
<1>11. LiveIsUntouched'
  BY NoneAssumption, <1>1, <1>2, <1>3, <1>4
  DEF IInv, Types, Processes, Starting, Running, Retiring, Becomes, TurnsInto,
      LiveIsUntouched, OwnersHoldTheirLock, StartedIsEmpty, RetirersHoldTheLock,
      HandlesAreHeld
<1> QED BY <1>5, <1>6, <1>7, <1>8, <1>9, <1>10, <1>11 DEF IInv

LEMMA RecordFileKeeps ==
  ASSUME IInv, NEW p \in Procs, RecordFile(p)
  PROVE  IInv'
<1>1. proc[p].at = "creating"
  BY NoneAssumption DEF RecordFile, IInv, Types, Processes
<1>2. Becomes(p, "live", proc[p].on, {}, proc[p].stop, proc[p].mine \cup proc[p].list)
  <2> DEFINE new == [proc[p] EXCEPT !.at = "live", !.list = {},
                                    !.mine = proc[p].mine \cup proc[p].list]
  <2>1. /\ proc \in [Procs -> Processes] /\ proc[p] \in Processes
        /\ dir \in [Procs -> Directories]
    BY DEF IInv, Types
  <2>2. /\ proc[p].mine \cup proc[p].list \in SUBSET Files /\ "live" \in Places
        /\ {} \in SUBSET Files /\ TRUE \in BOOLEAN
    BY <1>1, <2>1 DEF Processes, Directories, Places, Running, Retiring
  <2>3. new \in Processes
    BY <2>1, <2>2 DEF Processes
  <2>4. proc' = [proc EXCEPT ![p] = new]
    BY <1>1, <2>1 DEF RecordFile, Processes
  <2>5. /\ new.at = "live" /\ new.on = proc[p].on /\ new.list = {}
        /\ new.stop = proc[p].stop /\ new.mine = proc[p].mine \cup proc[p].list
    BY <2>1 DEF Processes
  <2> HIDE DEF new
  <2> QED BY <2>1, <2>3, <2>4, <2>5 DEF Becomes
<1>3. lock' = lock
  BY <1>1 DEF RecordFile
<1>4. TurnsInto(p, dir[p].exists, dir[p].marker, dir[p].header, dir[p].files)
  <2> DEFINE new == [dir[p] EXCEPT !.lines = dir[p].lines \cup proc[p].list]
  <2>1. /\ dir \in [Procs -> Directories] /\ dir[p] \in Directories
        /\ proc[p].list \in SUBSET Files
    BY <1>1 DEF IInv, Types, Processes
  <2>2. new \in Directories
    BY <2>1 DEF Directories
  <2>3. dir' = [dir EXCEPT ![p] = new]
    BY <1>1, <2>1 DEF RecordFile, Directories
  <2>4. /\ new.exists = dir[p].exists /\ new.marker = dir[p].marker
        /\ new.header = dir[p].header /\ new.files = dir[p].files
    BY <2>1 DEF Directories
  <2> HIDE DEF new
  <2> QED BY <1>1, <2>1, <2>2, <2>3, <2>4 DEF TurnsInto
<1>5. Types'
  BY <1>2, <1>3, <1>4 DEF IInv, Types, Becomes, TurnsInto
<1>6. EarlyIsUnseen'
  <2>1. \A q \in Procs : Early(q)' => Early(q) /\ ~dir'[q].marker /\ ~dir'[q].header
    BY <1>1, <1>2, <1>3, <1>4 DEF Early, IInv, EarlyIsUnseen, Retiring, Becomes, TurnsInto
  <2>2. \A q \in Procs : proc'[q].on \in {proc[q].on, None}
    BY <1>2 DEF Becomes
  <2> QED BY NoneAssumption, <1>1, <2>1, <2>2 DEF IInv, EarlyIsUnseen
<1>7. HandlesAreHeld'
  BY NoneAssumption, <1>1, <1>2 DEF IInv, Types, Retiring, Becomes, HandlesAreHeld
<1>8. StartedIsEmpty'
  BY NoneAssumption, <1>1, <1>2, <1>3, <1>4
  DEF IInv, Types, Processes, Starting, Running, Retiring, Becomes, TurnsInto,
      StartedIsEmpty, EarlyIsUnseen, Early, RetirersHoldTheLock, HandlesAreHeld
<1>9. OwnersHoldTheirLock'
  BY NoneAssumption, <1>1, <1>2, <1>3, <1>4
  DEF IInv, Types, Processes, Starting, Running, Retiring, Becomes, TurnsInto,
      OwnersHoldTheirLock, StartedIsEmpty, RetirersHoldTheLock, HandlesAreHeld
<1>10. RetirersHoldTheLock'
  BY NoneAssumption, <1>1, <1>2, <1>3, <1>4
  DEF IInv, Types, Processes, Starting, Running, Retiring, Becomes, TurnsInto,
      RetirersHoldTheLock, OwnersHoldTheirLock, EarlyIsUnseen, Early, HandlesAreHeld
<1>11. LiveIsUntouched'
  BY NoneAssumption, <1>1, <1>2, <1>3, <1>4
  DEF IInv, Types, Processes, Starting, Running, Retiring, Becomes, TurnsInto,
      LiveIsUntouched, OwnersHoldTheirLock, StartedIsEmpty, RetirersHoldTheLock,
      HandlesAreHeld
<1> QED BY <1>5, <1>6, <1>7, <1>8, <1>9, <1>10, <1>11 DEF IInv

LEMMA RecordFailsKeeps ==
  ASSUME IInv, NEW p \in Procs, RecordFails(p)
  PROVE  IInv'
<1>1. proc[p].at = "creating"
  BY NoneAssumption DEF RecordFails, IInv, Types, Processes
<1>2. Becomes(p, "live", proc[p].on, {}, proc[p].stop, proc[p].mine)
  <2> DEFINE new == [proc[p] EXCEPT !.at = "live", !.list = {}]
  <2>1. proc \in [Procs -> Processes] /\ proc[p] \in Processes /\ Types
    BY DEF IInv, Types
  <2>2. new \in Processes
    BY <2>1 DEF Processes, Places, Starting, Running, Retiring
  <2>3. proc' = [proc EXCEPT ![p] = new]
    BY <2>1 DEF RecordFails, Processes
  <2>4. /\ new.at = "live" /\ new.on = proc[p].on /\ new.list = {}
        /\ new.stop = proc[p].stop /\ new.mine = proc[p].mine
    BY <2>1 DEF Processes
  <2> HIDE DEF new
  <2> QED BY <2>1, <2>2, <2>3, <2>4, ProcessEffect
<1>3. dir' = dir /\ lock' = lock
  BY <1>1 DEF RecordFails
<1>4. Types'
  BY <1>2, <1>3 DEF IInv, Types, Becomes
<1>5. EarlyIsUnseen'
  <2>1. \A q \in Procs : Early(q)' => Early(q) /\ ~dir'[q].marker /\ ~dir'[q].header
    BY <1>1, <1>2, <1>3 DEF Early, IInv, EarlyIsUnseen, Retiring, Becomes
  <2>2. \A q \in Procs : proc'[q].on \in {proc[q].on, None}
    BY <1>2 DEF Becomes
  <2> QED BY NoneAssumption, <1>1, <2>1, <2>2 DEF IInv, EarlyIsUnseen
<1>6. HandlesAreHeld'
  BY NoneAssumption, <1>1, <1>2 DEF IInv, Types, Retiring, Becomes, HandlesAreHeld
<1>7. StartedIsEmpty'
  BY NoneAssumption, <1>1, <1>2, <1>3
  DEF IInv, Types, Processes, Starting, Running, Retiring, Becomes, StartedIsEmpty,
      EarlyIsUnseen, Early, RetirersHoldTheLock, HandlesAreHeld
<1>8. OwnersHoldTheirLock'
  BY NoneAssumption, <1>1, <1>2, <1>3
  DEF IInv, Types, Processes, Starting, Running, Retiring, Becomes, OwnersHoldTheirLock,
      StartedIsEmpty, RetirersHoldTheLock, HandlesAreHeld
<1>9. RetirersHoldTheLock'
  BY NoneAssumption, <1>1, <1>2, <1>3
  DEF IInv, Types, Processes, Starting, Running, Retiring, Becomes, RetirersHoldTheLock,
      OwnersHoldTheirLock, EarlyIsUnseen, Early, HandlesAreHeld
<1>10. LiveIsUntouched'
  BY NoneAssumption, <1>1, <1>2, <1>3
  DEF IInv, Types, Processes, Starting, Running, Retiring, Becomes, LiveIsUntouched,
      OwnersHoldTheirLock, StartedIsEmpty, RetirersHoldTheLock, HandlesAreHeld
<1> QED BY <1>4, <1>5, <1>6, <1>7, <1>8, <1>9, <1>10 DEF IInv

LEMMA RemoveFileKeeps ==
  ASSUME IInv, NEW p \in Procs, NEW f \in Files, RemoveFile(p, f)
  PROVE  IInv'
<1>1. proc[p].at = "live"
  BY NoneAssumption DEF RemoveFile, IInv, Types, Processes
<1>2. Becomes(p, proc[p].at, proc[p].on, proc[p].list, proc[p].stop, proc[p].mine \ {f})
  BY <1>1 DEF RemoveFile, Becomes, IInv, Types, Processes, Places, Starting, Running,
                Retiring
<1>3. lock' = lock
  BY <1>1 DEF RemoveFile
<1>4. TurnsInto(p, dir[p].exists, dir[p].marker, dir[p].header, dir[p].files \ {f})
  BY <1>1 DEF RemoveFile, TurnsInto, IInv, Types, Directories
<1>5. Types'
  BY <1>2, <1>3, <1>4 DEF IInv, Types, Becomes, TurnsInto
<1>6. EarlyIsUnseen'
  <2>1. \A q \in Procs : Early(q)' => Early(q) /\ ~dir'[q].marker /\ ~dir'[q].header
    BY <1>1, <1>2, <1>3, <1>4 DEF Early, IInv, EarlyIsUnseen, Retiring, Becomes, TurnsInto
  <2>2. \A q \in Procs : proc'[q].on \in {proc[q].on, None}
    BY <1>2 DEF Becomes
  <2> QED BY NoneAssumption, <1>1, <2>1, <2>2 DEF IInv, EarlyIsUnseen
<1>7. HandlesAreHeld'
  BY NoneAssumption, <1>1, <1>2 DEF IInv, Types, Retiring, Becomes, HandlesAreHeld
<1>8. StartedIsEmpty'
  BY NoneAssumption, <1>1, <1>2, <1>3, <1>4
  DEF IInv, Types, Processes, Starting, Running, Retiring, Becomes, TurnsInto,
      StartedIsEmpty, EarlyIsUnseen, Early, RetirersHoldTheLock, HandlesAreHeld
<1>9. OwnersHoldTheirLock'
  BY NoneAssumption, <1>1, <1>2, <1>3, <1>4
  DEF IInv, Types, Processes, Starting, Running, Retiring, Becomes, TurnsInto,
      OwnersHoldTheirLock, StartedIsEmpty, RetirersHoldTheLock, HandlesAreHeld
<1>10. RetirersHoldTheLock'
  BY NoneAssumption, <1>1, <1>2, <1>3, <1>4
  DEF IInv, Types, Processes, Starting, Running, Retiring, Becomes, TurnsInto,
      RetirersHoldTheLock, OwnersHoldTheirLock, EarlyIsUnseen, Early, HandlesAreHeld
<1>11. LiveIsUntouched'
  BY NoneAssumption, <1>1, <1>2, <1>3, <1>4
  DEF IInv, Types, Processes, Starting, Running, Retiring, Becomes, TurnsInto,
      LiveIsUntouched, OwnersHoldTheirLock, StartedIsEmpty, RetirersHoldTheLock,
      HandlesAreHeld
<1> QED BY <1>5, <1>6, <1>7, <1>8, <1>9, <1>10, <1>11 DEF IInv

LEMMA RetireKeeps ==
  ASSUME IInv, NEW p \in Procs, Retire(p)
  PROVE  IInv'
<1>1. proc[p].at = "live"
  BY NoneAssumption DEF Retire, IInv, Types, Processes
<1>2. Becomes(p, "scan", proc[p].on, proc[p].list, TRUE, proc[p].mine)
  <2> DEFINE new == [proc[p] EXCEPT !.at = "scan", !.left = {p}, !.stop = TRUE]
  <2>1. /\ proc \in [Procs -> Processes] /\ proc[p] \in Processes
        /\ dir \in [Procs -> Directories]
    BY DEF IInv, Types
  <2>2. /\ {p} \in SUBSET Procs /\ "scan" \in Places
        /\ {} \in SUBSET Files /\ TRUE \in BOOLEAN
    BY <1>1, <2>1 DEF Processes, Directories, Places, Running, Retiring
  <2>3. new \in Processes
    BY <2>1, <2>2 DEF Processes
  <2>4. proc' = [proc EXCEPT ![p] = new]
    BY <1>1, <2>1 DEF Retire, Processes
  <2>5. /\ new.at = "scan" /\ new.on = proc[p].on /\ new.list = proc[p].list
        /\ new.stop = TRUE /\ new.mine = proc[p].mine
    BY <2>1 DEF Processes
  <2> HIDE DEF new
  <2> QED BY <2>1, <2>3, <2>4, <2>5 DEF Becomes
<1>3. dir' = dir
  BY <1>1 DEF Retire
<1>4. GivesUpLocks(p)
  BY <1>1, UnlockedEffect DEF Retire, IInv
<1>5. Types'
  BY <1>2, <1>3, <1>4 DEF IInv, Types, Becomes, GivesUpLocks
<1>6. EarlyIsUnseen'
  <2>1. \A q \in Procs : Early(q)' => Early(q) /\ ~dir'[q].marker /\ ~dir'[q].header
    BY <1>1, <1>2, <1>3, <1>4 DEF Early, IInv, EarlyIsUnseen, Retiring, Becomes, GivesUpLocks
  <2>2. \A q \in Procs : proc'[q].on \in {proc[q].on, None}
    BY <1>2 DEF Becomes
  <2> QED BY NoneAssumption, <1>1, <2>1, <2>2 DEF IInv, EarlyIsUnseen
<1>7. HandlesAreHeld'
  BY NoneAssumption, <1>1, <1>2 DEF IInv, Types, Retiring, Becomes, HandlesAreHeld
<1>8. StartedIsEmpty'
  BY NoneAssumption, <1>1, <1>2, <1>3, <1>4
  DEF IInv, Types, Processes, Starting, Running, Retiring, Becomes, GivesUpLocks,
      StartedIsEmpty, EarlyIsUnseen, Early, RetirersHoldTheLock, HandlesAreHeld
<1>9. OwnersHoldTheirLock'
  BY NoneAssumption, <1>1, <1>2, <1>3, <1>4
  DEF IInv, Types, Processes, Starting, Running, Retiring, Becomes, GivesUpLocks,
      OwnersHoldTheirLock, StartedIsEmpty, RetirersHoldTheLock, HandlesAreHeld
<1>10. RetirersHoldTheLock'
  BY NoneAssumption, <1>1, <1>2, <1>3, <1>4
  DEF IInv, Types, Processes, Starting, Running, Retiring, Becomes, GivesUpLocks,
      RetirersHoldTheLock, OwnersHoldTheirLock, EarlyIsUnseen, Early, HandlesAreHeld
<1>11. LiveIsUntouched'
  BY NoneAssumption, <1>1, <1>2, <1>3, <1>4
  DEF IInv, Types, Processes, Starting, Running, Retiring, Becomes, GivesUpLocks,
      LiveIsUntouched, OwnersHoldTheirLock, StartedIsEmpty, RetirersHoldTheLock,
      HandlesAreHeld
<1> QED BY <1>5, <1>6, <1>7, <1>8, <1>9, <1>10, <1>11 DEF IInv

LEMMA OpenFailsKeeps ==
  ASSUME IInv, NEW p \in Procs, NEW d \in Procs, OpenFails(p, d)
  PROVE  IInv'
<1>1. proc[p].at = "scan"
  BY NoneAssumption DEF OpenFails, IInv, Types, Processes
<1>2. Becomes(p, "scan", None, {}, proc[p].stop, proc[p].mine)
  <2>1. Leave(p, d)
    BY DEF OpenFails
  <2> QED BY <2>1, LeaveEffect DEF IInv
<1>3. dir' = dir /\ lock' = lock
  BY <1>1 DEF OpenFails
<1>4. Types'
  BY <1>2, <1>3 DEF IInv, Types, Becomes
<1>5. EarlyIsUnseen'
  <2>1. \A q \in Procs : Early(q)' => Early(q) /\ ~dir'[q].marker /\ ~dir'[q].header
    BY <1>1, <1>2, <1>3 DEF Early, IInv, EarlyIsUnseen, Retiring, Becomes
  <2>2. \A q \in Procs : proc'[q].on \in {proc[q].on, None}
    BY <1>2 DEF Becomes
  <2> QED BY NoneAssumption, <1>1, <2>1, <2>2 DEF IInv, EarlyIsUnseen
<1>6. HandlesAreHeld'
  BY NoneAssumption, <1>1, <1>2 DEF IInv, Types, Retiring, Becomes, HandlesAreHeld
<1>7. StartedIsEmpty'
  BY NoneAssumption, <1>1, <1>2, <1>3
  DEF IInv, Types, Processes, Starting, Running, Retiring, Becomes, StartedIsEmpty,
      EarlyIsUnseen, Early, RetirersHoldTheLock, HandlesAreHeld
<1>8. OwnersHoldTheirLock'
  BY NoneAssumption, <1>1, <1>2, <1>3
  DEF IInv, Types, Processes, Starting, Running, Retiring, Becomes, OwnersHoldTheirLock,
      StartedIsEmpty, RetirersHoldTheLock, HandlesAreHeld
<1>9. RetirersHoldTheLock'
  BY NoneAssumption, <1>1, <1>2, <1>3
  DEF IInv, Types, Processes, Starting, Running, Retiring, Becomes, RetirersHoldTheLock,
      OwnersHoldTheirLock, EarlyIsUnseen, Early, HandlesAreHeld
<1>10. LiveIsUntouched'
  BY NoneAssumption, <1>1, <1>2, <1>3
  DEF IInv, Types, Processes, Starting, Running, Retiring, Becomes, LiveIsUntouched,
      OwnersHoldTheirLock, StartedIsEmpty, RetirersHoldTheLock, HandlesAreHeld
<1> QED BY <1>4, <1>5, <1>6, <1>7, <1>8, <1>9, <1>10 DEF IInv

LEMMA OpenKeeps ==
  ASSUME IInv, NEW p \in Procs, NEW d \in Procs, Open(p, d)
  PROVE  IInv'
<1>1. proc[p].at = "scan" /\ dir[d].marker
  BY NoneAssumption DEF Open, IInv, Types, Processes
<1>2. Becomes(p, "opened", d, proc[p].list, proc[p].stop, proc[p].mine)
  <2> DEFINE new == [proc[p] EXCEPT !.at = "opened", !.on = d]
  <2>1. proc \in [Procs -> Processes] /\ proc[p] \in Processes /\ Types
    BY DEF IInv, Types
  <2>2. new \in Processes
    BY <2>1 DEF Processes, Places, Starting, Running, Retiring
  <2>3. proc' = [proc EXCEPT ![p] = new]
    BY <2>1 DEF Open, Processes
  <2>4. /\ new.at = "opened" /\ new.on = d /\ new.list = proc[p].list
        /\ new.stop = proc[p].stop /\ new.mine = proc[p].mine
    BY <2>1 DEF Processes
  <2> HIDE DEF new
  <2> QED BY <2>1, <2>2, <2>3, <2>4, ProcessEffect
<1>3. dir' = dir /\ lock' = lock
  BY <1>1 DEF Open
<1>4. Types'
  BY <1>2, <1>3 DEF IInv, Types, Becomes
<1>5. EarlyIsUnseen'
  <2>1. \A q \in Procs : Early(q)' => Early(q) /\ ~dir'[q].marker /\ ~dir'[q].header
    BY <1>1, <1>2, <1>3 DEF Early, IInv, EarlyIsUnseen, Retiring, Becomes
  <2>2. \A q \in Procs : proc'[q].on \in {proc[q].on, None, d}
    BY <1>2 DEF Becomes
  <2> QED BY NoneAssumption, <1>1, <2>1, <2>2 DEF IInv, EarlyIsUnseen
<1>6. HandlesAreHeld'
  BY NoneAssumption, <1>1, <1>2 DEF IInv, Types, Retiring, Becomes, HandlesAreHeld
<1>7. StartedIsEmpty'
  BY NoneAssumption, <1>1, <1>2, <1>3
  DEF IInv, Types, Processes, Starting, Running, Retiring, Becomes, StartedIsEmpty,
      EarlyIsUnseen, Early, RetirersHoldTheLock, HandlesAreHeld
<1>8. OwnersHoldTheirLock'
  BY NoneAssumption, <1>1, <1>2, <1>3
  DEF IInv, Types, Processes, Starting, Running, Retiring, Becomes, OwnersHoldTheirLock,
      StartedIsEmpty, RetirersHoldTheLock, HandlesAreHeld
<1>9. RetirersHoldTheLock'
  BY NoneAssumption, <1>1, <1>2, <1>3
  DEF IInv, Types, Processes, Starting, Running, Retiring, Becomes, RetirersHoldTheLock,
      OwnersHoldTheirLock, EarlyIsUnseen, Early, HandlesAreHeld
<1>10. LiveIsUntouched'
  BY NoneAssumption, <1>1, <1>2, <1>3
  DEF IInv, Types, Processes, Starting, Running, Retiring, Becomes, LiveIsUntouched,
      OwnersHoldTheirLock, StartedIsEmpty, RetirersHoldTheLock, HandlesAreHeld
<1> QED BY <1>4, <1>5, <1>6, <1>7, <1>8, <1>9, <1>10 DEF IInv

LEMMA TryLockGoneKeeps ==
  ASSUME IInv, NEW p \in Procs, TryLock(p),
         ~dir[proc[p].on].marker
  PROVE  IInv'
<1> DEFINE d == proc[p].on
<1>1. proc[p].at = "opened" /\ d \in Procs /\ ~dir[d].marker
  BY NoneAssumption DEF TryLock, IInv, Types, Processes, HandlesAreHeld, Retiring
<1>2. Becomes(p, "check", proc[p].on, proc[p].list, proc[p].stop, proc[p].mine)
  <2>1. Go(p, "check") /\ "check" \in Places
    BY <1>1 DEF TryLock, Places, Starting, Retiring
  <2> QED BY <2>1, GoEffect DEF IInv
<1>3. dir' = dir /\ lock' = lock
  BY <1>1 DEF TryLock
<1>4. Types'
  BY <1>2, <1>3 DEF IInv, Types, Becomes
<1>5. EarlyIsUnseen'
  <2>1. \A q \in Procs : Early(q)' => Early(q) /\ ~dir'[q].marker /\ ~dir'[q].header
    BY <1>1, <1>2, <1>3 DEF Early, IInv, EarlyIsUnseen, Retiring, Becomes
  <2>2. \A q \in Procs : proc'[q].on \in {proc[q].on, None}
    BY <1>2 DEF Becomes
  <2> QED BY NoneAssumption, <1>1, <2>1, <2>2 DEF IInv, EarlyIsUnseen
<1>6. HandlesAreHeld'
  BY NoneAssumption, <1>1, <1>2 DEF IInv, Types, Retiring, Becomes, HandlesAreHeld
<1>7. StartedIsEmpty'
  BY NoneAssumption, <1>1, <1>2, <1>3
  DEF IInv, Types, Processes, Starting, Running, Retiring, Becomes, StartedIsEmpty,
      EarlyIsUnseen, Early, RetirersHoldTheLock, HandlesAreHeld
<1>8. OwnersHoldTheirLock'
  BY NoneAssumption, <1>1, <1>2, <1>3
  DEF IInv, Types, Processes, Starting, Running, Retiring, Becomes, OwnersHoldTheirLock,
      StartedIsEmpty, RetirersHoldTheLock, HandlesAreHeld
<1>9. RetirersHoldTheLock'
  BY NoneAssumption, <1>1, <1>2, <1>3
  DEF IInv, Types, Processes, Starting, Running, Retiring, Becomes, RetirersHoldTheLock,
      OwnersHoldTheirLock, EarlyIsUnseen, Early, HandlesAreHeld
<1>10. LiveIsUntouched'
  BY NoneAssumption, <1>1, <1>2, <1>3
  DEF IInv, Types, Processes, Starting, Running, Retiring, Becomes, LiveIsUntouched,
      OwnersHoldTheirLock, StartedIsEmpty, RetirersHoldTheLock, HandlesAreHeld
<1> QED BY <1>4, <1>5, <1>6, <1>7, <1>8, <1>9, <1>10 DEF IInv

LEMMA TryLockKeeps ==
  ASSUME IInv, NEW p \in Procs, TryLock(p),
         dir[proc[p].on].marker, lock[proc[p].on] = None
  PROVE  IInv'
<1> DEFINE d == proc[p].on
<1>1. proc[p].at = "opened" /\ d \in Procs /\ dir[d].marker
  BY NoneAssumption DEF TryLock, IInv, Types, Processes, HandlesAreHeld, Retiring
<1>2. Becomes(p, "check", proc[p].on, proc[p].list, proc[p].stop, proc[p].mine)
  <2>1. Go(p, "check") /\ "check" \in Places
    BY <1>1 DEF TryLock, Places, Starting, Retiring
  <2> QED BY <2>1, GoEffect DEF IInv
<1>3. dir' = dir
  BY <1>1 DEF TryLock
<1>4. Locks(p, d)
  BY <1>1 DEF TryLock, Locks, IInv, Types
<1>5. Types'
  BY <1>2, <1>3, <1>4 DEF IInv, Types, Becomes, Locks
<1>6. EarlyIsUnseen'
  <2>1. \A q \in Procs : Early(q)' => Early(q) /\ ~dir'[q].marker /\ ~dir'[q].header
    BY <1>1, <1>2, <1>3, <1>4 DEF Early, IInv, EarlyIsUnseen, Retiring, Becomes, Locks
  <2>2. \A q \in Procs : proc'[q].on \in {proc[q].on, None}
    BY <1>2 DEF Becomes
  <2> QED BY NoneAssumption, <1>1, <2>1, <2>2 DEF IInv, EarlyIsUnseen
<1>7. HandlesAreHeld'
  BY NoneAssumption, <1>1, <1>2 DEF IInv, Types, Retiring, Becomes, HandlesAreHeld
<1>8. StartedIsEmpty'
  BY NoneAssumption, <1>1, <1>2, <1>3, <1>4
  DEF IInv, Types, Processes, Starting, Running, Retiring, Becomes, Locks,
      StartedIsEmpty, EarlyIsUnseen, Early, RetirersHoldTheLock, HandlesAreHeld
<1>9. OwnersHoldTheirLock'
  BY NoneAssumption, <1>1, <1>2, <1>3, <1>4
  DEF IInv, Types, Processes, Starting, Running, Retiring, Becomes, Locks,
      OwnersHoldTheirLock, StartedIsEmpty, RetirersHoldTheLock, HandlesAreHeld
<1>10. RetirersHoldTheLock'
  BY NoneAssumption, <1>1, <1>2, <1>3, <1>4
  DEF IInv, Types, Processes, Starting, Running, Retiring, Becomes, Locks,
      RetirersHoldTheLock, OwnersHoldTheirLock, EarlyIsUnseen, Early, HandlesAreHeld
<1>11. LiveIsUntouched'
  BY NoneAssumption, <1>1, <1>2, <1>3, <1>4
  DEF IInv, Types, Processes, Starting, Running, Retiring, Becomes, Locks,
      LiveIsUntouched, OwnersHoldTheirLock, StartedIsEmpty, RetirersHoldTheLock,
      HandlesAreHeld
<1> QED BY <1>5, <1>6, <1>7, <1>8, <1>9, <1>10, <1>11 DEF IInv

LEMMA TryLockTakenKeeps ==
  ASSUME IInv, NEW p \in Procs, TryLock(p),
         dir[proc[p].on].marker, lock[proc[p].on] # None
  PROVE  IInv'
<1> DEFINE d == proc[p].on
<1>1. proc[p].at = "opened" /\ d \in Procs
  BY NoneAssumption DEF TryLock, IInv, Types, Processes, HandlesAreHeld, Retiring
<1>2. Becomes(p, "scan", None, {}, proc[p].stop, proc[p].mine)
  <2>1. Leave(p, d)
    BY <1>1 DEF TryLock
  <2> QED BY <2>1, LeaveEffect DEF IInv
<1>3. dir' = dir /\ lock' = lock
  BY <1>1 DEF TryLock
<1>4. Types'
  BY <1>2, <1>3 DEF IInv, Types, Becomes
<1>5. EarlyIsUnseen'
  <2>1. \A q \in Procs : Early(q)' => Early(q) /\ ~dir'[q].marker /\ ~dir'[q].header
    BY <1>1, <1>2, <1>3 DEF Early, IInv, EarlyIsUnseen, Retiring, Becomes
  <2>2. \A q \in Procs : proc'[q].on \in {proc[q].on, None}
    BY <1>2 DEF Becomes
  <2> QED BY NoneAssumption, <1>1, <2>1, <2>2 DEF IInv, EarlyIsUnseen
<1>6. HandlesAreHeld'
  BY NoneAssumption, <1>1, <1>2 DEF IInv, Types, Retiring, Becomes, HandlesAreHeld
<1>7. StartedIsEmpty'
  BY NoneAssumption, <1>1, <1>2, <1>3
  DEF IInv, Types, Processes, Starting, Running, Retiring, Becomes, StartedIsEmpty,
      EarlyIsUnseen, Early, RetirersHoldTheLock, HandlesAreHeld
<1>8. OwnersHoldTheirLock'
  BY NoneAssumption, <1>1, <1>2, <1>3
  DEF IInv, Types, Processes, Starting, Running, Retiring, Becomes, OwnersHoldTheirLock,
      StartedIsEmpty, RetirersHoldTheLock, HandlesAreHeld
<1>9. RetirersHoldTheLock'
  BY NoneAssumption, <1>1, <1>2, <1>3
  DEF IInv, Types, Processes, Starting, Running, Retiring, Becomes, RetirersHoldTheLock,
      OwnersHoldTheirLock, EarlyIsUnseen, Early, HandlesAreHeld
<1>10. LiveIsUntouched'
  BY NoneAssumption, <1>1, <1>2, <1>3
  DEF IInv, Types, Processes, Starting, Running, Retiring, Becomes, LiveIsUntouched,
      OwnersHoldTheirLock, StartedIsEmpty, RetirersHoldTheLock, HandlesAreHeld
<1> QED BY <1>4, <1>5, <1>6, <1>7, <1>8, <1>9, <1>10 DEF IInv

LEMMA CheckPassesKeeps ==
  ASSUME IInv, NEW p \in Procs, Check(p),
         dir[proc[p].on].marker /\ Verified(proc[p].on)
  PROVE  IInv'
<1> DEFINE d == proc[p].on
<1>1. proc[p].at = "check" /\ d \in Procs /\ dir[d].marker /\ dir[d].header
  BY NoneAssumption DEF Check, Verified, IInv, Types, Processes, HandlesAreHeld, Retiring
<1>2. Becomes(p, "unlink", proc[p].on, dir[d].files, proc[p].stop, proc[p].mine)
  <2> DEFINE new == [proc[p] EXCEPT !.at = "unlink", !.list = dir[proc[p].on].files]
  <2>1. /\ proc \in [Procs -> Processes] /\ proc[p] \in Processes
        /\ dir \in [Procs -> Directories]
    BY DEF IInv, Types
  <2>2. /\ dir[proc[p].on].files \in SUBSET Files /\ "unlink" \in Places
        /\ {} \in SUBSET Files /\ TRUE \in BOOLEAN
    BY <1>1, <2>1 DEF Processes, Directories, Places, Running, Retiring
  <2>3. new \in Processes
    BY <2>1, <2>2 DEF Processes
  <2>4. proc' = [proc EXCEPT ![p] = new]
    BY <1>1, <2>1 DEF Check, Processes
  <2>5. /\ new.at = "unlink" /\ new.on = proc[p].on /\ new.list = dir[d].files
        /\ new.stop = proc[p].stop /\ new.mine = proc[p].mine
    BY <2>1 DEF Processes
  <2> HIDE DEF new
  <2> QED BY <2>1, <2>3, <2>4, <2>5 DEF Becomes
<1>3. dir' = dir /\ lock' = lock
  BY <1>1 DEF Check
<1>4. Types'
  BY <1>2, <1>3 DEF IInv, Types, Becomes
<1>5. EarlyIsUnseen'
  <2>1. \A q \in Procs : Early(q)' => Early(q) /\ ~dir'[q].marker /\ ~dir'[q].header
    BY <1>1, <1>2, <1>3 DEF Early, IInv, EarlyIsUnseen, Retiring, Becomes
  <2>2. \A q \in Procs : proc'[q].on \in {proc[q].on, None}
    BY <1>2 DEF Becomes
  <2> QED BY NoneAssumption, <1>1, <2>1, <2>2 DEF IInv, EarlyIsUnseen
<1>6. HandlesAreHeld'
  BY NoneAssumption, <1>1, <1>2 DEF IInv, Types, Retiring, Becomes, HandlesAreHeld
<1>7. StartedIsEmpty'
  BY NoneAssumption, <1>1, <1>2, <1>3
  DEF IInv, Types, Processes, Starting, Running, Retiring, Becomes, StartedIsEmpty,
      EarlyIsUnseen, Early, RetirersHoldTheLock, HandlesAreHeld
<1>8. OwnersHoldTheirLock'
  BY NoneAssumption, <1>1, <1>2, <1>3
  DEF IInv, Types, Processes, Starting, Running, Retiring, Becomes, OwnersHoldTheirLock,
      StartedIsEmpty, RetirersHoldTheLock, HandlesAreHeld
<1>9. RetirersHoldTheLock'
  BY NoneAssumption, <1>1, <1>2, <1>3
  DEF IInv, Types, Processes, Starting, Running, Retiring, Becomes, RetirersHoldTheLock,
      OwnersHoldTheirLock, EarlyIsUnseen, Early, HandlesAreHeld
<1>10. LiveIsUntouched'
  BY NoneAssumption, <1>1, <1>2, <1>3
  DEF IInv, Types, Processes, Starting, Running, Retiring, Becomes, LiveIsUntouched,
      OwnersHoldTheirLock, StartedIsEmpty, RetirersHoldTheLock, HandlesAreHeld
<1> QED BY <1>4, <1>5, <1>6, <1>7, <1>8, <1>9, <1>10 DEF IInv

LEMMA CheckFailsKeeps ==
  ASSUME IInv, NEW p \in Procs, Check(p),
         ~(dir[proc[p].on].marker /\ Verified(proc[p].on))
  PROVE  IInv'
<1> DEFINE d == proc[p].on
<1>1. proc[p].at = "check" /\ d \in Procs
  BY NoneAssumption DEF Check, IInv, Types, Processes, HandlesAreHeld, Retiring
<1>2. Becomes(p, "scan", None, {}, proc[p].stop, proc[p].mine)
  <2>1. Leave(p, d)
    BY <1>1 DEF Check
  <2> QED BY <2>1, LeaveEffect DEF IInv
<1>3. dir' = dir
  BY <1>1 DEF Check
<1>4. GivesUpLocks(p)
  BY <1>1, UnlockedEffect DEF Check, IInv
<1>5. Types'
  BY <1>2, <1>3, <1>4 DEF IInv, Types, Becomes, GivesUpLocks
<1>6. EarlyIsUnseen'
  <2>1. \A q \in Procs : Early(q)' => Early(q) /\ ~dir'[q].marker /\ ~dir'[q].header
    BY <1>1, <1>2, <1>3, <1>4 DEF Early, IInv, EarlyIsUnseen, Retiring, Becomes, GivesUpLocks
  <2>2. \A q \in Procs : proc'[q].on \in {proc[q].on, None}
    BY <1>2 DEF Becomes
  <2> QED BY NoneAssumption, <1>1, <2>1, <2>2 DEF IInv, EarlyIsUnseen
<1>7. HandlesAreHeld'
  BY NoneAssumption, <1>1, <1>2 DEF IInv, Types, Retiring, Becomes, HandlesAreHeld
<1>8. StartedIsEmpty'
  BY NoneAssumption, <1>1, <1>2, <1>3, <1>4
  DEF IInv, Types, Processes, Starting, Running, Retiring, Becomes, GivesUpLocks,
      StartedIsEmpty, EarlyIsUnseen, Early, RetirersHoldTheLock, HandlesAreHeld
<1>9. OwnersHoldTheirLock'
  BY NoneAssumption, <1>1, <1>2, <1>3, <1>4, SMTT(30)
  DEF IInv, Types, Processes, Starting, Running, Retiring, Becomes, GivesUpLocks,
      OwnersHoldTheirLock, StartedIsEmpty, RetirersHoldTheLock, HandlesAreHeld
<1>10. RetirersHoldTheLock'
  BY NoneAssumption, <1>1, <1>2, <1>3, <1>4
  DEF IInv, Types, Processes, Starting, Running, Retiring, Becomes, GivesUpLocks,
      RetirersHoldTheLock, OwnersHoldTheirLock, EarlyIsUnseen, Early, HandlesAreHeld
<1>11. LiveIsUntouched'
  BY NoneAssumption, <1>1, <1>2, <1>3, <1>4
  DEF IInv, Types, Processes, Starting, Running, Retiring, Becomes, GivesUpLocks,
      LiveIsUntouched, OwnersHoldTheirLock, StartedIsEmpty, RetirersHoldTheLock,
      HandlesAreHeld
<1> QED BY <1>5, <1>6, <1>7, <1>8, <1>9, <1>10, <1>11 DEF IInv

LEMMA UnlinkFileKeeps ==
  ASSUME IInv, NEW p \in Procs, NEW f \in Files, UnlinkFile(p, f)
  PROVE  IInv'
<1> DEFINE d == proc[p].on
<1>1. proc[p].at = "unlink" /\ d \in Procs
  BY NoneAssumption DEF UnlinkFile, IInv, Types, Processes, HandlesAreHeld, Retiring
<1>2. Becomes(p, proc[p].at, proc[p].on, proc[p].list \ {f}, proc[p].stop, proc[p].mine)
  BY <1>1 DEF UnlinkFile, Becomes, IInv, Types, Processes, Places, Starting, Running,
                Retiring
<1>3. lock' = lock
  BY <1>1 DEF UnlinkFile
<1>4. TurnsInto(d, dir[d].exists, dir[d].marker, dir[d].header, dir[d].files \ {f})
  BY <1>1, SMTT(30) DEF UnlinkFile, TurnsInto, IInv, Types, Directories
<1>5. Types'
  BY <1>2, <1>3, <1>4 DEF IInv, Types, Becomes, TurnsInto
<1>6. EarlyIsUnseen'
  <2>1. \A q \in Procs : Early(q)' => Early(q) /\ ~dir'[q].marker /\ ~dir'[q].header
    BY <1>1, <1>2, <1>3, <1>4 DEF Early, IInv, EarlyIsUnseen, Retiring, Becomes, TurnsInto
  <2>2. \A q \in Procs : proc'[q].on \in {proc[q].on, None}
    BY <1>2 DEF Becomes
  <2> QED BY NoneAssumption, <1>1, <2>1, <2>2 DEF IInv, EarlyIsUnseen
<1>7. HandlesAreHeld'
  BY NoneAssumption, <1>1, <1>2 DEF IInv, Types, Retiring, Becomes, HandlesAreHeld
<1>8. StartedIsEmpty'
  BY NoneAssumption, <1>1, <1>2, <1>3, <1>4, SMTT(30)
  DEF IInv, Types, Processes, Starting, Running, Retiring, Becomes, TurnsInto,
      StartedIsEmpty, EarlyIsUnseen, Early, RetirersHoldTheLock, HandlesAreHeld
<1>9. OwnersHoldTheirLock'
  BY NoneAssumption, <1>1, <1>2, <1>3, <1>4
  DEF IInv, Types, Processes, Starting, Running, Retiring, Becomes, TurnsInto,
      OwnersHoldTheirLock, StartedIsEmpty, RetirersHoldTheLock, HandlesAreHeld
<1>10. RetirersHoldTheLock'
  BY NoneAssumption, <1>1, <1>2, <1>3, <1>4
  DEF IInv, Types, Processes, Starting, Running, Retiring, Becomes, TurnsInto,
      RetirersHoldTheLock, OwnersHoldTheirLock, EarlyIsUnseen, Early, HandlesAreHeld
<1>11. LiveIsUntouched'
  BY NoneAssumption, <1>1, <1>2, <1>3, <1>4, SMTT(30)
  DEF IInv, Types, Processes, Starting, Running, Retiring, Becomes, TurnsInto,
      LiveIsUntouched, OwnersHoldTheirLock, StartedIsEmpty, RetirersHoldTheLock,
      HandlesAreHeld
<1> QED BY <1>5, <1>6, <1>7, <1>8, <1>9, <1>10, <1>11 DEF IInv

LEMMA UnlinkMarkerKeeps ==
  ASSUME IInv, NEW p \in Procs, UnlinkMarker(p)
  PROVE  IInv'
<1> DEFINE d == proc[p].on
<1>1. proc[p].at = "unlink" /\ d \in Procs
  BY NoneAssumption DEF UnlinkMarker, IInv, Types, Processes, HandlesAreHeld, Retiring
<1>2. Becomes(p, "rmdir", proc[p].on, proc[p].list, proc[p].stop, proc[p].mine)
  <2>1. Go(p, "rmdir") /\ "rmdir" \in Places
    BY <1>1 DEF UnlinkMarker, Places, Starting, Retiring
  <2> QED BY <2>1, GoEffect DEF IInv
<1>3. lock' = lock
  BY <1>1 DEF UnlinkMarker
<1>4. TurnsInto(d, dir[d].exists, FALSE, FALSE, dir[d].files)
  <2> DEFINE new == [dir[d] EXCEPT !.marker = FALSE, !.header = FALSE, !.lines = {}]
  <2>1. /\ dir \in [Procs -> Directories] /\ dir[d] \in Directories
        /\ proc[p].list \in SUBSET Files
    BY <1>1 DEF IInv, Types, Processes
  <2>2. new \in Directories
    BY <2>1 DEF Directories
  <2>3. dir' = [dir EXCEPT ![d] = new]
    BY <1>1, <2>1 DEF UnlinkMarker, Directories
  <2>4. /\ new.exists = dir[d].exists /\ new.marker = FALSE
        /\ new.header = FALSE /\ new.files = dir[d].files
    BY <2>1 DEF Directories
  <2> HIDE DEF new, d
  <2> QED BY <1>1, <2>1, <2>2, <2>3, <2>4 DEF TurnsInto
<1>5. Types'
  BY <1>2, <1>3, <1>4 DEF IInv, Types, Becomes, TurnsInto
<1>6. EarlyIsUnseen'
  <2>1. \A q \in Procs : Early(q)' => Early(q) /\ ~dir'[q].marker /\ ~dir'[q].header
    BY <1>1, <1>2, <1>3, <1>4 DEF Early, IInv, EarlyIsUnseen, Retiring, Becomes, TurnsInto
  <2>2. \A q \in Procs : proc'[q].on \in {proc[q].on, None}
    BY <1>2 DEF Becomes
  <2> QED BY NoneAssumption, <1>1, <2>1, <2>2 DEF IInv, EarlyIsUnseen
<1>7. HandlesAreHeld'
  BY NoneAssumption, <1>1, <1>2 DEF IInv, Types, Retiring, Becomes, HandlesAreHeld
<1>8. StartedIsEmpty'
  BY NoneAssumption, <1>1, <1>2, <1>3, <1>4, SMTT(30)
  DEF IInv, Types, Processes, Starting, Running, Retiring, Becomes, TurnsInto,
      StartedIsEmpty, EarlyIsUnseen, Early, RetirersHoldTheLock, HandlesAreHeld
<1>9. OwnersHoldTheirLock'
  BY NoneAssumption, <1>1, <1>2, <1>3, <1>4
  DEF IInv, Types, Processes, Starting, Running, Retiring, Becomes, TurnsInto,
      OwnersHoldTheirLock, StartedIsEmpty, RetirersHoldTheLock, HandlesAreHeld
<1>10. RetirersHoldTheLock'
  BY NoneAssumption, <1>1, <1>2, <1>3, <1>4
  DEF IInv, Types, Processes, Starting, Running, Retiring, Becomes, TurnsInto,
      RetirersHoldTheLock, OwnersHoldTheirLock, EarlyIsUnseen, Early, HandlesAreHeld
<1>11. LiveIsUntouched'
  BY NoneAssumption, <1>1, <1>2, <1>3, <1>4
  DEF IInv, Types, Processes, Starting, Running, Retiring, Becomes, TurnsInto,
      LiveIsUntouched, OwnersHoldTheirLock, StartedIsEmpty, RetirersHoldTheLock,
      HandlesAreHeld
<1> QED BY <1>5, <1>6, <1>7, <1>8, <1>9, <1>10, <1>11 DEF IInv

LEMMA RemoveDirectoryKeeps ==
  ASSUME IInv, NEW p \in Procs, RemoveDirectory(p)
  PROVE  IInv'
<1> DEFINE d == proc[p].on
<1>1. proc[p].at = "rmdir" /\ d \in Procs
  BY NoneAssumption DEF RemoveDirectory, IInv, Types, Processes, HandlesAreHeld, Retiring
<1>2. Becomes(p, "scan", None, {}, proc[p].stop, proc[p].mine)
  <2>1. Leave(p, d)
    BY <1>1 DEF RemoveDirectory
  <2> QED BY <2>1, LeaveEffect DEF IInv
<1>3. TurnsInto(d, dir'[d].exists, FALSE, dir'[d].header, dir[d].files) /\ (dir'[d].header => dir[d].header)
  <2>1. /\ dir \in [Procs -> Directories] /\ dir[d] \in Directories /\ ~dir[d].marker
        /\ NoDir \in Directories
    BY <1>1 DEF IInv, Types, Directories, RetirersHoldTheLock, NoDir
  <2>2. CASE dir[d].files = {}
    BY <1>1, <2>1, <2>2 DEF RemoveDirectory, TurnsInto, NoDir
  <2>3. CASE dir[d].files # {}
    BY <1>1, <2>1, <2>3 DEF RemoveDirectory, TurnsInto
  <2> QED BY <2>2, <2>3
<1>4. GivesUpLocks(p)
  BY <1>1, UnlockedEffect DEF RemoveDirectory, IInv
<1>5. Types'
  BY <1>2, <1>3, <1>4 DEF IInv, Types, Becomes, TurnsInto, GivesUpLocks
<1>6. EarlyIsUnseen'
  <2>1. \A q \in Procs : Early(q)' => Early(q) /\ ~dir'[q].marker /\ ~dir'[q].header
    BY <1>1, <1>2, <1>3, <1>4 DEF Early, IInv, EarlyIsUnseen, Retiring, Becomes, TurnsInto, GivesUpLocks
  <2>2. \A q \in Procs : proc'[q].on \in {proc[q].on, None}
    BY <1>2 DEF Becomes
  <2> QED BY NoneAssumption, <1>1, <2>1, <2>2 DEF IInv, EarlyIsUnseen
<1>7. HandlesAreHeld'
  BY NoneAssumption, <1>1, <1>2 DEF IInv, Types, Retiring, Becomes, HandlesAreHeld
<1>8. StartedIsEmpty'
  BY NoneAssumption, <1>1, <1>2, <1>3, <1>4
  DEF IInv, Types, Processes, Starting, Running, Retiring, Becomes, TurnsInto,
      GivesUpLocks, StartedIsEmpty, EarlyIsUnseen, Early, RetirersHoldTheLock,
      HandlesAreHeld
<1>9. OwnersHoldTheirLock'
  BY NoneAssumption, <1>1, <1>2, <1>3, <1>4, SMTT(30)
  DEF IInv, Types, Processes, Starting, Running, Retiring, Becomes, TurnsInto,
      GivesUpLocks, OwnersHoldTheirLock, StartedIsEmpty, RetirersHoldTheLock,
      HandlesAreHeld
<1>10. RetirersHoldTheLock'
  BY NoneAssumption, <1>1, <1>2, <1>3, <1>4
  DEF IInv, Types, Processes, Starting, Running, Retiring, Becomes, TurnsInto,
      GivesUpLocks, RetirersHoldTheLock, OwnersHoldTheirLock, EarlyIsUnseen, Early,
      HandlesAreHeld
<1>11. LiveIsUntouched'
  BY NoneAssumption, <1>1, <1>2, <1>3, <1>4
  DEF IInv, Types, Processes, Starting, Running, Retiring, Becomes, TurnsInto,
      GivesUpLocks, LiveIsUntouched, OwnersHoldTheirLock, StartedIsEmpty,
      RetirersHoldTheLock, HandlesAreHeld
<1> QED BY <1>5, <1>6, <1>7, <1>8, <1>9, <1>10, <1>11 DEF IInv

LEMMA StoppedKeeps ==
  ASSUME IInv, NEW p \in Procs, Stopped(p)
  PROVE  IInv'
<1>1. proc[p].at = "scan" /\ proc[p].stop
  BY NoneAssumption DEF Stopped, IInv, Types, Processes
<1>2. Becomes(p, "dead", proc[p].on, proc[p].list, proc[p].stop, proc[p].mine)
  <2>1. Go(p, "dead") /\ "dead" \in Places
    BY DEF Stopped, Places, Starting, Retiring
  <2> QED BY <2>1, GoEffect DEF IInv
<1>3. dir' = dir /\ lock' = lock
  BY <1>1 DEF Stopped
<1>4. Types'
  BY <1>2, <1>3 DEF IInv, Types, Becomes
<1>5. EarlyIsUnseen'
  <2>1. \A q \in Procs : Early(q)' => Early(q) /\ ~dir'[q].marker /\ ~dir'[q].header
    BY <1>1, <1>2, <1>3 DEF Early, IInv, EarlyIsUnseen, Retiring, Becomes
  <2>2. \A q \in Procs : proc'[q].on \in {proc[q].on, None}
    BY <1>2 DEF Becomes
  <2> QED BY NoneAssumption, <1>1, <2>1, <2>2 DEF IInv, EarlyIsUnseen
<1>6. HandlesAreHeld'
  BY NoneAssumption, <1>1, <1>2 DEF IInv, Types, Retiring, Becomes, HandlesAreHeld
<1>7. StartedIsEmpty'
  BY NoneAssumption, <1>1, <1>2, <1>3
  DEF IInv, Types, Processes, Starting, Running, Retiring, Becomes, StartedIsEmpty,
      EarlyIsUnseen, Early, RetirersHoldTheLock, HandlesAreHeld
<1>8. OwnersHoldTheirLock'
  BY NoneAssumption, <1>1, <1>2, <1>3
  DEF IInv, Types, Processes, Starting, Running, Retiring, Becomes, OwnersHoldTheirLock,
      StartedIsEmpty, RetirersHoldTheLock, HandlesAreHeld
<1>9. RetirersHoldTheLock'
  BY NoneAssumption, <1>1, <1>2, <1>3
  DEF IInv, Types, Processes, Starting, Running, Retiring, Becomes, RetirersHoldTheLock,
      OwnersHoldTheirLock, EarlyIsUnseen, Early, HandlesAreHeld
<1>10. LiveIsUntouched'
  BY NoneAssumption, <1>1, <1>2, <1>3
  DEF IInv, Types, Processes, Starting, Running, Retiring, Becomes, LiveIsUntouched,
      OwnersHoldTheirLock, StartedIsEmpty, RetirersHoldTheLock, HandlesAreHeld
<1> QED BY <1>4, <1>5, <1>6, <1>7, <1>8, <1>9, <1>10 DEF IInv

LEMMA CrashKeeps ==
  ASSUME IInv, NEW p \in Procs, Crash(p)
  PROVE  IInv'
<1>1. proc[p].at \notin {"new", "dead"}
  BY NoneAssumption DEF Crash, IInv, Types, Processes
<1>2. Becomes(p, "dead", None, {}, FALSE, {})
  BY <1>1 DEF Crash, Fresh, Becomes, IInv, Types, Processes, Places, Starting, Running,
                Retiring
<1>3. dir' = dir
  BY <1>1 DEF Crash
<1>4. GivesUpLocks(p)
  BY <1>1, UnlockedEffect DEF Crash, IInv
<1>5. Types'
  BY <1>2, <1>3, <1>4 DEF IInv, Types, Becomes, GivesUpLocks
<1>6. EarlyIsUnseen'
  <2>1. \A q \in Procs : Early(q)' => Early(q) /\ ~dir'[q].marker /\ ~dir'[q].header
    BY <1>1, <1>2, <1>3, <1>4 DEF Early, IInv, EarlyIsUnseen, Retiring, Becomes, GivesUpLocks
  <2>2. \A q \in Procs : proc'[q].on \in {proc[q].on, None}
    BY <1>2 DEF Becomes
  <2> QED BY NoneAssumption, <1>1, <2>1, <2>2 DEF IInv, EarlyIsUnseen
<1>7. HandlesAreHeld'
  BY NoneAssumption, <1>1, <1>2 DEF IInv, Types, Retiring, Becomes, HandlesAreHeld
<1>8. StartedIsEmpty'
  BY NoneAssumption, <1>1, <1>2, <1>3, <1>4
  DEF IInv, Types, Processes, Starting, Running, Retiring, Becomes, GivesUpLocks,
      StartedIsEmpty, EarlyIsUnseen, Early, RetirersHoldTheLock, HandlesAreHeld
<1>9. OwnersHoldTheirLock'
  BY NoneAssumption, <1>1, <1>2, <1>3, <1>4
  DEF IInv, Types, Processes, Starting, Running, Retiring, Becomes, GivesUpLocks,
      OwnersHoldTheirLock, StartedIsEmpty, RetirersHoldTheLock, HandlesAreHeld
<1>10. RetirersHoldTheLock'
  BY NoneAssumption, <1>1, <1>2, <1>3, <1>4
  DEF IInv, Types, Processes, Starting, Running, Retiring, Becomes, GivesUpLocks,
      RetirersHoldTheLock, OwnersHoldTheirLock, EarlyIsUnseen, Early, HandlesAreHeld
<1>11. LiveIsUntouched'
  BY NoneAssumption, <1>1, <1>2, <1>3, <1>4
  DEF IInv, Types, Processes, Starting, Running, Retiring, Becomes, GivesUpLocks,
      LiveIsUntouched, OwnersHoldTheirLock, StartedIsEmpty, RetirersHoldTheLock,
      HandlesAreHeld
<1> QED BY <1>5, <1>6, <1>7, <1>8, <1>9, <1>10, <1>11 DEF IInv

-----------------------------------------------------------------------------
\* Every reachable state satisfies the inductive invariant: the types, and who
\* holds which marker, lock and directory at every step of a start and of a scan.
THEOREM InductiveInvariant == Spec => []IInv
<1>1. Init => IInv
  BY NoneAssumption
  DEF Init, NoDir, Fresh, IInv, Types, Directories, Processes, Places, Starting,
      Running, Retiring, HandlesAreHeld, EarlyIsUnseen, Early, StartedIsEmpty,
      OwnersHoldTheirLock, RetirersHoldTheLock, LiveIsUntouched
<1>2. IInv /\ [Next]_vars => IInv'
  <2> SUFFICES ASSUME IInv, [Next]_vars PROVE IInv'
    OBVIOUS
  <2>1. ASSUME NEW p \in Procs, Start(p) PROVE IInv'
    BY <2>1, StartScanKeeps, MakeDirectoryKeeps, CreateMarkerKeeps, LockMarkerKeeps,
       LockMarkerTakenKeeps, WriteHeaderKeeps DEF Start
  <2>2. ASSUME NEW p \in Procs, TryLock(p) PROVE IInv'
    BY <2>2, TryLockKeeps, TryLockGoneKeeps, TryLockTakenKeeps
  <2>3. ASSUME NEW p \in Procs, Check(p) PROVE IInv'
    BY <2>3, CheckPassesKeeps, CheckFailsKeeps
  <2>4. ASSUME NEW p \in Procs, RetireNamespace(p) PROVE IInv'
    BY <2>2, <2>3, <2>4, OpenFailsKeeps, OpenKeeps, UnlinkFileKeeps, UnlinkMarkerKeeps,
       RemoveDirectoryKeeps DEF RetireNamespace
  <2>5. CASE UNCHANGED vars
    BY <2>5 DEF vars, IInv, Types, HandlesAreHeld, EarlyIsUnseen, Early, StartedIsEmpty,
      OwnersHoldTheirLock, RetirersHoldTheLock, LiveIsUntouched
  <2> QED
    BY <2>1, <2>4, <2>5, RecordFileKeeps, RecordFailsKeeps, RetireKeeps, StoppedKeeps,
       CrashKeeps, CreateFileKeeps, RemoveFileKeeps DEF Next
<1> QED
  BY <1>1, <1>2, PTL DEF Spec

\* A running process keeps its directory, marker and recorded files, however
\* many others start, scan and crash.
THEOREM LiveUntouched == Spec => []LiveIsUntouched
<1>1. IInv => LiveIsUntouched
  BY DEF IInv
<1> QED
  BY <1>1, InductiveInvariant, PTL
=============================================================================
