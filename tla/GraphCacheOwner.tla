--------------------------- MODULE GraphCacheOwner ---------------------------
(***************************************************************************)
(* Ownership of the cache directories on disk (CacheOwner, retire_orphans  *)
(* and retire_namespace in graph_new_cache.rs).                            *)
(*                                                                         *)
(* Every process of the application makes one directory of its own below a *)
(* shared root.  A marker file in it is locked for as long as the process  *)
(* lives and lists the files it created.  A starting process first retires *)
(* the directories whose marker nobody locks; a process that stops retires *)
(* its own.  Processes crash anywhere: the kernel drops their lock and     *)
(* leaves the files.                                                       *)
(***************************************************************************)
EXTENDS Naturals, FiniteSets

CONSTANTS
  Procs,      \* runs of the application; each makes at most one directory
  Files,      \* names of cache files
  Torn,       \* may a crash or an error separate writes that belong together
  None

ASSUME CrashAssumption == Torn \in BOOLEAN
\* A placeholder for "no process".
ASSUME NoneAssumption == None \notin Procs

VARIABLES
  dir,    \* per process's directory: exists, marker, header, files, lines
  lock,   \* per directory: who holds the lock of its marker, or None
  proc    \* per process: at, the directories its scan has left, the one it retires,
          \* the files it has on record

vars == <<dir, lock, proc>>

NoDir == [exists |-> FALSE, marker |-> FALSE, header |-> FALSE, files |-> {}, lines |-> {}]
Fresh == [at |-> "new", left |-> {}, on |-> None, list |-> {}, stop |-> FALSE,
          mine |-> {}, born |-> FALSE]

Init ==
  /\ dir = [p \in Procs |-> NoDir] /\ lock = [p \in Procs |-> None]
  /\ proc = [p \in Procs |-> Fresh]

Go(p, where) == proc' = [proc EXCEPT ![p].at = where]
Unlocked(p) == [d \in Procs |-> IF lock[d] = p THEN None ELSE lock[d]]

-----------------------------------------------------------------------------
(* set_directory: retire_orphans, mkdtemp, CacheOwner::new *)

StartScan(p) ==
  /\ proc[p].at = "new"
  /\ proc' = [proc EXCEPT ![p].at = "scan", ![p].left = {d \in Procs : dir[d].exists}]
  /\ UNCHANGED <<dir, lock>>
MakeDirectory(p) ==
  /\ proc[p].at = "scan" /\ proc[p].left = {}
  /\ dir' = [dir EXCEPT ![p] = [NoDir EXCEPT !.exists = TRUE]]
  /\ Go(p, "made") /\ UNCHANGED lock
CreateMarker(p) ==
  /\ proc[p].at = "made" /\ dir' = [dir EXCEPT ![p].marker = TRUE]
  /\ Go(p, "marked") /\ UNCHANGED lock
\* try_lock: a scanner that looks at the new marker makes the start fail, and
\* the process goes on with its memory cache alone.
LockMarker(p) ==
  /\ proc[p].at = "marked"
  /\ IF lock[p] = None THEN lock' = [lock EXCEPT ![p] = p] /\ Go(p, "locked")
                       ELSE Go(p, "memory") /\ UNCHANGED lock
  /\ UNCHANGED dir
WriteHeader(p) ==
  /\ proc[p].at = "locked" /\ dir' = [dir EXCEPT ![p].header = TRUE]
  /\ proc' = [proc EXCEPT ![p].at = "live", ![p].born = TRUE] /\ UNCHANGED lock

\* create: the file, then its line in the marker.
CreateFile(p, f) ==
  /\ proc[p].at = "live" /\ f \notin dir[p].files
  /\ dir' = [dir EXCEPT ![p].files = @ \cup {f}]
  /\ proc' = [proc EXCEPT ![p].at = "creating", ![p].list = {f}] /\ UNCHANGED lock
RecordFile(p) ==
  /\ proc[p].at = "creating"
  /\ dir' = [dir EXCEPT ![p].lines = @ \cup proc[p].list]
  /\ proc' = [proc EXCEPT ![p].at = "live", ![p].list = {}, ![p].mine = @ \cup proc[p].list]
  /\ UNCHANGED lock
\* The marker cannot be written: the file stays and belongs to no record.
RecordFails(p) ==
  /\ proc[p].at = "creating" /\ Torn
  /\ proc' = [proc EXCEPT ![p].at = "live", ![p].list = {}] /\ UNCHANGED <<dir, lock>>
RemoveFile(p, f) ==
  /\ proc[p].at = "live" /\ f \in proc[p].mine
  /\ dir' = [dir EXCEPT ![p].files = @ \ {f}]
  /\ proc' = [proc EXCEPT ![p].mine = @ \ {f}] /\ UNCHANGED lock

\* retire: the marker's lock is given up, then the directory retired by name.
Retire(p) ==
  /\ proc[p].at = "live" /\ lock' = Unlocked(p)
  /\ proc' = [proc EXCEPT ![p].at = "scan", ![p].left = {p}, ![p].stop = TRUE]
  /\ UNCHANGED dir

-----------------------------------------------------------------------------
(* retire_namespace of the directory d by the process p *)

Leave(p, d) == proc' = [proc EXCEPT ![p].at = "scan", ![p].left = @ \ {d},
                                    ![p].on = None, ![p].list = {}]

\* No directory, or no marker in it: the error is ignored.
OpenFails(p, d) ==
  /\ proc[p].at = "scan" /\ d \in proc[p].left /\ ~dir[d].marker
  /\ Leave(p, d) /\ UNCHANGED <<dir, lock>>
Open(p, d) ==
  /\ proc[p].at = "scan" /\ d \in proc[p].left /\ dir[d].marker
  /\ proc' = [proc EXCEPT ![p].at = "opened", ![p].on = d] /\ UNCHANGED <<dir, lock>>
\* Mutant of TryLock: the lock is not asked for.
LockNobody(p) ==
  /\ proc[p].at = "opened" /\ Go(p, "check") /\ UNCHANGED <<dir, lock>>
\* The lock belongs to the open file, so an unlinked marker can still be locked.
TryLock(p) ==
  LET d == proc[p].on IN
  /\ proc[p].at = "opened"
  /\ IF ~dir[d].marker THEN Go(p, "check") /\ UNCHANGED lock
     ELSE IF lock[d] = None THEN lock' = [lock EXCEPT ![d] = p] /\ Go(p, "check")
     ELSE Leave(p, d) /\ UNCHANGED lock
  /\ UNCHANGED dir

Verified(d) == dir[d].header /\ dir[d].files \subseteq dir[d].lines
\* The marker must be complete and list every file of the directory.
Check(p) ==
  LET d == proc[p].on IN
  /\ proc[p].at = "check"
  /\ IF dir[d].marker /\ Verified(d)
     THEN proc' = [proc EXCEPT ![p].at = "unlink", ![p].list = dir[d].files] /\ UNCHANGED lock
     ELSE Leave(p, d) /\ lock' = Unlocked(p)
  /\ UNCHANGED dir
UnlinkFile(p, f) ==
  LET d == proc[p].on IN
  /\ proc[p].at = "unlink" /\ f \in proc[p].list
  /\ dir' = [dir EXCEPT ![d].files = @ \ {f}]
  /\ proc' = [proc EXCEPT ![p].list = @ \ {f}] /\ UNCHANGED lock
UnlinkMarker(p) ==
  LET d == proc[p].on IN
  /\ proc[p].at = "unlink" /\ proc[p].list = {} /\ dir[d].marker
  /\ dir' = [dir EXCEPT ![d].marker = FALSE, ![d].header = FALSE, ![d].lines = {}]
  /\ Go(p, "rmdir") /\ UNCHANGED lock
\* A directory that is not empty stays; either way the handle and lock go.
RemoveDirectory(p) ==
  LET d == proc[p].on IN
  /\ proc[p].at = "rmdir"
  /\ dir' = IF dir[d].files = {} THEN [dir EXCEPT ![d] = NoDir] ELSE dir
  /\ lock' = Unlocked(p) /\ Leave(p, d)

\* The process that stopped has retired its directory.
Stopped(p) ==
  /\ proc[p].at = "scan" /\ proc[p].stop /\ proc[p].left = {}
  /\ Go(p, "dead") /\ UNCHANGED <<dir, lock>>

-----------------------------------------------------------------------------
Between == {"made", "marked", "locked", "creating", "rmdir"}
Crash(p) ==
  /\ proc[p].at \notin {"new", "dead"} /\ (proc[p].at \in Between => Torn)
  /\ proc' = [proc EXCEPT ![p] = [Fresh EXCEPT !.at = "dead", !.born = proc[p].born]]
  /\ lock' = Unlocked(p) /\ UNCHANGED dir

Start(p) ==
  \/ StartScan(p) \/ (MakeDirectory(p) /\ ~proc[p].stop) \/ CreateMarker(p) \/ LockMarker(p)
  \/ WriteHeader(p)
RetireNamespace(p) ==
  \/ \E d \in Procs : OpenFails(p, d) \/ Open(p, d)
  \/ TryLock(p) \/ Check(p) \/ UnlinkMarker(p) \/ RemoveDirectory(p) \/ \E f \in Files : UnlinkFile(p, f)
Next ==
  \E p \in Procs :
    \/ Start(p) \/ RetireNamespace(p) \/ RecordFile(p) \/ RecordFails(p) \/ Retire(p) \/ Stopped(p) \/ Crash(p)
    \/ \E f \in Files : CreateFile(p, f) \/ RemoveFile(p, f)

Spec == Init /\ [][Next]_vars

-----------------------------------------------------------------------------
TypeOK ==
  /\ \A d \in Procs : /\ dir[d].files \subseteq Files /\ dir[d].lines \subseteq Files
                      /\ dir[d].marker => dir[d].exists
                      /\ lock[d] \in Procs \cup {None}
  /\ \A p \in Procs : proc[p].left \subseteq Procs /\ proc[p].on \in Procs \cup {None}

\* A running process finds its directory, its marker and every file it has on
\* record, whatever other processes start, scan and crash meanwhile (the lock
\* of the marker, taken before its header is written).
LiveIsUntouched ==
  \A p \in Procs : proc[p].at \in {"live", "creating"} =>
    /\ dir[p].exists /\ dir[p].marker /\ dir[p].header
    /\ proc[p].mine \cup proc[p].list \subseteq dir[p].files

\* Nothing is removed that the marker did not list: a file the crashed process
\* had created and not recorded keeps its whole directory.
UnlistedIsKept ==
  [][\A d \in Procs : \A f \in dir[d].files \ dir'[d].files :
        f \in dir[d].lines \/ proc[d].at = "live"]_vars

\* A scan that gets to a directory whose process had started and died, and that
\* nobody else holds, leaves no such directory behind.
CrashedIsRetired ==
  [][\A p, d \in Procs :
       (/\ proc[p].on = d /\ proc'[p].on = None /\ proc'[p].at # "dead"
        /\ proc[d].at = "dead" /\ proc[d].born /\ lock[d] \in {p, None})
        => ~dir'[d].exists]_vars
=============================================================================
