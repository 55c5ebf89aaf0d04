---------------------------- MODULE SharedCache ----------------------------
(***************************************************************************)
(* The directory of one cache key, shared by all runs of the worker, under *)
(* the cache.restore and cache.save operations (internal/stepops).  No     *)
(* lock guards it: an action here is one system call, and the calls of     *)
(* operations in progress interleave.  The directory is flat, as a cache   *)
(* path without subdirectories is; other keys are other directories.       *)
(*                                                                         *)
(* Saves are numbered as they begin.  A file's content is the number of    *)
(* the save that wrote all of it, or Torn: anything else, such as a prefix *)
(* or two saves' bytes mixed.                                              *)
(***************************************************************************)
EXTENDS Integers, FiniteSets, FiniteSetsExt

CONSTANTS
    Runs,         \* the runs whose operations use the key
    NFiles,       \* file names, in lexical order
    Sources,      \* the sets of files a workspace's cache path may hold
    MaxSaves,     \* bound: saves begun
    MaxRestores   \* bound: restores begun

ASSUME NFilesAssumption == NFiles \in Nat \ {0}
ASSUME SourcesAssumption == Sources \subseteq SUBSET (1..NFiles)
ASSUME BoundsAssumption == MaxSaves \in Nat /\ MaxRestores \in Nat

VARIABLES
    dir,        \* the directory exists
    data,       \* data[f]: content of file f in it
    pc,         \* pc[r]: the system call run r's operation makes next
    todo,       \* todo[r]: the files its loop has left
    version,    \* version[r]: number of the save it makes, 0 for a restore
    target,     \* target[r]: the file it has open for writing
    handle,     \* handle[r]: what became of that file since it was opened
    got,        \* got[r]: what its restore has copied into the workspace
    status,     \* status[r]: how its last operation ended
    source,     \* source[n]: the files save n copies
    saves,      \* number of saves begun
    restores,   \* number of restores begun
    faulty,     \* reads and writes may fail
    overlapped, \* history: a save was in progress during r's operation
    whole,      \* history: the save the directory holds undisturbed, or 0
    atStart     \* history: whole, when r's restore began

disk == <<dir, data>>
hist == <<overlapped, whole, atStart>>
vars == <<disk, pc, todo, version, target, handle, got, status, source, saves,
          restores, faulty, hist>>

-----------------------------------------------------------------------------
Files    == 1..NFiles
Absent   == 0
Torn     == -1
Versions == 1..MaxSaves
Content  == Versions \cup {Absent, Torn}

RestoreSteps == {"stat", "walk", "read"}
SaveSteps    == {"list", "unlink", "rmdir", "mkdir", "parent", "create", "write"}

Present == {f \in Files : data[f] # Absent}
Saving(r) == pc[r] \in SaveSteps

\* what the directory holds when save n's copy is all there is
CopyOf(n) == [f \in Files |-> IF f \in source[n] THEN n ELSE Absent]

Init ==
    /\ dir = FALSE
    /\ data = [f \in Files |-> Absent]
    /\ pc = [r \in Runs |-> "idle"]
    /\ todo = [r \in Runs |-> {}]
    /\ version = [r \in Runs |-> 0]
    /\ target = [r \in Runs |-> 0]
    /\ handle = [r \in Runs |-> "closed"]
    /\ got = [r \in Runs |-> [f \in Files |-> Absent]]
    /\ status = [r \in Runs |-> "none"]
    /\ source = [n \in Versions |-> {}]
    /\ saves = 0
    /\ restores = 0
    /\ faulty \in BOOLEAN
    /\ overlapped = [r \in Runs |-> FALSE]
    /\ whole = 0
    /\ atStart = [r \in Runs |-> 0]

Goto(r, step) == pc' = [pc EXCEPT ![r] = step]

\* Run r's operation returns, with an error or the message in s.
End(r, s) ==
    /\ pc' = [pc EXCEPT ![r] = "idle"]
    /\ status' = [status EXCEPT ![r] = s]
    /\ todo' = [todo EXCEPT ![r] = {}]
    /\ target' = [target EXCEPT ![r] = 0]
    /\ handle' = [handle EXCEPT ![r] = "closed"]

-----------------------------------------------------------------------------
(* cache.restore *)

RestoreBegin(r) ==
    /\ pc[r] = "idle" /\ restores < MaxRestores
    /\ restores' = restores + 1
    /\ version' = [version EXCEPT ![r] = 0]
    /\ got' = [got EXCEPT ![r] = [f \in Files |-> Absent]]
    /\ overlapped' = [overlapped EXCEPT ![r] = \E q \in Runs : Saving(q)]
    /\ atStart' = [atStart EXCEPT ![r] = whole]
    /\ Goto(r, "stat")
    /\ UNCHANGED <<disk, todo, target, handle, status, source, saves, faulty, whole>>

\* Mutant of RestoreStat: a missing cache is an error.
RestoreStatStrict(r) ==
    /\ pc[r] = "stat"
    /\ \/ /\ dir
          /\ Goto(r, "walk")
          /\ UNCHANGED <<status, todo, target, handle>>
       \/ ~dir /\ End(r, "failed")
    /\ UNCHANGED <<disk, version, got, source, saves, restores, faulty, hist>>

\* os.Stat: a cache that does not exist is a miss, which is no error.
RestoreStat(r) ==
    /\ pc[r] = "stat"
    /\ \/ /\ dir
          /\ Goto(r, "walk")
          /\ UNCHANGED <<status, todo, target, handle>>
       \/ ~dir /\ End(r, "miss")
       \/ faulty /\ End(r, "failed")
    /\ UNCHANGED <<disk, version, got, source, saves, restores, faulty, hist>>

\* filepath.Walk reads the directory's names once.
RestoreWalk(r) ==
    /\ pc[r] = "walk"
    /\ \/ /\ dir
          /\ todo' = [todo EXCEPT ![r] = Present]
          /\ Goto(r, "read")
          /\ UNCHANGED <<status, target, handle>>
       \/ /\ ~dir \/ faulty
          /\ End(r, "failed")
    /\ UNCHANGED <<disk, version, got, source, saves, restores, faulty, hist>>

\* copyTree's callback copies the next file; one that vanished is an error.
RestoreFile(r) ==
    /\ pc[r] = "read" /\ todo[r] # {}
    /\ LET f == Min(todo[r]) IN
       \/ /\ data[f] # Absent
          /\ got' = [got EXCEPT ![r][f] = data[f]]
          /\ todo' = [todo EXCEPT ![r] = @ \ {f}]
          /\ UNCHANGED <<pc, status, target, handle>>
       \/ /\ data[f] = Absent \/ faulty
          /\ End(r, "failed")
          /\ UNCHANGED got
    /\ UNCHANGED <<disk, version, source, saves, restores, faulty, hist>>

RestoreEnd(r) ==
    /\ pc[r] = "read" /\ todo[r] = {}
    /\ End(r, "hit")
    /\ UNCHANGED <<disk, version, got, source, saves, restores, faulty, hist>>

-----------------------------------------------------------------------------
(* cache.save: os.RemoveAll *)

\* os.Stat(sourcePath) found the files fs.  (If it finds nothing the operation
\* fails without a trace.)  The history: every operation in progress overlaps
\* this save, and this save overlaps those that are.
SaveBegin(r) ==
    /\ pc[r] = "idle" /\ saves < MaxSaves
    /\ saves' = saves + 1
    /\ version' = [version EXCEPT ![r] = saves + 1]
    /\ \E fs \in Sources : source' = [source EXCEPT ![saves + 1] = fs]
    /\ overlapped' = [q \in Runs |-> IF q = r THEN \E p \in Runs : Saving(p)
                                     ELSE overlapped[q] \/ pc[q] # "idle"]
    /\ whole' = 0
    /\ Goto(r, "list")
    /\ UNCHANGED <<disk, todo, target, handle, got, status, restores, faulty, atStart>>

\* Mutant of RemoveList: the old cache is not removed.
RemoveListNot(r) ==
    /\ pc[r] = "list"
    /\ Goto(r, "mkdir")
    /\ UNCHANGED <<disk, todo, version, target, handle, got, status, source,
                   saves, restores, faulty, hist>>

\* RemoveAll opens the directory and reads its names.
RemoveList(r) ==
    /\ pc[r] = "list"
    /\ todo' = [todo EXCEPT ![r] = Present]
    /\ Goto(r, IF dir THEN "unlink" ELSE "mkdir")
    /\ UNCHANGED <<disk, version, target, handle, got, status, source, saves,
                   restores, faulty, hist>>

\* Unlinking a file that is gone is no error.  A save that has the file open
\* goes on writing to it, where nobody will find it.
Unlink(r) ==
    /\ pc[r] = "unlink"
    /\ \E f \in todo[r] :
         /\ data' = [data EXCEPT ![f] = Absent]
         /\ todo' = [todo EXCEPT ![r] = @ \ {f}]
         /\ handle' = [q \in Runs |-> IF target[q] = f THEN "unlinked" ELSE handle[q]]
    /\ UNCHANGED <<dir, pc, version, target, got, status, source, saves,
                   restores, faulty, hist>>

\* The directory can be removed only if no save has put a file into it since.
\* Whoever still has names of it to unlink has nothing left to do.
RemoveDir(r) ==
    /\ pc[r] = "unlink" /\ todo[r] = {}
    /\ \/ /\ Present = {}
          /\ dir' = FALSE
          /\ Goto(r, "mkdir")
          /\ todo' = [q \in Runs |-> IF pc[q] = "unlink" THEN {} ELSE todo[q]]
          /\ UNCHANGED <<status, target, handle>>
       \/ /\ Present # {} \/ faulty
          /\ End(r, "failed")
          /\ UNCHANGED dir
    /\ UNCHANGED <<data, version, got, source, saves, restores, faulty, hist>>

-----------------------------------------------------------------------------
(* cache.save: copyTree *)

\* MkdirAll(target), for the root of the tree.
MakeRoot(r) ==
    /\ pc[r] = "mkdir"
    /\ \/ /\ dir' = TRUE
          /\ todo' = [todo EXCEPT ![r] = source[version[r]]]
          /\ Goto(r, "parent")
          /\ UNCHANGED <<status, target, handle>>
       \/ faulty /\ End(r, "failed") /\ UNCHANGED dir
    /\ UNCHANGED <<data, version, got, source, saves, restores, faulty, hist>>

\* MkdirAll(filepath.Dir(destination)), before every file.
MakeParent(r) ==
    /\ pc[r] = "parent" /\ todo[r] # {}
    /\ \/ /\ dir' = TRUE
          /\ Goto(r, "create")
          /\ UNCHANGED <<status, todo, target, handle>>
       \/ faulty /\ End(r, "failed") /\ UNCHANGED dir
    /\ UNCHANGED <<data, version, got, source, saves, restores, faulty, hist>>

\* OpenFile with O_CREATE and O_TRUNC.  Another save that has the same file
\* open now writes into the same bytes.
Create(r) ==
    /\ pc[r] = "create"
    /\ LET f == Min(todo[r])
           others == {q \in Runs \ {r} : target[q] = f /\ handle[q] # "unlinked"} IN
       \/ /\ dir
          /\ data' = [data EXCEPT ![f] = Torn]
          /\ target' = [target EXCEPT ![r] = f]
          /\ handle' = [q \in Runs |->
                          IF q \in others \/ (q = r /\ others # {}) THEN "mixed"
                          ELSE IF q = r THEN "own" ELSE handle[q]]
          /\ Goto(r, "write")
          /\ UNCHANGED <<status, todo>>
       \/ /\ ~dir \/ faulty
          /\ End(r, "failed")
          /\ UNCHANGED data
    /\ UNCHANGED <<dir, version, got, source, saves, restores, faulty, hist>>

\* io.Copy and Close; a failure leaves the file as far as it was written.
Write(r) ==
    /\ pc[r] = "write"
    /\ \/ /\ data' = IF handle[r] = "own" THEN [data EXCEPT ![target[r]] = version[r]]
                     ELSE data
          /\ todo' = [todo EXCEPT ![r] = @ \ {target[r]}]
          /\ target' = [target EXCEPT ![r] = 0]
          /\ handle' = [handle EXCEPT ![r] = "closed"]
          /\ Goto(r, "parent")
          /\ UNCHANGED status
       \/ faulty /\ End(r, "failed") /\ UNCHANGED data
    /\ UNCHANGED <<dir, version, got, source, saves, restores, faulty, hist>>

SaveEnd(r) ==
    /\ pc[r] = "parent" /\ todo[r] = {}
    /\ End(r, "saved")
    /\ whole' = IF overlapped[r] THEN 0 ELSE version[r]
    /\ UNCHANGED <<disk, version, got, source, saves, restores, faulty,
                   overlapped, atStart>>

-----------------------------------------------------------------------------
Restore(r) ==
    \/ RestoreBegin(r) \/ RestoreStat(r) \/ RestoreWalk(r)
    \/ RestoreFile(r) \/ RestoreEnd(r)

Save(r) ==
    \/ SaveBegin(r) \/ RemoveList(r) \/ Unlink(r) \/ RemoveDir(r)
    \/ MakeRoot(r) \/ MakeParent(r) \/ Create(r) \/ Write(r) \/ SaveEnd(r)

Next == \E r \in Runs : Restore(r) \/ Save(r)

Spec == Init /\ [][Next]_vars

-----------------------------------------------------------------------------
(* Properties *)

\* Every variable has its type, and no file lies in a directory that does not
\* exist: what copyTree's two MkdirAll calls are for.
TypeOK ==
    /\ dir \in BOOLEAN
    /\ data \in [Files -> Content]
    /\ pc \in [Runs -> {"idle"} \cup RestoreSteps \cup SaveSteps]
    /\ todo \in [Runs -> SUBSET Files]
    /\ version \in [Runs -> {0} \cup Versions]
    /\ target \in [Runs -> {0} \cup Files]
    /\ handle \in [Runs -> {"closed", "own", "mixed", "unlinked"}]
    /\ got \in [Runs -> [Files -> Content]]
    /\ status \in [Runs -> {"none", "hit", "miss", "saved", "failed"}]
    /\ source \in [Versions -> SUBSET Files]
    /\ saves \in 0..MaxSaves /\ restores \in 0..MaxRestores
    /\ faulty \in BOOLEAN
    /\ overlapped \in [Runs -> BOOLEAN]
    /\ whole \in {0} \cup Versions
    /\ atStart \in [Runs -> {0} \cup Versions]
    /\ dir \/ Present = {}

\* Once a save has ended that no other overlapped, every restore that no save
\* overlaps reports "cache restored" and delivers that save's files (or the
\* disk fails it): all of them, whole, and nothing of what earlier, failed or
\* mixed saves had left (manager.go:81 removes it).
QuietRestoreIsExact ==
    \A r \in Runs :
        (/\ status[r] # "none" /\ pc[r] = "idle" /\ version[r] = 0
         /\ ~overlapped[r] /\ atStart[r] # 0)
        => \/ status[r] = "hit" /\ got[r] = CopyOf(atStart[r])
           \/ status[r] = "failed" /\ faulty

\* An operation fails only because a save of the same key overlapped it or the
\* disk did: a miss is no failure, and what earlier saves left behind, however
\* they ended, never makes a restore or the next save fail.
FailureNeedsOverlap ==
    \A r \in Runs : status[r] = "failed" /\ pc[r] = "idle" => overlapped[r] \/ faulty

=============================================================================
