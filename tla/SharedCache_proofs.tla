-------------------------- MODULE SharedCache_proofs --------------------------
(***************************************************************************)
(* What runs that share a cache directory may rely on although no lock     *)
(* guards it, for any number of runs, files, saves and restores.           *)
(***************************************************************************)
EXTENDS SharedCache, WellFoundedInduction, TLAPS

\* A save has a file open exactly while it writes it, and no other save has
\* removed what it holds without its handle knowing; saves are numbered as
\* they begin.
Place(r) ==
    /\ pc[r] = "write" <=> target[r] # 0
    /\ handle[r] # "closed" => target[r] # 0
    /\ handle[r] \in {"own", "mixed"} => data[target[r]] # Absent
    /\ pc[r] = "create" => todo[r] # {}
    /\ pc[r] \in RestoreSteps => version[r] = 0
    /\ Saving(r) => version[r] > 0
    /\ version[r] <= saves
    /\ atStart[r] <= saves

Typed == TypeOK /\ (\A r \in Runs : Place(r)) /\ whole <= saves

Undisturbed(r) == pc[r] # "idle" /\ ~overlapped[r]

\* While an undisturbed operation is in progress nobody else saves.
Alone == \A r, q \in Runs : Undisturbed(r) /\ Saving(q) => q = r

\* The directory as an undisturbed restore finds it: it delivers what is there.
Restoring(r) ==
    /\ pc[r] \in RestoreSteps /\ atStart[r] # 0 => whole = atStart[r]
    /\ pc[r] \in {"stat", "walk"} => got[r] = [f \in Files |-> Absent]
    /\ pc[r] = "walk" => dir
    /\ pc[r] = "read" =>
         /\ todo[r] \subseteq Present
         /\ \A f \in Files : f \notin todo[r] => got[r][f] = data[f]

\* The directory as an undisturbed save leaves it at each of its calls: first
\* nothing escapes the removal, then there is nothing, then only its copy.
Writing(r) ==
    /\ pc[r] = "unlink" => Present \subseteq todo[r]
    /\ pc[r] = "mkdir" => Present = {}
    /\ pc[r] \in {"parent", "create", "write"} =>
         /\ dir
         /\ todo[r] \subseteq source[version[r]]
         /\ \A f \in Files :
              /\ f \in source[version[r]] /\ f \notin todo[r] => data[f] = version[r]
              /\ f \notin source[version[r]] => data[f] = Absent
    /\ pc[r] = "write" => target[r] \in todo[r] /\ handle[r] = "own"

\* The save that the directory holds undisturbed is there, file by file, and
\* nobody is at it.
Kept ==
    whole # 0 =>
      /\ dir
      /\ data = CopyOf(whole)
      /\ \A q \in Runs : ~Saving(q)

Inv ==
    /\ Typed
    /\ Alone
    /\ \A r \in Runs : Undisturbed(r) => Restoring(r) /\ Writing(r)
    /\ Kept
    /\ FailureNeedsOverlap
    /\ QuietRestoreIsExact

-----------------------------------------------------------------------------
\* The next file of a loop is one of the files it has left.
LEMMA NextFile ==
    ASSUME NEW S \in SUBSET Files, S # {}
    PROVE  Min(S) \in S
  <1> DEFINE R == {p \in Nat \X Nat : p[1] < p[2]}
  <1>1. S \subseteq Nat
    BY DEF Files
  <1>2. IsWellFoundedOn(R, Nat)
    BY NatLessThanWellFounded, Zenon DEF OpToRel
  <1>3. PICK x \in S : \A y \in S : <<y, x>> \notin R
    BY <1>1, <1>2, WFMin, Zenon
  <1>4. ASSUME NEW y \in S, ~(x =< y) PROVE FALSE
    <2>1. y < x /\ <<y, x>> \in Nat \X Nat
      BY <1>1, <1>4
    <2>2. <<y, x>>[1] = y /\ <<y, x>>[2] = x
      OBVIOUS
    <2> QED
      BY <1>3, <2>1, <2>2, Zenon
  <1> QED
    BY <1>4 DEF Min

\* The constants behind the numbers.
LEMMA Numbers ==
    /\ Absent = 0 /\ Torn = -1 /\ Torn # Absent
    /\ saves \in 0..MaxSaves => saves \in Nat
    /\ \A v \in Versions : v \in Nat /\ v # Absent /\ v \in Content /\ v <= MaxSaves
    /\ Absent \in Content /\ Torn \in Content
    /\ \A f \in Files : f # 0
  BY BoundsAssumption DEF Absent, Torn, Versions, Content, Files

\* An operation that returns leaves everything in its place.
LEMMA EndTyped ==
    ASSUME Typed, NEW r \in Runs, NEW s \in {"hit", "miss", "saved", "failed"}, End(r, s),
           UNCHANGED <<disk, version, got, source, saves, restores, faulty, overlapped, atStart>>,
           whole' \in {0} \cup Versions, whole' <= saves
    PROVE  Typed'
  <1> USE DEF Typed, TypeOK, Place, End, Saving, SaveSteps, RestoreSteps, disk
  <1>1. /\ pc' \in [Runs -> {"idle"} \cup RestoreSteps \cup SaveSteps]
        /\ todo' \in [Runs -> SUBSET Files]
        /\ target' \in [Runs -> {0} \cup Files]
        /\ handle' \in [Runs -> {"closed", "own", "mixed", "unlinked"}]
        /\ status' \in [Runs -> {"none", "hit", "miss", "saved", "failed"}]
    OBVIOUS
  <1>2. \A q \in Runs : Place(q)'
    OBVIOUS
  <1>3. dir' \in BOOLEAN /\ faulty' \in BOOLEAN /\ overlapped' \in [Runs -> BOOLEAN]
    BY Zenon
  <1>4. dir' \/ Present' = {}
    BY Zenon DEF Present
  <1>5. /\ data' \in [Files -> Content]
        /\ version' \in [Runs -> {0} \cup Versions]
        /\ got' \in [Runs -> [Files -> Content]]
        /\ source' \in [Versions -> SUBSET Files]
        /\ saves' \in 0..MaxSaves /\ restores' \in 0..MaxRestores
        /\ atStart' \in [Runs -> {0} \cup Versions]
        /\ whole' \in {0} \cup Versions /\ whole' <= saves'
    BY Zenon
  <1> QED
    BY <1>1, <1>2, <1>3, <1>4, <1>5, Zenon

\* Types, handles and numbers, for every call of every operation.
LEMMA TypedStep ==
    ASSUME Typed, [Next]_vars
    PROVE  Typed'
  <1>0. CASE UNCHANGED vars
    BY <1>0 DEF vars, disk, hist, Typed, TypeOK, Place, Saving, Present
  <1>1. SUFFICES ASSUME NEW r \in Runs, Restore(r) \/ Save(r)
                 PROVE  Typed'
    BY <1>0 DEF Next
  <1>e. ASSUME NEW s \in {"hit", "miss", "saved", "failed"}, End(r, s),
               UNCHANGED <<disk, version, got, source, saves, restores, faulty, hist>>
        PROVE  Typed'
    BY <1>e, EndTyped DEF hist, Typed, TypeOK
  <1>2. CASE RestoreBegin(r)
    <2>1. overlapped' \in [Runs -> BOOLEAN]
      BY <1>2, Zenon DEF RestoreBegin, Typed, TypeOK
    <2>2. dir' \in BOOLEAN /\ faulty' \in BOOLEAN /\ (dir' \/ Present' = {})
      BY <1>2, Zenon DEF RestoreBegin, disk, Present, Typed, TypeOK
    <2>3. /\ data' \in [Files -> Content]
          /\ pc' \in [Runs -> {"idle"} \cup RestoreSteps \cup SaveSteps]
          /\ todo' \in [Runs -> SUBSET Files]
          /\ version' \in [Runs -> {0} \cup Versions]
          /\ target' \in [Runs -> {0} \cup Files]
          /\ handle' \in [Runs -> {"closed", "own", "mixed", "unlinked"}]
          /\ got' \in [Runs -> [Files -> Content]]
          /\ status' \in [Runs -> {"none", "hit", "miss", "saved", "failed"}]
          /\ source' \in [Versions -> SUBSET Files] /\ saves' \in 0..MaxSaves
          /\ restores' \in 0..MaxRestores
          /\ whole' \in {0} \cup Versions
          /\ atStart' \in [Runs -> {0} \cup Versions]
      BY <1>2, BoundsAssumption, Numbers
         DEF RestoreBegin, Goto, disk, Typed, TypeOK, SaveSteps, RestoreSteps
    <2>4. TypeOK'
      BY <2>1, <2>2, <2>3, Zenon DEF TypeOK
    <2>5. whole' <= saves' /\ \A q \in Runs : Place(q)'
      BY <1>2, Numbers DEF RestoreBegin, Goto, disk, Typed, TypeOK, Place, Saving, SaveSteps, RestoreSteps
    <2> QED
      BY <2>4, <2>5 DEF Typed
  <1>3. CASE RestoreStat(r)
    <2>1. CASE End(r, "miss") \/ End(r, "failed")
      BY <1>3, <2>1, <1>e DEF RestoreStat, disk
    <2>2. CASE dir /\ Goto(r, "walk") /\ UNCHANGED <<status, todo, target, handle>>
      BY <1>3, <2>2, Numbers DEF RestoreStat, Goto, disk, hist, Typed, TypeOK, Place, Saving, SaveSteps, RestoreSteps, Present
    <2> QED
      BY <1>3, <2>1, <2>2 DEF RestoreStat
  <1>4. CASE RestoreWalk(r)
    <2>1. CASE End(r, "failed")
      BY <1>4, <2>1, <1>e DEF RestoreWalk, disk
    <2>2. CASE /\ todo' = [todo EXCEPT ![r] = Present]
                /\ Goto(r, "read") /\ UNCHANGED <<status, target, handle>>
      BY <1>4, <2>2, Numbers DEF RestoreWalk, Goto, disk, hist, Typed, TypeOK, Place, Saving, SaveSteps, RestoreSteps, Present
    <2> QED
      BY <1>4, <2>1, <2>2 DEF RestoreWalk
  <1>5. CASE RestoreFile(r)
    <2>1. CASE End(r, "failed") /\ UNCHANGED got
      BY <1>5, <2>1, <1>e DEF RestoreFile, disk
    <2>2. CASE /\ got' = [got EXCEPT ![r][Min(todo[r])] = data[Min(todo[r])]]
                /\ todo' = [todo EXCEPT ![r] = @ \ {Min(todo[r])}]
                /\ UNCHANGED <<pc, status, target, handle>>
      BY <1>5, <2>2, NextFile, Numbers DEF RestoreFile, Goto, disk, hist, Typed, TypeOK, Place, Saving, SaveSteps, RestoreSteps, Present
    <2> QED
      BY <1>5, <2>1, <2>2 DEF RestoreFile
  <1>6. CASE RestoreEnd(r)
    BY <1>6, <1>e DEF RestoreEnd
  <1>7. CASE SaveBegin(r)
    <2>1. overlapped' \in [Runs -> BOOLEAN]
      BY <1>7, Zenon DEF SaveBegin, Typed, TypeOK
    <2>2. dir' \in BOOLEAN /\ faulty' \in BOOLEAN /\ (dir' \/ Present' = {})
      BY <1>7, Zenon DEF SaveBegin, disk, Present, Typed, TypeOK
    <2>3. PICK fs \in Sources : source' = [source EXCEPT ![saves + 1] = fs]
      BY <1>7 DEF SaveBegin
    <2>4. source' \in [Versions -> SUBSET Files] /\ saves' \in 0..MaxSaves
          /\ saves + 1 \in Versions /\ saves' = saves + 1
      BY <1>7, <2>3, SourcesAssumption, BoundsAssumption
         DEF SaveBegin, Typed, TypeOK, Versions, Files
    <2>5. /\ data' \in [Files -> Content]
          /\ pc' \in [Runs -> {"idle"} \cup RestoreSteps \cup SaveSteps]
          /\ todo' \in [Runs -> SUBSET Files]
          /\ version' \in [Runs -> {0} \cup Versions]
          /\ target' \in [Runs -> {0} \cup Files]
          /\ handle' \in [Runs -> {"closed", "own", "mixed", "unlinked"}]
          /\ got' \in [Runs -> [Files -> Content]]
          /\ status' \in [Runs -> {"none", "hit", "miss", "saved", "failed"}]
          /\ restores' \in 0..MaxRestores
          /\ whole' \in {0} \cup Versions
          /\ atStart' \in [Runs -> {0} \cup Versions]
      BY <1>7, <2>4, BoundsAssumption, Numbers
         DEF SaveBegin, Goto, disk, Typed, TypeOK, SaveSteps, RestoreSteps
    <2>6. TypeOK'
      BY <2>1, <2>2, <2>4, <2>5, Zenon DEF TypeOK
    <2>7. saves \in Nat /\ \A q \in Runs : version[q] \in Nat /\ atStart[q] \in Nat
      BY Numbers DEF Typed, TypeOK
    <2>8. \A q \in Runs : version'[q] = (IF q = r THEN saves + 1 ELSE version[q])
                          /\ pc'[q] = (IF q = r THEN "list" ELSE pc[q])
      BY <1>7 DEF SaveBegin, Goto, Typed, TypeOK
    <2>9. \A q \in Runs : Place(q)'
      BY <1>7, <2>4, <2>7, <2>8 DEF SaveBegin, disk, Typed, Place, Saving, SaveSteps, RestoreSteps
    <2>10. whole' <= saves'
      BY <1>7, <2>4, <2>7 DEF SaveBegin
    <2> QED
      BY <2>6, <2>9, <2>10 DEF Typed
  <1>8. CASE RemoveList(r)
    BY <1>8, Numbers DEF RemoveList, Goto, disk, hist, Typed, TypeOK, Place, Saving, SaveSteps, RestoreSteps, Present
  <1>9. CASE Unlink(r)
    BY <1>9, Numbers DEF Unlink, Goto, disk, hist, Typed, TypeOK, Place, Saving, SaveSteps, RestoreSteps, Present
  <1>10. CASE RemoveDir(r)
    <2>1. CASE End(r, "failed") /\ UNCHANGED dir
      BY <1>10, <2>1, <1>e DEF RemoveDir, disk
    <2>2. CASE /\ Present = {} /\ dir' = FALSE /\ Goto(r, "mkdir")
                /\ todo' = [q \in Runs |-> IF pc[q] = "unlink" THEN {} ELSE todo[q]]
                /\ UNCHANGED <<status, target, handle>>
      BY <1>10, <2>2, Numbers DEF RemoveDir, Goto, disk, hist, Typed, TypeOK, Place, Saving, SaveSteps, RestoreSteps, Present
    <2> QED
      BY <1>10, <2>1, <2>2 DEF RemoveDir
  <1>11. CASE MakeRoot(r)
    <2>1. CASE End(r, "failed") /\ UNCHANGED dir
      BY <1>11, <2>1, <1>e DEF MakeRoot, disk
    <2>2. CASE /\ dir' = TRUE /\ todo' = [todo EXCEPT ![r] = source[version[r]]]
                /\ Goto(r, "parent") /\ UNCHANGED <<status, target, handle>>
      BY <1>11, <2>2, Numbers DEF MakeRoot, Goto, disk, hist, Typed, TypeOK, Place, Saving, SaveSteps, RestoreSteps, Present
    <2> QED
      BY <1>11, <2>1, <2>2 DEF MakeRoot
  <1>12. CASE MakeParent(r)
    <2>1. CASE End(r, "failed") /\ UNCHANGED dir
      BY <1>12, <2>1, <1>e DEF MakeParent, disk
    <2>2. CASE /\ dir' = TRUE /\ Goto(r, "create")
                /\ UNCHANGED <<status, todo, target, handle>>
      BY <1>12, <2>2, Numbers DEF MakeParent, Goto, disk, hist, Typed, TypeOK, Place, Saving, SaveSteps, RestoreSteps, Present
    <2> QED
      BY <1>12, <2>1, <2>2 DEF MakeParent
  <1>13. CASE Create(r)
    <2>1. CASE End(r, "failed") /\ UNCHANGED data
      BY <1>13, <2>1, <1>e DEF Create, disk
    <2>2. CASE ~(End(r, "failed") /\ UNCHANGED data)
      <3> DEFINE f == Min(todo[r])
                 others == {q \in Runs \ {r} : target[q] = f /\ handle[q] # "unlinked"}
      <3>1. /\ dir
            /\ data' = [data EXCEPT ![f] = Torn]
            /\ target' = [target EXCEPT ![r] = f]
            /\ handle' = [q \in Runs |->
                            IF q \in others \/ (q = r /\ others # {}) THEN "mixed"
                            ELSE IF q = r THEN "own" ELSE handle[q]]
            /\ Goto(r, "write")
            /\ UNCHANGED <<status, todo>>
        BY <1>13, <2>2 DEF Create
      <3>2. f \in Files /\ f # 0
        BY <1>13, NextFile, Numbers DEF Create, Typed, TypeOK, Place
      <3>3. UNCHANGED <<dir, version, got, source, saves, restores, faulty, overlapped, whole,
                        atStart>>
        BY <1>13 DEF Create, hist
      <3> HIDE DEF f
      <3>4. TypeOK'
        <4>1. handle' \in [Runs -> {"closed", "own", "mixed", "unlinked"}]
          BY <3>1 DEF Typed, TypeOK
        <4>2. data' \in [Files -> Content] /\ target' \in [Runs -> {0} \cup Files]
              /\ pc' \in [Runs -> {"idle"} \cup RestoreSteps \cup SaveSteps]
          BY <3>1, <3>2, Numbers DEF Typed, TypeOK, Goto, SaveSteps
        <4>3. dir' /\ dir' \in BOOLEAN /\ faulty' \in BOOLEAN /\ overlapped' \in [Runs -> BOOLEAN]
          BY <3>1, <3>3, Zenon DEF Typed, TypeOK
        <4> QED
          BY <3>1, <3>3, <4>1, <4>2, <4>3, Zenon DEF Typed, TypeOK
      <3>5. ASSUME NEW q \in Runs PROVE Place(q)'
        <4>1. handle'[q] # "closed" => target'[q] # 0
          BY <3>1, <3>2 DEF Typed, TypeOK, Place
        <4>2. handle'[q] \in {"own", "mixed"} => data'[target'[q]] # Absent
          BY <3>1, <3>2, Numbers DEF Typed, TypeOK, Place
        <4> QED
          BY <1>13, <3>1, <3>2, <3>3, <4>1, <4>2
             DEF Create, Goto, Typed, TypeOK, Place, Saving, SaveSteps, RestoreSteps
      <3> QED
        BY <3>3, <3>4, <3>5 DEF Typed
    <2> QED
      BY <1>13, <2>1, <2>2 DEF Create
  <1>14. CASE Write(r)
    <2>1. CASE End(r, "failed") /\ UNCHANGED data
      BY <1>14, <2>1, <1>e DEF Write, disk
    <2>2. CASE ~(End(r, "failed") /\ UNCHANGED data)
      <3>1. /\ data' = IF handle[r] = "own" THEN [data EXCEPT ![target[r]] = version[r]] ELSE data
            /\ todo' = [todo EXCEPT ![r] = @ \ {target[r]}]
            /\ target' = [target EXCEPT ![r] = 0]
            /\ handle' = [handle EXCEPT ![r] = "closed"]
            /\ Goto(r, "parent")
            /\ UNCHANGED status
        BY <1>14, <2>2 DEF Write
      <3>2. target[r] \in Files /\ version[r] \in Versions
        BY <1>14 DEF Write, Typed, TypeOK, Place, Saving, SaveSteps
      <3>3. UNCHANGED <<dir, version, got, source, saves, restores, faulty, overlapped, whole,
                        atStart>>
        BY <1>14 DEF Write, hist
      <3>4. /\ \A g \in Files : data[g] = Absent => g # target[r] \/ handle[r] # "own"
            /\ data' \in [Files -> Content]
            /\ \A g \in Files : data'[g] = Absent <=> data[g] = Absent
        BY <3>1, <3>2, Numbers DEF Typed, TypeOK, Place
      <3>5. TypeOK'
        <4>1. Present' = Present
          BY <3>4 DEF Present
        <4>2. /\ dir' \in BOOLEAN /\ faulty' \in BOOLEAN /\ overlapped' \in [Runs -> BOOLEAN]
              /\ dir' \/ Present' = {}
          BY <3>3, <4>1, Zenon DEF Typed, TypeOK
        <4>3. /\ pc' \in [Runs -> {"idle"} \cup RestoreSteps \cup SaveSteps]
              /\ todo' \in [Runs -> SUBSET Files]
              /\ target' \in [Runs -> {0} \cup Files]
              /\ handle' \in [Runs -> {"closed", "own", "mixed", "unlinked"}]
          BY <3>1 DEF Typed, TypeOK, Goto, SaveSteps
        <4> QED
          BY <3>1, <3>3, <3>4, <4>2, <4>3, Zenon DEF Typed, TypeOK
      <3>6. ASSUME NEW q \in Runs PROVE Place(q)'
        BY <1>14, <3>1, <3>2, <3>3, <3>4
           DEF Write, Goto, Typed, TypeOK, Place, Saving, SaveSteps, RestoreSteps
      <3> QED
        BY <3>3, <3>5, <3>6 DEF Typed
    <2> QED
      BY <1>14, <2>1, <2>2 DEF Write
  <1>15. CASE SaveEnd(r)
    BY <1>15, Numbers, EndTyped DEF SaveEnd, disk, Typed, TypeOK, Place, Saving, SaveSteps, RestoreSteps, Present
  <1> QED
    BY <1>1, <1>2, <1>3, <1>4, <1>5, <1>6, <1>7, <1>8, <1>9, <1>10, <1>11, <1>12, <1>13, <1>14, <1>15 DEF Restore, Save

-----------------------------------------------------------------------------
\* The calls that do not begin an operation.
Call(r) ==
    \/ RestoreStat(r) \/ RestoreWalk(r) \/ RestoreFile(r) \/ RestoreEnd(r)
    \/ RemoveList(r) \/ Unlink(r) \/ RemoveDir(r) \/ MakeRoot(r) \/ MakeParent(r)
    \/ Create(r) \/ Write(r) \/ SaveEnd(r)

\* Such a call moves its own operation on, and leaves the numbers alone.
LEMMA CallMoves ==
    ASSUME Typed, NEW r \in Runs, Call(r)
    PROVE  /\ pc[r] # "idle" /\ pc' \in [Runs -> {"idle"} \cup RestoreSteps \cup SaveSteps]
           /\ \A q \in Runs \ {r} : pc'[q] = pc[q] /\ status'[q] = status[q] /\ got'[q] = got[q]
           /\ Saving(r)' => Saving(r)
           /\ UNCHANGED <<overlapped, atStart, version, saves, source, faulty>>
  <1> USE DEF Typed, TypeOK, Saving, SaveSteps, RestoreSteps, Goto, End, hist
  <1>1. CASE RestoreStat(r) BY <1>1 DEF RestoreStat
  <1>2. CASE RestoreWalk(r) BY <1>2 DEF RestoreWalk
  <1>3. CASE RestoreFile(r) BY <1>3 DEF RestoreFile
  <1>4. CASE RestoreEnd(r) BY <1>4 DEF RestoreEnd
  <1>5. CASE RemoveList(r) BY <1>5 DEF RemoveList
  <1>6. CASE Unlink(r) BY <1>6 DEF Unlink
  <1>7. CASE RemoveDir(r) BY <1>7 DEF RemoveDir
  <1>8. CASE MakeRoot(r) BY <1>8 DEF MakeRoot
  <1>9. CASE MakeParent(r) BY <1>9 DEF MakeParent
  <1>10. CASE Create(r) BY <1>10 DEF Create
  <1>11. CASE Write(r) BY <1>11 DEF Write
  <1>12. CASE SaveEnd(r) BY <1>12 DEF SaveEnd
  <1> QED
    BY <1>1, <1>2, <1>3, <1>4, <1>5, <1>6, <1>7, <1>8, <1>9, <1>10, <1>11, <1>12 DEF Call

\* A call of a restore changes nothing that the operations share.
LEMMA RestoreCallShares ==
    ASSUME Typed, NEW r \in Runs, Call(r), ~Saving(r)
    PROVE  /\ UNCHANGED <<disk, whole>>
           /\ \A q \in Runs \ {r} : todo'[q] = todo[q] /\ target'[q] = target[q]
                                    /\ handle'[q] = handle[q]
  <1>1. \/ RestoreStat(r) \/ RestoreWalk(r) \/ RestoreFile(r) \/ RestoreEnd(r)
    BY DEF Call, Saving, SaveSteps, RemoveList, Unlink, RemoveDir, MakeRoot, MakeParent,
       Create, Write, SaveEnd
  <1> QED
    BY <1>1 DEF RestoreStat, RestoreWalk, RestoreFile, RestoreEnd, End, hist, Typed, TypeOK

\* An operation that begins while another saves is overlapped, and a save
\* overlaps what is in progress when it begins.
LEMMA AloneStep ==
    ASSUME Typed, Alone, [Next]_vars
    PROVE  Alone'
  <1>0. CASE UNCHANGED vars
    BY <1>0 DEF vars, hist, Alone, Undisturbed, Saving
  <1>1. SUFFICES ASSUME NEW r \in Runs, Restore(r) \/ Save(r) PROVE Alone'
    BY <1>0 DEF Next
  <1>2. CASE RestoreBegin(r)
    <2>1. \A q \in Runs : overlapped'[q] = IF q = r THEN \E p \in Runs : Saving(p) ELSE overlapped[q]
      BY <1>2, Zenon DEF RestoreBegin, Typed, TypeOK
    <2>2. \A q \in Runs : pc'[q] = IF q = r THEN "stat" ELSE pc[q]
      BY <1>2 DEF RestoreBegin, Goto, Typed, TypeOK
    <2> QED
      BY <2>1, <2>2 DEF Alone, Undisturbed, Saving, SaveSteps
  <1>3. CASE SaveBegin(r)
    <2>1. \A q \in Runs : overlapped'[q] = IF q = r THEN \E p \in Runs : Saving(p)
                                           ELSE overlapped[q] \/ pc[q] # "idle"
      BY <1>3, Zenon DEF SaveBegin
    <2>2. \A q \in Runs : pc'[q] = IF q = r THEN "list" ELSE pc[q]
      BY <1>3 DEF SaveBegin, Goto, Typed, TypeOK
    <2> QED
      BY <2>1, <2>2 DEF Alone, Undisturbed, Saving, SaveSteps
  <1>4. CASE Call(r)
    BY <1>4, CallMoves DEF Alone, Undisturbed, Saving
  <1> QED
    BY <1>1, <1>2, <1>3, <1>4 DEF Restore, Save, Call

\* What an undisturbed operation has achieved no step of another takes away.
LEMMA OthersKeep ==
    ASSUME Typed, Alone, NEW r \in Runs, Restore(r) \/ Save(r), NEW q \in Runs \ {r},
           Undisturbed(q)', Undisturbed(q) => Restoring(q) /\ Writing(q)
    PROVE  Restoring(q)' /\ Writing(q)'
  <1>1. CASE RestoreBegin(r)
    <2>1. overlapped'[q] = overlapped[q] /\ atStart'[q] = atStart[q] /\ got'[q] = got[q]
          /\ pc'[q] = pc[q]
      BY <1>1, Zenon DEF RestoreBegin, Goto, Typed, TypeOK
    <2>2. version'[q] = version[q] /\ UNCHANGED <<disk, todo, target, handle, source, whole>>
      BY <1>1 DEF RestoreBegin, Typed, TypeOK
    <2> QED
      BY <2>1, <2>2 DEF Undisturbed, Restoring, Writing, disk, Present
  <1>2. CASE SaveBegin(r)
    <2>1. overlapped'[q] = (overlapped[q] \/ pc[q] # "idle") /\ pc'[q] = pc[q]
      BY <1>2, Zenon DEF SaveBegin, Goto, Typed, TypeOK
    <2> QED
      BY <2>1 DEF Undisturbed
  <1>3. CASE Call(r)
    <2>1. pc'[q] = pc[q] /\ got'[q] = got[q] /\ UNCHANGED <<overlapped, atStart, version, source>>
      BY <1>3, CallMoves
    <2>2. Undisturbed(q) /\ ~Saving(r)
      BY <2>1 DEF Undisturbed, Alone
    <2>3. UNCHANGED <<disk, whole>> /\ todo'[q] = todo[q] /\ target'[q] = target[q]
          /\ handle'[q] = handle[q]
      BY <1>3, <2>2, RestoreCallShares
    <2> QED
      BY <2>1, <2>2, <2>3 DEF Restoring, Writing, disk, Present
  <1> QED
    BY <1>1, <1>2, <1>3 DEF Restore, Save, Call

\* What an undisturbed operation's own calls achieve.
LEMMA OwnStep ==
    ASSUME Typed, Alone, NEW r \in Runs, Restore(r) \/ Save(r), Undisturbed(r)', Kept,
           Undisturbed(r) => Restoring(r) /\ Writing(r)
    PROVE  Restoring(r)' /\ Writing(r)'
  <1> USE DEF Restoring, Writing, RestoreSteps
  <1>1. CASE RestoreBegin(r)
    <2>1. pc'[r] = "stat" /\ whole' = whole /\ atStart'[r] = whole
          /\ got'[r] = [f \in Files |-> Absent]
      BY <1>1 DEF RestoreBegin, Goto, Typed, TypeOK
    <2> QED
      BY <2>1
  <1>2. CASE SaveBegin(r)
    BY <1>2 DEF SaveBegin, Goto, Typed, TypeOK
  <1>3. ASSUME Call(r) PROVE Undisturbed(r) /\ \A s : ~End(r, s)
    BY <1>3, CallMoves DEF Undisturbed, End, Typed, TypeOK
  <1>4. CASE RestoreStat(r)
    <2>1. dir' /\ pc'[r] = "walk" /\ UNCHANGED <<whole, atStart, got>> /\ pc[r] = "stat"
      BY <1>3, <1>4 DEF Call, RestoreStat, Goto, hist, disk, Typed, TypeOK
    <2> QED
      BY <1>3, <1>4, <2>1 DEF Call
  <1>5. CASE RestoreWalk(r)
    BY <1>3, <1>5, Numbers DEF Call, RestoreWalk, Goto, hist, disk, Present, Typed, TypeOK
  <1>6. CASE RestoreFile(r)
    <2> DEFINE f == Min(todo[r])
    <2>1. /\ pc[r] = "read" /\ pc'[r] = "read"
          /\ got' = [got EXCEPT ![r][f] = data[f]]
          /\ todo' = [todo EXCEPT ![r] = @ \ {f}]
          /\ UNCHANGED <<disk, whole, atStart>>
      BY <1>3, <1>6 DEF Call, RestoreFile, hist
    <2>2. f \in Files
      BY <1>6, NextFile DEF RestoreFile, Typed, TypeOK
    <2> HIDE DEF f
    <2>3. todo'[r] = todo[r] \ {f}
          /\ \A g \in Files : got'[r][g] = IF g = f THEN data[f] ELSE got[r][g]
      BY <2>1, <2>2 DEF Typed, TypeOK
    <2> QED
      BY <1>3, <1>6, <2>1, <2>3 DEF Call, disk, Present
  <1>7. CASE RestoreEnd(r)
    BY <1>3, <1>7 DEF Call, RestoreEnd
  <1>8. CASE RemoveList(r)
    BY <1>3, <1>8 DEF Call, RemoveList, Goto, hist, disk, Present, Typed, TypeOK
  <1>9. CASE Unlink(r)
    <2>1. PICK f \in todo[r] : /\ data' = [data EXCEPT ![f] = Absent]
                               /\ todo' = [todo EXCEPT ![r] = @ \ {f}]
      BY <1>9 DEF Unlink
    <2>2. /\ pc'[r] = "unlink" /\ todo'[r] = todo[r] \ {f}
          /\ Present' \subseteq Present \ {f}
      BY <1>9, <2>1 DEF Unlink, Present, Typed, TypeOK
    <2> QED
      BY <1>3, <1>9, <2>2 DEF Call, Unlink
  <1>10. CASE RemoveDir(r)
    BY <1>3, <1>10 DEF Call, RemoveDir, Goto, hist, Present, Typed, TypeOK
  <1>11. CASE MakeRoot(r)
    BY <1>3, <1>11 DEF Call, MakeRoot, Goto, hist, Present, Typed, TypeOK
  <1>12. CASE MakeParent(r)
    BY <1>3, <1>12 DEF Call, MakeParent, Goto, hist, Typed, TypeOK
  <1>13. CASE Create(r)
    <2> DEFINE f == Min(todo[r])
               others == {q \in Runs \ {r} : target[q] = f /\ handle[q] # "unlinked"}
    <2>1. /\ dir
          /\ data' = [data EXCEPT ![f] = Torn]
          /\ target' = [target EXCEPT ![r] = f]
          /\ handle' = [q \in Runs |->
                          IF q \in others \/ (q = r /\ others # {}) THEN "mixed"
                          ELSE IF q = r THEN "own" ELSE handle[q]]
          /\ Goto(r, "write")
          /\ UNCHANGED <<status, todo>>
      BY <1>3, <1>13 DEF Call, Create
    <2>2. f \in todo[r] /\ f \in Files /\ f # 0
      BY <1>13, NextFile, Numbers DEF Create, Typed, TypeOK, Place
    <2>3. others = {}
      BY <1>3, <1>13, <2>2 DEF Call, Alone, Saving, SaveSteps, Typed, Place
    <2> HIDE DEF f, others
    <2>4. handle'[r] = "own" /\ target'[r] = f /\ pc'[r] = "write"
      BY <2>1, <2>3 DEF Goto, Typed, TypeOK
    <2> QED
      BY <1>3, <1>13, <2>1, <2>2, <2>4 DEF Call, Create, hist, Typed, TypeOK
  <1>14. CASE Write(r)
    <2>1. /\ handle[r] = "own" /\ target[r] \in todo[r] /\ target[r] \in Files /\ dir
          /\ pc[r] = "write"
      BY <1>3, <1>14 DEF Call, Write, Typed, TypeOK
    <2>2. /\ data' = [data EXCEPT ![target[r]] = version[r]]
          /\ todo'[r] = todo[r] \ {target[r]}
          /\ pc'[r] = "parent"
          /\ UNCHANGED <<dir, version, source>>
      BY <1>3, <1>14, <2>1 DEF Call, Write, Goto, Typed, TypeOK
    <2>3. \A f \in Files : data'[f] = IF f = target[r] THEN version[r] ELSE data[f]
      BY <2>2 DEF Typed, TypeOK
    <2> QED
      BY <1>3, <1>14, <2>1, <2>2, <2>3 DEF Call
  <1>15. CASE SaveEnd(r)
    BY <1>3, <1>15 DEF Call, SaveEnd
  <1> QED
    BY <1>1, <1>2, <1>4, <1>5, <1>6, <1>7, <1>8, <1>9, <1>10, <1>11, <1>12, <1>13, <1>14, <1>15
       DEF Restore, Save

\* The directory holds an undisturbed save from its end to the next one's begin.
LEMMA KeptStep ==
    ASSUME Typed, Alone, Kept, NEW r \in Runs, Restore(r) \/ Save(r),
           Undisturbed(r) => Writing(r)
    PROVE  Kept'
  <1>1. CASE RestoreBegin(r)
    BY <1>1 DEF RestoreBegin, Goto, Kept, disk, CopyOf, Saving, SaveSteps, Typed, TypeOK
  <1>2. CASE SaveBegin(r)
    BY <1>2 DEF SaveBegin, Kept
  <1>3. CASE SaveEnd(r)
    <2>1. CASE overlapped[r]
      BY <1>3, <2>1 DEF SaveEnd, Kept
    <2>2. CASE ~overlapped[r]
      <3>1. Undisturbed(r) /\ Saving(r)
        BY <1>3, <2>2 DEF SaveEnd, Undisturbed, Saving, SaveSteps
      <3>2. whole' = version[r] /\ source' = source /\ UNCHANGED disk /\ pc'[r] = "idle"
            /\ \A q \in Runs \ {r} : pc'[q] = pc[q]
        BY <1>3, <2>2 DEF SaveEnd, End, Typed, TypeOK
      <3>3. dir /\ data = CopyOf(version[r])
        BY <1>3, <3>1 DEF SaveEnd, Writing, CopyOf, Typed, TypeOK
      <3>4. \A q \in Runs : ~Saving(q)'
        BY <3>1, <3>2 DEF Alone, Saving, SaveSteps
      <3> QED
        BY <3>2, <3>3, <3>4 DEF Kept, disk, CopyOf
    <2> QED
      BY <2>1, <2>2
  <1>4. CASE Call(r) /\ ~SaveEnd(r)
    <2>1. whole' = whole
      BY <1>4 DEF Call, RestoreStat, RestoreWalk, RestoreFile, RestoreEnd, RemoveList, Unlink,
         RemoveDir, MakeRoot, MakeParent, Create, Write, hist
    <2>2. ASSUME whole # 0 PROVE UNCHANGED disk /\ \A q \in Runs : ~Saving(q)'
      BY <1>4, <2>2, CallMoves, RestoreCallShares DEF Kept, Saving
    <2>3. source' = source
      BY <1>4, CallMoves
    <2> QED
      BY <2>1, <2>2, <2>3 DEF Kept, disk, CopyOf
  <1> QED
    BY <1>1, <1>2, <1>3, <1>4 DEF Restore, Save, Call

\* How an operation may end, and why.
LEMMA EndStep ==
    ASSUME Typed, Alone, Kept, NEW r \in Runs, Call(r), pc'[r] = "idle",
           Undisturbed(r) => Restoring(r) /\ Writing(r)
    PROVE  /\ status'[r] = "failed" => overlapped[r] \/ faulty
           /\ ~overlapped[r] /\ version[r] = 0 /\ atStart[r] # 0
                => \/ status'[r] = "hit" /\ got'[r] = CopyOf(atStart[r])
                   \/ status'[r] = "failed" /\ faulty
  <1>0. pc[r] # "idle" /\ (Saving(r) => version[r] > 0)
    BY CallMoves DEF Typed, Place
  <1>1. \A s : End(r, s) => status'[r] = s
    BY DEF End, Typed, TypeOK
  <1>2. ~overlapped[r] => Restoring(r) /\ Writing(r)
    BY <1>0 DEF Undisturbed
  <1>3. CASE Saving(r)
    <2>1. status'[r] = "failed" => overlapped[r] \/ faulty
      <3>1. CASE RemoveDir(r)
        BY <1>1, <1>2, <3>1 DEF RemoveDir, Writing, Goto, Typed, TypeOK
      <3>2. CASE MakeRoot(r) \/ MakeParent(r)
        BY <1>1, <3>2, CallMoves DEF MakeRoot, MakeParent, Goto, Typed, TypeOK
      <3>3. CASE Create(r) \/ Write(r)
        BY <1>1, <1>2, <3>3 DEF Create, Write, Writing, Goto, Typed, TypeOK
      <3>4. CASE SaveEnd(r)
        BY <1>1, <3>4 DEF SaveEnd
      <3>5. CASE RemoveList(r) \/ Unlink(r)
        BY <3>5 DEF RemoveList, Unlink, Goto, Typed, TypeOK
      <3> QED
        BY <1>3, <3>1, <3>2, <3>3, <3>4, <3>5 DEF Call, Saving, SaveSteps, RestoreStat, RestoreWalk,
           RestoreFile, RestoreEnd
    <2> QED
      BY <1>0, <1>3, <2>1
  <1>4. CASE RestoreStat(r)
    <2>1. \/ End(r, "miss") /\ ~dir
          \/ End(r, "failed") /\ faulty
      BY <1>4 DEF RestoreStat, Goto, Typed, TypeOK
    <2> QED
      BY <1>1, <1>2, <1>4, <2>1 DEF RestoreStat, Restoring, RestoreSteps, Kept
  <1>5. CASE RestoreWalk(r)
    <2>1. End(r, "failed") /\ (~dir \/ faulty)
      BY <1>5 DEF RestoreWalk, Goto, Typed, TypeOK
    <2> QED
      BY <1>1, <1>2, <1>5, <2>1 DEF RestoreWalk, Restoring
  <1>6. CASE RestoreFile(r)
    <2>1. End(r, "failed") /\ (data[Min(todo[r])] = Absent \/ faulty)
      BY <1>6 DEF RestoreFile, Typed, TypeOK
    <2>2. Min(todo[r]) \in todo[r]
      BY <1>6, NextFile DEF RestoreFile, Typed, TypeOK
    <2> QED
      BY <1>1, <1>2, <1>6, <2>1, <2>2 DEF RestoreFile, Restoring, Present
  <1>7. CASE RestoreEnd(r)
    <2>1. status'[r] = "hit" /\ got'[r] = got[r] /\ pc[r] = "read" /\ todo[r] = {}
      BY <1>1, <1>7 DEF RestoreEnd
    <2>2. ASSUME ~overlapped[r], atStart[r] # 0 PROVE got[r] = CopyOf(atStart[r])
      <3>1. data = CopyOf(atStart[r]) /\ \A f \in Files : got[r][f] = data[f]
        BY <1>2, <2>1, <2>2 DEF Restoring, RestoreSteps, Kept
      <3>2. got[r] \in [Files -> Content] /\ data \in [Files -> Content]
        BY DEF Typed, TypeOK
      <3> QED
        BY <3>1, <3>2
    <2> QED
      BY <2>1, <2>2
  <1> QED
    BY <1>3, <1>4, <1>5, <1>6, <1>7 DEF Call, Saving, SaveSteps, RemoveList, Unlink, RemoveDir,
       MakeRoot, MakeParent, Create, Write, SaveEnd

-----------------------------------------------------------------------------
\* No step of any operation breaks the invariant.
LEMMA InvStep ==
    ASSUME Inv, [Next]_vars
    PROVE  Inv'
  <1>0. CASE UNCHANGED vars
    <2>1. Typed' /\ Alone'
      BY TypedStep, AloneStep DEF Inv
    <2>2. (\A r \in Runs : Undisturbed(r) => Restoring(r) /\ Writing(r))'
      <3>1. UNCHANGED <<dir, data, pc, todo, version, target, handle, got, source, overlapped,
                        whole, atStart>>
        BY <1>0 DEF vars, disk, hist
      <3>2. ASSUME NEW r \in Runs
            PROVE  /\ Undisturbed(r)' <=> Undisturbed(r)
                   /\ Restoring(r)' <=> Restoring(r)
                   /\ Writing(r)' <=> Writing(r)
        BY <3>1 DEF Undisturbed, Restoring, Writing, Present
      <3> QED
        BY <3>2, Zenon DEF Inv
    <2>3. Kept'
      BY <1>0, Zenon DEF vars, disk, hist, Inv, Kept, Saving, CopyOf
    <2>4. FailureNeedsOverlap' /\ QuietRestoreIsExact'
      BY <1>0, Zenon DEF vars, disk, hist, Inv, FailureNeedsOverlap, QuietRestoreIsExact, CopyOf
    <2> QED
      BY <2>1, <2>2, <2>3, <2>4 DEF Inv
  <1>1. Typed' /\ Alone'
    BY TypedStep, AloneStep DEF Inv
  <1>2. SUFFICES ASSUME NEW r \in Runs, Restore(r) \/ Save(r)
                 PROVE  Inv'
    BY <1>0 DEF Next
  <1>3. ASSUME NEW q \in Runs, Undisturbed(q)' PROVE Restoring(q)' /\ Writing(q)'
    BY <1>2, <1>3, OthersKeep, OwnStep DEF Inv
  <1>4. Kept'
    BY <1>2, KeptStep DEF Inv
  <1>5. ASSUME NEW q \in Runs \ {r}, pc'[q] = "idle"
        PROVE  /\ pc[q] = "idle" /\ status'[q] = status[q] /\ got'[q] = got[q] /\ version'[q] = version[q]
               /\ overlapped'[q] <=> overlapped[q]
               /\ faulty' <=> faulty
               /\ atStart'[q] = atStart[q]
               /\ CopyOf(atStart[q])' = CopyOf(atStart[q])
    <2>1. CASE RestoreBegin(r)
      BY <1>5, <2>1, Zenon DEF RestoreBegin, Goto, Inv, Typed, TypeOK, CopyOf
    <2>2. CASE SaveBegin(r)
      <3>1. pc[q] = "idle" /\ (overlapped'[q] <=> overlapped[q]) /\ (faulty' <=> faulty)
        BY <1>5, <2>2, Zenon DEF SaveBegin, Goto, Inv, Typed, TypeOK
      <3>2. /\ status'[q] = status[q] /\ got'[q] = got[q] /\ version'[q] = version[q]
            /\ atStart'[q] = atStart[q] /\ atStart[q] # saves + 1
        BY <2>2, Numbers DEF SaveBegin, Inv, Typed, TypeOK, Place
      <3>3. source'[atStart[q]] = source[atStart[q]]
        BY <2>2, <3>2 DEF SaveBegin, Inv, Typed, TypeOK
      <3> QED
        BY <3>1, <3>2, <3>3, Zenon DEF CopyOf
    <2>3. CASE Call(r)
      BY <1>5, <2>3, CallMoves DEF Inv, CopyOf
    <2> QED
      BY <1>2, <2>1, <2>2, <2>3 DEF Restore, Save, Call
  <1>6. CASE pc'[r] # "idle"
    <2>1. FailureNeedsOverlap'
      BY <1>5, <1>6, Zenon DEF Inv, FailureNeedsOverlap
    <2>2. QuietRestoreIsExact'
      BY <1>5, <1>6, Zenon DEF Inv, QuietRestoreIsExact
    <2> QED
      BY <1>1, <1>3, <1>4, <2>1, <2>2 DEF Inv
  <1>7. CASE pc'[r] = "idle"
    <2>1. Call(r)
      BY <1>2, <1>7 DEF Restore, Save, Call, RestoreBegin, SaveBegin, Goto, Inv, Typed, TypeOK
    <2>2. UNCHANGED <<overlapped, atStart, version, source, faulty>>
      BY <2>1, CallMoves DEF Inv
    <2>3. /\ status'[r] = "failed" => overlapped[r] \/ faulty
          /\ ~overlapped[r] /\ version[r] = 0 /\ atStart[r] # 0
                => \/ status'[r] = "hit" /\ got'[r] = CopyOf(atStart[r])
                   \/ status'[r] = "failed" /\ faulty
      BY <1>7, <2>1, EndStep DEF Inv
    <2>4. CopyOf(atStart[r])' = CopyOf(atStart[r])
      BY <2>2 DEF CopyOf
    <2>5. FailureNeedsOverlap'
      BY <1>5, <2>2, <2>3, Zenon DEF Inv, FailureNeedsOverlap
    <2>6. QuietRestoreIsExact'
      BY <1>5, <2>2, <2>3, <2>4, Zenon DEF Inv, QuietRestoreIsExact
    <2> QED
      BY <1>1, <1>3, <1>4, <2>5, <2>6 DEF Inv
  <1> QED
    BY <1>6, <1>7

\* An empty cache directory and no operation satisfy it.
LEMMA InitInv == Init => Inv
  <1> SUFFICES ASSUME Init PROVE Inv
    OBVIOUS
  <1>1. dir \in BOOLEAN /\ faulty \in BOOLEAN /\ overlapped \in [Runs -> BOOLEAN]
    BY Zenon DEF Init
  <1>2. Present = {} /\ Absent \in Content
    BY Numbers DEF Init, Present
  <1>3. TypeOK
    <2>1. /\ data \in [Files -> Content]
          /\ got \in [Runs -> [Files -> Content]]
      BY <1>2 DEF Init
    <2>2. /\ saves \in 0..MaxSaves /\ restores \in 0..MaxRestores
      BY BoundsAssumption DEF Init
    <2>3. /\ pc \in [Runs -> {"idle"} \cup RestoreSteps \cup SaveSteps]
          /\ todo \in [Runs -> SUBSET Files]
          /\ version \in [Runs -> {0} \cup Versions]
          /\ target \in [Runs -> {0} \cup Files]
          /\ handle \in [Runs -> {"closed", "own", "mixed", "unlinked"}]
          /\ status \in [Runs -> {"none", "hit", "miss", "saved", "failed"}]
          /\ source \in [Versions -> SUBSET Files]
          /\ whole \in {0} \cup Versions
          /\ atStart \in [Runs -> {0} \cup Versions]
      BY DEF Init
    <2> QED
      BY <1>1, <1>2, <2>1, <2>2, <2>3, Zenon DEF TypeOK
  <1>4. Typed
    BY <1>3 DEF Init, Typed, Place, Saving, SaveSteps, RestoreSteps
  <1> QED
    BY <1>4 DEF Init, Inv, Alone, Undisturbed, Kept, Saving, SaveSteps, FailureNeedsOverlap,
       QuietRestoreIsExact

\* For any number of runs, files, saves and restores: an operation on a shared
\* cache fails only if a save of another run overlapped it or the disk fails.
THEOREM FailuresNeedOverlap == Spec => []FailureNeedsOverlap
  <1>1. Inv => FailureNeedsOverlap
    BY DEF Inv
  <1> QED
    BY <1>1, InitInv, InvStep, PTL DEF Spec

\* After a save that no other overlapped, every restore that no save overlaps
\* delivers exactly that save's files.
THEOREM QuietRestoresAreExact == Spec => []QuietRestoreIsExact
  <1>1. Inv => QuietRestoreIsExact
    BY DEF Inv
  <1> QED
    BY <1>1, InitInv, InvStep, PTL DEF Spec
=============================================================================
