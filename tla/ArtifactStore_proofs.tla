------------------------ MODULE ArtifactStore_proofs ------------------------
(***************************************************************************)
(* What ArtifactStore promises about an artifact's row, its archive and    *)
(* those who read them, for any number of saves and of readers.            *)
(***************************************************************************)
EXTENDS ArtifactStore, TLAPS

\* What a Save, in progress or ended, leaves behind.  The row trails the saves
\* by at most the one in progress and those that failed since; the archive is
\* the work of the row's save or of a later one, and once it is written the
\* save in progress can only fail by its row.
Writer ==
    /\ record <= saves
    /\ archive # Absent <=> saves > 0
    /\ archive > 0 => record <= archive /\ archive <= saves
    /\ archive = Short => saves \in cut /\ saves > record
    /\ archive = Torn => saves > record \/ record \in swallowed
    /\ pc # "idle" => record < saves
    /\ pc \in {"stat", "upsert"} =>
         archive = saves \/ (archive = Torn /\ saves \in swallowed)
    /\ ~faulty => swallowed = {}
    /\ ~indexed => record = 0

\* The content is the row's or a later save's work; an incomplete one is the
\* work of a later save, a torn one of a later save or a failing disk.
Traced(r, content) ==
    /\ content # Absent
    /\ content > 0 => found[r] <= content /\ content <= saves
    /\ content = Short => \E n \in cut : n > found[r]
    /\ content = Torn => saves > found[r] \/ faulty

\* What a reader has seen and obtained goes back to its row.
Reader(r) ==
    /\ found[r] <= record
    /\ rpc[r] # "idle" => found[r] > 0
    /\ rpc[r] \in {"extract", "serve"} =>
         /\ Traced(r, seen[r])
         /\ disturbed[r] => saves > found[r]
    /\ rpc[r] = "idle" /\ answer[r] = "restored" =>
         /\ got[r] # Torn
         /\ got[r] = Mixed => saves > found[r]
         /\ got[r] # Mixed => Traced(r, got[r])
    /\ rpc[r] = "idle" /\ answer[r] = "failed" => saves > found[r] \/ faulty
    /\ rpc[r] = "idle" /\ answer[r] = "missing" => found[r] = 0 \/ faulty

Inv == TypeOK /\ Writer /\ SavedIsCurrent /\ \A r \in Readers : Reader(r)

\* All of a reader's state is its own.
Idle(r) ==
    /\ rpc'[r] = rpc[r] /\ seen'[r] = seen[r] /\ got'[r] = got[r]
    /\ answer'[r] = answer[r] /\ found'[r] = found[r]

-----------------------------------------------------------------------------
\* The contents the archive can have are pairwise different, and the saves are
\* numbered above them.
LEMMA ContentFacts ==
    /\ \A v \in Content : v \in Int /\ (v > 0 => v \in Versions)
    /\ \A v \in Versions : v > 0 /\ v \in Nat /\ v <= MaxSaves
    /\ Absent = 0 /\ Torn = -1 /\ Short = -2
    /\ Mixed = -3 /\ Mixed \notin Content
    /\ {Absent, Torn, Short} \subseteq Content /\ Versions \subseteq Content
  BY MaxSavesAssumption DEF Content, Versions, Absent, Torn, Short, Mixed

\* Whatever the archive holds while a reader knows of a row is that row's work
\* or a later save's.
LEMMA ArchiveIsTraced ==
    ASSUME Inv, NEW r \in Readers, found[r] > 0
    PROVE  Traced(r, archive)
  <1> found[r] <= record /\ found[r] \in Int /\ record \in Int /\ saves \in Int
      /\ archive \in Int
    BY ContentFacts DEF Inv, TypeOK, Reader
  <1> QED  BY ContentFacts DEF Inv, Writer, Traced

\* A reader that does nothing keeps its invariant while the saves advance.
LEMMA ReaderKept ==
    ASSUME TypeOK, TypeOK', NEW r \in Readers, Reader(r), Idle(r),
           faulty' = faulty, saves <= saves', record <= record', cut \subseteq cut',
           disturbed'[r] => disturbed[r] \/ saves' > found[r]
    PROVE  Reader(r)'
  <1> found[r] \in Int /\ saves \in Int /\ saves' \in Int /\ record \in Int
      /\ record' \in Int /\ seen[r] \in Int /\ got[r] \in Int
    BY ContentFacts DEF TypeOK
  <1>1. ASSUME Traced(r, seen[r])  PROVE Traced(r, seen[r])'
    BY <1>1 DEF Traced, Idle, Absent, Short, Torn
  <1>2. ASSUME Traced(r, got[r])  PROVE Traced(r, got[r])'
    BY <1>2 DEF Traced, Idle, Absent, Short, Torn
  <1> QED  BY <1>1, <1>2 DEF Reader, Idle, Torn, Mixed

-----------------------------------------------------------------------------
\* Initially there is neither row nor archive.
LEMMA InitInv == Init => Inv
  <1> SUFFICES ASSUME Init  PROVE Inv
    OBVIOUS
  <1>1. TypeOK
    <2>1. disturbed \in [Readers -> BOOLEAN]
      BY Zenon DEF Init
    <2>2. record \in {0} \cup Versions /\ saves \in 0..MaxSaves
      BY MaxSavesAssumption DEF Init
    <2> QED  BY ContentFacts, <2>1, <2>2 DEF Init, TypeOK
  <1>2. Writer /\ SavedIsCurrent
    BY DEF Init, Writer, SavedIsCurrent, Absent, Short, Torn
  <1>3. ASSUME NEW r \in Readers  PROVE Reader(r)
    BY DEF Init, Reader
  <1> QED  BY <1>1, <1>2, <1>3 DEF Inv

\* Overwriting the archive keeps the types.
LEMMA OverwriteTypes ==
    ASSUME NEW content \in Content, Overwrite(content)
    PROVE  archive' \in Content /\ disturbed' \in [Readers -> BOOLEAN]
  BY Zenon DEF Overwrite

\* A Save keeps the types.
LEMMA SaveKeepsTypes == ASSUME Inv, Save  PROVE TypeOK'
  <1> USE ContentFacts, MaxSavesAssumption DEF Inv, TypeOK, Writer
  <1>1. CASE SaveNothing
    BY <1>1 DEF SaveNothing, reading
  <1>2. CASE SaveCreate
    <2>1. archive' \in Content /\ disturbed' \in [Readers -> BOOLEAN]
      BY <1>2, OverwriteTypes DEF SaveCreate
    <2> QED  BY <1>2, <2>1 DEF SaveCreate, reading
  <1>3. CASE SaveWrite
    <2> saves \in Versions
      BY <1>3 DEF SaveWrite, Versions
    <2>1. archive' \in Content /\ disturbed' \in [Readers -> BOOLEAN]
      BY <1>3, OverwriteTypes DEF SaveWrite
    <2>2. cut' \subseteq Versions /\ swallowed' \subseteq Versions
      BY <1>3 DEF SaveWrite
    <2> QED  BY <1>3, <2>1, <2>2 DEF SaveWrite, reading
  <1>4. CASE SaveStat
    BY <1>4 DEF SaveStat, reading
  <1>5. CASE SaveUpsert
    <2> saves \in Versions
      BY <1>5 DEF SaveUpsert, Versions
    <2> QED  BY <1>5 DEF SaveUpsert, reading
  <1> QED  BY <1>1, <1>2, <1>3, <1>4, <1>5 DEF Save

\* A Save keeps row and archive in step.
LEMMA SaveKeepsWriter == ASSUME Inv, Save  PROVE Writer' /\ SavedIsCurrent'
  <1> record \in Nat /\ saves \in Nat /\ archive \in Int
    BY ContentFacts DEF Inv, TypeOK
  <1> USE DEF Inv, Writer, SavedIsCurrent, Absent, Torn, Short
  <1>1. CASE SaveNothing
    BY <1>1 DEF SaveNothing
  <1>2. CASE SaveCreate
    BY <1>2 DEF SaveCreate, Overwrite
  <1>3. CASE SaveWrite
    <2>1. saves > 0 /\ record < saves /\ record' = record /\ saves' = saves
          /\ indexed' = indexed /\ faulty' = faulty
          /\ cut \subseteq cut' /\ swallowed \subseteq swallowed'
      BY <1>3 DEF SaveWrite
    <2>2. CASE pc' = "idle"
      <3>1. /\ saved' = "failed" /\ swallowed' = swallowed
            /\ \/ archive' = Short /\ saves \in cut'
               \/ archive' = Torn
        BY <1>3, <2>2 DEF SaveWrite, Overwrite
      <3> QED  BY <2>1, <2>2, <3>1
    <2>3. CASE pc' # "idle"
      <3>1. /\ pc' = "stat"
            /\ \/ archive' = saves /\ swallowed' = swallowed
               \/ faulty /\ archive' \in {saves, Torn} /\ saves \in swallowed'
        BY <1>3, <2>3 DEF SaveWrite, Overwrite
      <3> QED  BY <2>1, <2>3, <3>1
    <2> QED  BY <2>2, <2>3
  <1>4. CASE SaveStat
    BY <1>4 DEF SaveStat
  <1>5. CASE SaveUpsert
    BY <1>5 DEF SaveUpsert
  <1> QED  BY <1>1, <1>2, <1>3, <1>4, <1>5 DEF Save

\* A Save disturbs the readers that have the archive open, and nobody else.
LEMMA SaveKeepsReaders ==
    ASSUME Inv, Save, TypeOK', NEW r \in Readers  PROVE Reader(r)'
  <1> record \in Int /\ saves \in Nat /\ found[r] \in Int /\ found[r] <= record
    BY ContentFacts DEF Inv, TypeOK, Reader
  <1> USE DEF Inv, Writer
  <1>1. Idle(r) /\ faulty' = faulty
    BY DEF Save, SaveNothing, SaveCreate, SaveWrite, SaveStat, SaveUpsert, reading, Idle
  <1>2. saves <= saves' /\ record <= record' /\ cut \subseteq cut'
    BY DEF Save, SaveNothing, SaveCreate, SaveWrite, SaveStat, SaveUpsert
  <1>3. disturbed'[r] => disturbed[r] \/ saves' > found[r]
    BY DEF Save, SaveNothing, SaveCreate, SaveWrite, SaveStat, SaveUpsert, Overwrite
  <1> QED  BY <1>1, <1>2, <1>3, ReaderKept

-----------------------------------------------------------------------------
\* Readers write neither the row nor the archive.
LEMMA ReadLeavesSave ==
    ASSUME NEW r \in Readers, Read(r)  PROVE Untouched
  BY DEF Read, Query, RestoreOpen, RestoreExtract, DownloadOpen, DownloadServe

\* The types of what readers write.
ReaderTypes ==
    /\ rpc \in [Readers -> {"idle", "open", "extract", "stat", "serve"}]
    /\ seen \in [Readers -> Content] /\ got \in [Readers -> Content \cup {Mixed}]
    /\ disturbed \in [Readers -> BOOLEAN]
    /\ answer \in [Readers ->
           {"none", "missing", "refused", "failed", "restored", "served"}]
    /\ found \in [Readers -> {0} \cup Versions]

\* Ending a request keeps the types.
LEMMA ReplyTypes ==
    ASSUME ReaderTypes, NEW r \in Readers, NEW content \in Content \cup {Mixed},
           NEW a \in {"missing", "refused", "failed", "restored", "served"},
           Reply(r, a, content), found' \in [Readers -> {0} \cup Versions]
    PROVE  ReaderTypes'
  BY ContentFacts DEF ReaderTypes, Reply

\* A reader's step keeps the types.
LEMMA ReadKeepsTypes ==
    ASSUME Inv, NEW r \in Readers, Read(r)  PROVE TypeOK'
  <1> archive \in Content /\ seen[r] \in Content /\ record \in {0} \cup Versions
    BY DEF Inv, TypeOK
  <1> Obtained(r) \subseteq Content \cup {Mixed}
    BY ContentFacts DEF Obtained
  <1> ReaderTypes
    BY DEF ReaderTypes, Inv, TypeOK
  <1> Absent \in Content /\ Torn \in Content
    BY ContentFacts
  <1>0. found' \in [Readers -> {0} \cup Versions]
    BY DEF ReaderTypes, Read, Query, RestoreOpen, RestoreExtract, DownloadOpen,
           DownloadServe
  <1>1. ReaderTypes'
    <2>1. CASE \E a \in {"missing", "refused", "failed", "restored", "served"} :
                 \E content \in Content \cup {Mixed} : Reply(r, a, content)
      BY <1>0, <2>1, ReplyTypes
    <2>2. CASE Query(r, "open") \/ Query(r, "stat")
      <3>1. CASE Reply(r, "missing", Absent)
        BY <2>1, <3>1
      <3>2. CASE ~Reply(r, "missing", Absent)
        BY <1>0, <2>2, <3>2 DEF Query, ReaderTypes
      <3> QED  BY <3>1, <3>2
    <2>3. CASE RestoreOpen(r) \/ DownloadOpen(r)
      <3>1. CASE \E a \in {"missing", "refused", "failed"} : Reply(r, a, Absent)
        BY <2>1, <3>1
      <3>2. CASE ~\E a \in {"missing", "refused", "failed"} : Reply(r, a, Absent)
        BY <1>0, <2>3, <3>2 DEF RestoreOpen, DownloadOpen, ReaderTypes
      <3> QED  BY <3>1, <3>2
    <2>4. CASE RestoreExtract(r)
      BY <2>1, <2>4 DEF RestoreExtract
    <2>5. CASE DownloadServe(r)
      BY <2>1, <2>5 DEF DownloadServe
    <2> QED  BY <2>2, <2>3, <2>4, <2>5 DEF Read
  <1> QED  BY <1>1, ReadLeavesSave DEF ReaderTypes, Inv, TypeOK, Untouched, writing

\* A step of one reader leaves the others alone.
LEMMA ReadKeepsOthers ==
    ASSUME Inv, NEW r \in Readers, Read(r), TypeOK', NEW q \in Readers, q # r
    PROVE  Reader(q)'
  <1>1. Idle(q) /\ disturbed'[q] = disturbed[q]
    BY DEF Inv, TypeOK, Idle, Reply,
           Read, Query, RestoreOpen, RestoreExtract, DownloadOpen, DownloadServe
  <1>2. saves <= saves' /\ record <= record' /\ cut \subseteq cut' /\ faulty' = faulty
    BY ReadLeavesSave, ContentFacts DEF Untouched, writing, Inv, TypeOK
  <1> QED  BY <1>1, <1>2, ReaderKept DEF Inv

\* What a reader takes from the archive is its row's work or a later save's.
LEMMA ReadKeepsOwn ==
    ASSUME Inv, NEW r \in Readers, Read(r), TypeOK'  PROVE Reader(r)'
  <1> record \in Int /\ saves \in Nat /\ found[r] \in Int /\ archive \in Int
      /\ seen[r] \in Int /\ record >= 0 /\ found[r] >= 0
    BY ContentFacts DEF Inv, TypeOK
  <1> ReaderTypes
    BY DEF ReaderTypes, Inv, TypeOK
  <1> Writer /\ Reader(r)
    BY DEF Inv
  <1>0. archive' = archive /\ record' = record /\ saves' = saves /\ cut' = cut
        /\ faulty' = faulty /\ swallowed' = swallowed /\ indexed' = indexed
    BY ReadLeavesSave DEF Untouched, writing
  <1>1. CASE Query(r, "open") \/ Query(r, "stat")
    BY <1>0, <1>1 DEF Query, Reply, Reader, Writer, ReaderTypes
  <1>2. CASE RestoreOpen(r) \/ DownloadOpen(r)
    <2>1. found[r] > 0 /\ found'[r] = found[r]
      BY <1>2 DEF Reader, RestoreOpen, DownloadOpen
    <2>2. Traced(r, archive)
      BY <2>1, ArchiveIsTraced
    <2>3. archive # Absent
      BY <2>2 DEF Traced
    <2>4. CASE rpc'[r] \in {"extract", "serve"}
      <3>1. seen'[r] = archive /\ disturbed'[r] = FALSE
        BY <1>2, <2>4 DEF RestoreOpen, DownloadOpen, Reply, ReaderTypes
      <3>2. Traced(r, seen[r])'
        BY <1>0, <2>1, <2>2, <3>1 DEF Traced, Absent, Short, Torn
      <3> QED  BY <1>0, <2>1, <2>4, <3>1, <3>2 DEF Reader
    <2>5. CASE rpc'[r] \notin {"extract", "serve"}
      <3>1. \/ rpc'[r] = "idle" /\ answer'[r] = "refused"
            \/ faulty /\ rpc'[r] = "idle" /\ answer'[r] \in {"failed", "missing"}
        BY <1>2, <2>3, <2>5 DEF RestoreOpen, DownloadOpen, Reply, ReaderTypes
      <3> QED  BY <1>0, <2>1, <3>1 DEF Reader
    <2> QED  BY <2>4, <2>5
  <1>3. CASE RestoreExtract(r) \/ DownloadServe(r)
    <2>1. found[r] > 0 /\ found'[r] = found[r] /\ rpc[r] \in {"extract", "serve"}
      BY <1>3 DEF Reader, RestoreExtract, DownloadServe
    <2>2. Traced(r, archive) /\ Traced(r, seen[r])
      BY <2>1, ArchiveIsTraced DEF Reader
    <2>3. ASSUME NEW content \in Obtained(r)
          PROVE  /\ content \notin {Torn, Mixed} => Traced(r, content)
                 /\ content = Torn => saves > found[r] \/ faulty
                 /\ content = Mixed => saves > found[r]
      <3>1. archive # Mixed
        BY ContentFacts DEF Inv, TypeOK
      <3> QED  BY <2>1, <2>2, <3>1 DEF Obtained, Traced, Reader
    <2>4. \/ /\ rpc'[r] = "idle" /\ answer'[r] = "restored"
             /\ got'[r] \in Obtained(r) /\ got'[r] # Torn
          \/ /\ rpc'[r] = "idle" /\ answer'[r] = "failed"
             /\ Torn \in Obtained(r) \/ Mixed \in Obtained(r) \/ faulty
          \/ rpc'[r] = "idle" /\ answer'[r] = "served"
      BY <1>3 DEF RestoreExtract, DownloadServe, Reply, ReaderTypes
    <2>5. ASSUME NEW content \in Obtained(r), content \notin {Torn, Mixed},
                 got'[r] = content
          PROVE  Traced(r, got[r])'
      BY <1>0, <2>1, <2>3, <2>5 DEF Traced, Absent, Short, Torn
    <2> QED  BY <1>0, <2>1, <2>3, <2>4, <2>5 DEF Reader, Torn, Mixed
  <1> QED  BY <1>1, <1>2, <1>3 DEF Read

-----------------------------------------------------------------------------
\* Every step keeps the invariant.
LEMMA NextInv == Inv /\ [Next]_vars => Inv'
  <1> SUFFICES ASSUME Inv, [Next]_vars  PROVE Inv'
    OBVIOUS
  <1>1. CASE Save
    BY <1>1, SaveKeepsTypes, SaveKeepsWriter, SaveKeepsReaders DEF Inv
  <1>2. CASE Cancel
    <2>1. TypeOK' /\ Writer' /\ SavedIsCurrent'
      BY <1>2 DEF Cancel, Inv, TypeOK, Writer, SavedIsCurrent, writing, reading
    <2>2. ASSUME NEW r \in Readers  PROVE Reader(r)'
      BY <1>2 DEF Cancel, Inv, Reader, Traced, writing, reading
    <2> QED  BY <2>1, <2>2 DEF Inv
  <1>3. ASSUME NEW r \in Readers, Read(r)  PROVE Inv'
    <2>1. TypeOK'
      BY <1>3, ReadKeepsTypes
    <2>2. Writer' /\ SavedIsCurrent'
      BY <1>3, ReadLeavesSave DEF Inv, Writer, SavedIsCurrent, Untouched, writing
    <2>3. \A q \in Readers : Reader(q)'
      BY <1>3, <2>1, ReadKeepsOwn, ReadKeepsOthers
    <2> QED  BY <2>1, <2>2, <2>3 DEF Inv
  <1>4. CASE UNCHANGED vars
    <2>1. TypeOK' /\ Writer' /\ SavedIsCurrent'
      BY <1>4 DEF vars, Inv, TypeOK, Writer, SavedIsCurrent, writing, reading
    <2>2. ASSUME NEW r \in Readers  PROVE Reader(r)'
      BY <1>4 DEF vars, Inv, Reader, Traced, writing, reading
    <2> QED  BY <2>1, <2>2 DEF Inv
  <1> QED  BY <1>1, <1>2, <1>3, <1>4 DEF Next

\* The invariant holds of every reachable state.
LEMMA Invariance == Spec => []Inv
  BY InitInv, NextInv, PTL DEF Spec

-----------------------------------------------------------------------------
\* The row SaveArtifact writes describes the archive writeArchive left, unless
\* a later Save has begun to replace it or a write error was lost.
THEOREM RowsMatchArchives == Spec => []RowMatchesArchive
  <1>1. Inv => RowMatchesArchive
    <2> SUFFICES ASSUME Inv, record # 0, archive # record
                 PROVE  archive # Absent /\ (saves > record \/ record \in swallowed)
      BY DEF RowMatchesArchive
    <2>1. archive \in Content /\ archive \in Int /\ record \in Nat /\ saves \in Nat
      BY ContentFacts DEF Inv, TypeOK
    <2>2. archive # Absent
      BY <2>1 DEF Inv, Writer
    <2>3. archive > 0 \/ archive = Short \/ archive = Torn
      BY <2>1, <2>2, ContentFacts DEF Content
    <2> QED  BY <2>1, <2>2, <2>3 DEF Inv, Writer
  <1> QED  BY Invariance, <1>1, PTL

\* A Save that returned nil has both its archive and its row in place until
\* the next one begins.
THEOREM SavesAreCurrent == Spec => []SavedIsCurrent
  <1>1. Inv => SavedIsCurrent
    BY DEF Inv
  <1> QED  BY Invariance, <1>1, PTL

\* Restore never reports success for an archive without its end or one older
\* than the row it found, and for a mixture or a failed save's archive only if
\* a save later than the row has begun, with any number of concurrent readers.
THEOREM RestoresAreHonest == Spec => []RestoreIsHonest
  <1>1. Inv => RestoreIsHonest
    <2> SUFFICES ASSUME Inv, NEW r \in Readers,
                        answer[r] = "restored", rpc[r] = "idle"
                 PROVE  \/ got[r] \in found[r]..saves
                        \/ got[r] = Short /\ \E n \in cut : n > found[r]
                        \/ got[r] = Mixed /\ saves > found[r]
      BY DEF RestoreIsHonest
    <2>1. CASE got[r] = Mixed
      BY <2>1 DEF Inv, Reader
    <2>2. CASE got[r] # Mixed
      <3>1. got[r] # Torn /\ Traced(r, got[r])
        BY <2>2 DEF Inv, Reader
      <3>2. got[r] \in Content /\ found[r] \in Int /\ saves \in Int
        BY <2>2, ContentFacts DEF Inv, TypeOK
      <3>3. got[r] = Short \/ got[r] > 0
        BY <3>1, <3>2 DEF Traced, Content, Versions
      <3> QED  BY <3>1, <3>2, <3>3, ContentFacts DEF Traced
    <2> QED  BY <2>1, <2>2
  <1> QED  BY Invariance, <1>1, PTL

\* On a sound disk, Restore fails only when a later Save has overwritten the
\* archive, and neither it nor DownloadArtifact misses a row's archive.
THEOREM FailuresHaveCauses == Spec => []RestoreFailureHasCause
  <1>1. Inv => RestoreFailureHasCause
    BY DEF Inv, Reader, RestoreFailureHasCause
  <1> QED  BY Invariance, <1>1, PTL

=============================================================================
