--------------------------- MODULE ArtifactStore ---------------------------
(***************************************************************************)
(* One artifact of one run (internal/artifact): the archive file and its   *)
(* row in the artifacts table.  The run's steps save it one after another; *)
(* restores (of later steps, or of other runs that name the run) and       *)
(* downloads read it at the same time, with no lock.                       *)
(*                                                                         *)
(* The archive's content is the number of the save whose matches it holds, *)
(* Short (a well-formed archive that lacks some of them) or Torn (it ends  *)
(* before tar's end marker).  A reader may also obtain bytes of several    *)
(* saves, Mixed.  extractArchive stops at tar's end marker: it never comes *)
(* to gzip's checksum, and Mixed may look well-formed.                     *)
(***************************************************************************)
EXTENDS Integers

CONSTANTS
    Readers,    \* restores and downloads
    MaxSaves    \* bound: saves begun

ASSUME MaxSavesAssumption == MaxSaves \in Nat

VARIABLES
    archive,    \* content of <root>/<run>/<name>.tar.gz
    record,     \* the save the row describes, 0 for no row
    indexed,    \* the manager has a store
    saves,      \* number of saves that reached the archive
    pc,         \* where Manager.Save is
    saved,      \* how the last Save ended
    cancelled,  \* the run's context is cancelled
    faulty,     \* disk and database may fail
    rpc,        \* rpc[r]: where reader r is
    seen,       \* seen[r]: the archive when it was opened
    disturbed,  \* disturbed[r]: the archive has changed since
    got,        \* got[r]: what the reader has obtained
    answer,     \* answer[r]: how its last request ended
    cut,        \* history: the saves that failed and left a Short archive
    swallowed,  \* history: the saves that lost a write error
    found       \* history: found[r]: the row the reader found

writing == <<archive, record, saves, pc, saved>>
reading == <<rpc, seen, got, answer, found>>
vars == <<writing, indexed, cancelled, faulty, reading, disturbed, cut, swallowed>>

-----------------------------------------------------------------------------
Absent   == 0
Torn     == -1
Short    == -2
Mixed    == -3
Versions == 1..MaxSaves
Content  == Versions \cup {Absent, Torn, Short}

Init ==
    /\ archive = Absent
    /\ record = 0
    /\ indexed \in BOOLEAN
    /\ saves = 0
    /\ pc = "idle"
    /\ saved = "none"
    /\ cancelled = FALSE
    /\ faulty \in BOOLEAN
    /\ rpc = [r \in Readers |-> "idle"]
    /\ seen = [r \in Readers |-> Absent]
    /\ disturbed = [r \in Readers |-> FALSE]
    /\ got = [r \in Readers |-> Absent]
    /\ answer = [r \in Readers |-> "none"]
    /\ cut = {}
    /\ swallowed = {}
    /\ found = [r \in Readers |-> 0]

\* The archive is overwritten in place: whoever has it open notices.
Overwrite(content) ==
    /\ archive' = content
    /\ disturbed' = [r \in Readers |-> disturbed[r] \/ rpc[r] \in {"extract", "serve"}]

-----------------------------------------------------------------------------
(* Manager.Save *)

\* An invalid name or path, or no match: nothing is touched.
SaveNothing ==
    /\ pc = "idle" /\ ~cancelled
    /\ saved' \in {"refused", "ignored"}
    /\ UNCHANGED <<archive, record, saves, pc, indexed, cancelled, faulty,
                   reading, disturbed, cut, swallowed>>

\* os.Create truncates what an earlier save left.
SaveCreate ==
    /\ pc = "idle" /\ ~cancelled /\ saves < MaxSaves
    /\ \/ /\ Overwrite(Torn)
          /\ saves' = saves + 1
          /\ pc' = "write"
          /\ UNCHANGED saved
       \/ /\ faulty
          /\ saved' = "failed"
          /\ UNCHANGED <<archive, disturbed, saves, pc>>
    /\ UNCHANGED <<record, indexed, cancelled, faulty, reading, cut, swallowed>>

\* Mutant of SaveWrite: the error of writeArchive is dropped.
SaveWriteAnyway ==
    /\ pc = "write"
    /\ \E content \in {saves, Short, Torn} :
         /\ Overwrite(content)
         /\ cut' = IF content = Short THEN cut \cup {saves} ELSE cut
    /\ pc' = "stat"
    /\ UNCHANGED <<record, saves, saved, indexed, cancelled, faulty, reading, swallowed>>

\* writeArchive.  A file or directory that cannot be read ends it, and its
\* deferred Close calls finish the archive: well-formed if the error came
\* between two entries.  Those calls also write what is still buffered, and
\* their errors are lost, with the end marker or with the checksum alone.
SaveWrite ==
    /\ pc = "write"
    /\ \/ /\ Overwrite(saves)
          /\ pc' = "stat"
          /\ UNCHANGED <<saved, cut, swallowed>>
       \/ /\ \E content \in {Short, Torn} :
               /\ Overwrite(content)
               /\ cut' = IF content = Short THEN cut \cup {saves} ELSE cut
          /\ pc' = "idle"
          /\ saved' = "failed"
          /\ UNCHANGED swallowed
       \/ /\ faulty
          /\ \E content \in {saves, Torn} : Overwrite(content)
          /\ pc' = "stat"
          /\ swallowed' = swallowed \cup {saves}
          /\ UNCHANGED <<saved, cut>>
    /\ UNCHANGED <<record, saves, indexed, cancelled, faulty, reading>>

\* os.Stat for the size.
SaveStat ==
    /\ pc = "stat"
    /\ \/ pc' = "upsert" /\ UNCHANGED saved
       \/ faulty /\ pc' = "idle" /\ saved' = "failed"
    /\ UNCHANGED <<archive, record, saves, indexed, cancelled, faulty, reading,
                   disturbed, cut, swallowed>>

\* Mutant of SaveUpsert: ON CONFLICT DO NOTHING.
SaveInsert ==
    /\ pc = "upsert"
    /\ pc' = "idle"
    /\ saved' = "saved"
    /\ record' = IF indexed /\ record = 0 THEN saves ELSE record
    /\ UNCHANGED <<archive, saves, indexed, cancelled, faulty, reading,
                   disturbed, cut, swallowed>>

\* SaveArtifact, under the run's context.
SaveUpsert ==
    /\ pc = "upsert"
    /\ pc' = "idle"
    /\ \/ /\ ~indexed
          /\ saved' = "saved"
          /\ UNCHANGED record
       \/ /\ indexed /\ ~cancelled
          /\ saved' = "saved"
          /\ record' = saves
       \/ /\ indexed /\ (cancelled \/ faulty)
          /\ saved' = "failed"
          /\ UNCHANGED record
    /\ UNCHANGED <<archive, saves, indexed, cancelled, faulty, reading,
                   disturbed, cut, swallowed>>

\* Service.Cancel; the run begins no further step.
Cancel ==
    /\ ~cancelled
    /\ cancelled' = TRUE
    /\ UNCHANGED <<writing, indexed, faulty, reading, disturbed, cut, swallowed>>

-----------------------------------------------------------------------------
(* Manager.Restore and Handler.DownloadArtifact *)

Reply(r, a, content) ==
    /\ rpc' = [rpc EXCEPT ![r] = "idle"]
    /\ answer' = [answer EXCEPT ![r] = a]
    /\ got' = [got EXCEPT ![r] = content]
    /\ seen' = [seen EXCEPT ![r] = Absent]
    /\ disturbed' = [disturbed EXCEPT ![r] = FALSE]

Untouched == UNCHANGED <<writing, indexed, cancelled, faulty, cut, swallowed>>

\* Mutant of Query: the archive is looked for without its row.
QueryNone(r, next) ==
    /\ rpc[r] = "idle"
    /\ found' = [found EXCEPT ![r] = record]
    /\ rpc' = [rpc EXCEPT ![r] = next]
    /\ UNCHANGED <<seen, got, answer, disturbed>>
    /\ Untouched

\* GetArtifact; "missing" is the error of a manager without a store, of a
\* query without a row, or of the database.
Query(r, next) ==
    /\ rpc[r] = "idle"
    /\ found' = [found EXCEPT ![r] = record]
    /\ \/ /\ indexed /\ record # 0
          /\ rpc' = [rpc EXCEPT ![r] = next]
          /\ answer' = [answer EXCEPT ![r] = "none"]
          /\ got' = [got EXCEPT ![r] = Absent]
          /\ UNCHANGED <<seen, disturbed>>
       \/ /\ ~indexed \/ record = 0 \/ faulty
          /\ Reply(r, "missing", Absent)
    /\ Untouched

\* workspacePath refuses the target, or os.Open opens the archive.
RestoreOpen(r) ==
    /\ rpc[r] = "open"
    /\ \/ /\ archive # Absent
          /\ rpc' = [rpc EXCEPT ![r] = "extract"]
          /\ seen' = [seen EXCEPT ![r] = archive]
          /\ disturbed' = [disturbed EXCEPT ![r] = FALSE]
          /\ UNCHANGED <<got, answer>>
       \/ Reply(r, "refused", Absent)
       \/ /\ archive = Absent \/ faulty
          /\ Reply(r, "failed", Absent)
    /\ UNCHANGED found
    /\ Untouched

\* What a reader obtains from a file that may change under it: what was
\* buffered at once, what is there at the end, or some of both.
Obtained(r) == {archive} \cup (IF disturbed[r] THEN {seen[r], Mixed} ELSE {})

\* Mutant of RestoreExtract: an archive that ends early is taken for its end.
RestoreExtractLenient(r) ==
    /\ rpc[r] = "extract"
    /\ \E content \in Obtained(r) : Reply(r, "restored", content)
    /\ UNCHANGED found
    /\ Untouched

\* extractArchive, entry by entry, to tar's end marker: without one it fails.
\* A mixture fails where tar or the decoder notices, and nothing else looks.
RestoreExtract(r) ==
    /\ rpc[r] = "extract"
    /\ \E content \in Obtained(r) :
         \/ content # Torn /\ Reply(r, "restored", content)
         \/ content \in {Torn, Mixed} /\ Reply(r, "failed", Torn)
         \/ faulty /\ Reply(r, "failed", Torn)
    /\ UNCHANGED found
    /\ Untouched

\* os.Stat, then http.ServeFile opens the archive and sends the header.
DownloadOpen(r) ==
    /\ rpc[r] = "stat"
    /\ \/ /\ archive # Absent
          /\ rpc' = [rpc EXCEPT ![r] = "serve"]
          /\ seen' = [seen EXCEPT ![r] = archive]
          /\ disturbed' = [disturbed EXCEPT ![r] = FALSE]
          /\ UNCHANGED <<got, answer>>
       \/ /\ archive = Absent \/ faulty
          /\ Reply(r, "missing", Absent)
    /\ UNCHANGED found
    /\ Untouched

\* The bytes are sent as they are, with status 200.
DownloadServe(r) ==
    /\ rpc[r] = "serve"
    /\ \E content \in Obtained(r) : Reply(r, "served", content)
    /\ UNCHANGED found
    /\ Untouched

-----------------------------------------------------------------------------
Save == SaveNothing \/ SaveCreate \/ SaveWrite \/ SaveStat \/ SaveUpsert

Read(r) ==
    \/ Query(r, "open") \/ RestoreOpen(r) \/ RestoreExtract(r)
    \/ Query(r, "stat") \/ DownloadOpen(r) \/ DownloadServe(r)

Next == Save \/ Cancel \/ \E r \in Readers : Read(r)

Spec == Init /\ [][Next]_vars

-----------------------------------------------------------------------------
(* Properties *)

TypeOK ==
    /\ archive \in Content
    /\ record \in {0} \cup Versions
    /\ saves \in 0..MaxSaves
    /\ pc \in {"idle", "write", "stat", "upsert"}
    /\ saved \in {"none", "saved", "failed", "refused", "ignored"}
    /\ indexed \in BOOLEAN /\ cancelled \in BOOLEAN /\ faulty \in BOOLEAN
    /\ rpc \in [Readers -> {"idle", "open", "extract", "stat", "serve"}]
    /\ seen \in [Readers -> Content] /\ got \in [Readers -> Content \cup {Mixed}]
    /\ disturbed \in [Readers -> BOOLEAN]
    /\ answer \in [Readers -> {"none", "missing", "refused", "failed", "restored", "served"}]
    /\ cut \subseteq Versions /\ swallowed \subseteq Versions
    /\ found \in [Readers -> {0} \cup Versions]

\* A row always describes an archive that exists, and describes it rightly
\* unless a later save has begun to replace it or its own lost a write error:
\* the row is written last.
RowMatchesArchive ==
    record # 0 /\ archive # record =>
        archive # Absent /\ (saves > record \/ record \in swallowed)

\* After a Save that reported success the row and the archive are its own,
\* also when it replaced an earlier one, until the next Save begins.
SavedIsCurrent ==
    saved = "saved" /\ pc = "idle" /\ indexed =>
        record = saves /\ (archive = saves \/ saves \in swallowed)

\* A restore that reports success has delivered one save whole, at least as
\* new as the row it went by, unless a later save than the row's came between:
\* then also that save's incomplete archive if it failed, or a mixture of the
\* two.  What its row describes is never delivered in part.
RestoreIsHonest ==
    \A r \in Readers :
        answer[r] = "restored" /\ rpc[r] = "idle" =>
            \/ got[r] \in found[r]..saves
            \/ got[r] = Short /\ \E n \in cut : n > found[r]
            \/ got[r] = Mixed /\ saves > found[r]

\* A restore or a download that finds a row finds its archive, and a restore
\* fails only because a later save has overwritten the archive or the disk,
\* now or when it was written, failed.
RestoreFailureHasCause ==
    \A r \in Readers :
        rpc[r] = "idle" /\ ~faulty =>
            /\ answer[r] = "failed" => saves > found[r]
            /\ answer[r] = "missing" => found[r] = 0

=============================================================================
