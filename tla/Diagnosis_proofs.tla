--------------------------- MODULE Diagnosis_proofs ---------------------------
(***************************************************************************)
(* Theorems of Diagnosis, for any built-in list, any seed directory, any   *)
(* log and any reply: what the library holds once it is loaded, which of   *)
(* its seeds a diagnosis shows and quotes, how its ends agree, what the    *)
(* lines of a step's log owe to its streams, and what sanitizing a log     *)
(* does to the verdict on it.                                              *)
(***************************************************************************)
EXTENDS Diagnosis, FiniteSetTheorems, Recursion

-----------------------------------------------------------------------------
(* Loading                                                                   *)

\* The entry e of file f defines a seed; it has been loaded.
Defines(f, e) == f \in 0..Len(files) /\ e \in DOMAIN Contents(f) /\ Contents(f)[e].id # NoId
Loaded(f, e)  == Defines(f, e) /\ (f < file \/ (pc = "entry" /\ f = file /\ e < entry))
Past(h, k, f, e) == h > f \/ (h = f /\ k > e)

Loading == {"file", "entry", "suggested"}

Position ==
    /\ files \in Seq(Seq(Seed)) /\ seeds \in Seq(Seed)
    /\ file \in 1..Len(files) + 1
    /\ pc = "entry" =>
         file <= Len(files) /\ files[file] # Broken /\ entry \in 1..Len(files[file]) + 1
    /\ pc \notin Loading => file = Len(files) + 1

\* The index of the file being loaded is that of the library.
Indexed ==
    pc = "entry" =>
        /\ DOMAIN index = {seeds[p].id : p \in DOMAIN seeds}
        /\ \A p \in DOMAIN seeds : index[seeds[p].id] = p

\* The library is that of the entries loaded so far.
Unique == \A p, q \in DOMAIN seeds : seeds[p].id = seeds[q].id => p = q
InPlace == Len(Builtin) <= Len(seeds) /\ \A i \in DOMAIN Builtin : seeds[i].id = Builtin[i].id
Covers == \A f, e \in Nat : Loaded(f, e) => \E p \in DOMAIN seeds : seeds[p].id = Contents(f)[e].id
Prevails(f, e) ==
    \A h, k \in Nat : Loaded(h, k) /\ Past(h, k, f, e) => Contents(h)[k].id # Contents(f)[e].id
Latest ==
    \A p \in DOMAIN seeds : \E f, e \in Nat :
        Loaded(f, e) /\ seeds[p] = Contents(f)[e] /\ Prevails(f, e)

LoadInv == Position /\ Indexed /\ Unique /\ InPlace /\ Covers /\ Latest

LEMMA IndexOfUnique ==
    ASSUME Unique, seeds \in Seq(Seed)
    PROVE  /\ DOMAIN IndexOf(seeds) = {seeds[p].id : p \in DOMAIN seeds}
           /\ \A p \in DOMAIN seeds : IndexOf(seeds)[seeds[p].id] = p
<1>1. ASSUME NEW p \in DOMAIN seeds PROVE IndexOf(seeds)[seeds[p].id] = p
  <2> DEFINE last(i) == seeds[i].id = seeds[p].id /\
                        \A j \in DOMAIN seeds : seeds[j].id = seeds[p].id => j <= i
  <2>1. last(p)
    BY DEF Unique
  <2>2. \A i \in DOMAIN seeds : last(i) => i = p
    BY DEF Unique
  <2>3. (CHOOSE i \in DOMAIN seeds : last(i)) = p
    BY <2>1, <2>2
  <2> QED
    BY <2>3 DEF IndexOf
<1> QED
  BY <1>1 DEF IndexOf

LEMMA FileAt ==
    ASSUME Position, NEW f \in 1..Len(files)
    PROVE  /\ files[f] \in Seq(Seed) /\ DOMAIN files[f] = 1..Len(files[f])
           /\ Contents(f) = IF files[f] = Broken THEN <<>> ELSE files[f]
<1>1. files[f] \in Seq(Seed)
  BY DEF Position
<1> QED
  BY <1>1 DEF Contents, Position

LEMMA LoadInit == Init => LoadInv
<1> SUFFICES ASSUME Init PROVE LoadInv
  OBVIOUS
<1>1. PICK c \in Cases : files = c.files
  BY DEF Init
<1>2. files \in Seq(Seq(Seed)) /\ Builtin \in Seq(Seed)
  BY <1>1, CasesAssumption, BuiltinAssumption
<1>3. pc = "file" /\ file = 1 /\ entry = 1 /\ seeds = Builtin
  BY DEF Init
<1>4. Position /\ Indexed
  BY <1>2, <1>3 DEF Position, Indexed, Loading
<1>5. Unique /\ InPlace
  <2>1. Len(Builtin) \in Nat /\ \A i, j \in DOMAIN Builtin : Builtin[i].id = Builtin[j].id => i = j
    BY <1>2, BuiltinAssumption
  <2>2. Unique
    BY <1>3, <2>1 DEF Unique
  <2>3. InPlace
    BY <1>3, <2>1 DEF InPlace
  <2> QED
    BY <2>2, <2>3
<1>6. \A f, e \in Nat : Loaded(f, e) <=> f = 0 /\ e \in DOMAIN Builtin
  <2>1. Contents(0) = Builtin
    BY DEF Contents
  <2>2. Len(files) \in Nat
    BY <1>2
  <2>3. \A e \in DOMAIN Builtin : Builtin[e].id # NoId
    BY BuiltinAssumption
  <2>4. \A f, e \in Nat : Loaded(f, e) <=> Defines(f, e) /\ f < 1
    BY <1>3 DEF Loaded
  <2>5. \A e \in Nat : Defines(0, e) <=> e \in DOMAIN Builtin
    BY <2>1, <2>2, <2>3 DEF Defines
  <2>6. \A f \in Nat : f < 1 <=> f = 0
    OBVIOUS
  <2> QED
    BY <2>4, <2>5, <2>6
<1>7. Covers
  BY <1>3, <1>6 DEF Covers, Contents
<1>8. Latest
  <2> SUFFICES ASSUME NEW p \in DOMAIN seeds
               PROVE  p \in Nat /\ Loaded(0, p) /\ seeds[p] = Contents(0)[p] /\ Prevails(0, p)
    BY DEF Latest
  <2>1. p \in DOMAIN Builtin /\ p \in Nat
    BY <1>2, <1>3
  <2>2. \A k : Contents(0)[k] = Builtin[k]
    BY DEF Contents
  <2>3. ASSUME NEW h \in Nat, NEW k \in Nat, Loaded(h, k), Past(h, k, 0, p)
        PROVE  Contents(h)[k].id # Contents(0)[p].id
    <3>1. h = 0 /\ k \in DOMAIN Builtin /\ k # p
      BY <1>6, <2>1, <2>3 DEF Past
    <3> QED
      BY <3>1, <2>1, <2>2, BuiltinAssumption
  <2> QED
    BY <1>3, <1>6, <2>1, <2>2, <2>3 DEF Prevails
<1> QED
  BY <1>4, <1>5, <1>7, <1>8 DEF LoadInv

\* A step that moves on without loading anything.
LEMMA SameLoaded ==
    ASSUME LoadInv, UNCHANGED <<files, seeds>>, Position', Indexed',
           \A f, e \in Nat : Loaded(f, e)' <=> Loaded(f, e)
    PROVE  LoadInv'
<1>1. \A f : Contents(f)' = Contents(f)
  BY DEF Contents
<1>2. Covers'
  BY <1>1 DEF LoadInv, Covers
<1>3. ASSUME NEW f \in Nat, NEW e \in Nat, Prevails(f, e) PROVE Prevails(f, e)'
  BY <1>1, <1>3 DEF Prevails, Past
<1>4. Latest'
  BY <1>1, <1>3 DEF LoadInv, Latest
<1> QED
  BY <1>2, <1>4 DEF LoadInv, Unique, InPlace

\* A step that neither loads nor moves on to another entry.
LEMMA SameLibrary ==
    ASSUME LoadInv, UNCHANGED <<files, file, entry, seeds, index>>,
           pc = "entry" <=> pc' = "entry", pc' \in Loading \/ file = Len(files) + 1
    PROVE  LoadInv'
<1>1. Position'
  BY DEF LoadInv, Position
<1>2. Indexed'
  BY DEF LoadInv, Indexed
<1>3. \A f, e \in Nat : Loaded(f, e)' <=> Loaded(f, e)
  BY DEF Loaded, Defines, Contents
<1> QED
  BY <1>1, <1>2, <1>3, SameLoaded

LEMMA OpenKeeps == LoadInv /\ OpenFile => LoadInv'
<1> SUFFICES ASSUME LoadInv, OpenFile PROVE LoadInv'
  OBVIOUS
<1>1. Position'
  BY DEF OpenFile, LoadInv, Position, Loading, loading
<1>2. Indexed'
  BY IndexOfUnique DEF OpenFile, LoadInv, Position, Indexed
<1>3. ASSUME NEW f \in Nat, NEW e \in Nat PROVE Loaded(f, e)' <=> Loaded(f, e)
  <2>1. file \in 1..Len(files) /\ Len(files) \in Nat /\ pc = "file" /\ files' = files
    BY DEF OpenFile, LoadInv, Position
  <2>2. Contents(f)' = Contents(f)
    BY <2>1 DEF Contents
  <2>3. CASE files[file] = Broken
    <3>1. file' = file + 1 /\ pc' = "file" /\ Contents(file) = <<>>
      BY <2>1, <2>3, FileAt DEF OpenFile, LoadInv
    <3>2. Defines(f, e) => f # file
      BY <3>1 DEF Defines
    <3> QED
      BY <2>1, <2>2, <3>1, <3>2 DEF Loaded, Defines
  <2>4. CASE files[file] # Broken
    <3>1. file' = file /\ pc' = "entry" /\ entry' = 1 /\ DOMAIN Contents(file) = 1..Len(files[file])
      BY <2>1, <2>4, FileAt DEF OpenFile, LoadInv
    <3>2. Defines(f, e) /\ f = file => ~(e < 1)
      BY <3>1 DEF Defines
    <3>3. Defines(f, e)' <=> Defines(f, e)
      BY <2>1, <2>2 DEF Defines
    <3> QED
      BY <2>1, <3>1, <3>2, <3>3 DEF Loaded
  <2> QED
    BY <2>3, <2>4
<1> QED
  BY <1>1, <1>2, <1>3, SameLoaded DEF OpenFile

LEMMA CloseKeeps == LoadInv /\ CloseFile => LoadInv'
<1> SUFFICES ASSUME LoadInv, CloseFile PROVE LoadInv'
  OBVIOUS
<1>1. Position' /\ Indexed'
  BY DEF CloseFile, LoadInv, Position, Indexed, Loading
<1>2. ASSUME NEW f \in Nat, NEW e \in Nat PROVE Loaded(f, e)' <=> Loaded(f, e)
  <2>1. /\ file \in 1..Len(files) /\ Len(files) \in Nat /\ files[file] # Broken
        /\ entry \in Nat /\ entry > Len(files[file])
        /\ pc = "entry" /\ pc' = "file" /\ file' = file + 1 /\ files' = files
    BY FileAt DEF CloseFile, LoadInv, Position
  <2>2. Contents(f)' = Contents(f)
    BY <2>1 DEF Contents
  <2>3. DOMAIN Contents(file) = 1..Len(files[file]) /\ Len(files[file]) \in Nat
    BY <2>1, FileAt DEF LoadInv, Position
  <2>4. Defines(f, e) /\ f = file => e < entry
    BY <2>1, <2>3 DEF Defines
  <2>5. Defines(f, e)' <=> Defines(f, e)
    BY <2>1, <2>2 DEF Defines
  <2> QED
    BY <2>1, <2>4, <2>5 DEF Loaded
<1> QED
  BY <1>1, <1>2, SameLoaded DEF CloseFile

\* What loading one seed more does to the library: some position holds the new
\* seed, any other what it held, and no other has the id of the new one.
LEMMA LoadOne ==
    ASSUME LoadInv, pc = "entry", entry <= Len(files[file]), files' = files, file' = file,
           entry' = entry + 1, pc' = pc,
           Contents(file)[entry].id # NoId, seeds' \in Seq(Seed),
           NEW p \in DOMAIN seeds', seeds'[p] = Contents(file)[entry],
           DOMAIN seeds' = DOMAIN seeds \cup {p},
           \A q \in DOMAIN seeds' \ {p} : seeds'[q] = seeds[q] /\ seeds[q].id # seeds'[p].id,
           p \in DOMAIN seeds => seeds[p].id = seeds'[p].id
    PROVE  Unique' /\ Covers' /\ Latest'
<1>1. /\ file \in Nat /\ entry \in Nat /\ file \in 0..Len(files) /\ Len(files) \in Nat
      /\ entry \in DOMAIN Contents(file)
  BY FileAt DEF LoadInv, Position
<1>2. \A f : Contents(f)' = Contents(f)
  BY DEF Contents
<1>3. ASSUME NEW f \in Nat, NEW e \in Nat
      PROVE  Loaded(f, e)' <=> Loaded(f, e) \/ (f = file /\ e = entry)
  <2>1. Defines(f, e)' <=> Defines(f, e)
    BY <1>2 DEF Defines
  <2>2. f = file /\ e = entry => Defines(f, e)
    BY <1>1 DEF Defines
  <2> QED
    BY <1>1, <2>1, <2>2 DEF Loaded
<1>4. \A f, e \in Nat : Loaded(f, e) => Past(file, entry, f, e) /\ ~Past(f, e, file, entry)
  BY <1>1 DEF Loaded, Past
<1>5. Unique'
  BY DEF LoadInv, Unique
<1>6. Covers'
  <2> SUFFICES ASSUME NEW f \in Nat, NEW e \in Nat, Loaded(f, e)'
               PROVE  \E q \in DOMAIN seeds' : seeds'[q].id = Contents(f)[e].id
    BY <1>2 DEF Covers
  <2>1. CASE f = file /\ e = entry
    BY <2>1
  <2>2. CASE Loaded(f, e)
    <3>1. PICK q \in DOMAIN seeds : seeds[q].id = Contents(f)[e].id
      BY <2>2 DEF LoadInv, Covers
    <3>2. seeds'[q].id = seeds[q].id
      BY <3>1
    <3> QED
      BY <3>1, <3>2
  <2> QED
    BY <1>3, <2>1, <2>2
<1>7. Latest'
  <2> SUFFICES ASSUME NEW q \in DOMAIN seeds'
               PROVE  \E f, e \in Nat :
                        Loaded(f, e)' /\ seeds'[q] = Contents(f)[e] /\ Prevails(f, e)'
    BY <1>2 DEF Latest
  <2>1. CASE q = p
    <3>1. PICK g \in Nat, k \in Nat : g = file /\ k = entry
      BY <1>1
    <3>2. Loaded(g, k)' /\ seeds'[q] = Contents(g)[k]
      BY <1>3, <2>1, <3>1
    <3>3. \A h, j \in Nat : Loaded(h, j)' => ~Past(h, j, g, k)
      BY <1>3, <1>4, <3>1 DEF Past
    <3>4. Prevails(g, k)'
      BY <3>3 DEF Prevails, Past
    <3> QED
      BY <3>2, <3>4
  <2>2. CASE q # p
    <3>1. q \in DOMAIN seeds /\ seeds'[q] = seeds[q] /\ seeds[q].id # Contents(file)[entry].id
      BY <2>2
    <3>2. PICK f \in Nat, e \in Nat : Loaded(f, e) /\ seeds[q] = Contents(f)[e] /\ Prevails(f, e)
      BY <3>1 DEF LoadInv, Latest
    <3>3. ASSUME NEW h \in Nat, NEW k \in Nat, Loaded(h, k)', Past(h, k, f, e)
          PROVE  Contents(h)[k].id # Contents(f)[e].id
      BY <1>3, <3>1, <3>2, <3>3 DEF Prevails
    <3>4. Prevails(f, e)'
      BY <1>2, <3>3 DEF Prevails, Past
    <3> QED
      BY <1>3, <3>1, <3>2, <3>4
  <2> QED
    BY <2>1, <2>2
<1> QED
  BY <1>5, <1>6, <1>7

LEMMA EntryKeeps == LoadInv /\ LoadEntry => LoadInv'
<1> SUFFICES ASSUME LoadInv, LoadEntry PROVE LoadInv'
  OBVIOUS
<1> DEFINE seed == files[file][entry]
<1>1. /\ file \in 1..Len(files) /\ files[file] # Broken /\ files[file] \in Seq(Seed)
      /\ pc = "entry" /\ pc' = pc /\ files' = files /\ file' = file /\ entry' = entry + 1
      /\ entry \in DOMAIN files[file] /\ entry \in 1..Len(files[file]) /\ Len(files[file]) \in Nat
  BY DEF LoadEntry, LoadInv, Position
<1>2. seed \in Seed /\ Contents(file) = files[file] /\ Contents(file)[entry] = seed
  BY <1>1, FileAt DEF LoadInv
<1>3. seeds \in Seq(Seed) /\ Len(seeds) \in Nat /\ DOMAIN seeds = 1..Len(seeds)
  BY DEF LoadInv, Position
<1>4. ASSUME seeds' \in Seq(Seed) PROVE Position'
  BY <1>1, <1>4 DEF LoadInv, Position, Loading
<1>5. CASE seed.id = NoId /\ UNCHANGED <<seeds, index>>
  <2>1. Position' /\ Indexed'
    BY <1>1, <1>3, <1>4, <1>5 DEF LoadInv, Indexed
  <2>2. ASSUME NEW f \in Nat, NEW e \in Nat PROVE Loaded(f, e)' <=> Loaded(f, e)
    <3>1. Contents(f)' = Contents(f)
      BY <1>1 DEF Contents
    <3>2. Defines(f, e)' <=> Defines(f, e)
      BY <1>1, <3>1 DEF Defines
    <3>3. Defines(f, e) => ~(f = file /\ e = entry)
      BY <1>2, <1>5 DEF Defines
    <3> QED
      BY <1>1, <3>2, <3>3 DEF Loaded
  <2> QED
    BY <1>1, <1>5, <2>1, <2>2, SameLoaded
<1>6. CASE /\ seed.id # NoId /\ seed.id \in DOMAIN index
           /\ seeds' = [seeds EXCEPT ![index[seed.id]] = seed] /\ UNCHANGED index
  <2>1. PICK p \in DOMAIN seeds : seeds[p].id = seed.id /\ index[seed.id] = p
    BY <1>1, <1>6 DEF LoadInv, Indexed
  <2>2. /\ seeds' \in Seq(Seed) /\ DOMAIN seeds' = DOMAIN seeds /\ seeds'[p] = seed
        /\ Len(seeds') = Len(seeds)
        /\ \A q \in DOMAIN seeds \ {p} : seeds'[q] = seeds[q]
    BY <1>2, <1>3, <1>6, <2>1
  <2>3. \A q \in DOMAIN seeds : seeds'[q].id = seeds[q].id
    BY <2>1, <2>2
  <2>4. \A q \in DOMAIN seeds \ {p} : seeds[q].id # seed.id
    BY <2>1 DEF LoadInv, Unique
  <2>5. Unique' /\ Covers' /\ Latest'
    BY <1>1, <1>2, <1>6, <2>1, <2>2, <2>4, LoadOne
  <2>6. Indexed'
    BY <1>1, <1>6, <2>2, <2>3 DEF LoadInv, Indexed
  <2>7. InPlace'
    BY <1>3, <2>2, <2>3, BuiltinAssumption DEF LoadInv, InPlace
  <2> QED
    BY <1>4, <2>2, <2>5, <2>6, <2>7 DEF LoadInv
<1>7. CASE /\ seed.id # NoId /\ seed.id \notin DOMAIN index
           /\ seeds' = Append(seeds, seed)
           /\ index' = [id \in DOMAIN index \cup {seed.id} |->
                          IF id = seed.id THEN Len(seeds) + 1 ELSE index[id]]
  <2> DEFINE p == Len(seeds) + 1
  <2>1. /\ seeds' \in Seq(Seed) /\ DOMAIN seeds' = DOMAIN seeds \cup {p} /\ seeds'[p] = seed
        /\ Len(seeds') = p /\ p \notin DOMAIN seeds /\ p \in DOMAIN seeds'
        /\ \A q \in DOMAIN seeds : seeds'[q] = seeds[q]
    BY <1>2, <1>3, <1>7
  <2>2. \A q \in DOMAIN seeds : seeds[q].id # seed.id
    BY <1>1, <1>7 DEF LoadInv, Indexed
  <2>3. Unique' /\ Covers' /\ Latest'
    <3> HIDE DEF p
    <3> QED
      BY <1>1, <1>2, <1>7, <2>1, <2>2, LoadOne, SMTT(30)
  <2>4. Indexed'
    <3>1. DOMAIN index' = {seeds'[q].id : q \in DOMAIN seeds'}
      BY <1>1, <1>7, <2>1 DEF LoadInv, Indexed
    <3>2. \A q \in DOMAIN seeds' : index'[seeds'[q].id] = q
      BY <1>1, <1>7, <2>1, <2>2 DEF LoadInv, Indexed
    <3> QED
      BY <3>1, <3>2 DEF Indexed
  <2>5. InPlace'
    <3>1. Len(Builtin) \in Nat /\ DOMAIN Builtin = 1..Len(Builtin)
      BY BuiltinAssumption
    <3> QED
      BY <1>3, <2>1, <3>1 DEF LoadInv, InPlace
  <2> QED
    BY <1>4, <2>1, <2>3, <2>4, <2>5 DEF LoadInv
<1> QED
  BY <1>5, <1>6, <1>7 DEF LoadEntry

\* Every step keeps what is said of the library.
LEMMA LoadNext == LoadInv /\ [Next]_vars => LoadInv'
<1> SUFFICES ASSUME LoadInv, [Next]_vars PROVE LoadInv'
  OBVIOUS
<1> USE DEF loading, Loading
<1>1. CASE ReadLog
  BY <1>1, SameLibrary DEF ReadLog, LoadInv, Position
<1>2. CASE SuggestFix
  BY <1>2, SameLibrary DEF SuggestFix
<1>3. CASE DiagnoseEmpty
  BY <1>3, SameLibrary DEF DiagnoseEmpty, LoadInv, Position
<1>4. CASE Begin
  BY <1>4, SameLibrary DEF Begin, LoadInv, Position
<1>5. CASE Match
  BY <1>5, SameLibrary DEF Match, LoadInv, Position
<1>6. CASE AppError \/ NoClient \/ ChatFails \/ ChatAnswers
  BY <1>6, SameLibrary DEF AppError, NoClient, ChatFails, ChatAnswers, End, LoadInv, Position
<1>7. CASE UNCHANGED vars
  BY <1>7, SameLibrary DEF vars, LoadInv, Position
<1> QED
  BY <1>1, <1>2, <1>3, <1>4, <1>5, <1>6, <1>7, OpenKeeps, EntryKeeps, CloseKeeps DEF Next

LEMMA DefinitionsAre ==
    ASSUME Position
    PROVE  \A d : d \in Definitions <=> \E f, e \in Nat : d = <<f, e>> /\ Defines(f, e)
<1>1. Len(files) \in Nat /\ DOMAIN Contents(0) \subseteq Nat
  BY BuiltinAssumption DEF Position, Contents
<1>2. \A f \in 0..Len(files) : DOMAIN Contents(f) \subseteq Nat
  <2> SUFFICES ASSUME NEW f \in 1..Len(files) PROVE DOMAIN Contents(f) \subseteq Nat
    BY <1>1
  <2>1. DOMAIN files[f] \subseteq Nat /\ DOMAIN <<>> = {}
    BY FileAt
  <2> QED
    BY <2>1, FileAt
<1> QED
  BY <1>1, <1>2 DEF Definitions, Defines

\* After loading, the library has every id that the built-in list or a readable
\* file of the directory defines, once, as it was defined last, and nothing
\* else, and a built-in seed keeps its place, whatever the files are.
THEOREM LoadedLibrary == Spec => []LastDefinitionWins
<1>1. LoadInv => LastDefinitionWins
  <2> SUFFICES ASSUME LoadInv, pc \notin Loading PROVE LastDefinitionWins
    BY DEF LastDefinitionWins, Loading
  <2>1. ASSUME NEW f \in Nat, NEW e \in Nat PROVE Loaded(f, e) <=> Defines(f, e)
    BY DEF LoadInv, Position, Loaded, Defines, Loading
  <2>2. \A d \in Definitions : \E p \in DOMAIN seeds : seeds[p].id = Defined(d).id
    BY <2>1, DefinitionsAre DEF LoadInv, Covers, Defined
  <2>3. ASSUME NEW p \in DOMAIN seeds
        PROVE  \E d \in Definitions :
                 /\ seeds[p] = Defined(d)
                 /\ \A c \in Definitions : Later(c, d) => Defined(c).id # Defined(d).id
    <3>1. PICK f \in Nat, e \in Nat : Loaded(f, e) /\ seeds[p] = Contents(f)[e] /\ Prevails(f, e)
      BY DEF LoadInv, Latest
    <3>2. <<f, e>> \in Definitions /\ Defined(<<f, e>>) = Contents(f)[e]
      BY <2>1, <3>1, DefinitionsAre DEF LoadInv, Defined
    <3>3. ASSUME NEW c \in Definitions, Later(c, <<f, e>>)
          PROVE  Defined(c).id # Defined(<<f, e>>).id
      <4>1. PICK h \in Nat, k \in Nat : c = <<h, k>> /\ Defines(h, k)
        BY DefinitionsAre DEF LoadInv
      <4>2. Loaded(h, k) /\ Past(h, k, f, e) /\ Defined(c) = Contents(h)[k]
        BY <2>1, <3>3, <4>1 DEF Later, Past, Defined
      <4> QED
        BY <3>1, <3>2, <4>2 DEF Prevails
    <3> QED
      BY <3>1, <3>2, <3>3
  <2> QED
    BY <2>2, <2>3 DEF LastDefinitionWins, LoadInv, Unique, InPlace
<1> QED
  BY <1>1, LoadInit, LoadNext, PTL DEF Spec

-----------------------------------------------------------------------------
(* The ends                                                                  *)

\* What a diagnosis that looked at a log has ended with.
FromModel(r) ==
    \/ \E fix \in {"llm", "none"} :
         r = [NoResult EXCEPT !.cause = "llm", !.usage = TRUE, !.fix = fix]
    \/ r = [NoResult EXCEPT !.cause = "text", !.usage = TRUE, !.error = TRUE]

EndInv ==
    /\ pc \in {"file", "entry", "suggested"} => result = NoResult
    /\ pc \in {"match", "decide"} => class = Classify(log) /\ result = NoResult
    /\ pc = "done" =>
         \/ result = [NoResult EXCEPT !.error = TRUE]
         \/ class = Classify(log) /\ class = "app_error" /\ result = FromSeeds
         \/ class = Classify(log) /\ class # "app_error" /\ result = Fallback
         \/ class = Classify(log) /\ class # "app_error" /\ client = "answers" /\ FromModel(result)

LEMMA EndInit == Init => EndInv
  BY DEF Init, EndInv

LEMMA EndNext == EndInv /\ [Next]_vars => EndInv'
<1> SUFFICES ASSUME EndInv, [Next]_vars PROVE EndInv'
  OBVIOUS
<1> USE DEF loading, analysing
<1>1. CASE ReadLog \/ OpenFile \/ LoadEntry \/ CloseFile
  <2>1. \/ UNCHANGED result /\ {pc, pc'} \subseteq {"file", "entry"}
        \/ UNCHANGED <<pc, matches, seeds, log, class, client, result>>
    BY <1>1 DEF ReadLog, OpenFile, LoadEntry, CloseFile
  <2> QED
    BY <2>1 DEF EndInv, FromSeeds, Fallback, FromModel
<1>2. CASE SuggestFix \/ DiagnoseEmpty \/ Begin \/ Match
  BY <1>2 DEF EndInv, SuggestFix, DiagnoseEmpty, Begin, Match
<1>3. CASE AppError
  BY <1>3 DEF EndInv, AppError, End, FromSeeds
<1>4. CASE NoClient \/ ChatFails
  BY <1>4 DEF EndInv, NoClient, ChatFails, End, Fallback, FromSeeds
<1>5. CASE ChatAnswers
  BY <1>5 DEF EndInv, ChatAnswers, End, FromModel
<1>6. CASE UNCHANGED vars
  BY <1>6 DEF EndInv, vars, FromSeeds, Fallback, FromModel
<1> QED
  BY <1>1, <1>2, <1>3, <1>4, <1>5, <1>6 DEF Next

\* However a diagnosis ends, its result is marked degraded exactly if the model
\* gave no reply, a fix has an origin the result shows, and a log with an
\* application error in it is only explained.
THEOREM DiagnosisEndsAgree == Spec => []EndsAgree
<1>1. EndInv => EndsAgree
  BY DEF EndInv, EndsAgree, FromSeeds, Fallback, FromModel, NoResult, Classify
<1> QED
  BY <1>1, EndInit, EndNext, PTL DEF Spec

-----------------------------------------------------------------------------
(* The seeds that match                                                      *)

LEMMA HitsNatural ==
    ASSUME NEW s \in Seed
    PROVE  Hits(s) \in Nat /\ Cardinality(s.words) \in Nat
<1>1. IsFiniteSet(s.words) /\ s.words \cap ToSet(log) \in SUBSET s.words
  BY DEF Seed
<1>2. IsFiniteSet(s.words \cap ToSet(log))
  BY <1>1, FS_Subset
<1> QED
  BY <1>1, <1>2, FS_CardinalityType DEF Hits

LEMMA Products == \A a, b \in Nat : a * b \in Nat /\ 0 * b = 0
  OBVIOUS

\* No seed outscores itself, and one that matches nothing outscores none.
LEMMA NeverBetter ==
    ASSUME NEW s \in Seed, NEW t \in Seed, s = t \/ ~(Hits(s) > 0)
    PROVE  ~Better(s, t)
<1> DEFINE h == Hits(s)
           g == Hits(t)
           c == Cardinality(s.words)
           d == Cardinality(t.words)
<1>1. h \in Nat /\ g \in Nat /\ c \in Nat /\ d \in Nat
  BY HitsNatural
<1>2. h * d \in Nat /\ g * c \in Nat
  BY <1>1, Products
<1>3. CASE s = t
  BY <1>2, <1>3 DEF Better
<1>4. CASE ~(h > 0)
  <2>1. h = 0
    BY <1>1, <1>4
  <2>2. h * d = 0
    BY <1>1, <2>1, Products
  <2> QED
    BY <1>2, <2>2 DEF Better
<1> QED
  BY <1>3, <1>4

\* Every match has its place in an order of all of them.
LEMMA OrderCovers ==
    ASSUME seeds \in Seq(Seed), NEW order \in SetToSeqs(Matching)
    PROVE  /\ IsFiniteSet(Matching) /\ Cardinality(Matching) \in Nat
           /\ order \in [1..Cardinality(Matching) -> Matching]
           /\ order \in Seq(Matching) /\ Len(order) = Cardinality(Matching)
           /\ \A i, j \in 1..Cardinality(Matching) : order[i] = order[j] => i = j
           /\ \A p \in Matching : \E i \in 1..Cardinality(Matching) : order[i] = p
<1> DEFINE n == Cardinality(Matching)
           D == 1..n
<1>1. IsFiniteSet(Matching)
  <2>1. IsFiniteSet(1..Len(seeds))
    BY FS_Interval
  <2>2. Matching \in SUBSET (1..Len(seeds))
    BY DEF Matching
  <2> QED
    BY <2>1, <2>2, FS_Subset
<1>2. n \in Nat
  BY <1>1, FS_CardinalityType
<1>3. order \in [D -> Matching] /\ \A i, j \in D : order[i] = order[j] => i = j
  BY DEF SetToSeqs
<1> HIDE DEF n
<1>4. order \in Injection(D, Matching)
  BY <1>3 DEF Injection, IsInjective
<1>5. Cardinality(D) = n
  BY <1>2, FS_Interval
<1>6. order \in Surjection(D, Matching)
  <2>1. Cardinality(D) = Cardinality(Matching) <=> order \in Surjection(D, Matching)
    BY <1>1, <1>4, FS_Injection
  <2> QED
    BY <1>5, <2>1 DEF n
<1>7. \A p \in Matching : \E i \in D : order[i] = p
  BY <1>6 DEF Surjection
<1>8. order \in Seq(Matching) /\ Len(order) = n
  BY <1>2, <1>3
<1> QED
  BY <1>1, <1>2, <1>3, <1>7, <1>8 DEF n

Chosen == \E order \in SetToSeqs(Matching) : Ranked(order) /\ matches = Top(order)

\* The first three of an order of all the matches are the best three.
LEMMA ChosenAreBest ==
    ASSUME seeds \in Seq(Seed), Chosen, matches # <<>>
    PROVE  /\ Len(matches) = IF Cardinality(Matching) < TopK THEN Cardinality(Matching) ELSE TopK
           /\ Cardinality(ToSet(matches)) = Len(matches)
           /\ Ranked(matches)
           /\ \A p \in Matching \ ToSet(matches), q \in ToSet(matches) : ~Better(seeds[p], seeds[q])
           /\ matches[1] \in DOMAIN seeds
           /\ \A p \in DOMAIN seeds : ~Better(seeds[p], seeds[matches[1]])
<1>1. PICK order \in SetToSeqs(Matching) : Ranked(order) /\ matches = Top(order)
  BY DEF Chosen
<1> DEFINE n == Cardinality(Matching)
           k == IF n < TopK THEN n ELSE TopK
<1>2. /\ n \in Nat /\ order \in [1..n -> Matching] /\ order \in Seq(Matching) /\ Len(order) = n
      /\ \A i, j \in 1..n : order[i] = order[j] => i = j
      /\ \A p \in Matching : \E i \in 1..n : order[i] = p
  BY <1>1, OrderCovers
<1> HIDE DEF n
<1>3. k \in Nat /\ k <= n /\ matches = SubSeq(order, 1, k)
  BY <1>1, <1>2 DEF Top, TopK
<1>4. /\ Len(matches) = k /\ matches \in Seq(Matching) /\ DOMAIN matches = 1..k
      /\ \A i \in 1..k : matches[i] = order[i] /\ i \in 1..n
  BY <1>2, <1>3
<1> HIDE DEF k
<1>5. 1 \in 1..k
  BY <1>3, <1>4
<1>6. Cardinality(ToSet(matches)) = k
  <2>1. matches \in [1..k -> ToSet(matches)]
    <3>1. matches = [i \in DOMAIN matches |-> matches[i]]
      <4>1. matches \in [1..Len(matches) -> Matching]
        BY <1>4
      <4> QED
        BY <4>1
    <3>2. \A i \in 1..k : matches[i] \in ToSet(matches)
      BY <1>4 DEF ToSet
    <3> QED
      BY <1>4, <3>1, <3>2
  <2>2. matches \in Injection(1..k, ToSet(matches))
    BY <1>2, <1>4, <2>1 DEF Injection, IsInjective
  <2>3. matches \in Surjection(1..k, ToSet(matches))
    BY <1>4, <2>1 DEF Surjection, ToSet
  <2>4. IsFiniteSet(1..k) /\ Cardinality(1..k) = k
    BY <1>3, FS_Interval
  <2> QED
    BY <2>2, <2>3, <2>4, FS_Surjection
<1>7. Ranked(matches)
  BY <1>1, <1>2, <1>4 DEF Ranked
<1>8. ASSUME NEW p \in Matching \ ToSet(matches), NEW q \in ToSet(matches)
      PROVE  ~Better(seeds[p], seeds[q])
  <2>1. PICK i \in 1..k : q = order[i]
    BY <1>4 DEF ToSet
  <2>2. PICK j \in 1..n : p = order[j]
    BY <1>2
  <2>3. ~(j <= k)
    <3> SUFFICES ASSUME j \in 1..k PROVE FALSE
      BY <1>2, <1>3
    <3>1. j \in DOMAIN matches /\ matches[j] = p
      BY <1>4, <2>2
    <3> QED
      BY <3>1 DEF ToSet
  <2>4. i < j /\ i \in DOMAIN order /\ j \in DOMAIN order
    BY <1>2, <1>3, <2>1, <2>2, <2>3
  <2> QED
    BY <1>1, <2>1, <2>2, <2>4 DEF Ranked
<1>9. matches[1] \in Matching /\ matches[1] \in DOMAIN seeds /\ matches[1] = order[1] /\ 1 \in 1..n
  BY <1>4, <1>5 DEF Matching
<1>10. ASSUME NEW p \in DOMAIN seeds PROVE ~Better(seeds[p], seeds[matches[1]])
  <2>1. seeds[p] \in Seed /\ seeds[matches[1]] \in Seed
    BY <1>9
  <2>2. CASE p \notin Matching \/ p = matches[1]
    BY <2>1, <2>2, NeverBetter DEF Matching
  <2>3. CASE p \in Matching /\ p # matches[1]
    <3>1. PICK j \in 1..n : p = order[j]
      BY <1>2, <2>3
    <3>2. 1 < j /\ j \in DOMAIN order /\ 1 \in DOMAIN order
      BY <1>2, <1>9, <2>3, <3>1
    <3> QED
      BY <1>1, <1>9, <3>1, <3>2 DEF Ranked
  <2> QED
    BY <2>2, <2>3
<1> QED
  BY <1>4, <1>6, <1>7, <1>8, <1>9, <1>10 DEF k, n

MatchInv ==
    /\ pc \notin {"decide", "done"} => matches = <<>>
    /\ pc \in {"decide", "done"} => matches = <<>> \/ Chosen
    /\ pc # "done" => result.cause = "none"
    /\ result.cause = "seed" => matches # <<>> /\ result.seed = matches[1]

LEMMA MatchInit == Init => MatchInv
  BY DEF Init, MatchInv, NoResult

LEMMA MatchNext == MatchInv /\ [Next]_vars => MatchInv'
<1> SUFFICES ASSUME MatchInv, [Next]_vars PROVE MatchInv'
  OBVIOUS
<1> USE DEF loading, analysing
<1>1. ASSUME UNCHANGED <<seeds, log, matches>> PROVE Chosen' <=> Chosen
  BY <1>1 DEF Chosen, Matching, Ranked, Better, Hits, Top
<1>2. CASE ReadLog \/ UNCHANGED vars
  BY <1>1, <1>2 DEF MatchInv, ReadLog, vars
<1>3. CASE SuggestFix \/ OpenFile \/ LoadEntry \/ CloseFile \/ Begin
  BY <1>3 DEF MatchInv, SuggestFix, OpenFile, LoadEntry, CloseFile, Begin
<1>4. CASE DiagnoseEmpty
  BY <1>4 DEF MatchInv, DiagnoseEmpty, NoResult
<1>5. CASE Match
  <2>1. Chosen'
    BY <1>5 DEF Match, Chosen, Matching, Ranked, Better, Hits, Top
  <2> QED
    BY <1>5, <2>1 DEF MatchInv, Match
<1>6. CASE AppError \/ NoClient \/ ChatFails
  <2>1. FromSeeds.cause \in {"stock", "seed"} /\ (FromSeeds.cause = "seed" => matches # <<>> /\ FromSeeds.seed = matches[1])
    BY DEF FromSeeds, NoResult
  <2>2. Fallback.cause = FromSeeds.cause /\ Fallback.seed = FromSeeds.seed
    BY DEF Fallback, FromSeeds, NoResult
  <2>3. pc = "decide" /\ pc' = "done" /\ UNCHANGED <<seeds, log, matches>> /\ result' \in {FromSeeds, Fallback}
    BY <1>6 DEF AppError, NoClient, ChatFails, End
  <2>4. result'.cause = "seed" => matches # <<>> /\ result'.seed = matches[1]
    BY <2>1, <2>2, <2>3
  <2> QED
    BY <1>1, <2>3, <2>4 DEF MatchInv
<1>7. CASE ChatAnswers
  BY <1>1, <1>7 DEF MatchInv, ChatAnswers, End, NoResult
<1> QED
  BY <1>2, <1>3, <1>4, <1>5, <1>6, <1>7 DEF Next

\* A diagnosis quotes a seed that none of the whole library outscores and shows
\* the best three there are, whichever order the unstable sort leaves them in.
THEOREM QuotesTheBest == Spec => []BestSeedWins
<1>1. LoadInv /\ MatchInv => BestSeedWins
  BY ChosenAreBest DEF LoadInv, Position, MatchInv, BestSeedWins
<1> QED
  BY <1>1, LoadInit, LoadNext, MatchInit, MatchNext, PTL DEF Spec

-----------------------------------------------------------------------------
(* The lines of the log                                                      *)

\* That these literals are strings is more than the provers know.
Token == STRING \cup {"nl", "at", "quote", "auth", "colon", "tag", "mark"}
Text == Seq(Token)

LEMMA Appended ==
    ASSUME NEW A, NEW s \in Seq(A), NEW t \in A
    PROVE  Append(s, t) \in Seq(A) /\ Len(Append(s, t)) = Len(s) + 1
  OBVIOUS

LEMMA AppendLast ==
    ASSUME NEW a \in Text, NEW b \in Text, NEW t \in Token
    PROVE  Append(b, t) \in Text /\ Append(a \o b, t) = a \o Append(b, t)
  BY DEF Text

LEMMA NoText == <<>> \in Text /\ Len(<<>>) = 0
  BY DEF Text

LEMMA TrimTyped == ASSUME NEW a \in Text PROVE TrimCR(a) \in Text
<1>1. CASE a # <<>>
  <2>1. Len(a) \in Nat /\ Len(a) - 1 \in Nat /\ \A i \in 1..Len(a) : a[i] \in Token
    BY <1>1 DEF Text
  <2>2. SubSeq(a, 1, Len(a) - 1) \in Seq(Token)
    BY <2>1 DEF Text
  <2> QED
    BY <2>2 DEF TrimCR, Front, Text
<1> QED
  BY <1>1 DEF TrimCR

LEMMA TrimTail ==
    ASSUME NEW a \in Text, NEW b \in Text, b # <<>>
    PROVE  TrimCR(a \o b) = a \o TrimCR(b)
<1> DEFINE n == Len(a)
           m == Len(b)
<1>1. n \in Nat /\ m \in Nat /\ m > 0 /\ Len(a \o b) = n + m /\ a \o b \in Text
  BY DEF Text
<1>2. Last(a \o b) = Last(b) /\ a \o b # <<>>
  BY <1>1 DEF Last, Text
<1>3. Front(a \o b) = a \o Front(b)
  <2>1. SubSeq(a \o b, 1, n + m - 1) = a \o SubSeq(b, 1, m - 1)
    BY <1>1 DEF Text
  <2> QED
    BY <1>1, <2>1 DEF Front
<1> QED
  BY <1>2, <1>3 DEF TrimCR

\* Cut as a fold.
CutStep(t, c) ==
    IF t = "nl" THEN [lines |-> Append(c.lines, TrimCR(c.rest)), rest |-> <<>>]
    ELSE [lines |-> c.lines, rest |-> Append(c.rest, t)]
CutState == [lines : Seq(Text), rest : Text]
CutSteps == [t \in Token |-> [c \in CutState |-> CutStep(t, c)]]
NoCut == [lines |-> <<>>, rest |-> <<>>]

LEMMA CutTyped == NoCut \in CutState /\ CutSteps \in [Token -> [CutState -> CutState]]
<1>1. NoCut \in CutState
  BY DEF NoCut, CutState, Text
<1>2. ASSUME NEW t \in Token, NEW c \in CutState PROVE CutStep(t, c) \in CutState
  <2>1. c.lines \in Seq(Text) /\ c.rest \in Text
    BY DEF CutState
  <2>2. TrimCR(c.rest) \in Text /\ <<>> \in Text /\ Append(c.rest, t) \in Text
    BY <2>1, TrimTyped DEF Text
  <2>3. Append(c.lines, TrimCR(c.rest)) \in Seq(Text)
    BY <2>1, <2>2
  <2> QED
    BY <2>1, <2>2, <2>3 DEF CutStep, CutState
<1> QED
  BY <1>1, <1>2 DEF CutSteps

LEMMA CutFolds ==
    ASSUME NEW s \in Text
    PROVE  \E f : IsFold(f, s, NoCut, CutState, CutSteps) /\ Cut(s) = f[Len(s)]
<1> DEFINE Upto(g) == [i \in 0..Len(s) |-> IF i = 0 THEN NoCut ELSE CutStep(s[i], g[i - 1])]
           f == CHOOSE g : g = Upto(g)
<1>1. PICK g \in [0..Len(s) -> CutState] : IsFold(g, s, NoCut, CutState, CutSteps)
  BY CutTyped, FoldExists DEF Text
<1>2. \A i \in 1..Len(s) : i - 1 \in 0..Len(s) /\ s[i] \in Token
  BY DEF Text
<1>3. ASSUME NEW i \in 1..Len(s), NEW h, h[i - 1] \in CutState
      PROVE  CutSteps[s[i]][h[i - 1]] = Upto(h)[i]
  <2>1. CutSteps[s[i]][h[i - 1]] = CutStep(s[i], h[i - 1])
    BY <1>2, <1>3 DEF CutSteps
  <2>2. i \in 0..Len(s) /\ i # 0
    OBVIOUS
  <2> QED
    BY <2>1, <2>2
<1>4. g = Upto(g)
  <2>1. g[0] = Upto(g)[0]
    BY <1>1 DEF IsFold
  <2>2. \A i \in 1..Len(s) : g[i] = Upto(g)[i]
    BY <1>1, <1>2, <1>3 DEF IsFold
  <2>3. \A i \in 0..Len(s) : i = 0 \/ i \in 1..Len(s)
    OBVIOUS
  <2> QED
    BY <2>1, <2>2, <2>3
<1>5. f = Upto(f)
  <2> HIDE DEF Upto
  <2> QED
    BY <1>4
<1>6. Cut(s) = f[Len(s)]
  BY DEF Cut, NoCut, CutStep
<1> HIDE DEF f
<1>7. \A i \in 0..Len(s) : f[i] = Upto(f)[i]
  BY <1>5
<1>8. IsFold(f, s, NoCut, CutState, CutSteps)
  <2>1. f[0] = NoCut
    BY <1>7 DEF Text
  <2>2. ASSUME NEW i \in 1..Len(s), f[i - 1] \in CutState
        PROVE  f[i] = CutSteps[s[i]][f[i - 1]]
    <3>1. i \in 0..Len(s)
      OBVIOUS
    <3> HIDE DEF Upto
    <3> QED
      BY <1>3, <1>7, <2>2, <3>1
  <2> QED
    BY <2>1, <2>2 DEF IsFold
<1> QED
  BY <1>6, <1>8

LEMMA CutGrows ==
    /\ Cut(<<>>) = NoCut
    /\ \A s \in Text : Cut(s) \in CutState
    /\ \A s \in Text, t \in Token : Cut(Append(s, t)) = CutStep(t, Cut(s))
<1>1. ASSUME NEW s \in Text PROVE Cut(s) \in CutState
  <2>1. PICK f : IsFold(f, s, NoCut, CutState, CutSteps) /\ Cut(s) = f[Len(s)]
    BY CutFolds
  <2>2. \A i \in 0..Len(s) : f[i] \in CutState
    BY <2>1, CutTyped, FoldsAgree DEF Text
  <2> QED
    BY <2>1, <2>2 DEF Text
<1>2. Cut(<<>>) = NoCut
  <2>1. <<>> \in Text /\ Len(<<>>) = 0
    BY NoText
  <2> QED
    BY <2>1, CutFolds DEF IsFold
<1>3. ASSUME NEW s \in Text, NEW t \in Token
      PROVE  Cut(Append(s, t)) = CutStep(t, Cut(s))
  <2>1. Append(s, t) \in Text /\ Len(Append(s, t)) = Len(s) + 1
    BY Appended DEF Text
  <2>2. PICK f : IsFold(f, s, NoCut, CutState, CutSteps) /\ Cut(s) = f[Len(s)]
    BY CutFolds
  <2>3. PICK g : /\ IsFold(g, Append(s, t), NoCut, CutState, CutSteps)
                 /\ Cut(Append(s, t)) = g[Len(s) + 1]
    BY <2>1, CutFolds
  <2>4. g[Len(s) + 1] = CutSteps[t][f[Len(s)]]
    <3>1. NoCut \in CutState /\ CutSteps \in [Token -> [CutState -> CutState]]
      BY CutTyped
    <3>2. s \in Seq(Token)
      BY DEF Text
    <3> QED
      BY <2>2, <2>3, <3>1, <3>2, FoldAppend
  <2> QED
    BY <1>1, <2>2, <2>3, <2>4 DEF CutSteps
<1> QED
  BY <1>1, <1>2, <1>3

\* WithoutCR as a fold.
KeepStep(t, a) == Append(IF t = "nl" THEN TrimCR(a) ELSE a, t)
KeepSteps == [t \in Token |-> [a \in Text |-> KeepStep(t, a)]]

LEMMA KeepTyped == <<>> \in Text /\ KeepSteps \in [Token -> [Text -> Text]]
<1>1. ASSUME NEW t \in Token, NEW a \in Text PROVE KeepStep(t, a) \in Text
  <2>1. TrimCR(a) \in Text
    BY TrimTyped
  <2> QED
    BY <2>1, Appended DEF KeepStep, Text
<1> QED
  BY <1>1, NoText DEF KeepSteps

LEMMA KeepFolds ==
    ASSUME NEW s \in Text
    PROVE  \E f : IsFold(f, s, <<>>, Text, KeepSteps) /\ WithoutCR(s) = f[Len(s)]
<1> DEFINE Upto(g) == [i \in 0..Len(s) |-> IF i = 0 THEN <<>> ELSE KeepStep(s[i], g[i - 1])]
           f == CHOOSE g : g = Upto(g)
<1>1. PICK g \in [0..Len(s) -> Text] : IsFold(g, s, <<>>, Text, KeepSteps)
  BY KeepTyped, FoldExists DEF Text
<1>2. \A i \in 1..Len(s) : i - 1 \in 0..Len(s) /\ s[i] \in Token
  BY DEF Text
<1>3. ASSUME NEW i \in 1..Len(s), NEW h, h[i - 1] \in Text
      PROVE  KeepSteps[s[i]][h[i - 1]] = Upto(h)[i]
  <2>1. KeepSteps[s[i]][h[i - 1]] = KeepStep(s[i], h[i - 1])
    BY <1>2, <1>3 DEF KeepSteps
  <2>2. i \in 0..Len(s) /\ i # 0
    OBVIOUS
  <2> QED
    BY <2>1, <2>2
<1>4. g = Upto(g)
  <2>1. g[0] = Upto(g)[0]
    BY <1>1 DEF IsFold
  <2>2. \A i \in 1..Len(s) : g[i] = Upto(g)[i]
    BY <1>1, <1>2, <1>3 DEF IsFold
  <2>3. \A i \in 0..Len(s) : i = 0 \/ i \in 1..Len(s)
    OBVIOUS
  <2> QED
    BY <2>1, <2>2, <2>3
<1>5. f = Upto(f)
  <2> HIDE DEF Upto
  <2> QED
    BY <1>4
<1>6. WithoutCR(s) = f[Len(s)]
  BY DEF WithoutCR, KeepStep
<1> HIDE DEF f
<1>7. \A i \in 0..Len(s) : f[i] = Upto(f)[i]
  BY <1>5
<1>8. IsFold(f, s, <<>>, Text, KeepSteps)
  <2>1. f[0] = <<>>
    BY <1>7 DEF Text
  <2>2. ASSUME NEW i \in 1..Len(s), f[i - 1] \in Text
        PROVE  f[i] = KeepSteps[s[i]][f[i - 1]]
    <3>1. i \in 0..Len(s)
      OBVIOUS
    <3> HIDE DEF Upto
    <3> QED
      BY <1>3, <1>7, <2>2, <3>1
  <2> QED
    BY <2>1, <2>2 DEF IsFold
<1> QED
  BY <1>6, <1>8

LEMMA KeepGrows ==
    /\ WithoutCR(<<>>) = <<>>
    /\ \A s \in Text : WithoutCR(s) \in Text
    /\ \A s \in Text, t \in Token : WithoutCR(Append(s, t)) = KeepStep(t, WithoutCR(s))
<1>1. ASSUME NEW s \in Text PROVE WithoutCR(s) \in Text
  <2>1. PICK f : IsFold(f, s, <<>>, Text, KeepSteps) /\ WithoutCR(s) = f[Len(s)]
    BY KeepFolds
  <2>2. \A i \in 0..Len(s) : f[i] \in Text
    BY <2>1, KeepTyped, FoldsAgree DEF Text
  <2> QED
    BY <2>1, <2>2 DEF Text
<1>2. WithoutCR(<<>>) = <<>>
  <2>1. <<>> \in Text /\ Len(<<>>) = 0
    BY NoText
  <2> QED
    BY <2>1, KeepFolds DEF IsFold
<1>3. ASSUME NEW s \in Text, NEW t \in Token
      PROVE  WithoutCR(Append(s, t)) = KeepStep(t, WithoutCR(s))
  <2>1. Append(s, t) \in Text /\ Len(Append(s, t)) = Len(s) + 1
    BY Appended DEF Text
  <2>2. PICK f : IsFold(f, s, <<>>, Text, KeepSteps) /\ WithoutCR(s) = f[Len(s)]
    BY KeepFolds
  <2>3. PICK g : /\ IsFold(g, Append(s, t), <<>>, Text, KeepSteps)
                 /\ WithoutCR(Append(s, t)) = g[Len(s) + 1]
    BY <2>1, KeepFolds
  <2>4. g[Len(s) + 1] = KeepSteps[t][f[Len(s)]]
    <3>1. <<>> \in Text /\ KeepSteps \in [Token -> [Text -> Text]]
      BY KeepTyped
    <3>2. s \in Seq(Token)
      BY DEF Text
    <3> QED
      BY <2>2, <2>3, <3>1, <3>2, FoldAppend
  <2> QED
    BY <1>1, <2>2, <2>3, <2>4 DEF KeepSteps
<1> QED
  BY <1>1, <1>2, <1>3

\* Rebuilt as a fold.
FedLine == [stream : Streams, text : Text]
FeedStep(o, l, a) == IF l.stream = o THEN a \o Append(l.text, "nl") ELSE a
FeedSteps(o) == [l \in FedLine |-> [a \in Text |-> FeedStep(o, l, a)]]

LEMMA FeedTyped == ASSUME NEW o PROVE FeedSteps(o) \in [FedLine -> [Text -> Text]]
<1>1. ASSUME NEW l \in FedLine, NEW a \in Text PROVE FeedStep(o, l, a) \in Text
  <2>1. l.text \in Seq(Token) /\ "nl" \in Token
    <3>1. "nl" \in Token
      BY DEF Token
    <3>2. l.text \in Text
      BY DEF FedLine
    <3> QED
      BY <3>1, <3>2 DEF Text
  <2>2. Append(l.text, "nl") \in Seq(Token)
    BY <2>1, Appended, Zenon
  <2>3. a \o Append(l.text, "nl") \in Seq(Token)
    BY <2>2 DEF Text
  <2> QED
    BY <2>3 DEF FeedStep, Text
<1> QED
  BY <1>1 DEF FeedSteps

LEMMA FeedFolds ==
    ASSUME NEW o, NEW s \in Seq(FedLine)
    PROVE  \E f : IsFold(f, s, <<>>, Text, FeedSteps(o)) /\ Rebuilt(s, o) = f[Len(s)]
<1> DEFINE Upto(g) == [i \in 0..Len(s) |-> IF i = 0 THEN <<>> ELSE FeedStep(o, s[i], g[i - 1])]
           f == CHOOSE g : g = Upto(g)
<1>0. <<>> \in Text
  BY NoText
<1>1. PICK g \in [0..Len(s) -> Text] : IsFold(g, s, <<>>, Text, FeedSteps(o))
  BY <1>0, FeedTyped, FoldExists
<1>2. \A i \in 1..Len(s) : i - 1 \in 0..Len(s) /\ s[i] \in FedLine
  OBVIOUS
<1>3. ASSUME NEW i \in 1..Len(s), NEW h, h[i - 1] \in Text
      PROVE  FeedSteps(o)[s[i]][h[i - 1]] = Upto(h)[i]
  <2>1. FeedSteps(o)[s[i]][h[i - 1]] = FeedStep(o, s[i], h[i - 1])
    BY <1>2, <1>3 DEF FeedSteps
  <2>2. i \in 0..Len(s) /\ i # 0
    OBVIOUS
  <2> QED
    BY <2>1, <2>2
<1>4. g = Upto(g)
  <2>1. g[0] = Upto(g)[0]
    BY <1>1 DEF IsFold
  <2>2. \A i \in 1..Len(s) : g[i] = Upto(g)[i]
    BY <1>1, <1>2, <1>3 DEF IsFold
  <2>3. \A i \in 0..Len(s) : i = 0 \/ i \in 1..Len(s)
    OBVIOUS
  <2> QED
    BY <2>1, <2>2, <2>3
<1>5. f = Upto(f)
  <2> HIDE DEF Upto
  <2> QED
    BY <1>4
<1>6. Rebuilt(s, o) = f[Len(s)]
  BY DEF Rebuilt, FeedStep
<1> HIDE DEF f
<1>7. \A i \in 0..Len(s) : f[i] = Upto(f)[i]
  BY <1>5
<1>8. IsFold(f, s, <<>>, Text, FeedSteps(o))
  <2>1. f[0] = <<>>
    BY <1>7
  <2>2. ASSUME NEW i \in 1..Len(s), f[i - 1] \in Text
        PROVE  f[i] = FeedSteps(o)[s[i]][f[i - 1]]
    <3>1. i \in 0..Len(s)
      OBVIOUS
    <3> HIDE DEF Upto
    <3> QED
      BY <1>3, <1>7, <2>2, <3>1
  <2> QED
    BY <2>1, <2>2 DEF IsFold
<1> QED
  BY <1>6, <1>8

LEMMA FeedGrows ==
    ASSUME NEW o
    PROVE  /\ Rebuilt(<<>>, o) = <<>>
           /\ \A s \in Seq(FedLine) : Rebuilt(s, o) \in Text
           /\ \A s \in Seq(FedLine), l \in FedLine :
                Rebuilt(Append(s, l), o) = FeedStep(o, l, Rebuilt(s, o))
<1>0. <<>> \in Text
  BY NoText
<1>1. ASSUME NEW s \in Seq(FedLine) PROVE Rebuilt(s, o) \in Text
  <2>1. PICK f : IsFold(f, s, <<>>, Text, FeedSteps(o)) /\ Rebuilt(s, o) = f[Len(s)]
    BY FeedFolds
  <2>2. \A i \in 0..Len(s) : f[i] \in Text
    BY <1>0, <2>1, FeedTyped, FoldsAgree
  <2> QED
    BY <2>1, <2>2
<1>2. Rebuilt(<<>>, o) = <<>>
  <2>1. <<>> \in Seq(FedLine) /\ Len(<<>>) = 0
    OBVIOUS
  <2>2. PICK f : IsFold(f, <<>>, <<>>, Text, FeedSteps(o)) /\ Rebuilt(<<>>, o) = f[0]
    BY <2>1, FeedFolds
  <2> QED
    BY <2>2 DEF IsFold
<1>3. ASSUME NEW s \in Seq(FedLine), NEW l \in FedLine
      PROVE  Rebuilt(Append(s, l), o) = FeedStep(o, l, Rebuilt(s, o))
  <2>1. Append(s, l) \in Seq(FedLine) /\ Len(Append(s, l)) = Len(s) + 1
    OBVIOUS
  <2>2. PICK f : IsFold(f, s, <<>>, Text, FeedSteps(o)) /\ Rebuilt(s, o) = f[Len(s)]
    BY FeedFolds
  <2>3. PICK g : /\ IsFold(g, Append(s, l), <<>>, Text, FeedSteps(o))
                 /\ Rebuilt(Append(s, l), o) = g[Len(s) + 1]
    BY <2>1, FeedFolds
  <2>4. g[Len(s) + 1] = FeedSteps(o)[l][f[Len(s)]]
    BY <1>0, <2>2, <2>3, FeedTyped, FoldAppend
  <2> QED
    BY <1>1, <2>2, <2>3, <2>4 DEF FeedSteps
<1> QED
  BY <1>1, <1>2, <1>3

-----------------------------------------------------------------------------
(* Writing bytes and flushing them                                           *)

Closed(a) == a = <<>> \/ a[Len(a)] = "nl"
Unbroken(a) == \A i \in DOMAIN a : a[i] # "nl"

LEMMA CutRest ==
    ASSUME NEW s \in Text, Unbroken(s)
    PROVE  Cut(s) = [lines |-> <<>>, rest |-> s]
<1> DEFINE S == {a \in Text : Unbroken(a) => Cut(a) = [lines |-> <<>>, rest |-> a]}
<1>1. <<>> \in S
  BY NoText, CutGrows DEF NoCut
<1>2. ASSUME NEW a \in Seq(Token), NEW t \in Token, a \in S PROVE Append(a, t) \in S
  <2>1. a \in Text /\ Append(a, t) \in Text
    BY Appended DEF Text
  <2> SUFFICES ASSUME Unbroken(Append(a, t))
               PROVE  Cut(Append(a, t)) = [lines |-> <<>>, rest |-> Append(a, t)]
    BY <2>1
  <2>2. Unbroken(a) /\ t # "nl"
    <3>1. DOMAIN Append(a, t) = 1..Len(a) + 1 /\ DOMAIN a = 1..Len(a) /\ Len(a) \in Nat
      BY <1>2
    <3>2. Append(a, t)[Len(a) + 1] = t /\ \A i \in 1..Len(a) : Append(a, t)[i] = a[i]
      BY <1>2
    <3> QED
      BY <3>1, <3>2 DEF Unbroken
  <2>3. Cut(a) = [lines |-> <<>>, rest |-> a]
    BY <1>2, <2>2
  <2>4. Cut(Append(a, t)) = CutStep(t, Cut(a))
    BY <2>1, CutGrows
  <2> QED
    BY <2>2, <2>3, <2>4 DEF CutStep
<1>3. Seq(Token) \subseteq S
  <2> HIDE DEF S
  <2> QED
    BY <1>1, <1>2, SequenceInduction
<1> QED
  BY <1>3 DEF Text

LEMMA TrimClosed ==
    ASSUME NEW a \in Text, Closed(a), NEW b \in Text
    PROVE  TrimCR(a \o b) = a \o TrimCR(b)
<1>1. CASE b # <<>>
  BY <1>1, TrimTail
<1>2. CASE b = <<>>
  <2>1. a \o b = a /\ a \o <<>> = a /\ TrimCR(b) = <<>>
    BY <1>2 DEF TrimCR, Text
  <2>2. TrimCR(a) = a
    BY DEF TrimCR, Closed, Last
  <2> QED
    BY <2>1, <2>2
<1> QED
  BY <1>1, <1>2

LEMMA TaggedOne ==
    ASSUME NEW s \in Streams, NEW L \in Seq(Text), NEW x \in Text
    PROVE  /\ Tagged(s, L) \in Seq(FedLine)
           /\ [stream |-> s, text |-> x] \in FedLine
           /\ Tagged(s, Append(L, x)) = Append(Tagged(s, L), [stream |-> s, text |-> x])
<1>1. Len(L) \in Nat /\ DOMAIN L = 1..Len(L) /\ \A k \in 1..Len(L) : L[k] \in Text
  OBVIOUS
<1>2. \A y \in Text : [stream |-> s, text |-> y] \in FedLine
  BY DEF FedLine
<1>3. Tagged(s, L) = [k \in 1..Len(L) |-> [stream |-> s, text |-> L[k]]]
  BY <1>1 DEF Tagged
<1>4. Tagged(s, L) \in Seq(FedLine) /\ Len(Tagged(s, L)) = Len(L)
  BY <1>1, <1>2, <1>3
<1>5. DOMAIN Append(L, x) = 1..Len(L) + 1 /\ Append(L, x)[Len(L) + 1] = x
      /\ \A k \in 1..Len(L) : Append(L, x)[k] = L[k]
  BY <1>1
<1>6. Tagged(s, Append(L, x)) = [k \in 1..Len(L) + 1 |-> [stream |-> s, text |-> Append(L, x)[k]]]
  BY <1>5 DEF Tagged
<1>7. Append(Tagged(s, L), [stream |-> s, text |-> x])
        = [k \in 1..Len(L) + 1 |-> IF k <= Len(L) THEN Tagged(s, L)[k]
                                   ELSE [stream |-> s, text |-> x]]
  BY <1>1, <1>4
<1>8. \A k \in 1..Len(L) + 1 :
        [stream |-> s, text |-> Append(L, x)[k]]
          = IF k <= Len(L) THEN Tagged(s, L)[k] ELSE [stream |-> s, text |-> x]
  BY <1>1, <1>3, <1>5
<1> QED
  BY <1>2, <1>4, <1>6, <1>7, <1>8

\* What the lines and the rest of a stream owe to the bytes that came.
Faithful(s, bytes, fed, rest) ==
    /\ bytes \in Text /\ fed \in Seq(FedLine) /\ rest \in Text
    /\ Unbroken(rest)
    /\ Closed(Rebuilt(fed, s))
    /\ WithoutCR(bytes) = Rebuilt(fed, s) \o rest

\* The lines of the other streams are what they were.
OthersKept(s, fed, more) == \A o : o # s => Rebuilt(more, o) = Rebuilt(fed, o)

\* One more byte.
LEMMA OneMore ==
    ASSUME NEW s \in Streams, NEW bytes, NEW fed, NEW L \in Seq(Text), NEW rest, NEW t \in Token,
           Faithful(s, bytes, fed \o Tagged(s, L), rest), fed \in Seq(FedLine),
           NEW c \in CutState, c = CutStep(t, [lines |-> L, rest |-> rest])
    PROVE  /\ Faithful(s, Append(bytes, t), fed \o Tagged(s, c.lines), c.rest)
           /\ OthersKept(s, fed \o Tagged(s, L), fed \o Tagged(s, c.lines))
<1> DEFINE all == fed \o Tagged(s, L)
           R   == Rebuilt(all, s)
<1>1. /\ bytes \in Text /\ all \in Seq(FedLine) /\ rest \in Text
      /\ Unbroken(rest) /\ Closed(R) /\ WithoutCR(bytes) = R \o rest
  BY DEF Faithful
<1>2. R \in Text
  <2> HIDE DEF all
  <2> QED
    BY <1>1, FeedGrows
<1>3. Append(bytes, t) \in Text /\ WithoutCR(Append(bytes, t)) = KeepStep(t, R \o rest)
  BY <1>1, KeepGrows, Appended DEF Text
<1>4. CASE t = "nl"
  <2> DEFINE x == TrimCR(rest)
             l == [stream |-> s, text |-> x]
  <2>1. c.lines = Append(L, x) /\ c.rest = <<>>
    BY <1>4 DEF CutStep
  <2>2. x \in Text
    BY <1>1, TrimTyped
  <2> HIDE DEF x
  <2>3. /\ Tagged(s, L) \in Seq(FedLine) /\ l \in FedLine
        /\ Tagged(s, Append(L, x)) = Append(Tagged(s, L), l)
    BY <2>2, TaggedOne
  <2>4. fed \o Tagged(s, c.lines) = Append(all, l)
    <3>1. fed \o Append(Tagged(s, L), l) = Append(fed \o Tagged(s, L), l)
      BY <2>3
    <3> QED
      BY <2>1, <2>3, <3>1
  <2> HIDE DEF all
  <2>5. \A o : Rebuilt(Append(all, l), o) = FeedStep(o, l, Rebuilt(all, o))
    BY <1>1, <2>3, FeedGrows
  <2>6. \A o : o # s => Rebuilt(Append(all, l), o) = Rebuilt(all, o)
    BY <2>5 DEF FeedStep
  <2>7. Rebuilt(Append(all, l), s) = R \o Append(x, "nl")
    BY <2>5 DEF FeedStep
  <2> HIDE DEF R, l
  <2>8. KeepStep(t, R \o rest) = Append(R \o x, "nl")
    BY <1>1, <1>2, <1>4, TrimClosed DEF KeepStep, x
  <2>9. /\ Append(R \o x, "nl") = R \o Append(x, "nl")
        /\ (R \o Append(x, "nl")) \o <<>> = R \o Append(x, "nl")
        /\ Closed(R \o Append(x, "nl"))
    <3>1. "nl" \in Token
      BY DEF Token
    <3>2. Append(x, "nl") \in Seq(Token) /\ R \in Seq(Token) /\ Len(Append(x, "nl")) = Len(x) + 1
      BY <1>2, <2>2, <3>1, Appended DEF Text
    <3>3. R \o Append(x, "nl") \in Seq(Token) /\ Len(R \o Append(x, "nl")) = Len(R) + Len(x) + 1
      BY <1>2, <2>2, <3>2 DEF Text
    <3>4. (R \o Append(x, "nl"))[Len(R) + Len(x) + 1] = "nl"
      BY <1>2, <2>2, <3>2 DEF Text
    <3>5. Append(R \o x, "nl") = R \o Append(x, "nl")
      BY <1>2, <2>2, <3>1, AppendLast, Zenon
    <3>6. (R \o Append(x, "nl")) \o <<>> = R \o Append(x, "nl")
      BY <3>3
    <3> QED
      BY <3>3, <3>4, <3>5, <3>6 DEF Closed
  <2>10. Unbroken(<<>>)
    BY DEF Unbroken
  <2>11. Append(all, l) \in Seq(FedLine)
    BY <1>1, <2>3, Appended
  <2> QED
    BY <1>3, <2>1, <2>4, <2>6, <2>7, <2>8, <2>9, <2>10, <2>11, NoText DEF Faithful, OthersKept, all
<1>5. CASE t # "nl"
  <2>1. c.lines = L /\ c.rest = Append(rest, t)
    BY <1>5 DEF CutStep
  <2>2. Append(rest, t) \in Text /\ Append(R \o rest, t) = R \o Append(rest, t)
    <3> HIDE DEF R
    <3> QED
      BY <1>1, <1>2, AppendLast, Zenon
  <2>3. Unbroken(Append(rest, t))
    <3>1. DOMAIN Append(rest, t) = 1..Len(rest) + 1 /\ DOMAIN rest = 1..Len(rest)
      BY <1>1 DEF Text
    <3>2. Append(rest, t)[Len(rest) + 1] = t /\ \A i \in 1..Len(rest) : Append(rest, t)[i] = rest[i]
      BY <1>1 DEF Text
    <3>3. \A i \in 1..Len(rest) + 1 : i \in 1..Len(rest) \/ i = Len(rest) + 1
      BY <1>1 DEF Text
    <3> QED
      BY <1>1, <1>5, <3>1, <3>2, <3>3 DEF Unbroken
  <2> QED
    BY <1>1, <1>3, <1>5, <2>1, <2>2, <2>3 DEF Faithful, KeepStep, OthersKept
<1> QED
  BY <1>4, <1>5

LEMMA WriteStep ==
    ASSUME NEW s \in Streams, NEW bytes, NEW fed, NEW rest, Faithful(s, bytes, fed, rest),
           NEW d \in Text
    PROVE  LET c == Cut(rest \o d)
           IN  /\ Faithful(s, bytes \o d, fed \o Tagged(s, c.lines), c.rest)
               /\ OthersKept(s, fed, fed \o Tagged(s, c.lines))
<1> DEFINE c(a) == Cut(rest \o a)
           P(a) == /\ c(a) \in CutState
                   /\ Faithful(s, bytes \o a, fed \o Tagged(s, c(a).lines), c(a).rest)
                   /\ OthersKept(s, fed, fed \o Tagged(s, c(a).lines))
           S == {a \in Text : P(a)}
<1>0. bytes \in Text /\ fed \in Seq(FedLine) /\ rest \in Text /\ Unbroken(rest)
  BY DEF Faithful
<1>1. P(<<>>)
  <2>1. rest \o <<>> = rest /\ bytes \o <<>> = bytes /\ fed \o <<>> = fed
    BY <1>0 DEF Text
  <2>2. Cut(rest) = [lines |-> <<>>, rest |-> rest] /\ Cut(rest) \in CutState
    BY <1>0, CutRest, CutGrows
  <2>3. Tagged(s, <<>>) = <<>>
    BY DEF Tagged
  <2>4. c(<<>>).lines = <<>> /\ c(<<>>).rest = rest /\ c(<<>>) \in CutState
    BY <2>1, <2>2
  <2>5. fed \o Tagged(s, c(<<>>).lines) = fed
    BY <2>1, <2>3, <2>4
  <2> HIDE DEF c
  <2> QED
    <3>1. Faithful(s, bytes \o <<>>, fed \o Tagged(s, c(<<>>).lines), c(<<>>).rest)
      BY <2>1, <2>4, <2>5
    <3>2. OthersKept(s, fed, fed \o Tagged(s, c(<<>>).lines))
      BY <2>5 DEF OthersKept
    <3> QED
      BY <2>4, <3>1, <3>2
<1>2. ASSUME NEW a \in Text, NEW t \in Token, P(a) PROVE P(Append(a, t))
  <2>1. /\ rest \o Append(a, t) = Append(rest \o a, t) /\ rest \o a \in Text
        /\ bytes \o Append(a, t) = Append(bytes \o a, t)
    <3>1. rest \o a \in Text
      BY <1>0 DEF Text
    <3>2. Append(rest \o a, t) = rest \o Append(a, t)
      BY <1>0, AppendLast
    <3>3. Append(bytes \o a, t) = bytes \o Append(a, t)
      BY <1>0, AppendLast
    <3> QED
      BY <3>1, <3>2, <3>3
  <2>2. c(Append(a, t)) = CutStep(t, c(a)) /\ c(Append(a, t)) \in CutState
    <3>1. Append(rest \o a, t) \in Text
      BY <2>1, Appended DEF Text
    <3> QED
      BY <2>1, <3>1, CutGrows
  <2> DEFINE L == c(a).lines
             r == c(a).rest
             k == c(Append(a, t))
             b == bytes \o a
  <2>3. L \in Seq(Text) /\ c(a) = [lines |-> L, rest |-> r]
    BY <1>2 DEF CutState
  <2>4. k = CutStep(t, [lines |-> L, rest |-> r])
    BY <2>2, <2>3
  <2>5. Faithful(s, b, fed \o Tagged(s, L), r)
    BY <1>2
  <2> HIDE DEF L, r, k, b
  <2>6. fed \in Seq(FedLine) /\ L \in Seq(Text) /\ k \in CutState
    BY <1>0, <2>2, <2>3 DEF k
  <2>7. Faithful(s, Append(b, t), fed \o Tagged(s, k.lines), k.rest)
    BY <2>3, <2>4, <2>5, <2>6, OneMore, Zenon
  <2>8. OthersKept(s, fed \o Tagged(s, L), fed \o Tagged(s, k.lines))
    BY <2>3, <2>4, <2>5, <2>6, OneMore, Zenon
  <2>9. OthersKept(s, fed, fed \o Tagged(s, k.lines))
    BY <1>2, <2>8 DEF OthersKept, L
  <2> QED
    BY <2>1, <2>2, <2>7, <2>9 DEF k, b
<1>3. Seq(Token) \subseteq S
  <2>1. <<>> \in S
    BY <1>1, NoText
  <2>2. ASSUME NEW a \in Seq(Token), NEW t \in Token, a \in S PROVE Append(a, t) \in S
    <3>1. a \in Text /\ P(a) /\ Append(a, t) \in Text
      BY <2>2, Appended DEF Text
    <3> HIDE DEF P
    <3> QED
      BY <1>2, <3>1
  <2> HIDE DEF S
  <2> QED
    BY <2>1, <2>2, SequenceInduction
<1>4. P(d)
  <2> HIDE DEF P
  <2> QED
    BY <1>3 DEF Text
<1> QED
  BY <1>4

\* The lines of a stream after the flush; they make up all its bytes.
FlushedTo(fed, s, p) ==
    IF p = <<>> THEN Rebuilt(fed, s) ELSE Rebuilt(fed, s) \o Append(p, "nl")
Whole(bytes, text) ==
    WithoutCR(bytes) = IF bytes = <<>> \/ Last(bytes) = "nl" THEN text ELSE Front(text)

LEMMA FlushStep ==
    ASSUME NEW s \in Streams, NEW fed \in Seq(FedLine), NEW p \in Text,
           NEW more, more = fed \o (IF p = <<>> THEN <<>> ELSE Tagged(s, <<p>>))
    PROVE  /\ more \in Seq(FedLine) /\ OthersKept(s, fed, more)
           /\ Rebuilt(more, s) = FlushedTo(fed, s, p)
<1>1. CASE p = <<>>
  <2>1. more = fed
    BY <1>1
  <2> QED
    BY <1>1, <2>1 DEF OthersKept, FlushedTo
<1>2. CASE p # <<>>
  <2> DEFINE l == [stream |-> s, text |-> p]
  <2>1. l \in FedLine /\ Tagged(s, <<>>) = <<>> /\ Tagged(s, Append(<<>>, p)) = Append(Tagged(s, <<>>), l)
    <3>1. <<>> \in Seq(Text)
      OBVIOUS
    <3>2. Tagged(s, <<>>) = <<>>
      BY DEF Tagged
    <3> QED
      BY <3>1, <3>2, TaggedOne
  <2>2. Append(<<>>, p) = <<p>> /\ Append(<<>>, l) = <<l>>
    OBVIOUS
  <2>3. more = fed \o <<l>>
    BY <1>2, <2>1, <2>2
  <2> HIDE DEF l
  <2>4. more = Append(fed, l) /\ more \in Seq(FedLine)
    BY <2>1, <2>3
  <2>5. \A o : Rebuilt(more, o) = FeedStep(o, l, Rebuilt(fed, o))
    BY <2>1, <2>4, FeedGrows
  <2> QED
    BY <1>2, <2>4, <2>5 DEF FeedStep, OthersKept, FlushedTo, l
<1> QED
  BY <1>1, <1>2

LEMMA LastByte ==
    ASSUME NEW s \in Text, s # <<>>
    PROVE  /\ WithoutCR(s) # <<>>
           /\ WithoutCR(s)[Len(WithoutCR(s))] = s[Len(s)]
<1> DEFINE r == SubSeq(s, 1, Len(s) - 1)
           t == s[Len(s)]
<1>1. r \in Text /\ t \in Token /\ s = Append(r, t)
  BY DEF Text
<1> HIDE DEF r, t
<1>2. WithoutCR(s) = KeepStep(t, WithoutCR(r)) /\ WithoutCR(r) \in Text
  BY <1>1, KeepGrows
<1>3. PICK w \in Text : WithoutCR(s) = Append(w, t)
  <2>1. TrimCR(WithoutCR(r)) \in Text
    BY <1>2, TrimTyped
  <2> QED
    BY <1>2, <2>1 DEF KeepStep
<1>4. Len(w) \in Nat /\ Len(Append(w, t)) = Len(w) + 1 /\ Append(w, t)[Len(w) + 1] = t
  BY DEF Text
<1> QED
  BY <1>3, <1>4 DEF t

LEMMA EndStep ==
    ASSUME NEW s \in Streams, NEW bytes, NEW fed, NEW p, Faithful(s, bytes, fed, p)
    PROVE  Whole(bytes, FlushedTo(fed, s, p))
<1> DEFINE R == FlushedTo(fed, s, p)
           Q == Rebuilt(fed, s)
           w == WithoutCR(bytes)
<1>1. /\ bytes \in Text /\ fed \in Seq(FedLine) /\ p \in Text /\ Unbroken(p) /\ Closed(Q)
      /\ w = Q \o p
  BY DEF Faithful
<1>2. Q \in Text /\ w \in Text
  BY <1>1, FeedGrows, KeepGrows
<1> HIDE DEF Q, w
<1>3. CASE p = <<>>
  <2>1. w = Q /\ R = Q
    BY <1>1, <1>2, <1>3 DEF Q, FlushedTo, Text
  <2>2. ASSUME bytes # <<>> PROVE Last(bytes) = "nl"
    <3>1. w # <<>> /\ w[Len(w)] = bytes[Len(bytes)]
      BY <1>1, <2>2, LastByte DEF w
    <3> QED
      BY <1>1, <2>1, <3>1 DEF Closed, Last
  <2> QED
    BY <2>1, <2>2 DEF w, Whole
<1>4. CASE p # <<>>
  <2>1. Len(p) \in Nat \ {0} /\ Len(Q) \in Nat /\ Len(w) = Len(Q) + Len(p) /\ w[Len(w)] = p[Len(p)]
    BY <1>1, <1>2, <1>4 DEF Text
  <2>2. w # <<>> /\ p[Len(p)] # "nl"
    BY <1>1, <1>2, <2>1 DEF Unbroken, Text
  <2>3. bytes # <<>>
    BY <2>2, KeepGrows DEF w
  <2>4. Last(bytes) # "nl"
    <3>1. w[Len(w)] = bytes[Len(bytes)]
      BY <1>1, <2>3, LastByte DEF w
    <3> QED
      BY <2>1, <2>2, <3>1 DEF Last
  <2>5. R = Append(w, "nl")
    <3>1. "nl" \in Token
      BY DEF Token
    <3>2. Append(Q \o p, "nl") = Q \o Append(p, "nl")
      BY <1>1, <1>2, <3>1, AppendLast, Zenon
    <3> QED
      BY <1>1, <1>4, <3>2 DEF Q, FlushedTo
  <2>6. Front(Append(w, "nl")) = w
    <3>1. Len(Append(w, "nl")) = Len(w) + 1 /\ Len(w) \in Nat
      BY <1>2 DEF Text
    <3>2. SubSeq(Append(w, "nl"), 1, Len(w)) = w
      BY <1>2 DEF Text
    <3> QED
      BY <3>1, <3>2 DEF Front
  <2> QED
    BY <2>3, <2>4, <2>5, <2>6 DEF w, Whole
<1> QED
  BY <1>3, <1>4

LinesInv ==
    /\ coming \in [Streams -> Text]
    /\ reading => /\ got \in [Streams -> Text] /\ pending \in [Streams -> Text]
                  /\ \A s \in Streams : Faithful(s, got[s], lines, pending[s])
    /\ ~reading => LinesRebuildLog

LEMMA LinesInit == Init => LinesInv
<1> SUFFICES ASSUME Init PROVE LinesInv
  OBVIOUS
<1>1. PICK c \in Cases : IF c.step THEN Collecting(c.out, c.err) ELSE Given(c.out)
  BY DEF Init
<1>2. c.out \in Text /\ c.err \in Text
  <2>1. c.out \in Seq(STRING) /\ c.err \in Seq(STRING)
    BY CasesAssumption
  <2> QED
    BY <2>1 DEF Text, Token
<1>3. /\ lines = <<>> /\ got = [s \in Streams |-> <<>>] /\ pending = [s \in Streams |-> <<>>]
      /\ coming \in [Streams -> Text]
  BY <1>1, <1>2, NoText DEF Collecting, Given
<1>4. \A s \in Streams : Rebuilt(lines, s) = <<>> /\ WithoutCR(got[s]) = <<>>
  BY <1>3, FeedGrows, KeepGrows
<1>5. LinesRebuildLog
  <2> SUFFICES ASSUME NEW s \in Streams
               PROVE  WithoutCR(got[s]) =
                        IF reading THEN Rebuilt(lines, s) \o pending[s]
                        ELSE IF got[s] = <<>> \/ Last(got[s]) = "nl" THEN Rebuilt(lines, s)
                        ELSE Front(Rebuilt(lines, s))
    BY DEF LinesRebuildLog
  <2>1. got[s] = <<>> /\ pending[s] = <<>> /\ <<>> \o <<>> = <<>>
    BY <1>3
  <2> QED
    BY <1>4, <2>1
<1>6. \A s \in Streams : Faithful(s, got[s], lines, pending[s])
  <2>1. Unbroken(<<>>) /\ Closed(<<>>) /\ <<>> \o <<>> = <<>>
    BY DEF Unbroken, Closed
  <2>2. lines \in Seq(FedLine)
    BY <1>3
  <2> QED
    BY <1>3, <1>4, <2>1, <2>2, NoText DEF Faithful
<1> QED
  BY <1>3, <1>5, <1>6, NoText DEF LinesInv

LEMMA FrameKeeps == ASSUME LinesInv, NEW s \in Streams, Frame(s) PROVE LinesInv'
<1>1. /\ reading /\ coming \in [Streams -> Text]
      /\ got \in [Streams -> Text] /\ pending \in [Streams -> Text]
      /\ \A o \in Streams : Faithful(o, got[o], lines, pending[o])
  BY DEF Frame, LinesInv
<1>2. PICK n \in DOMAIN coming[s] :
        /\ Write(s, SubSeq(coming[s], 1, n))
        /\ coming' = [coming EXCEPT ![s] = SubSeq(coming[s], n + 1, Len(coming[s]))]
  BY DEF Frame
<1> DEFINE d == SubSeq(coming[s], 1, n)
           c == Cut(pending[s] \o d)
           more == lines \o Tagged(s, c.lines)
<1>3. d \in Text /\ SubSeq(coming[s], n + 1, Len(coming[s])) \in Text
  <2>1. coming[s] \in Seq(Token) /\ n \in 1..Len(coming[s]) /\ Len(coming[s]) \in Nat
    BY <1>1, <1>2 DEF Text
  <2>2. \A i \in 1..Len(coming[s]) : coming[s][i] \in Token
    BY <2>1
  <2> QED
    BY <2>1, <2>2 DEF Text
<1>4. coming' \in [Streams -> Text]
  BY <1>1, <1>2, <1>3
<1>5. /\ got' = [got EXCEPT ![s] = got[s] \o d] /\ lines' = more
      /\ pending' = [pending EXCEPT ![s] = c.rest] /\ reading'
  BY <1>1, <1>2 DEF Write, Frame
<1> HIDE DEF d
<1>6. Faithful(s, got[s], lines, pending[s])
  BY <1>1
<1>7. /\ Faithful(s, got[s] \o d, more, c.rest)
      /\ OthersKept(s, lines, more)
  BY <1>3, <1>6, WriteStep
<1> HIDE DEF c, more
<1>8. got[s] \o d \in Text /\ c.rest \in Text /\ more \in Seq(FedLine)
  BY <1>7 DEF Faithful
<1>9. got' \in [Streams -> Text] /\ pending' \in [Streams -> Text]
  BY <1>1, <1>5, <1>8
<1>10. ASSUME NEW o \in Streams PROVE Faithful(o, got'[o], lines', pending'[o])
  <2>1. CASE o = s
    BY <1>1, <1>5, <1>7, <2>1
  <2>2. CASE o # s
    <3>1. got'[o] = got[o] /\ pending'[o] = pending[o] /\ Faithful(o, got[o], lines, pending[o])
      BY <1>1, <1>5, <2>2
    <3>2. Rebuilt(more, o) = Rebuilt(lines, o)
      BY <1>7, <2>2 DEF OthersKept
    <3> QED
      BY <1>5, <1>8, <3>1, <3>2 DEF Faithful
  <2> QED
    BY <2>1, <2>2
<1> QED
  BY <1>4, <1>5, <1>9, <1>10 DEF LinesInv

LEMMA EndKeeps == ASSUME LinesInv, LogsEnd PROVE LinesInv'
<1> DEFINE p == pending["stdout"]
           q == pending["stderr"]
           half == lines \o Flushed("stdout")
           more == half \o Flushed("stderr")
<1>1. /\ reading /\ coming \in [Streams -> Text]
      /\ pending \in [Streams -> Text]
      /\ \A o \in Streams : Faithful(o, got[o], lines, pending[o])
  BY DEF LogsEnd, LinesInv
<1>2. coming' = coming /\ got' = got /\ lines' = more /\ ~reading'
  <2>1. (lines \o Flushed("stdout")) \o Flushed("stderr") = more
    OBVIOUS
  <2> QED
    BY <2>1 DEF LogsEnd
<1>3. Streams = {"stdout", "stderr"} /\ "stdout" \in Streams /\ "stderr" \in Streams
  BY DEF Streams
<1>4. lines \in Seq(FedLine) /\ p \in Text /\ q \in Text
  BY <1>1, <1>3 DEF Faithful
<1>5. half = lines \o (IF p = <<>> THEN <<>> ELSE Tagged("stdout", <<p>>))
  BY DEF Flushed
<1>6. more = half \o (IF q = <<>> THEN <<>> ELSE Tagged("stderr", <<q>>))
  BY DEF Flushed
<1> HIDE DEF half, more
<1>7. /\ half \in Seq(FedLine) /\ OthersKept("stdout", lines, half)
      /\ Rebuilt(half, "stdout") = FlushedTo(lines, "stdout", p)
  BY <1>3, <1>4, <1>5, FlushStep
<1>8. /\ OthersKept("stderr", half, more)
      /\ Rebuilt(more, "stderr") = FlushedTo(half, "stderr", q)
  <2>1. half \in Seq(FedLine)
    BY <1>7
  <2> HIDE DEF q
  <2> QED
    BY <1>3, <1>4, <1>6, <2>1, FlushStep
<1>9. Rebuilt(more, "stdout") = Rebuilt(half, "stdout") /\ Rebuilt(half, "stderr") = Rebuilt(lines, "stderr")
  BY <1>7, <1>8 DEF OthersKept
<1>10. ASSUME NEW s \in Streams PROVE Rebuilt(more, s) = FlushedTo(lines, s, pending[s])
  BY <1>3, <1>7, <1>8, <1>9, <1>10 DEF FlushedTo
<1>11. ASSUME NEW s \in Streams PROVE Whole(got[s], Rebuilt(more, s))
  <2>1. Whole(got[s], FlushedTo(lines, s, pending[s]))
    BY <1>1, EndStep
  <2> QED
    BY <1>10, <2>1
<1>12. LinesRebuildLog'
  BY <1>2, <1>11 DEF LinesRebuildLog, Whole
<1> QED
  BY <1>1, <1>2, <1>12 DEF LinesInv

LEMMA LinesNext == LinesInv /\ [Next]_vars => LinesInv'
<1> SUFFICES ASSUME LinesInv, [Next]_vars PROVE LinesInv'
  OBVIOUS
<1>1. CASE ReadLog
  BY <1>1, FrameKeeps, EndKeeps DEF ReadLog, Collect
<1>2. CASE UNCHANGED collection
  BY <1>2 DEF collection, LinesInv, LinesRebuildLog
<1>3. ASSUME Next PROVE ReadLog \/ UNCHANGED collection
  BY <1>3 DEF Next, SuggestFix, OpenFile, LoadEntry, CloseFile, DiagnoseEmpty, Begin, Match,
              AppError, NoClient, ChatFails, ChatAnswers, End
<1>4. UNCHANGED vars => UNCHANGED collection
  BY DEF vars
<1> QED
  BY <1>1, <1>2, <1>3, <1>4

\* The frames that the daemon cuts a stream into leave no trace in the lines
\* that the log callback gets.
THEOREM LinesAreWhole == Spec => []LinesRebuildLog
<1>1. LinesInv => LinesRebuildLog
  BY DEF LinesInv, LinesRebuildLog, Faithful
<1> QED
  BY <1>1, LinesInit, LinesNext, PTL DEF Spec

-----------------------------------------------------------------------------
(* Where the rule for URLs matches                                           *)

\* The first of some tokens after position i.
First(t, i, tokens, c) ==
    /\ c \in After(t, i, tokens)
    /\ \A k \in DOMAIN t : i < k /\ k < c => t[k] \notin tokens

LEMMA FirstIs ==
    ASSUME NEW t \in Text, NEW i \in Nat, NEW tokens
    PROVE  /\ After(t, i, tokens) # {} => First(t, i, tokens, Min(After(t, i, tokens)))
           /\ \A c : First(t, i, tokens, c) => After(t, i, tokens) # {} /\ Min(After(t, i, tokens)) = c
<1> DEFINE S == After(t, i, tokens)
<1>1. S \in SUBSET Nat /\ DOMAIN t \subseteq Nat
  BY DEF After, Text
<1>2. ASSUME NEW c, First(t, i, tokens, c) PROVE c \in S /\ \A y \in S : c <= y
  <2>1. c \in S /\ c \in Nat
    BY <1>1, <1>2 DEF First
  <2>2. ASSUME NEW y \in S, ~(c <= y) PROVE FALSE
    <3>1. y \in DOMAIN t /\ i < y /\ t[y] \in tokens /\ y < c
      BY <1>1, <2>1, <2>2 DEF After
    <3> QED
      BY <1>2, <3>1 DEF First
  <2> QED
    BY <2>1, <2>2
<1>3. ASSUME NEW c, NEW d, First(t, i, tokens, c), d \in S, \A y \in S : d <= y PROVE d = c
  <2>1. c \in S /\ c <= d
    BY <1>2, <1>3
  <2>2. d <= c /\ c \in Nat /\ d \in Nat
    BY <1>1, <1>3, <2>1
  <2> QED
    BY <2>1, <2>2
<1>4. ASSUME S # {} PROVE Min(S) \in S /\ \A y \in S : Min(S) <= y
  <2>1. \E m \in S : \A y \in S : m <= y
    BY <1>1, <1>4, LeastNumber
  <2> HIDE DEF S
  <2> QED
    BY <2>1 DEF Min
<1>5. ASSUME S # {} PROVE First(t, i, tokens, Min(S))
  <2> DEFINE m == Min(S)
  <2>1. m \in S /\ m \in Nat /\ \A y \in S : m <= y
    BY <1>1, <1>4, <1>5
  <2> HIDE DEF m
  <2>2. ASSUME NEW k \in DOMAIN t, i < k, k < m, t[k] \in tokens PROVE FALSE
    <3>1. k \in S
      BY <2>2 DEF After
    <3> QED
      BY <1>1, <2>1, <2>2, <3>1
  <2>3. First(t, i, tokens, m)
    BY <2>1, <2>2 DEF First
  <2> QED
    BY <2>3 DEF m
<1>6. ASSUME NEW c, First(t, i, tokens, c) PROVE S # {} /\ Min(S) = c
  <2>1. S # {}
    BY <1>2, <1>6
  <2> QED
    BY <1>3, <1>4, <1>6, <2>1
<1> QED
  BY <1>5, <1>6

Colons == {"colon", "url"}
Ats == {"at"}

\* A match from i to a whose first colon is c.
Matches(t, i, c, a) ==
    /\ t[i] = "url" /\ First(t, i, Colons, c) /\ First(t, c, Ats, a)
    /\ t[c] = "colon" => c > i + 1 /\ a > c + 1

LEMMA MatchEnd ==
    ASSUME NEW t \in Text, NEW i \in DOMAIN t
    PROVE  /\ \A c, a : Matches(t, i, c, a) => URLEnd(t, i) = a
           /\ URLEnd(t, i) # 0 => \E c : Matches(t, i, c, URLEnd(t, i))
           /\ \A c, a : Matches(t, i, c, a) => i < c /\ c < a /\ c \in DOMAIN t /\ a \in DOMAIN t /\ t[a] = "at"
           /\ URLEnd(t, i) \in Nat
<1> DEFINE C == After(t, i, Colons)
           c0 == Min(C)
           A == After(t, c0, Ats)
<1>1. DOMAIN t = 1..Len(t) /\ Len(t) \in Nat /\ i \in Nat
  BY DEF Text
<1>2. URLEnd(t, i) = IF /\ t[i] = "url" /\ C # {} /\ A # {}
                        /\ (t[c0] = "colon") => c0 > i + 1 /\ Min(A) > c0 + 1
                     THEN Min(A) ELSE 0
  BY DEF URLEnd, Colons, Ats
<1>3. \A c, a : First(t, i, Colons, c) => c \in Nat /\ i < c /\ c \in DOMAIN t
  BY <1>1 DEF First, After
<1>4. ASSUME NEW c, First(t, i, Colons, c) PROVE C # {} /\ c0 = c
  BY <1>1, <1>4, FirstIs
<1>5. C # {} => First(t, i, Colons, c0)
  BY <1>1, FirstIs
<1>6. ASSUME C # {} PROVE /\ A # {} => First(t, c0, Ats, Min(A))
                          /\ \A a : First(t, c0, Ats, a) => A # {} /\ Min(A) = a
  <2>1. c0 \in Nat
    BY <1>3, <1>5, <1>6
  <2> HIDE DEF c0
  <2> QED
    BY <2>1, FirstIs
<1> HIDE DEF C, c0, A
<1>7. ASSUME NEW c, NEW a, Matches(t, i, c, a)
      PROVE  /\ URLEnd(t, i) = a
             /\ i < c /\ c < a /\ c \in DOMAIN t /\ a \in DOMAIN t /\ t[a] = "at"
  <2>1. C # {} /\ c0 = c /\ i < c /\ c \in DOMAIN t
    BY <1>3, <1>4, <1>7 DEF Matches
  <2>2. A # {} /\ Min(A) = a
    BY <1>6, <1>7, <2>1 DEF Matches
  <2>3. c < a /\ a \in DOMAIN t /\ t[a] = "at"
    BY <1>7 DEF Matches, First, After, Ats
  <2> QED
    BY <1>2, <1>7, <2>1, <2>2, <2>3 DEF Matches
<1>8. ASSUME URLEnd(t, i) # 0 PROVE Matches(t, i, c0, URLEnd(t, i))
  BY <1>2, <1>5, <1>6, <1>8 DEF Matches
<1>9. URLEnd(t, i) \in Nat
  <2>1. CASE URLEnd(t, i) = 0
    BY <2>1
  <2>2. CASE URLEnd(t, i) # 0
    BY <1>1, <1>7, <1>8, <2>2
  <2> QED
    BY <2>1, <2>2
<1> QED
  BY <1>7, <1>8, <1>9

-----------------------------------------------------------------------------
(* ReplaceAllString as a loop                                                *)

Redaction == [out : Text, done : Nat]
ScanStep(t, e, b, i, s) ==
    IF i <= s.done THEN s
    ELSE IF e[i] # 0 THEN [out |-> s.out \o b, done |-> e[i]]
    ELSE [out |-> Append(s.out, t[i]), done |-> s.done]

\* A text, the ends of a rule's matches in it and what the rule puts in.
Rule(t, e, b) == t \in Text /\ b \in Text /\ \A i \in DOMAIN t : e[i] \in Nat

\* The values that ReplaceAllString(t, e, b) goes through.
IsScan(u, t, e, b) ==
    /\ Rule(t, e, b)
    /\ u \in [0..Len(t) -> Redaction]
    /\ u[0] = [out |-> <<>>, done |-> 0]
    /\ \A i \in 1..Len(t) : u[i] = ScanStep(t, e, b, i, u[i - 1])

LEMMA ScanTyped ==
    ASSUME NEW t, NEW e, NEW b, Rule(t, e, b), NEW i \in 1..Len(t), NEW s \in Redaction
    PROVE  ScanStep(t, e, b, i, s) \in Redaction
<1>1. s.out \in Text /\ s.done \in Nat /\ t \in Text /\ b \in Text
  BY DEF Redaction, Rule
<1>2. t[i] \in Token /\ i \in DOMAIN t
  BY <1>1 DEF Text
<1>3. e[i] \in Nat
  BY <1>2 DEF Rule
<1>4. Append(s.out, t[i]) \in Text
  BY <1>1, <1>2, AppendLast
<1>5. s.out \o b \in Text
  BY <1>1 DEF Text
<1> QED
  BY <1>1, <1>3, <1>4, <1>5 DEF ScanStep, Redaction

LEMMA ScanIs ==
    ASSUME NEW t, NEW e, NEW b, Rule(t, e, b)
    PROVE  \E u : IsScan(u, t, e, b) /\ ReplaceAllString(t, e, b) = u[Len(t)].out
<1> DEFINE n == Len(t)
           nothing == [out |-> <<>>, done |-> 0]
           F == [i \in Nat |-> [s \in Redaction |-> IF i \in 1..n THEN ScanStep(t, e, b, i, s) ELSE s]]
           Upto(g) == [i \in 0..n |-> IF i = 0 THEN nothing ELSE ScanStep(t, e, b, i, g[i - 1])]
           f == CHOOSE g : g = Upto(g)
<1>1. n \in Nat /\ nothing \in Redaction
  BY NoText DEF Redaction, Text, Rule
<1>2. F \in [Nat -> [Redaction -> Redaction]]
  BY ScanTyped
<1>3. PICK g \in [0..n -> Redaction] : IsLoop(g, n, nothing, F)
  <2> HIDE DEF F, nothing, n
  <2> QED
    BY <1>1, <1>2, Iterates
<1>4. g[0] = nothing
  BY <1>3 DEF IsLoop
<1>5. \A i \in 1..n : g[i] = ScanStep(t, e, b, i, g[i - 1])
  <2> SUFFICES ASSUME NEW i \in 1..n PROVE g[i] = ScanStep(t, e, b, i, g[i - 1])
    OBVIOUS
  <2>1. i \in Nat /\ i - 1 \in 0..n
    BY <1>1
  <2>2. g[i] = F[i][g[i - 1]]
    BY <1>3 DEF IsLoop
  <2>3. g[i - 1] \in Redaction
    <3> HIDE DEF n
    <3> QED
      BY <1>3, <2>1
  <2> QED
    BY <2>1, <2>2, <2>3
<1> HIDE DEF n, F, nothing
<1>6. g = Upto(g)
  <2>1. \A i \in 0..n : i = 0 \/ i \in 1..n
    BY <1>1
  <2> QED
    BY <1>3, <1>4, <1>5, <2>1
<1>7. f = Upto(f)
  <2> HIDE DEF Upto
  <2> QED
    BY <1>6
<1>8. ReplaceAllString(t, e, b) = f[n].out
  BY DEF ReplaceAllString, ScanStep, n, nothing
<1> HIDE DEF f
<1>9. f[0] = nothing /\ \A i \in 1..n : f[i] = ScanStep(t, e, b, i, f[i - 1])
  <2>1. 0 \in 0..n /\ \A i \in 1..n : i \in 0..n /\ i # 0
    BY <1>1
  <2>2. \A i \in 0..n : f[i] = Upto(f)[i]
    BY <1>7
  <2> QED
    BY <2>1, <2>2
<1>10. \A i \in 0..n : f[i] \in Redaction
  <2>1. f[0] \in Redaction
    BY <1>1, <1>9
  <2>2. \A i \in 1..n : f[i - 1] \in Redaction => f[i] \in Redaction
    BY <1>9, ScanTyped DEF n
  <2> QED
    BY <1>1, <2>1, <2>2, LoopTyped
<1>11. f \in [0..n -> Redaction]
  <2>1. f = [i \in 0..n |-> f[i]]
    BY <1>7
  <2> QED
    BY <1>10, <2>1
<1> QED
  BY <1>8, <1>9, <1>11 DEF IsScan, n, nothing

\* The position is copied, or a match begins there.
Kept(e, u, i) == ~(i <= u[i - 1].done) /\ e[i] = 0
Hit(e, u, i)  == ~(i <= u[i - 1].done) /\ e[i] # 0

\* How much there is when the scan has passed i.
Upto(u, i) == Len(u[i].out)

LEMMA ScanCases ==
    ASSUME NEW t, NEW e, NEW b, NEW u, IsScan(u, t, e, b), NEW i \in 1..Len(t)
    PROVE  /\ i \in Nat /\ i - 1 \in Nat /\ i - 1 < i /\ i \in DOMAIN t /\ t[i] \in Token /\ e[i] \in Nat
           /\ u[i - 1].out \in Text /\ u[i - 1].done \in Nat
           /\ u[i].out \in Text /\ u[i].done \in Nat
           /\ \/ i <= u[i - 1].done /\ u[i] = u[i - 1]
              \/ Hit(e, u, i) /\ u[i].out = u[i - 1].out \o b /\ u[i].done = e[i]
              \/ Kept(e, u, i) /\ u[i].out = Append(u[i - 1].out, t[i]) /\ u[i].done = u[i - 1].done
<1>0. t \in Text
  BY DEF IsScan, Rule
<1>1. i - 1 \in 0..Len(t) /\ i \in 0..Len(t) /\ i \in Nat /\ i - 1 \in Nat /\ i \in DOMAIN t /\ t[i] \in Token
  BY <1>0 DEF Text
<1>2. u[i - 1] \in Redaction /\ u[i] \in Redaction /\ e[i] \in Nat
  BY <1>1 DEF IsScan, Rule
<1>3. u[i] = ScanStep(t, e, b, i, u[i - 1])
  BY DEF IsScan
<1>4. \/ i <= u[i - 1].done /\ u[i] = u[i - 1]
      \/ Hit(e, u, i) /\ u[i].out = u[i - 1].out \o b /\ u[i].done = e[i]
      \/ Kept(e, u, i) /\ u[i].out = Append(u[i - 1].out, t[i]) /\ u[i].done = u[i - 1].done
  <2>1. CASE i <= u[i - 1].done
    BY <1>3, <2>1 DEF ScanStep
  <2>2. CASE ~(i <= u[i - 1].done) /\ e[i] # 0
    BY <1>3, <2>2 DEF ScanStep, Hit
  <2>3. CASE ~(i <= u[i - 1].done) /\ e[i] = 0
    BY <1>3, <2>3 DEF ScanStep, Kept
  <2> QED
    BY <2>1, <2>2, <2>3
<1>5. u[i - 1].out \in Text /\ u[i - 1].done \in Nat /\ u[i].out \in Text /\ u[i].done \in Nat
  BY <1>2 DEF Redaction
<1>6. i - 1 < i
  BY <1>1
<1> QED
  BY <1>1, <1>2, <1>4, <1>5, <1>6

LEMMA ScanStart ==
    ASSUME NEW t, NEW e, NEW b, NEW u, IsScan(u, t, e, b)
    PROVE  /\ t \in Text /\ b \in Text /\ Len(t) \in Nat /\ DOMAIN t = 1..Len(t) /\ Len(b) \in Nat
           /\ u[0].out = <<>> /\ u[0].done = 0
           /\ \A i \in 0..Len(t) : u[i].out \in Text /\ u[i].done \in Nat /\ Upto(u, i) \in Nat
<1>1. t \in Text /\ b \in Text
  BY DEF IsScan, Rule
<1>2. Len(t) \in Nat /\ DOMAIN t = 1..Len(t) /\ Len(b) \in Nat
  BY <1>1 DEF Text
<1>3. u[0].out = <<>> /\ u[0].done = 0
  BY DEF IsScan
<1>4. ASSUME NEW i \in 0..Len(t) PROVE u[i].out \in Text /\ u[i].done \in Nat
  <2>1. u[i] \in Redaction
    BY DEF IsScan
  <2> QED
    BY <2>1 DEF Redaction
<1>5. \A x \in Text : Len(x) \in Nat
  BY DEF Text
<1>6. \A i \in 0..Len(t) : Upto(u, i) \in Nat
  BY <1>4, <1>5 DEF Upto
<1> QED
  BY <1>1, <1>2, <1>3, <1>4, <1>6

\* The scan skips only what a match covers.
LEMMA SkipHasMatch ==
    ASSUME NEW t, NEW e, NEW b, NEW u, IsScan(u, t, e, b)
    PROVE  \A i \in 0..Len(t) : u[i].done = 0 \/ \E k \in 1..i : Hit(e, u, k) /\ u[i].done = e[k]
<1> DEFINE P(i) == u[i].done = 0 \/ \E k \in 1..i : Hit(e, u, k) /\ u[i].done = e[k]
           S == {i \in Nat : i <= Len(t) => P(i)}
<1>1. 0 \in S
  BY ScanStart
<1>2. ASSUME NEW i \in Nat, i \in S PROVE i + 1 \in S
  <2> SUFFICES ASSUME i + 1 <= Len(t) PROVE P(i + 1)
    OBVIOUS
  <2>1. i + 1 \in 1..Len(t) /\ (i + 1) - 1 = i /\ P(i) /\ 1..i \subseteq 1..i + 1 /\ i + 1 \in 1..i + 1
    BY <1>2, ScanStart
  <2>2. \/ u[i + 1].done = u[i].done
        \/ Hit(e, u, i + 1) /\ u[i + 1].done = e[i + 1]
    BY <2>1, ScanCases, SMTT(60)
  <2> QED
    BY <2>1, <2>2
<1>3. Nat \subseteq S
  <2> HIDE DEF S
  <2> QED
    BY <1>1, <1>2, SetInduction
<1>4. \A i \in 0..Len(t) : P(i)
  <2>1. Len(t) \in Nat
    BY ScanStart
  <2>2. \A i \in 0..Len(t) : i \in Nat /\ i <= Len(t)
    BY <2>1
  <2> HIDE DEF P
  <2> QED
    BY <1>3, <2>2
<1> QED
  BY <1>4

\* A token that no match covers is copied.
LEMMA Survives ==
    ASSUME NEW t, NEW e, NEW b, NEW u, IsScan(u, t, e, b), NEW p \in DOMAIN t, e[p] = 0,
           \A k \in DOMAIN t : e[k] # 0 => ~(k < p /\ p <= e[k])
    PROVE  Kept(e, u, p)
<1>1. p \in 1..Len(t) /\ p - 1 \in 0..Len(t) /\ Len(t) \in Nat /\ p \in Nat /\ DOMAIN t = 1..Len(t)
  BY ScanStart
<1>2. ASSUME p <= u[p - 1].done PROVE FALSE
  <2>1. u[p - 1].done # 0
    BY <1>1, <1>2
  <2>2. PICK k \in 1..p - 1 : Hit(e, u, k) /\ u[p - 1].done = e[k]
    BY <1>1, <2>1, SkipHasMatch
  <2>3. k \in DOMAIN t /\ k < p /\ e[k] # 0
    BY <1>1, <2>2 DEF Hit
  <2> QED
    BY <1>2, <2>2, <2>3
<1> QED
  BY <1>2 DEF Kept

\* The tokens of what the scan has written.
LEMMA ToSetGrows ==
    ASSUME NEW a \in Text, NEW x \in Token, NEW b \in Text
    PROVE  /\ ToSet(Append(a, x)) = ToSet(a) \cup {x}
           /\ ToSet(a \o b) = ToSet(a) \cup ToSet(b)
<1>1. \A c \in Text : \A y : y \in ToSet(c) <=> \E k \in 1..Len(c) : y = c[k]
  BY DEF ToSet, Text
<1>2. Append(a, x) \in Text /\ a \o b \in Text /\ Len(a) \in Nat /\ Len(b) \in Nat
  BY DEF Text
<1>3. /\ Len(Append(a, x)) = Len(a) + 1 /\ Append(a, x)[Len(a) + 1] = x
      /\ \A k \in 1..Len(a) : Append(a, x)[k] = a[k]
  BY DEF Text
<1>4. /\ Len(a \o b) = Len(a) + Len(b)
      /\ \A k \in 1..Len(a) : (a \o b)[k] = a[k]
      /\ \A k \in 1..Len(b) : (a \o b)[Len(a) + k] = b[k]
  BY DEF Text
<1> DEFINE c == Append(a, x)
           d == a \o b
<1>5. ToSet(c) = ToSet(a) \cup {x}
  <2> HIDE DEF c
  <2>1. \A k \in 1..Len(c) : k \in 1..Len(a) \/ k = Len(a) + 1
    BY <1>2, <1>3 DEF c
  <2>2. 1..Len(a) \subseteq 1..Len(c) /\ Len(a) + 1 \in 1..Len(c)
    BY <1>2, <1>3 DEF c
  <2>3. c[Len(a) + 1] = x /\ \A k \in 1..Len(a) : c[k] = a[k]
    BY <1>3 DEF c
  <2>4. \A y : y \in ToSet(c) <=> \E k \in 1..Len(c) : y = c[k]
    BY <1>1, <1>2 DEF c
  <2>5. \A y : y \in ToSet(a) <=> \E k \in 1..Len(a) : y = a[k]
    BY <1>1
  <2> QED
    BY <2>1, <2>2, <2>3, <2>4, <2>5
<1>6. ToSet(d) = ToSet(a) \cup ToSet(b)
  <2> HIDE DEF d
  <2>1. ASSUME NEW k \in 1..Len(d) PROVE k \in 1..Len(a) \/ \E j \in 1..Len(b) : k = Len(a) + j
    <3>1. k \in Nat /\ 1 <= k /\ k <= Len(a) + Len(b)
      BY <1>2, <1>4 DEF d
    <3>2. CASE k <= Len(a)
      BY <1>2, <3>1, <3>2
    <3>3. CASE ~(k <= Len(a))
      <4>1. k - Len(a) \in 1..Len(b) /\ k = Len(a) + (k - Len(a))
        BY <1>2, <3>1, <3>3
      <4> QED
        BY <4>1
    <3> QED
      BY <3>2, <3>3
  <2>2. 1..Len(a) \subseteq 1..Len(d) /\ \A j \in 1..Len(b) : Len(a) + j \in 1..Len(d)
    BY <1>2, <1>4 DEF d
  <2>3. (\A k \in 1..Len(a) : d[k] = a[k]) /\ (\A k \in 1..Len(b) : d[Len(a) + k] = b[k])
    BY <1>4 DEF d
  <2>4. \A y : y \in ToSet(d) <=> \E k \in 1..Len(d) : y = d[k]
    BY <1>1, <1>2 DEF d
  <2>5. \A y : y \in ToSet(a) <=> \E k \in 1..Len(a) : y = a[k]
    BY <1>1
  <2>6. \A y : y \in ToSet(b) <=> \E k \in 1..Len(b) : y = b[k]
    BY <1>1
  <2>7. ASSUME NEW y \in ToSet(d) PROVE y \in ToSet(a) \/ y \in ToSet(b)
    <3>1. PICK k \in 1..Len(d) : y = d[k]
      BY <2>4
    <3>2. CASE k \in 1..Len(a)
      BY <2>3, <2>5, <3>1, <3>2
    <3>3. ASSUME NEW j \in 1..Len(b), k = Len(a) + j PROVE y \in ToSet(b)
      BY <2>3, <2>6, <3>1, <3>3
    <3> QED
      BY <2>1, <3>2, <3>3
  <2>8. \A y : y \in ToSet(a) => y \in ToSet(d)
    BY <2>2, <2>3, <2>4, <2>5
  <2>9. \A y : y \in ToSet(b) => y \in ToSet(d)
    BY <2>2, <2>3, <2>4, <2>6
  <2> QED
    BY <2>7, <2>8, <2>9
<1> QED
  BY <1>5, <1>6

LEMMA ScanTokens ==
    ASSUME NEW t, NEW e, NEW b, NEW u, IsScan(u, t, e, b)
    PROVE  \A i \in 0..Len(t) :
             /\ \A k \in 1..i : Kept(e, u, k) => t[k] \in ToSet(u[i].out)
             /\ \A x \in ToSet(u[i].out) : \/ x \in ToSet(b) /\ \E k \in 1..i : e[k] # 0
                                           \/ \E k \in 1..i : Kept(e, u, k) /\ t[k] = x
<1> DEFINE P(i) == /\ \A k \in 1..i : Kept(e, u, k) => t[k] \in ToSet(u[i].out)
                   /\ \A x \in ToSet(u[i].out) : \/ x \in ToSet(b) /\ \E k \in 1..i : e[k] # 0
                                                 \/ \E k \in 1..i : Kept(e, u, k) /\ t[k] = x
           S == {i \in Nat : i <= Len(t) => P(i)}
<1>1. 0 \in S
  BY ScanStart DEF ToSet
<1>2. ASSUME NEW i \in Nat, i \in S PROVE i + 1 \in S
  <2> SUFFICES ASSUME i + 1 <= Len(t) PROVE P(i + 1)
    OBVIOUS
  <2>1. i + 1 \in 1..Len(t) /\ (i + 1) - 1 = i /\ P(i) /\ 1..i + 1 = 1..i \cup {i + 1}
    BY <1>2, ScanStart
  <2>2. i + 1 \in DOMAIN t /\ t[i + 1] \in Token /\ u[i].out \in Text /\ b \in Text
    BY <2>1, ScanCases, ScanStart, SMTT(60)
  <2>3. CASE i + 1 <= u[i].done /\ u[i + 1] = u[i]
    BY <2>1, <2>3 DEF Kept
  <2>4. CASE Hit(e, u, i + 1) /\ u[i + 1].out = u[i].out \o b
    <3>1. ToSet(u[i + 1].out) = ToSet(u[i].out) \cup ToSet(b)
      BY <2>2, <2>4, ToSetGrows
    <3>2. e[i + 1] # 0 /\ ~Kept(e, u, i + 1)
      BY <2>4 DEF Hit, Kept
    <3> QED
      BY <2>1, <3>1, <3>2
  <2>5. CASE Kept(e, u, i + 1) /\ u[i + 1].out = Append(u[i].out, t[i + 1])
    <3>1. ToSet(u[i + 1].out) = ToSet(u[i].out) \cup {t[i + 1]}
      BY <2>2, <2>5, ToSetGrows
    <3> QED
      BY <2>1, <2>5, <3>1
  <2> QED
    BY <2>1, <2>3, <2>4, <2>5, ScanCases, SMTT(60)
<1>3. Nat \subseteq S
  <2> HIDE DEF S
  <2> QED
    BY <1>1, <1>2, SetInduction
<1>4. \A i \in 0..Len(t) : P(i)
  <2>1. Len(t) \in Nat
    BY ScanStart
  <2>2. \A i \in 0..Len(t) : i \in Nat /\ i <= Len(t)
    BY <2>1
  <2> HIDE DEF P
  <2> QED
    BY <1>3, <2>2
<1> QED
  BY <1>4

-----------------------------------------------------------------------------
(* Where the tokens of a text end up                                         *)

Begins(a, b) == Len(a) <= Len(b) /\ \A q \in 1..Len(a) : b[q] = a[q]

LEMMA BeginsBegins ==
    ASSUME NEW a \in Text, NEW b \in Text, NEW c \in Text, Begins(a, b), Begins(b, c)
    PROVE  Begins(a, c)
  BY DEF Begins, Text

\* The scan never takes back what it has written.
LEMMA OutGrows ==
    ASSUME NEW t, NEW e, NEW b, NEW u, IsScan(u, t, e, b), NEW i \in 0..Len(t)
    PROVE  \A j \in i..Len(t) : Begins(u[i].out, u[j].out)
<1>0. \A k \in 1..Len(t) : \/ u[k] = u[k - 1]
                           \/ u[k].out = u[k - 1].out \o b
                           \/ u[k].out = Append(u[k - 1].out, t[k])
  BY ScanCases, SMTT(60)
<1> DEFINE S == {j \in Nat : i <= j /\ j <= Len(t) => Begins(u[i].out, u[j].out)}
<1>1. i \in Nat /\ Len(t) \in Nat /\ \A j \in 0..Len(t) : u[j].out \in Text /\ Len(u[j].out) \in Nat
  BY ScanStart DEF Upto
<1>2. Begins(u[i].out, u[i].out)
  BY <1>1 DEF Begins
<1>3. 0 \in S
  BY <1>1, <1>2
<1>4. ASSUME NEW j \in Nat, j \in S PROVE j + 1 \in S
  <2> SUFFICES ASSUME i <= j + 1, j + 1 <= Len(t) PROVE Begins(u[i].out, u[j + 1].out)
    OBVIOUS
  <2>1. CASE i = j + 1
    BY <1>2, <2>1
  <2>2. CASE i # j + 1
    <3>1. j + 1 \in 1..Len(t) /\ (j + 1) - 1 = j /\ Begins(u[i].out, u[j].out)
      BY <1>1, <1>4, <2>2
    <3>2. u[j].out \in Text /\ u[j + 1].out \in Text /\ t[j + 1] \in Token /\ b \in Text /\ u[i].out \in Text
      BY <1>1, <3>1, ScanCases, ScanStart, SMTT(60)
    <3>3. Begins(u[j].out, u[j + 1].out)
      <4>1. CASE u[j + 1] = u[j]
        BY <3>2, <4>1 DEF Begins, Text
      <4>2. CASE u[j + 1].out = u[j].out \o b
        BY <3>2, <4>2 DEF Begins, Text
      <4>3. CASE u[j + 1].out = Append(u[j].out, t[j + 1])
        BY <3>2, <4>3 DEF Begins, Text
      <4> QED
        <5>1. u[j + 1] = u[j] \/ u[j + 1].out = u[j].out \o b \/ u[j + 1].out = Append(u[j].out, t[j + 1])
          BY <1>0, <3>1
        <5> HIDE DEF S
        <5> QED
          BY <4>1, <4>2, <4>3, <5>1, Zenon
    <3> QED
      BY <3>1, <3>2, <3>3, BeginsBegins
  <2> QED
    BY <2>1, <2>2
<1>5. Nat \subseteq S
  <2> HIDE DEF S
  <2> QED
    BY <1>3, <1>4, SetInduction
<1> QED
  BY <1>1, <1>5

\* What the scan does with a position, and where that stands in the end.
LEMMA Written ==
    ASSUME NEW t, NEW e, NEW b, NEW u, IsScan(u, t, e, b), NEW i \in 1..Len(t), NEW o, o = u[Len(t)].out
    PROVE  /\ o \in Text /\ Len(o) \in Nat /\ DOMAIN o = 1..Len(o)
           /\ Upto(u, i - 1) \in Nat /\ Upto(u, i) \in Nat /\ Upto(u, i - 1) <= Upto(u, i) /\ Upto(u, i) <= Len(o)
           /\ u[i - 1].done \in Nat /\ u[i].done \in Nat
           /\ Kept(e, u, i) => /\ Upto(u, i) = Upto(u, i - 1) + 1 /\ u[i].done = u[i - 1].done
                               /\ Upto(u, i) \in DOMAIN o /\ o[Upto(u, i)] = t[i]
           /\ Hit(e, u, i) => /\ Upto(u, i) = Upto(u, i - 1) + Len(b) /\ u[i].done = e[i]
                              /\ \A x \in 1..Len(b) : /\ Upto(u, i - 1) + x \in DOMAIN o
                                                      /\ o[Upto(u, i - 1) + x] = b[x]
           /\ \/ Kept(e, u, i) \/ Hit(e, u, i)
              \/ i <= u[i - 1].done /\ Upto(u, i) = Upto(u, i - 1) /\ u[i].done = u[i - 1].done
<1>1. Len(t) \in Nat /\ i \in 0..Len(t) /\ i - 1 \in 0..Len(t) /\ Len(t) \in 0..Len(t) /\ Len(t) \in i..Len(t)
  BY ScanStart
<1>0. \/ i <= u[i - 1].done /\ u[i] = u[i - 1]
      \/ Hit(e, u, i) /\ u[i].out = u[i - 1].out \o b /\ u[i].done = e[i]
      \/ Kept(e, u, i) /\ u[i].out = Append(u[i - 1].out, t[i]) /\ u[i].done = u[i - 1].done
  BY ScanCases, SMTT(60)
<1> DEFINE a == u[i - 1].out
           c == u[i].out
<1>2. a \in Text /\ c \in Text /\ o \in Text /\ b \in Text /\ t[i] \in Token
  BY <1>1, ScanStart, ScanCases, SMTT(60)
<1>3. Begins(c, o)
  BY <1>1, OutGrows
<1>4. \/ i <= u[i - 1].done /\ u[i] = u[i - 1]
      \/ Hit(e, u, i) /\ c = a \o b /\ u[i].done = e[i]
      \/ Kept(e, u, i) /\ c = Append(a, t[i]) /\ u[i].done = u[i - 1].done
  BY <1>0
<1>5. Kept(e, u, i) => ~(i <= u[i - 1].done) /\ ~Hit(e, u, i)
  BY DEF Kept, Hit
<1>6. Hit(e, u, i) => ~(i <= u[i - 1].done)
  BY DEF Hit
<1>7. u[i - 1].done \in Nat /\ u[i].done \in Nat
  BY ScanCases, SMTT(60)
<1>8. Upto(u, i) = Len(c) /\ Upto(u, i - 1) = Len(a)
  BY DEF Upto
<1>9. c = a \/ c = a \o b \/ c = Append(a, t[i])
  BY <1>4
<1> HIDE DEF a, c
<1>10. Len(a) \in Nat /\ Len(c) \in Nat /\ Len(o) \in Nat /\ Len(b) \in Nat /\ DOMAIN o = 1..Len(o)
  BY <1>2 DEF Text
<1>11. Len(c) <= Len(o) /\ \A q \in 1..Len(c) : o[q] = c[q]
  BY <1>3 DEF Begins
<1>12. c = Append(a, t[i]) => Len(c) = Len(a) + 1 /\ c[Len(c)] = t[i]
  BY <1>2 DEF Text
<1>13. c = a \o b => Len(c) = Len(a) + Len(b) /\ \A x \in 1..Len(b) : c[Len(a) + x] = b[x]
  BY <1>2 DEF Text
<1>14. Len(a) <= Len(c)
  BY <1>9, <1>10, <1>12, <1>13
<1>15. ASSUME Kept(e, u, i) PROVE /\ Len(c) = Len(a) + 1 /\ u[i].done = u[i - 1].done
                                  /\ Len(c) \in DOMAIN o /\ o[Len(c)] = t[i]
  <2>1. Len(c) = Len(a) + 1 /\ c[Len(c)] = t[i] /\ u[i].done = u[i - 1].done
    BY <1>4, <1>5, <1>12, <1>15
  <2>2. Len(c) \in 1..Len(c) /\ Len(c) \in 1..Len(o)
    BY <1>10, <1>11, <2>1
  <2> QED
    BY <1>10, <1>11, <2>1, <2>2
<1>16. ASSUME Hit(e, u, i) PROVE /\ Len(c) = Len(a) + Len(b) /\ u[i].done = e[i]
                                 /\ \A x \in 1..Len(b) : Len(a) + x \in DOMAIN o /\ o[Len(a) + x] = b[x]
  <2>1. Len(c) = Len(a) + Len(b) /\ u[i].done = e[i] /\ \A x \in 1..Len(b) : c[Len(a) + x] = b[x]
    BY <1>4, <1>5, <1>6, <1>13, <1>16
  <2>2. \A x \in 1..Len(b) : Len(a) + x \in 1..Len(c) /\ Len(a) + x \in 1..Len(o)
    BY <1>10, <1>11, <2>1
  <2> QED
    BY <1>10, <1>11, <2>1, <2>2
<1>17. \/ Kept(e, u, i) \/ Hit(e, u, i)
       \/ i <= u[i - 1].done /\ Len(c) = Len(a) /\ u[i].done = u[i - 1].done
  BY <1>4 DEF a, c
<1> QED
  BY <1>2, <1>7, <1>8, <1>10, <1>11, <1>14, <1>15, <1>16, <1>17

\* Every token of the result was copied or put in.
LEMMA Origin ==
    ASSUME NEW t, NEW e, NEW b, NEW u, IsScan(u, t, e, b), NEW o, o = u[Len(t)].out, NEW q \in 1..Len(o)
    PROVE  \E k \in 1..Len(t) : \/ Kept(e, u, k) /\ Upto(u, k) = q /\ t[k] = o[q]
                                \/ /\ Hit(e, u, k)
                                   /\ \E x \in 1..Len(b) : q = Upto(u, k - 1) + x /\ o[q] = b[x]
<1> DEFINE n == Len(t)
           D == {k \in 1..n : q <= Upto(u, k)}
<1>1. n \in Nat /\ Upto(u, 0) = 0 /\ Len(b) \in Nat
  BY ScanStart, NoText DEF Upto
<1>2. Upto(u, n) = Len(o) /\ Len(o) \in Nat /\ n # 0
  <2>1. n \in 0..n
    BY <1>1
  <2>2. Upto(u, n) = Len(o) /\ Len(o) \in Nat
    BY <2>1, ScanStart DEF Upto
  <2> QED
    BY <1>1, <2>2
<1>3. D # {} /\ D \in SUBSET Nat
  <2>1. n \in D
    BY <1>1, <1>2
  <2> QED
    BY <2>1
<1>4. PICK k \in D : \A j \in D : k <= j
  <2> HIDE DEF D
  <2> QED
    BY <1>3, LeastNumber
<1>5. k \in 1..n /\ q <= Upto(u, k) /\ k \in Nat
  BY <1>1, <1>4
<1>6. ~(q <= Upto(u, k - 1))
  <2>1. CASE k = 1
    BY <1>1, <2>1
  <2>2. CASE k # 1
    <3>1. k - 1 \in 1..n /\ ~(k <= k - 1)
      BY <1>1, <1>5, <2>2
    <3> QED
      BY <1>4, <3>1
  <2> QED
    BY <2>1, <2>2
<1> HIDE DEF D, n
<1>7. q \in Nat
  BY <1>2
<1>8. CASE Kept(e, u, k)
  <2>1. Upto(u, k) = Upto(u, k - 1) + 1 /\ o[Upto(u, k)] = t[k] /\ Upto(u, k - 1) \in Nat
    BY <1>5, <1>8, Written, SMTT(60) DEF n
  <2>2. Upto(u, k) = q
    BY <1>5, <1>6, <1>7, <2>1
  <2> QED
    BY <1>5, <1>8, <2>1, <2>2 DEF n
<1>9. CASE Hit(e, u, k)
  <2>1. Upto(u, k) = Upto(u, k - 1) + Len(b) /\ Upto(u, k - 1) \in Nat
        /\ \A x \in 1..Len(b) : o[Upto(u, k - 1) + x] = b[x]
    BY <1>5, <1>9, Written, SMTT(60) DEF n
  <2> DEFINE x == q - Upto(u, k - 1)
  <2>2. x \in 1..Len(b) /\ q = Upto(u, k - 1) + x
    BY <1>1, <1>5, <1>6, <1>7, <2>1
  <2> HIDE DEF x
  <2> QED
    BY <1>5, <1>9, <2>1, <2>2 DEF n
<1>10. CASE Upto(u, k) = Upto(u, k - 1)
  BY <1>5, <1>6, <1>10
<1> QED
  BY <1>5, <1>8, <1>9, <1>10, Written, SMTT(60) DEF n

\* Tokens are copied in their order.
LEMMA Ordered ==
    ASSUME NEW t, NEW e, NEW b, NEW u, IsScan(u, t, e, b), NEW i \in 1..Len(t), NEW j \in 1..Len(t), Kept(e, u, j)
    PROVE  i < j => Upto(u, i) < Upto(u, j)
<1> SUFFICES ASSUME i < j PROVE Upto(u, i) < Upto(u, j)
  OBVIOUS
<1>1. Len(t) \in Nat /\ i \in 0..Len(t) /\ j - 1 \in i..Len(t)
  BY ScanStart
<1>2. Begins(u[i].out, u[j - 1].out)
  BY <1>1, OutGrows
<1>3. Upto(u, i) <= Upto(u, j - 1)
  BY <1>2 DEF Begins, Upto
<1>4. Upto(u, j) = Upto(u, j - 1) + 1 /\ Upto(u, j - 1) \in Nat
  BY Written, SMTT(60)
<1>5. Upto(u, i) \in Nat
  BY <1>1, ScanStart
<1> QED
  BY <1>3, <1>4, <1>5

\* Positions k to d of t stand in o, moved by g.
Shifted(t, o, g, k, d) == \A m \in k..d : m + g \in 1..Len(o) /\ o[m + g] = t[m]

\* No match begins at positions after k up to d.
Quiet(e, k, d) == \A m \in k + 1..d : e[m] = 0

\* From a position that is copied on, everything is, until a match begins.
LEMMA Verbatim ==
    ASSUME NEW t, NEW e, NEW b, NEW u, IsScan(u, t, e, b), NEW k \in 1..Len(t), Kept(e, u, k),
           NEW d \in k..Len(t), Quiet(e, k, d),
           NEW o, o = u[Len(t)].out, NEW g, g = Upto(u, k) - k
    PROVE  /\ g \in Int /\ Shifted(t, o, g, k, d)
           /\ \A m \in k..d : Kept(e, u, m) /\ Upto(u, m) = m + g
           /\ d = Len(t) => Len(o) = d + g
<1> DEFINE P(m) == Kept(e, u, m) /\ Upto(u, m) = m + g
           S == {m \in Nat : k <= m /\ m <= d => P(m)}
<1>1. k \in Nat /\ d \in Nat /\ k >= 1 /\ Len(t) \in Nat /\ d <= Len(t) /\ k <= d /\ 1..Len(t) = DOMAIN t
  BY ScanStart
<1>2. Upto(u, k) \in Nat /\ g \in Int
  BY <1>1, Written, SMTT(60)
<1>3. P(k)
  BY <1>1, <1>2
<1>4. 0 \in S
  <2> HIDE DEF P
  <2> QED
    BY <1>1
<1>5. ASSUME NEW m \in Nat, m \in S PROVE m + 1 \in S
  <2> SUFFICES ASSUME k <= m + 1, m + 1 <= d PROVE P(m + 1)
    OBVIOUS
  <2>1. CASE k = m + 1
    BY <1>3, <2>1
  <2>2. CASE k # m + 1
    <3>1. m \in 1..Len(t) /\ m + 1 \in 1..Len(t) /\ (m + 1) - 1 = m /\ m + 1 \in k + 1..d /\ k <= m /\ m <= d
      BY <1>1, <2>2
    <3>2. P(m)
      <4> HIDE DEF P
      <4> QED
        BY <1>5, <3>1
    <3>3. ~(m <= u[m - 1].done) /\ u[m].done = u[m - 1].done /\ u[m].done \in Nat
      <4>1. u[m].done = u[m - 1].done /\ u[m].done \in Nat
        BY <3>1, <3>2, Written, SMTT(60)
      <4> QED
        BY <3>2, <4>1 DEF Kept
    <3>4. ~(m + 1 <= u[m].done)
      BY <3>3
    <3>5. Kept(e, u, m + 1)
      BY <3>1, <3>4 DEF Kept, Quiet
    <3>6. Upto(u, m + 1) = Upto(u, m) + 1
      <4>1. Upto(u, m + 1) = Upto(u, (m + 1) - 1) + 1
        BY <3>1, <3>5, Written, SMTT(60)
      <4> QED
        BY <3>1, <4>1
    <3>7. Upto(u, m + 1) = m + 1 + g
      BY <1>2, <3>2, <3>6
    <3> QED
      BY <3>5, <3>7
  <2> QED
    BY <2>1, <2>2
<1>6. Nat \subseteq S
  <2> HIDE DEF S
  <2> QED
    BY <1>4, <1>5, SetInduction
<1>7. \A m \in k..d : P(m)
  <2>1. \A m \in k..d : m \in Nat /\ k <= m /\ m <= d
    BY <1>1
  <2> HIDE DEF P
  <2> QED
    BY <1>6, <2>1
<1>8. ASSUME NEW m \in k..d PROVE m + g \in 1..Len(o) /\ o[m + g] = t[m]
  <2>1. m \in 1..Len(t)
    BY <1>1
  <2>2. Kept(e, u, m) /\ Upto(u, m) = m + g
    BY <1>7
  <2>3. Upto(u, m) \in 1..Len(o) /\ o[Upto(u, m)] = t[m]
    <3>1. Upto(u, m) \in DOMAIN o /\ o[Upto(u, m)] = t[m] /\ DOMAIN o = 1..Len(o)
      BY <2>1, <2>2, Written, SMTT(60)
    <3> QED
      BY <3>1
  <2> QED
    BY <2>2, <2>3
<1>9. d = Len(t) => Len(o) = d + g
  <2>1. d \in k..d
    BY <1>1
  <2> QED
    BY <1>7, <2>1 DEF Upto
<1> QED
  BY <1>2, <1>7, <1>8, <1>9 DEF Shifted

\* After a position that is copied the next one is, or a match begins there, or
\* the text ends.
LEMMA NextToken ==
    ASSUME NEW t, NEW e, NEW b, NEW u, IsScan(u, t, e, b), NEW k \in 1..Len(t), Kept(e, u, k), NEW o, o = u[Len(t)].out
    PROVE  /\ k = Len(t) => Upto(u, k) = Len(o)
           /\ k # Len(t) => /\ k + 1 \in 1..Len(t) /\ (k + 1) - 1 = k
                            /\ Kept(e, u, k + 1) \/ Hit(e, u, k + 1)
<1>1. Len(t) \in Nat /\ k \in Nat
  BY ScanStart
<1>2. ASSUME k # Len(t) PROVE k + 1 \in 1..Len(t) /\ (k + 1) - 1 = k /\ (Kept(e, u, k + 1) \/ Hit(e, u, k + 1))
  <2>1. k + 1 \in 1..Len(t) /\ (k + 1) - 1 = k
    BY <1>1, <1>2
  <2>2. ~(k <= u[k - 1].done) /\ u[k].done = u[k - 1].done /\ u[k].done \in Nat
    BY Written, SMTT(60) DEF Kept
  <2>3. ~(k + 1 <= u[k].done)
    BY <1>1, <2>2
  <2> QED
    BY <2>1, <2>3 DEF Kept, Hit
<1> QED
  BY <1>2 DEF Upto

LEMMA ShiftedAt ==
    ASSUME NEW t \in Text, NEW o \in Text, NEW g \in Int, NEW k \in 1..Len(t), NEW d \in k..Len(t),
           Shifted(t, o, g, k, d), NEW m \in k..d
    PROVE  /\ m \in DOMAIN t /\ m \in Nat /\ m + g \in DOMAIN o /\ m + g \in Nat /\ o[m + g] = t[m]
           /\ k \in Nat /\ d \in Nat
  BY DEF Shifted, Text

LEMMA FirstMoves ==
    ASSUME NEW t \in Text, NEW o \in Text, NEW g \in Int, NEW k \in 1..Len(t), NEW d \in k..Len(t),
           Shifted(t, o, g, k, d), NEW tokens, NEW x \in k..d, NEW c \in k..d, x < c
    PROVE  First(t, x, tokens, c) <=> First(o, x + g, tokens, c + g)
<1>1. \A m \in k..d : /\ m \in DOMAIN t /\ m \in Nat /\ m + g \in DOMAIN o /\ m + g \in Nat
                       /\ o[m + g] = t[m]
  BY ShiftedAt
<1>2. k \in Nat /\ d \in Nat /\ x \in Nat /\ c \in Nat
  BY <1>1, ShiftedAt
<1>3. DOMAIN t \subseteq Nat /\ DOMAIN o \subseteq Nat
  BY DEF Text
<1>4. ASSUME First(t, x, tokens, c) PROVE First(o, x + g, tokens, c + g)
  <2>1. c + g \in DOMAIN o /\ x + g < c + g /\ o[c + g] \in tokens
    BY <1>1, <1>2, <1>4 DEF First, After
  <2>2. ASSUME NEW y \in DOMAIN o, x + g < y, y < c + g PROVE o[y] \notin tokens
    <3> DEFINE m == y - g
    <3>1. m \in k..d /\ y = m + g /\ x < m /\ m < c
      BY <1>2, <1>3, <2>2
    <3> HIDE DEF m
    <3>2. m \in DOMAIN t /\ o[y] = t[m]
      BY <1>1, <3>1
    <3> QED
      BY <1>4, <3>1, <3>2 DEF First
  <2> QED
    BY <2>1, <2>2 DEF First, After
<1>5. ASSUME First(o, x + g, tokens, c + g) PROVE First(t, x, tokens, c)
  <2>1. c \in DOMAIN t /\ x < c /\ t[c] \in tokens
    BY <1>1, <1>2, <1>5 DEF First, After
  <2>2. ASSUME NEW m \in DOMAIN t, x < m, m < c PROVE t[m] \notin tokens
    <3>1. m \in k..d /\ x + g < m + g /\ m + g < c + g
      BY <1>2, <1>3, <2>2
    <3>2. m + g \in DOMAIN o /\ o[m + g] = t[m]
      BY <1>1, <3>1
    <3> QED
      BY <1>5, <3>1, <3>2 DEF First
  <2> QED
    BY <2>1, <2>2 DEF First, After
<1> QED
  BY <1>4, <1>5

LEMMA MatchMoves ==
    ASSUME NEW t \in Text, NEW o \in Text, NEW g \in Int, NEW k \in 1..Len(t), NEW d \in k..Len(t),
           Shifted(t, o, g, k, d), NEW c \in k..d, NEW a \in k..d, k < c, c < a,
           Matches(o, k + g, c + g, a + g)
    PROVE  Matches(t, k, c, a)
<1>1. \A m \in k..d : m \in Nat /\ o[m + g] = t[m]
  BY ShiftedAt
<1>2. k \in k..d
  BY ShiftedAt
<1>3. First(t, k, Colons, c) <=> First(o, k + g, Colons, c + g)
  BY <1>2, FirstMoves
<1>4. First(t, c, Ats, a) <=> First(o, c + g, Ats, a + g)
  BY FirstMoves
<1>5. t[k] = "url" /\ (t[c] = "colon" => c + g > k + g + 1 /\ a + g > c + g + 1)
  BY <1>1, <1>2 DEF Matches
<1>6. t[c] = "colon" => c > k + 1 /\ a > c + 1
  BY <1>1, <1>2, <1>5
<1> QED
  BY <1>3, <1>4, <1>5, <1>6 DEF Matches

\* A rule that matches nowhere leaves the text.
LEMMA NothingToDo ==
    ASSUME NEW t, NEW e, NEW b, Rule(t, e, b), \A q \in DOMAIN t : e[q] = 0
    PROVE  ReplaceAllString(t, e, b) = t
<1>1. PICK u : IsScan(u, t, e, b) /\ ReplaceAllString(t, e, b) = u[Len(t)].out
  BY ScanIs
<1>2. t \in Text /\ Len(t) \in Nat /\ DOMAIN t = 1..Len(t)
  BY <1>1, ScanStart
<1> DEFINE o == ReplaceAllString(t, e, b)
<1>3. CASE Len(t) = 0
  <2>1. o = <<>>
    BY <1>1, <1>3, ScanStart
  <2>2. t = <<>>
    BY <1>2, <1>3 DEF Text
  <2> QED
    BY <2>1, <2>2
<1>4. CASE Len(t) # 0
  <2>1. 1 \in 1..Len(t) /\ Len(t) \in 1..Len(t) /\ 1 - 1 = 0 /\ Quiet(e, 1, Len(t))
    BY <1>2, <1>4 DEF Quiet
  <2>2. u[0].done = 0 /\ Upto(u, 0) = 0
    BY <1>1, ScanStart, NoText DEF Upto
  <2>3. Kept(e, u, 1)
    BY <1>2, <2>1, <2>2 DEF Kept
  <2>4. Upto(u, 1) = 1 /\ o \in Text
    <3>1. Upto(u, 1) = Upto(u, 1 - 1) + 1 /\ o \in Text
      BY <1>1, <2>1, <2>3, Written, SMTT(60)
    <3> QED
      BY <2>1, <2>2, <3>1
  <2> DEFINE g == Upto(u, 1) - 1
  <2>5. g = 0
    BY <2>4
  <2> HIDE DEF o, g
  <2>6. Shifted(t, o, g, 1, Len(t)) /\ Len(o) = Len(t) + g
    BY <1>1, <2>1, <2>3, Verbatim, SMTT(60) DEF o, g
  <2>7. Len(o) = Len(t) /\ \A q \in 1..Len(t) : o[q] = t[q]
    BY <1>2, <2>5, <2>6 DEF Shifted
  <2>8. o = t
    BY <1>2, <2>4, <2>7 DEF Text
  <2> QED
    BY <2>8 DEF o
<1> QED
  BY <1>3, <1>4

-----------------------------------------------------------------------------
(* What the rule for URLs leaves                                             *)

UrlEnds(t) == [i \in DOMAIN t |-> URLEnd(t, i)]
UrlFiller == <<"tag", "at">>

LEMMA UrlRule ==
    ASSUME NEW t \in Text
    PROVE  /\ Rule(t, UrlEnds(t), UrlFiller) /\ RedactURLs(t) = ReplaceAllString(t, UrlEnds(t), UrlFiller)
           /\ \A i \in DOMAIN t : UrlEnds(t)[i] = URLEnd(t, i)
           /\ Len(UrlFiller) = 2 /\ \A x \in 1..2 : UrlFiller[x] \in {"tag", "at"}
<1>1. UrlFiller \in Text
  <2>1. "tag" \in Token /\ "at" \in Token
    BY DEF Token
  <2>2. <<"tag", "at">> \in Seq(Token)
    BY <2>1
  <2> QED
    BY <2>2 DEF Text, UrlFiller
<1>2. \A i \in DOMAIN t : UrlEnds(t)[i] = URLEnd(t, i) /\ URLEnd(t, i) \in Nat
  BY MatchEnd DEF UrlEnds
<1>3. Len(UrlFiller) = 2 /\ \A x \in 1..2 : UrlFiller[x] \in {"tag", "at"}
  BY DEF UrlFiller
<1>4. RedactURLs(t) = ReplaceAllString(t, UrlEnds(t), UrlFiller)
  BY DEF RedactURLs, UrlEnds, UrlFiller
<1> QED
  BY <1>1, <1>2, <1>3, <1>4 DEF Rule

CleanOfURLs(t) == \A q \in DOMAIN t : URLEnd(t, q) = 0

LEMMA CleanStays ==
    ASSUME NEW t \in Text, CleanOfURLs(t)
    PROVE  RedactURLs(t) = t
  BY UrlRule, NothingToDo DEF CleanOfURLs

\* A url in the result of a rule that puts none in was copied; if the rest is
\* copied too, the rule for URLs matches it no more than before.
LEMMA NothingAfter ==
    ASSUME NEW t, NEW e, NEW b, NEW u, IsScan(u, t, e, b), NEW k \in 1..Len(t), Kept(e, u, k), URLEnd(t, k) = 0,
           Quiet(e, k, Len(t)),
           NEW o, o = u[Len(t)].out
    PROVE  URLEnd(o, Upto(u, k)) = 0
<1> DEFINE n == Len(t)
           q == Upto(u, k)
           g == q - k
<1>1. t \in Text /\ n \in Nat /\ DOMAIN t = 1..n /\ k \in Nat /\ k <= n /\ k \in k..n /\ n \in k..n
  BY ScanStart
<1>2. o \in Text /\ DOMAIN o = 1..Len(o) /\ Len(o) \in Nat /\ q \in Nat /\ q \in DOMAIN o
  BY Written, SMTT(60)
<1>3. g \in Int /\ Shifted(t, o, g, k, n) /\ Len(o) = n + g
  BY <1>1, Verbatim, SMTT(60)
<1> SUFFICES ASSUME URLEnd(o, q) # 0 PROVE FALSE
  OBVIOUS
<1> DEFINE a == URLEnd(o, q)
<1>4. PICK c : Matches(o, q, c, a)
  BY <1>2, MatchEnd
<1>5. q < c /\ c < a /\ c \in 1..Len(o) /\ a \in 1..Len(o)
  BY <1>2, <1>4, MatchEnd
<1>6. q = k + g
  BY <1>1, <1>2
<1> HIDE DEF q, g, a, n
<1> DEFINE c1 == c - g
           a1 == a - g
<1>7. c1 \in k..n /\ a1 \in k..n /\ k < c1 /\ c1 < a1 /\ c = c1 + g /\ a = a1 + g
  BY <1>1, <1>2, <1>3, <1>5, <1>6
<1> HIDE DEF c1, a1
<1>8. Matches(t, k, c1, a1)
  <2>1. Matches(o, k + g, c1 + g, a1 + g)
    BY <1>4, <1>6, <1>7
  <2> QED
    BY <1>1, <1>2, <1>3, <1>7, <2>1, MatchMoves DEF n
<1>9. URLEnd(t, k) = a1
  BY <1>1, <1>8, MatchEnd DEF n
<1> QED
  BY <1>1, <1>7, <1>9

\* The first match of a rule after a position.
LEMMA FirstMatch ==
    ASSUME NEW n \in Nat, NEW k \in 1..n, NEW e, ~Quiet(e, k, n)
    PROVE  \E d \in k..n : /\ d \in Nat /\ d + 1 \in 1..n /\ (d + 1) - 1 = d
                           /\ e[d + 1] # 0 /\ Quiet(e, k, d)
<1> DEFINE L == {m \in k + 1..n : e[m] # 0}
<1>1. L \in SUBSET Nat /\ L # {}
  BY DEF Quiet
<1>2. PICK m0 \in L : \A m \in L : m0 <= m
  <2> HIDE DEF L
  <2> QED
    BY <1>1, LeastNumber
<1> DEFINE d == m0 - 1
<1>3. d \in k..n /\ d \in Nat /\ d + 1 = m0 /\ d + 1 \in 1..n /\ (d + 1) - 1 = d /\ e[m0] # 0
  BY <1>2
<1>4. ASSUME NEW m \in k + 1..d, e[m] # 0 PROVE FALSE
  <2>1. m \in L /\ ~(m0 <= m)
    BY <1>2, <1>4
  <2> QED
    BY <1>2, <2>1
<1> HIDE DEF d, L
<1> QED
  BY <1>3, <1>4 DEF Quiet

\* ReplaceAllString leaves no match of the rule for URLs: no replacement makes a
\* new one together with what stands around it.
THEOREM RedactedIsClean ==
    ASSUME NEW t \in Text
    PROVE  /\ RedactURLs(t) \in Text
           /\ CleanOfURLs(RedactURLs(t))
<1> DEFINE ends == UrlEnds(t)
           b == UrlFiller
<1>0. Rule(t, ends, b) /\ RedactURLs(t) = ReplaceAllString(t, ends, b) /\ Len(b) = 2
      /\ (\A i \in DOMAIN t : ends[i] = URLEnd(t, i)) /\ \A x \in 1..2 : b[x] \in {"tag", "at"}
  BY UrlRule
<1> HIDE DEF ends, b
<1>1. PICK u : IsScan(u, t, ends, b) /\ RedactURLs(t) = u[Len(t)].out
  BY <1>0, ScanIs
<1> DEFINE o == RedactURLs(t)
           n == Len(t)
<1>2. n \in Nat /\ n \in 0..n /\ DOMAIN t = 1..n
  BY DEF Text
<1>3. o \in Text /\ DOMAIN o = 1..Len(o) /\ Len(o) \in Nat /\ o = u[n].out
  <2>1. o \in Text
    BY <1>1, <1>2, ScanStart
  <2> QED
    BY <1>1, <2>1 DEF Text
<1> HIDE DEF o
<1> SUFFICES ASSUME NEW q \in DOMAIN o, URLEnd(o, q) # 0 PROVE FALSE
  BY <1>3 DEF o, CleanOfURLs
<1> DEFINE a == URLEnd(o, q)
<1>4. PICK c : Matches(o, q, c, a)
  BY <1>3, MatchEnd
<1>5. q < c /\ c < a /\ c \in 1..Len(o) /\ a \in 1..Len(o) /\ o[q] = "url" /\ q \in Nat /\ c \in Nat /\ a \in Nat
  <2>1. q < c /\ c < a /\ c \in DOMAIN o /\ a \in DOMAIN o
    BY <1>3, <1>4, MatchEnd
  <2>2. o[q] = "url"
    BY <1>4 DEF Matches
  <2> HIDE DEF a
  <2> QED
    BY <1>3, <2>1, <2>2
<1>6. PICK k \in 1..n : Kept(ends, u, k) /\ t[k] = "url" /\ Upto(u, k) = q
  <2>1. \A x \in 1..Len(b) : b[x] # "url"
    BY <1>0
  <2>2. q \in 1..Len(o)
    BY <1>3
  <2>3. PICK k \in 1..n : \/ Kept(ends, u, k) /\ Upto(u, k) = q /\ t[k] = o[q]
                          \/ \E x \in 1..Len(b) : o[q] = b[x]
    BY <1>1, <1>3, <2>2, Origin, SMTT(60)
  <2> QED
    BY <1>5, <2>1, <2>3
<1>7. URLEnd(t, k) = 0 /\ k \in DOMAIN t /\ k \in Nat /\ k \in 1..n
  BY <1>0, <1>2, <1>6 DEF Kept
<1> DEFINE g == q - k
<1>8. g \in Int /\ q = k + g
  BY <1>5, <1>7
<1>10. /\ First(o, q, Colons, c) /\ First(o, c, Ats, a)
       /\ o[c] = "colon" => c > q + 1 /\ a > c + 1
  BY <1>4 DEF Matches
<1>11. ~Quiet(ends, k, n)
  BY <1>1, <1>3, <1>6, <1>7, NothingAfter, SMTT(60)
<1> HIDE DEF a, g
<1>12. FALSE
  <2>1. PICK d \in k..n : /\ d \in Nat /\ d + 1 \in 1..n /\ ends[d + 1] # 0 /\ Quiet(ends, k, d)
    <3> HIDE DEF n
    <3> QED
      BY <1>2, <1>7, <1>11, FirstMatch, SMTT(60)
  <2> DEFINE m0 == d + 1
  <2>2. m0 \in DOMAIN t /\ m0 \in Nat /\ URLEnd(t, m0) # 0 /\ m0 \in k + 1..n
    BY <1>0, <1>2, <1>7, <2>1
  <2>3. d \in k..n /\ d \in Nat /\ k <= d /\ m0 = d + 1
    BY <1>2, <1>7, <2>1
  <2> HIDE DEF m0
  <2>4. Shifted(t, o, g, k, d)
    <3>1. g = Upto(u, k) - k
      BY <1>6 DEF g
    <3>2. k \in 1..Len(t) /\ Kept(ends, u, k) /\ d \in k..Len(t) /\ Quiet(ends, k, d)
      BY <1>6, <2>1
    <3>3. IsScan(u, t, ends, b) /\ o = u[Len(t)].out
      BY <1>1, <1>3
    <3> QED
      BY <3>1, <3>2, <3>3, Verbatim, SMTT(60)
  <2>5. PICK z \in DOMAIN t : m0 < z /\ t[z] = "at" /\ t[m0] = "url"
    BY <2>2, MatchEnd DEF Matches
  <2> DEFINE c1 == Min(After(t, k, Colons))
             a1 == Min(After(t, c1, Ats))
  <2>6. First(t, k, Colons, c1)
    <3>1. m0 \in After(t, k, Colons)
      BY <1>7, <2>2, <2>5 DEF After, Colons
    <3> QED
      BY <1>7, <3>1, FirstIs
  <2> HIDE DEF c1
  <2>7. c1 \in DOMAIN t /\ k < c1 /\ c1 <= m0 /\ c1 \in Nat /\ t[c1] \in Colons
    <3>1. c1 \in DOMAIN t /\ k < c1 /\ t[c1] \in Colons /\ c1 \in Nat
      BY <1>2, <2>6 DEF First, After
    <3>2. ~(m0 < c1)
      BY <1>7, <2>2, <2>5, <2>6 DEF First, Colons
    <3> QED
      BY <2>2, <3>1, <3>2
  <2>8. First(t, c1, Ats, a1)
    <3>1. z \in After(t, c1, Ats)
      BY <1>2, <2>2, <2>5, <2>7 DEF After, Ats
    <3> QED
      BY <2>7, <3>1, FirstIs
  <2> HIDE DEF a1
  <2>9. a1 \in DOMAIN t /\ c1 < a1 /\ a1 \in Nat /\ t[a1] = "at"
    BY <1>2, <2>8 DEF First, After, Ats
  <2>10. t[c1] = "colon" /\ (c1 = k + 1 \/ a1 = c1 + 1)
    <3>1. ~Matches(t, k, c1, a1)
      BY <1>7, <2>7, <2>9, MatchEnd
    <3>2. t[c1] = "colon" /\ ~(c1 > k + 1 /\ a1 > c1 + 1)
      BY <1>6, <2>6, <2>8, <3>1 DEF Matches
    <3> QED
      BY <1>7, <2>7, <2>9, <3>2
  <2>11. c1 \in k..d
    <3>1. c1 # m0
      BY <2>5, <2>10
    <3> QED
      BY <1>7, <2>2, <2>3, <2>7, <3>1
  <2>12. k \in k..d
    BY <1>7, <2>3
  <2>13. First(o, q, Colons, c1 + g)
    <3>1. First(t, k, Colons, c1) <=> First(o, k + g, Colons, c1 + g)
      BY <1>3, <1>8, <2>3, <2>4, <2>7, <2>11, <2>12, FirstMoves
    <3> QED
      BY <1>8, <2>6, <3>1
  <2>14. c = c1 + g
    <3>1. Min(After(o, q, Colons)) = c
      BY <1>3, <1>5, <1>10, FirstIs
    <3>2. Min(After(o, q, Colons)) = c1 + g
      BY <1>3, <1>5, <2>13, FirstIs
    <3> QED
      BY <3>1, <3>2
  <2>15. o[c] = "colon"
    <3>1. o[c1 + g] = t[c1]
      BY <1>3, <1>8, <2>3, <2>4, <2>11, ShiftedAt
    <3> QED
      BY <2>10, <2>14, <3>1
  <2>16. a1 = c1 + 1
    <3>1. c > q + 1
      BY <1>10, <2>15
    <3>2. c1 # k + 1
      <4>1. ~(k + 1 + g > k + g + 1)
        BY <1>7, <1>8
      <4>2. c1 + g > k + g + 1
        BY <1>8, <2>14, <3>1
      <4> QED
        BY <4>1, <4>2
    <3> QED
      BY <2>10, <3>2
  <2>17. a1 \in k..d
    <3>1. a1 # m0
      BY <2>5, <2>9
    <3> QED
      BY <1>7, <2>2, <2>3, <2>9, <2>11, <2>16, <3>1
  <2>18. c + 1 \in DOMAIN o /\ o[c + 1] = "at"
    <3>1. c + 1 = a1 + g
      BY <1>5, <1>8, <2>7, <2>9, <2>14, <2>16
    <3>2. o[a1 + g] = t[a1]
      BY <1>3, <1>8, <2>3, <2>4, <2>17, ShiftedAt
    <3>3. a1 + g \in DOMAIN o
      BY <1>3, <1>8, <2>3, <2>4, <2>17, ShiftedAt
    <3> QED
      BY <2>9, <3>1, <3>2, <3>3
  <2>19. a > c + 1
    BY <1>10, <2>15
  <2>20. c < c + 1
    BY <1>5
  <2> QED
    BY <1>10, <2>18, <2>19, <2>20 DEF First, Ats
<1> QED
  BY <1>12
-----------------------------------------------------------------------------
(* Where the rule for Docker's auth matches                                  *)

OpensAt(t, i) ==
    /\ i \in DOMAIN t /\ i + 1 \in DOMAIN t /\ i + 2 \in DOMAIN t /\ i + 3 \in DOMAIN t /\ i + 4 \in DOMAIN t
    /\ t[i] = "quote" /\ t[i + 1] = "auth" /\ t[i + 2] = "quote" /\ t[i + 3] = "colon" /\ t[i + 4] = "quote"

LEMMA OpensIs ==
    ASSUME NEW t \in Text, NEW i \in Nat
    PROVE  Opens(t, i) <=> OpensAt(t, i)
<1>1. DOMAIN Opening = 1..5
  BY DEF Opening
<1>2. \A k : k \in 1..5 <=> k \in {1, 2, 3, 4, 5}
  OBVIOUS
<1>3. /\ Opening[1] = "quote" /\ Opening[2] = "auth" /\ Opening[3] = "quote"
      /\ Opening[4] = "colon" /\ Opening[5] = "quote"
  BY DEF Opening
<1>4. i + 1 - 1 = i /\ i + 2 - 1 = i + 1 /\ i + 3 - 1 = i + 2 /\ i + 4 - 1 = i + 3 /\ i + 5 - 1 = i + 4
  OBVIOUS
<1>5. Opens(t, i) <=> \A k \in {1, 2, 3, 4, 5} : i + k - 1 \in DOMAIN t /\ t[i + k - 1] = Opening[k]
  BY <1>1, <1>2 DEF Opens
<1> QED
  BY <1>3, <1>4, <1>5 DEF OpensAt

Quotes == {"quote"}

\* A match of the rule from i to f.
Auths(t, i, f) ==
    Opens(t, i) /\ First(t, i + 4, Quotes, f) /\ LongEnough(SubSeq(t, i + 5, f - 1))

LEMMA AuthEndIs ==
    ASSUME NEW t \in Text, NEW i \in DOMAIN t
    PROVE  /\ \A f : Auths(t, i, f) => AuthEnd(t, i) = f
           /\ AuthEnd(t, i) # 0 => Auths(t, i, AuthEnd(t, i))
           /\ \A f : Auths(t, i, f) => i + 4 < f /\ f \in DOMAIN t /\ f \in Nat /\ t[f] = "quote" /\ OpensAt(t, i)
           /\ AuthEnd(t, i) \in Nat /\ i \in Nat
<1> DEFINE Q == After(t, i + 4, Quotes)
           f0 == Min(Q)
<1>1. DOMAIN t = 1..Len(t) /\ Len(t) \in Nat /\ i \in Nat /\ i + 4 \in Nat
  BY DEF Text
<1>2. AuthEnd(t, i) = IF Opens(t, i) /\ Q # {} /\ LongEnough(SubSeq(t, i + 5, f0 - 1)) THEN f0 ELSE 0
  BY DEF AuthEnd, Quotes
<1>3. /\ Q # {} => First(t, i + 4, Quotes, f0)
      /\ \A f : First(t, i + 4, Quotes, f) => Q # {} /\ f0 = f
  BY <1>1, FirstIs
<1>4. \A f : First(t, i + 4, Quotes, f) => i + 4 < f /\ f \in DOMAIN t /\ f \in Nat /\ t[f] = "quote"
  BY <1>1 DEF First, After, Quotes
<1> HIDE DEF Q, f0
<1>5. \A f : Auths(t, i, f) => AuthEnd(t, i) = f
  BY <1>2, <1>3 DEF Auths
<1>6. AuthEnd(t, i) # 0 => Auths(t, i, AuthEnd(t, i))
  BY <1>2, <1>3 DEF Auths
<1>7. Opens(t, i) <=> OpensAt(t, i)
  BY <1>1, OpensIs
<1>8. \A f : Auths(t, i, f) => i + 4 < f /\ f \in DOMAIN t /\ f \in Nat /\ t[f] = "quote" /\ OpensAt(t, i)
  BY <1>4, <1>7 DEF Auths
<1>9. AuthEnd(t, i) \in Nat
  <2>1. CASE AuthEnd(t, i) = 0
    BY <2>1
  <2>2. CASE AuthEnd(t, i) # 0
    BY <1>6, <1>8, <2>2
  <2> QED
    BY <2>1, <2>2
<1> QED
  BY <1>1, <1>5, <1>6, <1>8, <1>9

AuthEnds(t) == [i \in DOMAIN t |-> AuthEnd(t, i)]
AuthFiller == Opening \o <<"mark", "quote">>

LEMMA Joined ==
    ASSUME NEW a \in Text, NEW c \in Text
    PROVE  /\ a \o c \in Text /\ Len(a \o c) = Len(a) + Len(c)
           /\ \A x \in 1..Len(a) : (a \o c)[x] = a[x]
           /\ \A x \in 1..Len(c) : (a \o c)[Len(a) + x] = c[x]
  BY DEF Text

LEMMA AuthFillerIs ==
    /\ AuthFiller \in Text /\ Len(AuthFiller) = 7
    /\ AuthFiller[1] = "quote" /\ AuthFiller[2] = "auth" /\ AuthFiller[3] = "quote" /\ AuthFiller[4] = "colon"
    /\ AuthFiller[5] = "quote" /\ AuthFiller[6] = "mark" /\ AuthFiller[7] = "quote"
    /\ \A x \in 1..7 : AuthFiller[x] \in {"quote", "auth", "colon", "mark"}
<1> DEFINE a == Opening
           c == <<"mark", "quote">>
<1>1. "quote" \in Token /\ "auth" \in Token /\ "colon" \in Token /\ "mark" \in Token
  BY DEF Token
<1>2. <<"quote", "auth", "quote", "colon", "quote">> \in Seq(Token) /\ <<"mark", "quote">> \in Seq(Token)
  BY <1>1
<1>3. /\ a \in Seq(Token) /\ Len(a) = 5 /\ a[1] = "quote" /\ a[2] = "auth" /\ a[3] = "quote"
      /\ a[4] = "colon" /\ a[5] = "quote"
  BY <1>2 DEF Opening
<1>4. c \in Seq(Token) /\ Len(c) = 2 /\ c[1] = "mark" /\ c[2] = "quote"
  BY <1>2
<1> HIDE DEF a, c
<1>5. /\ Len(AuthFiller) = 7
      /\ AuthFiller[1] = "quote" /\ AuthFiller[2] = "auth" /\ AuthFiller[3] = "quote" /\ AuthFiller[4] = "colon"
      /\ AuthFiller[5] = "quote" /\ AuthFiller[6] = "mark" /\ AuthFiller[7] = "quote"
      /\ AuthFiller \in Text
  <2>1. AuthFiller = a \o c
    BY DEF AuthFiller, a, c
  <2> DEFINE d == a \o c
  <2>2. d \in Text /\ Len(d) = Len(a) + Len(c)
    BY <1>3, <1>4, Joined DEF Text
  <2>3. (\A x \in 1..Len(a) : d[x] = a[x]) /\ \A x \in 1..Len(c) : d[Len(a) + x] = c[x]
    BY <1>3, <1>4, Joined DEF Text
  <2> HIDE DEF d
  <2>4. d[1] = a[1] /\ d[2] = a[2] /\ d[3] = a[3] /\ d[4] = a[4] /\ d[5] = a[5]
    <3>1. \A x \in 1..5 : d[x] = a[x]
      BY <1>3, <2>3
    <3> QED
      BY <3>1
  <2>5. d[6] = c[1] /\ d[7] = c[2]
    <3>1. d[5 + 1] = c[1] /\ d[5 + 2] = c[2]
      <4>1. \A x \in 1..2 : d[5 + x] = c[x]
        BY <1>3, <1>4, <2>3
      <4> QED
        BY <4>1
    <3> QED
      BY <3>1
  <2>6. AuthFiller = d
    BY <2>1 DEF d
  <2> QED
    BY <1>3, <1>4, <2>2, <2>4, <2>5, <2>6
<1>6. \A x \in 1..7 : x \in {1, 2, 3, 4, 5, 6, 7}
  OBVIOUS
<1>7. \A x \in 1..7 : AuthFiller[x] \in {"quote", "auth", "colon", "mark"}
  BY <1>5, <1>6
<1> QED
  BY <1>5, <1>7

LEMMA AuthRule ==
    ASSUME NEW t \in Text
    PROVE  /\ Rule(t, AuthEnds(t), AuthFiller) /\ RedactAuths(t) = ReplaceAllString(t, AuthEnds(t), AuthFiller)
           /\ \A i \in DOMAIN t : AuthEnds(t)[i] = AuthEnd(t, i)
<1>1. \A i \in DOMAIN t : AuthEnds(t)[i] = AuthEnd(t, i) /\ AuthEnd(t, i) \in Nat
  BY AuthEndIs DEF AuthEnds
<1>2. RedactAuths(t) = ReplaceAllString(t, AuthEnds(t), AuthFiller)
  BY DEF RedactAuths, AuthEnds, AuthFiller
<1> QED
  BY <1>1, <1>2, AuthFillerIs DEF Rule

\* u is the scan of t by the rule, and o its result.
AuthScan(u, t, o) ==
    /\ t \in Text /\ o \in Text /\ o = RedactAuths(t)
    /\ IsScan(u, t, AuthEnds(t), AuthFiller) /\ o = u[Len(t)].out

LEMMA AuthScanIs == ASSUME NEW t \in Text PROVE \E u : AuthScan(u, t, RedactAuths(t))
<1>1. PICK u : /\ IsScan(u, t, AuthEnds(t), AuthFiller)
               /\ ReplaceAllString(t, AuthEnds(t), AuthFiller) = u[Len(t)].out
  BY AuthRule, ScanIs
<1>2. Len(t) \in 0..Len(t) /\ RedactAuths(t) = u[Len(t)].out
  BY <1>1, AuthRule DEF Text
<1>3. RedactAuths(t) \in Text
  BY <1>1, <1>2, ScanStart
<1> QED
  BY <1>1, <1>2, <1>3 DEF AuthScan

\* Where a match begins, the result has the first tokens of the text.
LEMMA ShiftedOn ==
    ASSUME NEW t, NEW u, NEW o, AuthScan(u, t, o), NEW k \in 1..Len(t), Kept(AuthEnds(t), u, k),
           NEW d \in k..Len(t), Quiet(AuthEnds(t), k, d), d + 1 \in 1..Len(t), AuthEnds(t)[d + 1] # 0,
           NEW g, g = Upto(u, k) - k
    PROVE  /\ d + 5 \in k..Len(t) /\ Shifted(t, o, g, k, d + 5) /\ OpensAt(t, d + 1)
           /\ Hit(AuthEnds(t), u, d + 1) /\ u[d + 1].done = AuthEnd(t, d + 1) /\ d + 5 < AuthEnd(t, d + 1)
           /\ Upto(u, d) = d + g
<1> DEFINE e == AuthEnds(t)
<1>1. t \in Text /\ IsScan(u, t, e, AuthFiller) /\ o = u[Len(t)].out
  BY DEF AuthScan
<1>2. Len(t) \in Nat /\ DOMAIN t = 1..Len(t) /\ k \in Nat /\ d \in Nat /\ k <= d /\ d <= Len(t) /\ k >= 1
      /\ \A i \in DOMAIN t : e[i] = AuthEnd(t, i)
  BY <1>1, AuthRule, ScanStart
<1>3. d \in k..d /\ d \in 1..Len(t) /\ (d + 1) - 1 = d
  BY <1>2
<1> HIDE DEF e
<1>4. g \in Int /\ Shifted(t, o, g, k, d) /\ Kept(e, u, d) /\ Upto(u, d) = d + g
  BY <1>1, <1>3, Verbatim, SMTT(60) DEF e
<1>5. OpensAt(t, d + 1) /\ d + 1 + 4 < AuthEnd(t, d + 1) /\ AuthEnd(t, d + 1) \in DOMAIN t
  BY <1>1, <1>2, AuthEndIs DEF e
<1>6. Hit(e, u, d + 1)
  <2>1. Kept(e, u, d + 1) \/ Hit(e, u, d + 1)
    <3>1. d # Len(t)
      <4> DEFINE n == Len(t)
      <4>1. d + 1 \in 1..n /\ n \in Nat /\ d \in Nat
        BY <1>2
      <4> HIDE DEF n
      <4>2. d # n
        BY <4>1
      <4> QED
        BY <4>2 DEF n
    <3> QED
      BY <1>1, <1>3, <1>4, <3>1, NextToken, SMTT(60)
  <2> QED
    BY <2>1 DEF Kept, e
<1>7. /\ u[d + 1].done = e[d + 1]
      /\ \A x \in 1..7 : Upto(u, d) + x \in DOMAIN o /\ o[Upto(u, d) + x] = AuthFiller[x]
  <2>1. /\ u[d + 1].done = e[d + 1]
        /\ \A x \in 1..7 : /\ Upto(u, (d + 1) - 1) + x \in DOMAIN o
                           /\ o[Upto(u, (d + 1) - 1) + x] = AuthFiller[x]
    <3>1. /\ u[d + 1].done = e[d + 1]
          /\ \A x \in 1..Len(AuthFiller) : /\ Upto(u, (d + 1) - 1) + x \in DOMAIN o
                                            /\ o[Upto(u, (d + 1) - 1) + x] = AuthFiller[x]
      BY <1>1, <1>6, Written, SMTT(60)
    <3> QED
      BY <3>1, AuthFillerIs
  <2> QED
    BY <1>3, <2>1
<1>8. DOMAIN o = 1..Len(o)
  BY DEF AuthScan, Text
<1>9. d + 5 \in k..Len(t)
  BY <1>2, <1>5
<1>10. ASSUME NEW m \in k..d + 5 PROVE m + g \in 1..Len(o) /\ o[m + g] = t[m]
  <2>1. CASE m <= d
    <3>1. m \in k..d
      BY <1>2, <2>1
    <3> QED
      BY <1>4, <3>1 DEF Shifted
  <2>2. CASE ~(m <= d)
    <3> DEFINE x == m - d
    <3>1. x \in {1, 2, 3, 4, 5} /\ m = d + x /\ x \in 1..7 /\ m + g = (d + g) + x
      BY <1>2, <1>4, <2>2
    <3>2. m + g \in 1..Len(o) /\ o[m + g] = AuthFiller[x]
      BY <1>4, <1>7, <1>8, <3>1
    <3> HIDE DEF x
    <3>3. t[d + x] = AuthFiller[x]
      <4>1. d + 1 + 1 = d + 2 /\ d + 1 + 2 = d + 3 /\ d + 1 + 3 = d + 4 /\ d + 1 + 4 = d + 5
        BY <1>2
      <4> QED
        BY <1>5, <3>1, <4>1, AuthFillerIs DEF OpensAt
    <3> QED
      BY <3>1, <3>2, <3>3
  <2> QED
    BY <2>1, <2>2
<1>11. d + 1 + 4 = d + 5
  BY <1>2
<1> QED
  BY <1>2, <1>4, <1>5, <1>6, <1>7, <1>9, <1>10, <1>11 DEF Shifted, e

\* Redacting Docker's auth makes no match for the rule for URLs.
LEMMA AuthsKeepClean ==
    ASSUME NEW t \in Text, CleanOfURLs(t)
    PROVE  RedactAuths(t) \in Text /\ CleanOfURLs(RedactAuths(t))
<1> DEFINE o == RedactAuths(t)
           n == Len(t)
           e == AuthEnds(t)
<1>1. PICK u : AuthScan(u, t, o)
  BY AuthScanIs
<1>2. n \in Nat /\ DOMAIN t = 1..n
  BY DEF Text
<1>3. o \in Text /\ DOMAIN o = 1..Len(o) /\ Len(o) \in Nat /\ o = u[n].out /\ IsScan(u, t, e, AuthFiller)
  <2>1. o \in Text /\ o = u[n].out /\ IsScan(u, t, e, AuthFiller)
    BY <1>1 DEF AuthScan
  <2> HIDE DEF o, e
  <2> QED
    BY <2>1 DEF Text
<1> HIDE DEF o
<1> SUFFICES ASSUME NEW q \in DOMAIN o, URLEnd(o, q) # 0 PROVE FALSE
  BY <1>3 DEF o, CleanOfURLs
<1> DEFINE a == URLEnd(o, q)
<1>4. PICK c : Matches(o, q, c, a)
  BY <1>3, MatchEnd
<1>5. /\ q < c /\ c < a /\ c \in DOMAIN o /\ a \in DOMAIN o /\ o[a] = "at" /\ o[q] = "url"
      /\ q \in Nat /\ c \in Nat /\ a \in Nat
  <2>1. q < c /\ c < a /\ c \in DOMAIN o /\ a \in DOMAIN o /\ o[a] = "at"
    BY <1>3, <1>4, MatchEnd
  <2>2. o[q] = "url"
    BY <1>4 DEF Matches
  <2> HIDE DEF a
  <2> QED
    BY <1>3, <2>1, <2>2
<1>6. /\ First(o, q, Colons, c) /\ First(o, c, Ats, a)
      /\ o[c] = "colon" => c > q + 1 /\ a > c + 1
  BY <1>4 DEF Matches
<1> HIDE DEF a, n, e
<1>7. ASSUME NEW p \in DOMAIN o, o[p] \in {"url", "at"}
      PROVE  \E k \in 1..n : Kept(e, u, k) /\ Upto(u, k) = p /\ t[k] = o[p]
  <2>1. \A x \in 1..Len(AuthFiller) : AuthFiller[x] \notin {"url", "at"}
    BY AuthFillerIs
  <2>2. p \in 1..Len(o)
    BY <1>3
  <2>3. PICK k \in 1..n : \/ Kept(e, u, k) /\ Upto(u, k) = p /\ t[k] = o[p]
                          \/ \E x \in 1..Len(AuthFiller) : o[p] = AuthFiller[x]
    BY <1>3, <2>2, Origin, SMTT(60) DEF n
  <2> QED
    BY <1>7, <2>1, <2>3
<1>8. PICK k \in 1..n : Kept(e, u, k) /\ Upto(u, k) = q /\ t[k] = "url"
  BY <1>5, <1>7
<1>9. URLEnd(t, k) = 0 /\ k \in DOMAIN t /\ k \in Nat
  BY <1>2 DEF CleanOfURLs
<1>10. ~Quiet(e, k, n)
  <2>1. k \in 1..Len(t) /\ o = u[Len(t)].out /\ URLEnd(o, Upto(u, k)) # 0
    BY <1>3, <1>8 DEF n, a
  <2>2. Quiet(e, k, Len(t)) => URLEnd(o, Upto(u, k)) = 0
    BY <1>3, <1>8, <1>9, <2>1, NothingAfter, SMTT(60)
  <2> QED
    BY <2>1, <2>2 DEF n
<1>11. PICK d \in k..n : d \in Nat /\ d + 1 \in 1..n /\ e[d + 1] # 0 /\ Quiet(e, k, d)
  BY <1>2, <1>10, FirstMatch, SMTT(60)
<1> DEFINE g == q - k
<1>12. g \in Int /\ q = k + g
  BY <1>5, <1>9
<1>13. d + 5 \in k..Len(t) /\ Shifted(t, o, g, k, d + 5) /\ OpensAt(t, d + 1)
  <2>1. g = Upto(u, k) - k
    BY <1>8
  <2>2. k \in 1..Len(t) /\ d \in k..Len(t) /\ d + 1 \in 1..Len(t)
    BY <1>11 DEF n
  <2> HIDE DEF g
  <2>3. Kept(AuthEnds(t), u, k) /\ Quiet(AuthEnds(t), k, d) /\ AuthEnds(t)[d + 1] # 0
    BY <1>8, <1>11 DEF e
  <2> QED
    BY <1>1, <2>1, <2>2, <2>3, ShiftedOn, SMTT(60)
<1> HIDE DEF g
<1>14. /\ t[d + 1] = "quote" /\ t[d + 2] = "auth" /\ t[d + 3] = "quote" /\ t[d + 4] = "colon"
       /\ d + 4 \in DOMAIN t /\ d + 4 \in Nat /\ k <= d
  <2>1. d + 1 + 1 = d + 2 /\ d + 1 + 2 = d + 3 /\ d + 1 + 3 = d + 4 /\ k <= d /\ d + 4 \in Nat
    BY <1>2, <1>9, <1>11
  <2> QED
    BY <1>13, <2>1 DEF OpensAt
<1> DEFINE c1 == Min(After(t, k, Colons))
           a1 == Min(After(t, c1, Ats))
<1>15. First(t, k, Colons, c1)
  <2>1. k < d + 4
    BY <1>9, <1>11, <1>14
  <2>2. d + 4 \in After(t, k, Colons)
    BY <1>14, <2>1 DEF After, Colons
  <2> QED
    BY <1>9, <2>2, FirstIs
<1> HIDE DEF c1
<1>16. c1 \in DOMAIN t /\ k < c1 /\ c1 <= d + 4 /\ c1 \in Nat /\ c1 \in k..d + 5 /\ k \in k..d + 5
  <2>1. c1 \in DOMAIN t /\ k < c1 /\ c1 \in Nat
    BY <1>2, <1>15 DEF First, After
  <2>2. ~(d + 4 < c1)
    <3>1. k < d + 4
      BY <1>9, <1>11, <1>14
    <3> QED
      BY <1>14, <1>15, <3>1 DEF First, Colons
  <2> QED
    BY <1>9, <1>11, <1>14, <2>1, <2>2
<1>17. c = c1 + g
  <2>1. First(t, k, Colons, c1) <=> First(o, k + g, Colons, c1 + g)
    BY <1>3, <1>8, <1>12, <1>13, <1>16, FirstMoves DEF n
  <2>2. First(o, q, Colons, c1 + g)
    BY <1>12, <1>15, <2>1
  <2>3. Min(After(o, q, Colons)) = c
    BY <1>3, <1>5, <1>6, FirstIs
  <2>4. Min(After(o, q, Colons)) = c1 + g
    BY <1>3, <1>5, <2>2, FirstIs
  <2> QED
    BY <2>3, <2>4
<1>18. PICK j \in 1..n : Kept(e, u, j) /\ Upto(u, j) = a /\ t[j] = "at"
  BY <1>5, <1>7
<1>19. c1 < j
  <2>1. j \in Nat
    BY <1>2
  <2> SUFFICES ASSUME j <= c1 PROVE FALSE
    BY <1>16, <2>1
  <2>2. CASE j < k
    <3>1. Upto(u, j) < Upto(u, k)
      BY <1>3, <1>8, <2>2, Ordered, SMTT(60) DEF n
    <3> QED
      BY <1>5, <1>8, <1>18, <3>1
  <2>3. CASE ~(j < k) /\ j <= d
    <3>1. j \in k..d
      BY <1>9, <1>11, <2>1, <2>3
    <3>2. Upto(u, j) = j + g
      <4>1. k \in 1..Len(t) /\ d \in k..Len(t) /\ g = Upto(u, k) - k /\ o = u[Len(t)].out
        BY <1>3, <1>8, <1>11 DEF n, g
      <4> QED
        BY <1>3, <1>8, <1>11, <3>1, <4>1, Verbatim, SMTT(60)
    <3>3. a = j + g /\ j + g <= c1 + g
      BY <1>12, <1>16, <1>18, <2>1, <3>2
    <3> QED
      BY <1>5, <1>17, <3>3
  <2>4. CASE ~(j <= d)
    <3>1. j = d + 1 \/ j = d + 2 \/ j = d + 3 \/ j = d + 4
      BY <1>11, <1>16, <2>1, <2>4
    <3> QED
      BY <1>14, <1>18, <3>1
  <2> QED
    BY <2>2, <2>3, <2>4
<1>20. First(t, c1, Ats, a1)
  <2>1. j \in After(t, c1, Ats)
    BY <1>2, <1>18, <1>19 DEF After, Ats
  <2> QED
    BY <1>16, <2>1, FirstIs
<1> HIDE DEF a1
<1>21. a1 \in DOMAIN t /\ c1 < a1 /\ a1 \in Nat /\ t[a1] = "at"
  BY <1>2, <1>20 DEF First, After, Ats
<1>22. ASSUME t[c1] = "colon" PROVE c1 > k + 1 /\ a1 > c1 + 1
  <2>1. o[c] = "colon"
    <3>1. o[c1 + g] = t[c1]
      BY <1>13, <1>16 DEF Shifted
    <3> QED
      BY <1>17, <1>22, <3>1
  <2>2. c > q + 1 /\ a > c + 1
    BY <1>6, <2>1
  <2>3. c1 > k + 1
    BY <1>9, <1>12, <1>16, <1>17, <2>2
  <2>4. a1 # c1 + 1
    <3> SUFFICES ASSUME a1 = c1 + 1 PROVE FALSE
      OBVIOUS
    <3>1. a1 \in k..d + 5 /\ a1 + g = c + 1
      BY <1>9, <1>11, <1>12, <1>16, <1>17
    <3>2. a1 + g \in 1..Len(o) /\ o[a1 + g] = t[a1]
      BY <1>13, <3>1 DEF Shifted
    <3>3. c + 1 \in DOMAIN o /\ o[c + 1] = "at" /\ c < c + 1
      BY <1>3, <1>5, <1>21, <3>1, <3>2
    <3> QED
      BY <1>6, <2>2, <3>3 DEF First, Ats
  <2> QED
    BY <1>16, <1>21, <2>3, <2>4
<1>23. Matches(t, k, c1, a1)
  BY <1>8, <1>15, <1>20, <1>22 DEF Matches
<1>24. URLEnd(t, k) = a1
  BY <1>9, <1>23, MatchEnd
<1> QED
  BY <1>2, <1>9, <1>21, <1>24

\* A scan passes over what a match covers.
LEMMA Skipped ==
    ASSUME NEW t, NEW e, NEW b, NEW u, IsScan(u, t, e, b), NEW i \in 0..Len(t)
    PROVE  \A j \in i..Len(t) : j <= u[i].done => u[j] = u[i]
<1> DEFINE S == {j \in Nat : i <= j /\ j <= Len(t) /\ j <= u[i].done => u[j] = u[i]}
<1>1. i \in Nat /\ Len(t) \in Nat
  BY ScanStart
<1>2. 0 \in S
  BY <1>1
<1>3. ASSUME NEW j \in Nat, j \in S PROVE j + 1 \in S
  <2> SUFFICES ASSUME i <= j + 1, j + 1 <= Len(t), j + 1 <= u[i].done PROVE u[j + 1] = u[i]
    OBVIOUS
  <2>1. CASE i = j + 1
    BY <2>1
  <2>2. CASE i # j + 1
    <3>1. j + 1 \in 1..Len(t) /\ (j + 1) - 1 = j /\ u[i].done \in Nat
      BY <1>1, ScanStart
    <3>2. u[j] = u[i]
      BY <1>1, <1>3, <2>2, <3>1
    <3>3. ~Kept(e, u, j + 1) /\ ~Hit(e, u, j + 1)
      BY <3>1, <3>2 DEF Kept, Hit
    <3>4. u[j + 1] = u[(j + 1) - 1]
      BY <3>1, <3>3, ScanCases, SMTT(60)
    <3> QED
      BY <3>1, <3>2, <3>4
  <2> QED
    BY <2>1, <2>2
<1>4. Nat \subseteq S
  <2> HIDE DEF S
  <2> QED
    BY <1>2, <1>3, SetInduction
<1> QED
  BY <1>1, <1>4

LEMMA SameText ==
    ASSUME NEW a \in Text, NEW b \in Text, Len(a) = Len(b), \A x \in 1..Len(b) : a[x] = b[x]
    PROVE  a = b
  BY DEF Text

\* A rule that matches nothing that was copied, and of what was put in just
\* that, leaves its own result.
LEMMA ScanAgain ==
    ASSUME NEW t, NEW e, NEW b, NEW u, IsScan(u, t, e, b), NEW o, o = u[Len(t)].out,
           NEW f, NEW v, IsScan(v, o, f, b), Len(b) >= 1,
           \A k \in 1..Len(t) : Kept(e, u, k) => f[Upto(u, k)] = 0,
           \A k \in 1..Len(t) : Hit(e, u, k) => f[Upto(u, k - 1) + 1] = Upto(u, k - 1) + Len(b)
    PROVE  v[Len(o)].out = o
<1> DEFINE P(i) == LET L == Upto(u, i) IN
                     /\ v[L].done <= L /\ Len(v[L].out) = L
                     /\ \A x \in 1..L : v[L].out[x] = o[x]
           S == {i \in Nat : i <= Len(t) => P(i)}
<1>1. /\ Len(t) \in Nat /\ Upto(u, 0) = 0 /\ Upto(u, Len(t)) = Len(o) /\ o \in Text /\ b \in Text
      /\ Len(o) \in Nat /\ Len(b) \in Nat /\ Len(t) \in 0..Len(t)
  BY ScanStart, NoText DEF Upto
<1>2. 0 \in S
  <2>1. v[0].out = <<>> /\ v[0].done = 0
    BY ScanStart
  <2>2. P(0)
    BY <1>1, <2>1, NoText
  <2> QED
    BY <2>2
<1>3. ASSUME NEW i \in Nat, i \in S PROVE i + 1 \in S
  <2> SUFFICES ASSUME i + 1 <= Len(t) PROVE P(i + 1)
    OBVIOUS
  <2> DEFINE L == Upto(u, i)
             M == Upto(u, i + 1)
  <2>1. i + 1 \in 1..Len(t) /\ (i + 1) - 1 = i /\ i <= Len(t)
    BY <1>1
  <2>2. P(i)
    <3> HIDE DEF P
    <3> QED
      BY <1>3, <2>1
  <2>3. v[L].done <= L /\ Len(v[L].out) = L /\ \A x \in 1..L : v[L].out[x] = o[x]
    BY <2>2
  <2> SUFFICES v[M].done <= M /\ Len(v[M].out) = M /\ \A x \in 1..M : v[M].out[x] = o[x]
    OBVIOUS
  <2> HIDE DEF P, S
  <2>4. /\ L \in Nat /\ M \in Nat /\ L <= M /\ M <= Len(o) /\ DOMAIN o = 1..Len(o)
        /\ Kept(e, u, i + 1) => M = L + 1
        /\ Hit(e, u, i + 1) => M = L + Len(b) /\ \A x \in 1..Len(b) : o[L + x] = b[x]
        /\ Kept(e, u, i + 1) \/ Hit(e, u, i + 1) \/ M = L
    <3>1. /\ Upto(u, (i + 1) - 1) \in Nat /\ M \in Nat /\ Upto(u, (i + 1) - 1) <= M /\ M <= Len(o)
          /\ DOMAIN o = 1..Len(o)
          /\ Kept(e, u, i + 1) => M = Upto(u, (i + 1) - 1) + 1
          /\ Hit(e, u, i + 1) => /\ M = Upto(u, (i + 1) - 1) + Len(b)
                                 /\ \A x \in 1..Len(b) : o[Upto(u, (i + 1) - 1) + x] = b[x]
          /\ Kept(e, u, i + 1) \/ Hit(e, u, i + 1) \/ M = Upto(u, (i + 1) - 1)
      BY <2>1, Written, SMTT(60)
    <3> QED
      BY <2>1, <3>1
  <2>5. Kept(e, u, i + 1) => f[M] = 0
    BY <2>1
  <2>6. Hit(e, u, i + 1) => f[L + 1] = L + Len(b)
    BY <2>1
  <2> HIDE DEF L, M
  <2>7. L \in 0..Len(o) /\ v[L].out \in Text /\ v[L].done \in Nat
    <3>1. L \in 0..Len(o)
      BY <2>4, <1>1
    <3> QED
      BY <3>1, ScanStart
  <2>8. CASE Kept(e, u, i + 1)
    <3>1. M = L + 1 /\ M \in 1..Len(o) /\ M - 1 = L /\ f[M] = 0
      BY <2>4, <2>5, <2>8
    <3>2. ~(M <= v[M - 1].done)
      BY <2>3, <2>4, <2>7, <3>1
    <3>3. v[M].out = Append(v[M - 1].out, o[M]) /\ v[M].done = v[M - 1].done /\ o[M] \in Token
      <4>1. Kept(f, v, M) /\ ~Hit(f, v, M)
        BY <3>1, <3>2 DEF Kept, Hit
      <4> QED
        BY <3>1, <3>2, <4>1, ScanCases, SMTT(60)
    <3> DEFINE a == v[L].out
    <3>4. a \in Text /\ Len(a) = L /\ v[M].out = Append(a, o[M]) /\ o[M] \in Token
      BY <2>3, <2>7, <3>1, <3>3
    <3>5. v[M].done <= M
      BY <2>3, <2>4, <2>7, <3>1, <3>3
    <3>6. \A x \in 1..L : a[x] = o[x]
      BY <2>3
    <3> HIDE DEF a
    <3>7. /\ Len(Append(a, o[M])) = L + 1 /\ Append(a, o[M])[L + 1] = o[M]
          /\ \A x \in 1..L : Append(a, o[M])[x] = a[x]
      BY <3>4 DEF Text
    <3>8. \A x \in 1..M : x \in 1..L \/ x = L + 1
      BY <2>4, <3>1
    <3> QED
      BY <3>1, <3>4, <3>5, <3>6, <3>7, <3>8
  <2>9. CASE Hit(e, u, i + 1)
    <3>1. /\ M = L + Len(b) /\ f[L + 1] = M /\ L + 1 \in 1..Len(o) /\ L + 1 \in 0..Len(o) /\ (L + 1) - 1 = L
          /\ M # 0 /\ M \in L + 1..Len(o) /\ \A x \in 1..Len(b) : o[L + x] = b[x]
      <4> DEFINE z == Len(b)
      <4>1. z \in Nat /\ z >= 1 /\ M = L + z /\ f[L + 1] = M /\ \A x \in 1..z : o[L + x] = b[x]
        BY <1>1, <2>4, <2>6, <2>9
      <4>2. L \in Nat /\ M \in Nat /\ M <= Len(o) /\ Len(o) \in Nat
        BY <1>1, <2>4
      <4> DEFINE y == Len(o)
      <4> HIDE DEF z, y
      <4>3. L + 1 \in 1..y /\ L + 1 \in 0..y /\ (L + 1) - 1 = L /\ M # 0 /\ M \in L + 1..y
        BY <4>1, <4>2 DEF y
      <4> QED
        BY <4>1, <4>3 DEF y, z
    <3>2. ~(L + 1 <= v[(L + 1) - 1].done)
      BY <2>3, <2>4, <2>7, <3>1
    <3>3. v[L + 1].out = v[(L + 1) - 1].out \o b /\ v[L + 1].done = f[L + 1]
      <4>1. Hit(f, v, L + 1) /\ ~Kept(f, v, L + 1)
        BY <3>1, <3>2 DEF Kept, Hit
      <4> QED
        <5>1. \/ L + 1 <= v[(L + 1) - 1].done
              \/ Hit(f, v, L + 1) /\ v[L + 1].out = v[(L + 1) - 1].out \o b /\ v[L + 1].done = f[L + 1]
              \/ Kept(f, v, L + 1)
          <6> DEFINE j == L + 1
          <6>1. j \in 1..Len(o)
            BY <3>1
          <6> HIDE DEF j
          <6>2. \/ j <= v[j - 1].done
                \/ Hit(f, v, j) /\ v[j].out = v[j - 1].out \o b /\ v[j].done = f[j]
                \/ Kept(f, v, j)
            BY <6>1, ScanCases, SMTT(60)
          <6> QED
            BY <6>2 DEF j
        <5> QED
          BY <3>2, <4>1, <5>1
    <3>4. v[M] = v[L + 1]
      <4>1. M <= v[L + 1].done
        BY <2>4, <3>1, <3>3
      <4> QED
        BY <3>1, <4>1, Skipped, SMTT(60)
    <3> DEFINE a == v[L].out
    <3>5. a \in Text /\ Len(a) = L /\ v[M].out = a \o b /\ v[M].done = M
      BY <2>3, <2>7, <3>1, <3>3, <3>4
    <3>6. \A x \in 1..L : a[x] = o[x]
      BY <2>3
    <3> HIDE DEF a
    <3> DEFINE c == a \o b
    <3>7. /\ Len(c) = L + Len(b) /\ (\A x \in 1..L : c[x] = a[x])
          /\ \A x \in 1..Len(b) : c[L + x] = b[x]
      BY <1>1, <3>5, Joined
    <3> HIDE DEF c
    <3>8. ASSUME NEW x \in 1..M PROVE c[x] = o[x]
      <4>1. CASE x <= L
        <5>1. x \in 1..L
          BY <2>4, <4>1
        <5> QED
          BY <3>6, <3>7, <5>1
      <4>2. CASE ~(x <= L)
        <5> DEFINE y == x - L
        <5>1. y \in 1..Len(b) /\ x = L + y
          BY <1>1, <2>4, <3>1, <4>2
        <5> HIDE DEF y
        <5> QED
          BY <3>1, <3>7, <5>1
      <4> QED
        BY <4>1, <4>2
    <3>9. v[M].out = c
      BY <3>5 DEF c
    <3> QED
      BY <2>4, <3>1, <3>5, <3>7, <3>8, <3>9
  <2>10. CASE M = L
    BY <2>3, <2>10
  <2> QED
    BY <2>4, <2>8, <2>9, <2>10
<1>4. Nat \subseteq S
  <2> HIDE DEF S
  <2> QED
    BY <1>2, <1>3, SetInduction
<1>5. P(Len(t))
  BY <1>1, <1>4
<1> DEFINE w == v[Len(o)].out
<1>6. Len(w) = Len(o) /\ \A x \in 1..Len(o) : w[x] = o[x]
  BY <1>1, <1>5
<1>7. w \in Text
  <2>1. Len(o) \in 0..Len(o)
    BY <1>1
  <2> QED
    BY <2>1, ScanStart
<1> HIDE DEF w, P, S
<1>8. w = o
  BY <1>1, <1>6, <1>7, SameText
<1> QED
  BY <1>8 DEF w

LEMMA SubText ==
    ASSUME NEW t \in Text, NEW i \in Nat, NEW j \in Int, i >= 1, j <= Len(t)
    PROVE  /\ SubSeq(t, i, j) \in Text
           /\ Len(SubSeq(t, i, j)) = IF i <= j THEN j - i + 1 ELSE 0
           /\ \A x \in 1..(j - i + 1) : SubSeq(t, i, j)[x] = t[i + x - 1]
<1>1. t \in Seq(Token) /\ Len(t) \in Nat /\ \A x \in 1..Len(t) : t[x] \in Token
  BY DEF Text
<1>2. SubSeq(t, i, j) \in Seq(Token)
  BY <1>1
<1>3. Len(SubSeq(t, i, j)) = IF i <= j THEN j - i + 1 ELSE 0
  BY <1>1
<1>4. \A x \in 1..(j - i + 1) : SubSeq(t, i, j)[x] = t[i + x - 1]
  BY <1>1
<1> QED
  BY <1>2, <1>3, <1>4 DEF Text

\* A match within what was copied was one before.
LEMMA AuthMoves ==
    ASSUME NEW t \in Text, NEW o \in Text, NEW g \in Int, NEW k \in 1..Len(t), NEW d \in k..Len(t),
           Shifted(t, o, g, k, d), k + 4 <= d, NEW f \in k..d, Auths(o, k + g, f + g)
    PROVE  Auths(t, k, f)
<1>1. /\ \A m \in k..d : m \in DOMAIN t /\ m \in Nat /\ m + g \in DOMAIN o /\ m + g \in Nat /\ o[m + g] = t[m]
      /\ k \in Nat /\ d \in Nat /\ k <= d
  <2>1. \A m \in k..d : m \in DOMAIN t /\ m \in Nat /\ m + g \in DOMAIN o /\ m + g \in Nat /\ o[m + g] = t[m]
                        /\ k \in Nat /\ d \in Nat
    BY ShiftedAt
  <2> QED
    BY <2>1
<1>2. k \in k..d /\ k + 1 \in k..d /\ k + 2 \in k..d /\ k + 3 \in k..d /\ k + 4 \in k..d
  BY <1>1
<1>3. /\ k + 1 + g = k + g + 1 /\ k + 2 + g = k + g + 2 /\ k + 3 + g = k + g + 3 /\ k + 4 + g = k + g + 4
      /\ k + g \in DOMAIN o /\ f \in Nat
  BY <1>1, <1>2
<1>4. OpensAt(o, k + g) /\ k + g + 4 < f + g
  BY <1>3, AuthEndIs
<1>5. OpensAt(t, k)
  BY <1>1, <1>2, <1>3, <1>4 DEF OpensAt
<1>6. k + 4 < f
  BY <1>1, <1>3, <1>4
<1>7. First(t, k + 4, Quotes, f)
  <2>1. First(t, k + 4, Quotes, f) <=> First(o, k + 4 + g, Quotes, f + g)
    BY <1>2, <1>6, FirstMoves
  <2>2. First(o, k + g + 4, Quotes, f + g)
    BY DEF Auths
  <2> QED
    BY <1>3, <2>1, <2>2
<1> DEFINE a == SubSeq(t, k + 5, f - 1)
           c == SubSeq(o, k + g + 5, f + g - 1)
<1>8. a = c
  <2>1. /\ k + 5 \in Nat /\ k + 5 >= 1 /\ f - 1 \in Int /\ f - 1 <= Len(t)
        /\ k + g + 5 \in Nat /\ k + g + 5 >= 1 /\ f + g - 1 \in Int /\ f + g - 1 <= Len(o)
    <3>1. f \in 1..Len(t) /\ f + g \in 1..Len(o) /\ k + g \in 1..Len(o) /\ Len(t) \in Nat /\ Len(o) \in Nat
      BY <1>1, <1>2 DEF Text
    <3> DEFINE x == Len(t)
               y == Len(o)
    <3>2. f \in 1..x /\ f + g \in 1..y /\ k + g \in 1..y /\ x \in Nat /\ y \in Nat
      BY <3>1
    <3> HIDE DEF x, y
    <3>3. /\ k + 5 \in Nat /\ k + 5 >= 1 /\ f - 1 \in Int /\ f - 1 <= x
          /\ k + g + 5 \in Nat /\ k + g + 5 >= 1 /\ f + g - 1 \in Int /\ f + g - 1 <= y
      BY <1>1, <3>2
    <3> QED
      BY <3>3 DEF x, y
  <2> DEFINE z == (f - 1) - (k + 5) + 1
  <2>2. /\ z = (f + g - 1) - (k + g + 5) + 1 /\ z \in Nat
        /\ (k + 5 <= f - 1 <=> k + g + 5 <= f + g - 1) /\ (~(k + 5 <= f - 1) => z = 0)
    BY <1>1, <1>3, <1>6
  <2> HIDE DEF z
  <2>3. a \in Text /\ Len(a) = z /\ \A x \in 1..z : a[x] = t[k + 5 + x - 1]
    BY <2>1, <2>2, SubText DEF z
  <2>4. c \in Text /\ Len(c) = z /\ \A x \in 1..z : c[x] = o[k + g + 5 + x - 1]
    <3>1. /\ c \in Text
          /\ Len(c) = IF k + g + 5 <= f + g - 1 THEN (f + g - 1) - (k + g + 5) + 1 ELSE 0
          /\ \A x \in 1..((f + g - 1) - (k + g + 5) + 1) : c[x] = o[k + g + 5 + x - 1]
      BY <2>1, SubText
    <3> HIDE DEF c
    <3> QED
      BY <2>2, <3>1
  <2>5. ASSUME NEW x \in 1..z PROVE t[k + 5 + x - 1] = o[k + g + 5 + x - 1]
    <3>1. k + 5 + x - 1 \in k..d /\ (k + 5 + x - 1) + g = k + g + 5 + x - 1
      BY <1>1, <1>3, <1>6 DEF z
    <3> QED
      BY <1>1, <3>1
  <2> HIDE DEF a, c
  <2> QED
    BY <2>3, <2>4, <2>5, SameText
<1>9. LongEnough(c)
  BY DEF Auths
<1>10. Opens(t, k)
  BY <1>1, <1>5, OpensIs
<1> HIDE DEF c
<1>11. LongEnough(a)
  BY <1>8, <1>9
<1> QED
  BY <1>7, <1>10, <1>11 DEF Auths

\* No match begins in the result at a position that was copied.
LEMMA NoNewAuth ==
    ASSUME NEW t, NEW u, NEW o, AuthScan(u, t, o), NEW k \in 1..Len(t), Kept(AuthEnds(t), u, k)
    PROVE  Upto(u, k) \in DOMAIN o /\ AuthEnd(o, Upto(u, k)) = 0
<1> DEFINE e == AuthEnds(t)
           n == Len(t)
           q == Upto(u, k)
           g == q - k
<1>1. t \in Text /\ o \in Text /\ IsScan(u, t, e, AuthFiller) /\ o = u[Len(t)].out
  BY DEF AuthScan
<1>2. n \in Nat /\ DOMAIN t = 1..n /\ k \in Nat /\ k >= 1 /\ k <= n /\ k \in DOMAIN t /\ AuthEnd(t, k) = 0
  <2>1. n \in Nat /\ DOMAIN t = 1..n
    BY <1>1, ScanStart
  <2>2. AuthEnd(t, k) = 0
    BY <1>1, <2>1, AuthRule DEF Kept
  <2> QED
    BY <2>1, <2>2
<1>3. q \in Nat /\ q \in DOMAIN o /\ g \in Int /\ q = k + g /\ o[q] = t[k]
  <2>1. q \in Nat /\ q \in DOMAIN o /\ o[q] = t[k]
    BY <1>1, Written, SMTT(60)
  <2> HIDE DEF q
  <2> QED
    BY <1>2, <2>1
<1> SUFFICES ASSUME AuthEnd(o, q) # 0 PROVE FALSE
  BY <1>3
<1> DEFINE f == AuthEnd(o, q)
<1>4. Auths(o, q, f) /\ q + 4 < f /\ f \in DOMAIN o /\ f \in Nat /\ OpensAt(o, q) /\ o[f] = "quote"
  BY <1>1, <1>3, AuthEndIs
<1> HIDE DEF f, e, q, g
<1>5. ASSUME NEW d \in k..n, Shifted(t, o, g, k, d), k + 4 <= d, f - g <= d PROVE FALSE
  <2> DEFINE h == f - g
  <2>1. h \in k..d /\ f = h + g
    BY <1>2, <1>3, <1>4, <1>5
  <2> HIDE DEF h
  <2>2. Auths(t, k, h)
    BY <1>1, <1>3, <1>4, <1>5, <2>1, AuthMoves DEF n
  <2>3. AuthEnd(t, k) = h /\ h # 0
    BY <1>1, <1>2, <2>1, <2>2, AuthEndIs
  <2> QED
    BY <1>2, <2>3
<1>6. CASE Quiet(e, k, n)
  <2>1. Shifted(t, o, g, k, n) /\ Len(o) = n + g
    <3>1. n \in k..Len(t) /\ Quiet(e, k, n) /\ g = Upto(u, k) - k /\ Kept(e, u, k)
      BY <1>2, <1>6 DEF n, g, q, e
    <3>2. k \in 1..Len(t)
      BY <1>2
    <3> QED
      BY <1>1, <3>1, <3>2, Verbatim, SMTT(60) DEF n
  <2>2. f <= n + g
    <3>1. DOMAIN o = 1..Len(o)
      BY <1>1 DEF Text
    <3> QED
      BY <1>2, <1>3, <1>4, <2>1, <3>1
  <2> QED
    BY <1>2, <1>3, <1>4, <1>5, <2>1, <2>2
<1>7. CASE ~Quiet(e, k, n)
  <2>1. PICK d \in k..n : d \in Nat /\ d + 1 \in 1..n /\ e[d + 1] # 0 /\ Quiet(e, k, d)
    <3>1. k \in 1..n
      BY <1>2
    <3> HIDE DEF n
    <3> QED
      BY <1>2, <1>7, <3>1, FirstMatch, SMTT(60)
  <2>2. d + 5 \in k..n /\ Shifted(t, o, g, k, d + 5) /\ OpensAt(t, d + 1)
    <3>1. g = Upto(u, k) - k /\ d \in k..Len(t) /\ d + 1 \in 1..Len(t)
      BY <2>1 DEF g, q, n
    <3>2. Kept(AuthEnds(t), u, k) /\ Quiet(AuthEnds(t), k, d) /\ AuthEnds(t)[d + 1] # 0
      BY <2>1 DEF e
    <3> QED
      BY <3>1, <3>2, ShiftedOn, SMTT(60) DEF n
  <2>3. /\ t[d + 1] = "quote" /\ t[d + 2] = "auth" /\ t[d + 3] = "quote" /\ t[d + 4] = "colon" /\ t[d + 5] = "quote"
        /\ d \in Nat /\ k <= d
    <3>1. d + 1 + 1 = d + 2 /\ d + 1 + 2 = d + 3 /\ d + 1 + 3 = d + 4 /\ d + 1 + 4 = d + 5 /\ k <= d
      BY <1>2, <2>1
    <3> QED
      BY <2>1, <2>2, <3>1 DEF OpensAt
  <2>4. \A m \in k..d + 5 : m + g \in DOMAIN o /\ o[m + g] = t[m]
    <3>1. DOMAIN o = 1..Len(o)
      BY <1>1 DEF Text
    <3> QED
      BY <2>2, <3>1 DEF Shifted
  <2>5. /\ o[k + 1 + g] = "auth" /\ o[k + 2 + g] = "quote" /\ o[k + 3 + g] = "colon"
    <3>1. q + 1 = k + 1 + g /\ q + 2 = k + 2 + g /\ q + 3 = k + 3 + g
      BY <1>2, <1>3
    <3> QED
      BY <1>4, <3>1 DEF OpensAt
  <2>6. k + 3 <= d
    <3>1. d # k
      <4> SUFFICES ASSUME d = k PROVE FALSE
        OBVIOUS
      <4>1. k + 1 \in k..d + 5
        BY <2>3
      <4> QED
        BY <2>3, <2>4, <2>5, <4>1
    <3>2. d # k + 1
      <4> SUFFICES ASSUME d = k + 1 PROVE FALSE
        OBVIOUS
      <4>1. k + 3 \in k..d + 5 /\ k + 3 = d + 2
        BY <2>3
      <4> QED
        BY <2>3, <2>4, <2>5, <4>1
    <3>3. d # k + 2
      <4> SUFFICES ASSUME d = k + 2 PROVE FALSE
        OBVIOUS
      <4>1. k + 3 \in k..d + 5 /\ k + 3 = d + 1
        BY <2>3
      <4> QED
        BY <2>3, <2>4, <2>5, <4>1
    <3> QED
      BY <1>2, <2>3, <3>1, <3>2, <3>3
  <2>7. ASSUME NEW m \in k + 5..d + 5, t[m] = "quote" PROVE f <= m + g
    <3>1. m \in k..d + 5 /\ m + g \in DOMAIN o /\ o[m + g] = "quote" /\ q + 4 < m + g /\ m + g \in Int
      <4>1. m \in k..d + 5 /\ q + 4 < m + g /\ m + g \in Int
        BY <1>2, <1>3, <2>3
      <4> QED
        BY <2>4, <2>7, <4>1
    <3>2. ~(m + g < f)
      BY <1>4, <3>1 DEF Auths, First, Quotes
    <3> QED
      BY <1>4, <3>1, <3>2
  <2>8. f - g <= d + 5
    <3>1. d + 5 \in k + 5..d + 5
      BY <1>2, <2>3
    <3>2. f <= d + 5 + g
      BY <2>3, <2>7, <3>1
    <3> QED
      BY <1>3, <1>4, <2>3, <3>2
  <2>9. k + 4 <= d + 5
    BY <1>2, <2>3
  <2> QED
    BY <1>5, <2>2, <2>8, <2>9
<1> QED
  BY <1>6, <1>7

\* What is put in matches the rule again, and only itself.
LEMMA FillerMatches ==
    ASSUME NEW t, NEW u, NEW o, AuthScan(u, t, o), NEW k \in 1..Len(t), Hit(AuthEnds(t), u, k)
    PROVE  Upto(u, k - 1) + 1 \in DOMAIN o /\ AuthEnd(o, Upto(u, k - 1) + 1) = Upto(u, k - 1) + 7
<1> DEFINE h == Upto(u, k - 1)
           q == h + 1
<1>1. o \in Text /\ DOMAIN o = 1..Len(o) /\ IsScan(u, t, AuthEnds(t), AuthFiller) /\ o = u[Len(t)].out
  BY DEF AuthScan, Text
<1>2. h \in Nat /\ \A x \in 1..Len(AuthFiller) : h + x \in DOMAIN o /\ o[h + x] = AuthFiller[x]
  BY <1>1, Written, SMTT(60)
<1> HIDE DEF h
<1>3. \A x \in 1..7 : h + x \in DOMAIN o /\ o[h + x] = AuthFiller[x]
  BY <1>2, AuthFillerIs
<1>4. /\ 1 \in 1..7 /\ 2 \in 1..7 /\ 3 \in 1..7 /\ 4 \in 1..7 /\ 5 \in 1..7 /\ 6 \in 1..7 /\ 7 \in 1..7
      /\ q + 1 = h + 2 /\ q + 2 = h + 3 /\ q + 3 = h + 4 /\ q + 4 = h + 5 /\ q + 5 = h + 6 /\ q + 6 = h + 7
      /\ h + 7 - 1 = h + 6
  BY <1>2
<1>5. OpensAt(o, q) /\ q \in DOMAIN o /\ q \in Nat
  BY <1>2, <1>3, <1>4, AuthFillerIs DEF OpensAt
<1>6. /\ h + 6 \in DOMAIN o /\ o[h + 6] = "mark" /\ h + 7 \in DOMAIN o /\ o[h + 7] = "quote"
  BY <1>3, <1>4, AuthFillerIs
<1>7. First(o, q + 4, Quotes, h + 7)
  <2>1. h + 7 \in After(o, q + 4, Quotes)
    BY <1>2, <1>4, <1>6 DEF After, Quotes
  <2>2. ASSUME NEW y \in DOMAIN o, q + 4 < y, y < h + 7 PROVE o[y] \notin Quotes
    <3>1. y \in Nat
      BY <1>1
    <3>2. y = h + 6
      BY <1>2, <1>4, <2>2, <3>1
    <3> QED
      BY <1>6, <3>2 DEF Quotes
  <2> QED
    BY <2>1, <2>2 DEF First
<1> DEFINE c == SubSeq(o, h + 6, h + 6)
<1>8. LongEnough(c)
  <2>1. h + 6 \in Nat /\ h + 6 \in Int /\ h + 6 >= 1 /\ h + 6 <= Len(o) /\ (h + 6) - (h + 6) + 1 = 1
    BY <1>1, <1>2, <1>6
  <2>2. c \in Text /\ Len(c) = 1 /\ \A x \in 1..1 : c[x] = o[h + 6 + x - 1]
    <3> DEFINE r == h + 6
    <3>1. r \in Nat /\ r \in Int /\ r >= 1 /\ r <= Len(o) /\ r - r + 1 = 1 /\ r <= r
      BY <2>1
    <3> HIDE DEF r
    <3>2. /\ SubSeq(o, r, r) \in Text /\ Len(SubSeq(o, r, r)) = r - r + 1
          /\ \A x \in 1..(r - r + 1) : SubSeq(o, r, r)[x] = o[r + x - 1]
      BY <1>1, <3>1, SubText
    <3>3. /\ SubSeq(o, r, r) \in Text /\ Len(SubSeq(o, r, r)) = 1
          /\ \A x \in 1..1 : SubSeq(o, r, r)[x] = o[r + x - 1]
      BY <3>1, <3>2
    <3> QED
      BY <3>3 DEF r
  <2>3. c[1] = "mark" /\ 1 \in DOMAIN c
    <3>1. c[1] = o[h + 6 + 1 - 1] /\ h + 6 + 1 - 1 = h + 6
      BY <1>2, <2>2
    <3>2. DOMAIN c = 1..Len(c)
      BY <2>2 DEF Text
    <3> QED
      BY <1>6, <2>2, <3>1, <3>2
  <2> HIDE DEF c
  <2>4. "mark" \in ToSet(c)
    BY <2>3 DEF ToSet
  <2> QED
    BY <2>4 DEF LongEnough
<1>9. Auths(o, q, h + 7)
  BY <1>4, <1>5, <1>7, <1>8, OpensIs, <1>1 DEF Auths
<1>10. AuthEnd(o, q) = h + 7
  BY <1>1, <1>5, <1>9, AuthEndIs
<1> QED
  BY <1>5, <1>10 DEF h

LEMMA AuthsStay ==
    ASSUME NEW t \in Text
    PROVE  RedactAuths(RedactAuths(t)) = RedactAuths(t)
<1> DEFINE o == RedactAuths(t)
<1>1. PICK u : AuthScan(u, t, o)
  BY AuthScanIs
<1>2. o \in Text
  BY <1>1 DEF AuthScan
<1> HIDE DEF o
<1>3. PICK v : AuthScan(v, o, RedactAuths(o))
  BY <1>2, AuthScanIs
<1> DEFINE e == AuthEnds(t)
           f == AuthEnds(o)
<1>4. IsScan(u, t, e, AuthFiller) /\ o = u[Len(t)].out
  BY <1>1 DEF AuthScan
<1>5. IsScan(v, o, f, AuthFiller) /\ RedactAuths(o) = v[Len(o)].out
  BY <1>3 DEF AuthScan
<1>6. \A q \in DOMAIN o : f[q] = AuthEnd(o, q)
  BY <1>2, AuthRule
<1>7. \A k \in 1..Len(t) : Kept(e, u, k) => f[Upto(u, k)] = 0
  BY <1>1, <1>6, NoNewAuth, SMTT(60)
<1>8. \A k \in 1..Len(t) : Hit(e, u, k) => f[Upto(u, k - 1) + 1] = Upto(u, k - 1) + 7
  BY <1>1, <1>6, FillerMatches, SMTT(60)
<1> DEFINE b == AuthFiller
<1>9. Len(b) >= 1 /\ \A k \in 1..Len(t) : Hit(e, u, k) => f[Upto(u, k - 1) + 1] = Upto(u, k - 1) + Len(b)
  BY <1>8, AuthFillerIs
<1> HIDE DEF e, f, b
<1>10. v[Len(o)].out = o
  <2>1. IsScan(u, t, e, b) /\ o = u[Len(t)].out /\ IsScan(v, o, f, b)
    BY <1>4, <1>5 DEF b
  <2> QED
    BY <1>7, <1>9, <2>1, ScanAgain, SMTT(60)
<1> QED
  BY <1>5, <1>10 DEF o

-----------------------------------------------------------------------------
(* Both sets of rules, one after the other                                   *)

\* The text with its secrets replaced, its URLs and auths still to be redacted.
Masked(s, t) == [i \in DOMAIN t |-> Replaced(s, t[i])]

Secrets == {"jwt", "key"} \cup Buried
Reserved == {"url", "colon", "at", "quote", "auth", "jwt", "key", "tag", "mark"}

LEMMA NoneReserved ==
    /\ \A x \in Reserved : x \notin AppSignals /\ x \notin InfraSignals /\ x \notin Buried
  BY TokensAssumption DEF Reserved

LEMMA ReplacedIs ==
    ASSUME NEW s \in BOOLEAN, NEW x \in Token
    PROVE  /\ Replaced(s, x) \in Token
           /\ Replaced(s, x) = x \/ (x \in Secrets /\ Replaced(s, x) \in {"tag", "mark"})
           /\ Replaced(s, x) \notin Secrets
           /\ x \notin Secrets => Replaced(s, x) = x
           /\ x # "jwt" => Replaced(s, x) = Replaced(FALSE, x)
<1>1. "tag" \in Token /\ "mark" \in Token
  BY DEF Token
<1>2. "tag" \notin Secrets /\ "mark" \notin Secrets
  BY NoneReserved DEF Secrets, Reserved
<1>3. Replaced(s, x) = x \/ (x \in Secrets /\ Replaced(s, x) \in {"tag", "mark"})
  BY DEF Replaced, Secrets
<1>4. x \in Secrets => Replaced(s, x) # x \/ x \in {"tag", "mark"}
  BY DEF Replaced, Secrets
<1>5. x \notin Secrets => Replaced(s, x) = x
  BY DEF Replaced, Secrets
<1>6. x # "jwt" => Replaced(s, x) = Replaced(FALSE, x)
  BY DEF Replaced
<1> QED
  BY <1>1, <1>2, <1>3, <1>4, <1>5, <1>6

LEMMA ReplacedLeaves ==
    ASSUME NEW s \in BOOLEAN, NEW x \in Token, NEW y, y \notin {"tag", "mark"}, y \notin Secrets
    PROVE  Replaced(s, x) = y <=> x = y
  BY ReplacedIs

LEMMA MaskedIs ==
    ASSUME NEW s \in BOOLEAN, NEW t \in Text
    PROVE  /\ Masked(s, t) \in Text /\ Len(Masked(s, t)) = Len(t) /\ DOMAIN Masked(s, t) = DOMAIN t
           /\ \A i \in DOMAIN t : Masked(s, t)[i] = Replaced(s, t[i]) /\ t[i] \in Token
<1>1. t \in [1..Len(t) -> Token] /\ Len(t) \in Nat
  BY DEF Text
<1>2. \A i \in 1..Len(t) : Replaced(s, t[i]) \in Token
  BY <1>1, ReplacedIs
<1>3. Masked(s, t) = [i \in 1..Len(t) |-> Replaced(s, t[i])]
  BY <1>1 DEF Masked
<1>4. Masked(s, t) \in [1..Len(t) -> Token]
  BY <1>2, <1>3
<1>5. Masked(s, t) \in Text /\ Len(Masked(s, t)) = Len(t)
  BY <1>1, <1>4 DEF Text
<1> QED
  BY <1>1, <1>3, <1>5

LEMMA SanitizeIs == \A s, t : Sanitize(s, t) = RedactAuths(RedactURLs(Masked(s, t)))
  BY DEF Sanitize, Masked

\* u is the scan of t by the rule for URLs, and o its result.
UrlScan(u, t, o) ==
    /\ t \in Text /\ o \in Text /\ o = RedactURLs(t)
    /\ IsScan(u, t, UrlEnds(t), UrlFiller) /\ o = u[Len(t)].out

LEMMA UrlScanIs == ASSUME NEW t \in Text PROVE \E u : UrlScan(u, t, RedactURLs(t))
<1>1. PICK u : /\ IsScan(u, t, UrlEnds(t), UrlFiller)
               /\ ReplaceAllString(t, UrlEnds(t), UrlFiller) = u[Len(t)].out
  BY UrlRule, ScanIs
<1> QED
  BY <1>1, UrlRule, RedactedIsClean DEF UrlScan

\* What each rule can have left a token from.
LEMMA UrlTokens ==
    ASSUME NEW t \in Text, NEW x \in ToSet(RedactURLs(t))
    PROVE  x \in ToSet(t) \/ (x \in {"tag", "at"} /\ "url" \in ToSet(t))
<1>1. PICK u : UrlScan(u, t, RedactURLs(t))
  BY UrlScanIs
<1> DEFINE o == RedactURLs(t)
           e == UrlEnds(t)
           b == UrlFiller
<1>2. IsScan(u, t, e, b) /\ o = u[Len(t)].out /\ x \in ToSet(o)
  BY <1>1 DEF UrlScan
<1>3. (\A i \in DOMAIN t : e[i] = URLEnd(t, i)) /\ \A y \in ToSet(b) : y \in {"tag", "at"}
  <2>1. \A y \in ToSet(b) : \E k \in 1..2 : y = b[k]
    BY UrlRule DEF ToSet, UrlFiller
  <2> QED
    BY <2>1, UrlRule
<1> HIDE DEF o, e, b
<1>4. Len(t) \in 0..Len(t) /\ DOMAIN t = 1..Len(t)
  BY <1>2, ScanStart
<1>5. \/ x \in ToSet(b) /\ \E k \in 1..Len(t) : e[k] # 0
      \/ \E k \in 1..Len(t) : Kept(e, u, k) /\ t[k] = x
  BY <1>2, <1>4, ScanTokens, SMTT(60)
<1>6. ASSUME NEW k \in 1..Len(t), e[k] # 0 PROVE "url" \in ToSet(t)
  <2>1. k \in DOMAIN t /\ URLEnd(t, k) # 0
    BY <1>3, <1>4, <1>6
  <2>2. t[k] = "url"
    BY <2>1, MatchEnd DEF Matches
  <2> QED
    BY <2>1, <2>2 DEF ToSet
<1>7. \A k \in 1..Len(t) : t[k] \in ToSet(t)
  BY <1>4 DEF ToSet
<1> QED
  BY <1>3, <1>5, <1>6, <1>7

LEMMA AuthTokens ==
    ASSUME NEW t \in Text, NEW x \in ToSet(RedactAuths(t))
    PROVE  x \in ToSet(t) \/ x \in {"quote", "auth", "colon", "mark"}
<1>1. PICK u : AuthScan(u, t, RedactAuths(t))
  BY AuthScanIs
<1> DEFINE o == RedactAuths(t)
           e == AuthEnds(t)
           b == AuthFiller
<1>2. IsScan(u, t, e, b) /\ o = u[Len(t)].out /\ x \in ToSet(o)
  BY <1>1 DEF AuthScan
<1>3. \A y \in ToSet(b) : y \in {"quote", "auth", "colon", "mark"}
  <2>1. \A y \in ToSet(b) : \E k \in 1..7 : y = b[k]
    <3>1. DOMAIN b = 1..7
      BY AuthFillerIs DEF Text
    <3> HIDE DEF b
    <3> QED
      BY <3>1 DEF ToSet
  <2> QED
    BY <2>1, AuthFillerIs
<1> HIDE DEF o, e, b
<1>4. Len(t) \in 0..Len(t) /\ DOMAIN t = 1..Len(t)
  BY <1>2, ScanStart
<1>5. x \in ToSet(b) \/ \E k \in 1..Len(t) : t[k] = x
  BY <1>2, <1>4, ScanTokens, SMTT(60)
<1>6. \A k \in 1..Len(t) : t[k] \in ToSet(t)
  BY <1>4 DEF ToSet
<1> QED
  BY <1>3, <1>5, <1>6

LEMMA SaneTokens ==
    ASSUME NEW s \in BOOLEAN, NEW t \in Text, NEW x \in ToSet(Sanitize(s, t))
    PROVE  \/ \E k \in DOMAIN t : Replaced(s, t[k]) = x /\ t[k] \in Token
           \/ x \in {"tag", "at"} /\ "url" \in ToSet(t)
           \/ x \in {"quote", "auth", "colon", "mark"}
<1> DEFINE w == Masked(s, t)
           o == RedactURLs(w)
<1>1. w \in Text /\ DOMAIN w = DOMAIN t /\ \A i \in DOMAIN t : w[i] = Replaced(s, t[i]) /\ t[i] \in Token
  BY MaskedIs
<1>2. x \in ToSet(RedactAuths(o))
  BY SanitizeIs
<1> HIDE DEF w
<1>3. o \in Text
  BY <1>1, RedactedIsClean
<1> HIDE DEF o
<1>4. x \in ToSet(o) \/ x \in {"quote", "auth", "colon", "mark"}
  BY <1>2, <1>3, AuthTokens
<1>5. x \in ToSet(o) => x \in ToSet(w) \/ (x \in {"tag", "at"} /\ "url" \in ToSet(w))
  BY <1>1, UrlTokens DEF o
<1>6. \A y \in ToSet(w) : \E k \in DOMAIN t : Replaced(s, t[k]) = y /\ t[k] \in Token
  BY <1>1 DEF ToSet
<1>7. "url" \in ToSet(w) => "url" \in ToSet(t)
  <2>1. \A y \in Token : Replaced(s, y) = "url" => y = "url"
    BY ReplacedIs
  <2> QED
    BY <1>6, <2>1 DEF ToSet
<1> QED
  BY <1>4, <1>5, <1>6, <1>7

\* In tokens, what the standard rules have sanitized stays under the semantic ones.
LEMMA SanitizedStays ==
    ASSUME NEW t \in Text
    PROVE  Sanitize(TRUE, Sanitize(FALSE, t)) = Sanitize(FALSE, t)
<1> DEFINE w == Masked(FALSE, t)
           x == RedactURLs(w)
           o == RedactAuths(x)
<1>1. FALSE \in BOOLEAN /\ TRUE \in BOOLEAN
  OBVIOUS
<1>2. w \in Text
  BY <1>1, MaskedIs
<1>3. x \in Text /\ CleanOfURLs(x)
  <2> HIDE DEF w
  <2> QED
    BY <1>2, RedactedIsClean
<1>4. Sanitize(FALSE, t) = o /\ Sanitize(TRUE, o) = RedactAuths(RedactURLs(Masked(TRUE, o)))
  BY SanitizeIs
<1>5. o \in Text /\ CleanOfURLs(o) /\ RedactAuths(o) = o
  <2> HIDE DEF x
  <2> QED
    BY <1>3, AuthsKeepClean, AuthsStay
<1> HIDE DEF w, x, o
<1>6. RedactURLs(o) = o
  BY <1>5, CleanStays
<1>7. \A y \in ToSet(o) : y \notin Secrets
  <2>1. \A y \in Token : Replaced(FALSE, y) \notin Secrets
    BY <1>1, ReplacedIs
  <2>2. \A y \in {"quote", "auth", "colon", "mark", "tag", "at"} : y \notin Secrets
    BY NoneReserved DEF Secrets, Reserved
  <2>3. ASSUME NEW y \in ToSet(o) PROVE y \notin Secrets
    <3>1. \/ \E k \in DOMAIN t : Replaced(FALSE, t[k]) = y /\ t[k] \in Token
          \/ y \in {"tag", "at"} /\ "url" \in ToSet(t)
          \/ y \in {"quote", "auth", "colon", "mark"}
      BY <1>1, <1>4, <2>3, SaneTokens
    <3> QED
      BY <2>1, <2>2, <3>1
  <2> QED
    BY <2>3
<1>8. o \in [DOMAIN o -> Token]
  BY <1>5 DEF Text
<1>9. \A k \in DOMAIN o : o[k] \in Token /\ o[k] \notin Secrets
  BY <1>7, <1>8 DEF ToSet
<1>10. \A k \in DOMAIN o : Replaced(TRUE, o[k]) = o[k]
  BY <1>1, <1>9, ReplacedIs
<1>11. Masked(TRUE, o) = o
  BY <1>8, <1>10 DEF Masked
<1> QED
  BY <1>4, <1>5, <1>6, <1>11

\* A step's log gets both sets of rules, a text posted to the worker the standard
\* ones.  The second set rewrites what the first has put in for a Docker auth,
\* but it changes no verdict.
THEOREM JudgedOnce ==
    ASSUME NEW t \in Text
    PROVE  Classify(Sanitize(TRUE, Sanitize(FALSE, t))) = Classify(Sanitize(FALSE, t))
  BY SanitizedStays

-----------------------------------------------------------------------------
(* Texts that a rule does not tell apart                                     *)

\* The texts differ in none of the tokens.
SameFor(tokens, a, b) ==
    /\ Len(a) = Len(b)
    /\ \A k \in DOMAIN a : a[k] = b[k] \/ (a[k] \notin tokens /\ b[k] \notin tokens)

LEMMA SameFirst ==
    ASSUME NEW a \in Text, NEW b \in Text, NEW all, SameFor(all, a, b), NEW tokens \in SUBSET all, NEW i, NEW c
    PROVE  First(a, i, tokens, c) <=> First(b, i, tokens, c)
<1>1. DOMAIN a = DOMAIN b
  BY DEF SameFor, Text
<1>2. \A k \in DOMAIN a : a[k] \in tokens <=> b[k] \in tokens
  BY DEF SameFor
<1> QED
  BY <1>1, <1>2 DEF First, After

UrlTokenSet == {"url", "colon", "at"}

LEMMA SameURLEnd ==
    ASSUME NEW a \in Text, NEW b \in Text, SameFor(UrlTokenSet, a, b), NEW i \in DOMAIN a
    PROVE  URLEnd(a, i) = URLEnd(b, i)
<1>1. DOMAIN a = DOMAIN b /\ i \in DOMAIN b
  BY DEF SameFor, Text
<1>2. \A c, d : /\ First(a, i, Colons, c) <=> First(b, i, Colons, c)
                /\ First(a, c, Ats, d) <=> First(b, c, Ats, d)
  <2>1. Colons \in SUBSET UrlTokenSet /\ Ats \in SUBSET UrlTokenSet
    BY DEF Colons, Ats, UrlTokenSet
  <2> QED
    BY <2>1, SameFirst
<1>3. \A k \in DOMAIN a : (a[k] = "url" <=> b[k] = "url") /\ (a[k] = "colon" <=> b[k] = "colon")
  BY DEF SameFor, UrlTokenSet
<1>4. \A c : First(a, i, Colons, c) => c \in DOMAIN a
  BY DEF First, After
<1>5. \A c, d : Matches(a, i, c, d) <=> Matches(b, i, c, d)
  BY <1>2, <1>3, <1>4 DEF Matches
<1>6. CASE URLEnd(a, i) # 0
  <2>1. PICK c : Matches(a, i, c, URLEnd(a, i))
    BY <1>6, MatchEnd
  <2>2. Matches(b, i, c, URLEnd(a, i))
    BY <1>5, <2>1
  <2> QED
    BY <1>1, <2>2, MatchEnd
<1>7. CASE URLEnd(b, i) # 0
  <2>1. PICK c : Matches(b, i, c, URLEnd(b, i))
    BY <1>1, <1>7, MatchEnd
  <2>2. Matches(a, i, c, URLEnd(b, i))
    BY <1>5, <2>1
  <2> QED
    BY <2>2, MatchEnd
<1> QED
  BY <1>6, <1>7

\* The texts differ at most in what a secret was replaced by.
Alike(a, b) ==
    /\ Len(a) = Len(b)
    /\ \A k \in DOMAIN a : a[k] = b[k] \/ (a[k] \in {"tag", "mark"} /\ b[k] \in {"tag", "mark"})

LEMMA AlikeSame ==
    ASSUME NEW a, NEW b, Alike(a, b)
    PROVE  SameFor(UrlTokenSet, a, b) /\ SameFor({"quote"}, a, b)
  BY DEF Alike, SameFor, UrlTokenSet

LEMMA AlikeAppends ==
    ASSUME NEW a \in Text, NEW b \in Text, Alike(a, b), NEW c \in Text, NEW x \in Token, NEW y \in Token,
           x = y \/ (x \in {"tag", "mark"} /\ y \in {"tag", "mark"})
    PROVE  Alike(a \o c, b \o c) /\ Alike(Append(a, x), Append(b, y))
<1>1. Len(a) = Len(b) /\ Len(a) \in Nat /\ Len(c) \in Nat
  BY DEF Alike, Text
<1> DEFINE n == Len(a)
           Like(p, q) == p = q \/ (p \in {"tag", "mark"} /\ q \in {"tag", "mark"})
<1>2. \A k \in 1..n : Like(a[k], b[k])
  BY DEF Alike, Text
<1> DEFINE a1 == a \o c
           b1 == b \o c
           a2 == Append(a, x)
           b2 == Append(b, y)
<1>3. /\ Len(a1) = n + Len(c) /\ DOMAIN a1 = 1..Len(a1)
      /\ (\A k \in 1..n : a1[k] = a[k]) /\ \A k \in 1..Len(c) : a1[n + k] = c[k]
  BY Joined DEF Text
<1>4. /\ Len(b1) = n + Len(c)
      /\ (\A k \in 1..n : b1[k] = b[k]) /\ \A k \in 1..Len(c) : b1[n + k] = c[k]
  BY <1>1, Joined
<1>5. Len(a2) = n + 1 /\ DOMAIN a2 = 1..(n + 1) /\ a2[n + 1] = x /\ \A k \in 1..n : a2[k] = a[k]
  BY DEF Text
<1>6. Len(b2) = n + 1 /\ b2[n + 1] = y /\ \A k \in 1..n : b2[k] = b[k]
  BY <1>1 DEF Text
<1> HIDE DEF a1, b1, a2, b2
<1>7. ASSUME NEW k \in 1..Len(a1) PROVE Like(a1[k], b1[k])
  <2>1. CASE k <= n
    <3>1. k \in 1..n
      BY <1>1, <1>3, <2>1
    <3> QED
      BY <1>2, <1>3, <1>4, <3>1
  <2>2. CASE ~(k <= n)
    <3> DEFINE j == k - n
    <3>1. j \in 1..Len(c) /\ k = n + j
      BY <1>1, <1>3, <2>2
    <3> HIDE DEF j
    <3>2. a1[k] = b1[k]
      BY <1>3, <1>4, <3>1
    <3> QED
      BY <3>2
  <2> QED
    BY <2>1, <2>2
<1>8. ASSUME NEW k \in 1..(n + 1) PROVE Like(a2[k], b2[k])
  <2>1. CASE k = n + 1
    BY <1>5, <1>6, <2>1
  <2>2. CASE k # n + 1
    <3>1. k \in 1..n
      BY <1>1, <2>2
    <3> QED
      BY <1>2, <1>5, <1>6, <3>1
  <2> QED
    BY <2>1, <2>2
<1> HIDE DEF n
<1>9. Alike(a1, b1)
  BY <1>3, <1>4, <1>7 DEF Alike
<1>10. Alike(a2, b2)
  BY <1>5, <1>6, <1>8 DEF Alike
<1> QED
  BY <1>9, <1>10 DEF a1, b1, a2, b2

\* What the scan does at position j.
Moved(u, t, e, b, j) ==
    /\ t[j] \in Token
    /\ j <= u[j - 1].done => u[j] = u[j - 1]
    /\ ~(j <= u[j - 1].done) /\ e[j] # 0 => u[j].out = u[j - 1].out \o b /\ u[j].done = e[j]
    /\ ~(j <= u[j - 1].done) /\ e[j] = 0 =>
         u[j].out = Append(u[j - 1].out, t[j]) /\ u[j].done = u[j - 1].done

LEMMA ScanMoves ==
    ASSUME NEW t, NEW e, NEW b, NEW u, IsScan(u, t, e, b), NEW j \in 1..Len(t)
    PROVE  Moved(u, t, e, b, j)
  BY ScanCases, SMTT(60) DEF Hit, Kept, Moved

\* A rule that matches two such texts in the same places leaves two such texts.
LEMMA ScanAlike ==
    ASSUME NEW t, NEW e, NEW b, NEW u, IsScan(u, t, e, b), NEW s, NEW f, NEW v, IsScan(v, s, f, b),
           Alike(t, s), \A i \in DOMAIN t : e[i] = f[i]
    PROVE  Alike(u[Len(t)].out, v[Len(s)].out)
<1>1. /\ Len(t) \in Nat /\ Len(s) = Len(t) /\ DOMAIN t = 1..Len(t) /\ b \in Text
      /\ \A i \in 0..Len(t) : u[i].out \in Text /\ v[i].out \in Text
  <2>1. Len(s) = Len(t)
    BY DEF Alike
  <2> QED
    BY <2>1, ScanStart
<1>2. \A j \in 1..Len(t) : Moved(u, t, e, b, j)
  BY ScanMoves, SMTT(60)
<1>3. \A j \in 1..Len(s) : Moved(v, s, f, b, j)
  BY ScanMoves, SMTT(60)
<1> DEFINE n == Len(t)
           P(i) == u[i].done = v[i].done /\ Alike(u[i].out, v[i].out)
           S == {i \in Nat : i <= n => P(i)}
<1>4. 0 \in S
  <2>1. P(0)
    BY ScanStart DEF Alike
  <2> QED
    BY <2>1
<1>5. ASSUME NEW j \in 1..n, P(j - 1) PROVE P(j)
  <2>1. j \in 1..Len(s) /\ j - 1 \in 0..n /\ j \in DOMAIN t
    BY <1>1
  <2>2. Moved(u, t, e, b, j) /\ Moved(v, s, f, b, j)
    BY <1>2, <1>3, <2>1
  <2>3. t[j] \in Token /\ s[j] \in Token
    BY <2>2 DEF Moved
  <2>4. e[j] = f[j] /\ u[j - 1].done = v[j - 1].done /\ Alike(u[j - 1].out, v[j - 1].out)
    BY <1>5, <2>1
  <2>5. u[j - 1].out \in Text /\ v[j - 1].out \in Text
    BY <1>1, <2>1
  <2>6. t[j] = s[j] \/ (t[j] \in {"tag", "mark"} /\ s[j] \in {"tag", "mark"})
    BY <2>1 DEF Alike
  <2> HIDE DEF P, S, n
  <2>7. /\ Alike(u[j - 1].out \o b, v[j - 1].out \o b)
        /\ Alike(Append(u[j - 1].out, t[j]), Append(v[j - 1].out, s[j]))
    BY <1>1, <2>3, <2>4, <2>5, <2>6, AlikeAppends
  <2>8. CASE j <= u[j - 1].done
    <3>1. u[j] = u[j - 1] /\ v[j] = v[j - 1]
      BY <2>2, <2>4, <2>8 DEF Moved
    <3> QED
      BY <2>4, <3>1 DEF P
  <2>9. CASE ~(j <= u[j - 1].done) /\ e[j] # 0
    <3>1. u[j].out = u[j - 1].out \o b /\ v[j].out = v[j - 1].out \o b /\ u[j].done = e[j] /\ v[j].done = f[j]
      BY <2>2, <2>4, <2>9 DEF Moved
    <3> QED
      BY <2>4, <2>7, <3>1 DEF P
  <2>10. CASE ~(j <= u[j - 1].done) /\ e[j] = 0
    <3>1. /\ u[j].out = Append(u[j - 1].out, t[j]) /\ v[j].out = Append(v[j - 1].out, s[j])
          /\ u[j].done = u[j - 1].done /\ v[j].done = v[j - 1].done
      BY <2>2, <2>4, <2>10 DEF Moved
    <3> QED
      BY <2>4, <2>7, <3>1 DEF P
  <2> QED
    BY <2>8, <2>9, <2>10
<1> HIDE DEF P
<1>6. ASSUME NEW i \in Nat, i \in S PROVE i + 1 \in S
  <2> SUFFICES ASSUME i + 1 <= n PROVE P(i + 1)
    OBVIOUS
  <2>1. i + 1 \in 1..n /\ (i + 1) - 1 = i /\ P(i)
    BY <1>1, <1>6
  <2> QED
    BY <1>5, <2>1
<1>7. Nat \subseteq S
  <2> HIDE DEF S
  <2> QED
    BY <1>4, <1>6, SetInduction
<1>8. P(n)
  BY <1>1, <1>7
<1> QED
  BY <1>1, <1>8 DEF P

LEMMA UrlsAlike ==
    ASSUME NEW a \in Text, NEW b \in Text, Alike(a, b)
    PROVE  Alike(RedactURLs(a), RedactURLs(b))
<1>1. PICK u : UrlScan(u, a, RedactURLs(a))
  BY UrlScanIs
<1>2. PICK v : UrlScan(v, b, RedactURLs(b))
  BY UrlScanIs
<1> DEFINE e == UrlEnds(a)
           f == UrlEnds(b)
<1>3. \A i \in DOMAIN a : e[i] = f[i]
  <2>1. DOMAIN a = DOMAIN b
    BY DEF Alike, Text
  <2>2. \A i \in DOMAIN a : URLEnd(a, i) = URLEnd(b, i)
    BY AlikeSame, SameURLEnd
  <2> QED
    BY <2>1, <2>2, UrlRule
<1>4. IsScan(u, a, e, UrlFiller) /\ IsScan(v, b, f, UrlFiller)
      /\ RedactURLs(a) = u[Len(a)].out /\ RedactURLs(b) = v[Len(b)].out
  BY <1>1, <1>2 DEF UrlScan
<1> HIDE DEF e, f
<1>5. Alike(u[Len(a)].out, v[Len(b)].out)
  BY <1>3, <1>4, ScanAlike, SMTT(60)
<1> QED
  BY <1>4, <1>5

LEMMA SameAuthEnd ==
    ASSUME NEW a \in Text, NEW b \in Text, Alike(a, b), NEW i \in DOMAIN a, NEW f, Auths(a, i, f)
    PROVE  Auths(b, i, f)
<1>1. DOMAIN a = DOMAIN b /\ Len(a) = Len(b) /\ DOMAIN a = 1..Len(a) /\ Len(a) \in Nat
  BY DEF Alike, Text
<1>2. i \in Nat /\ OpensAt(a, i) /\ i + 4 < f /\ f \in DOMAIN a /\ f \in Nat
  BY AuthEndIs
<1>3. Opens(b, i)
  <2>1. \A k \in DOMAIN a : \A x \in {"quote", "auth", "colon"} : a[k] = x => b[k] = x
    BY DEF Alike
  <2>2. OpensAt(b, i)
    BY <1>1, <1>2, <2>1 DEF OpensAt
  <2> QED
    BY <1>2, <2>2, OpensIs
<1>4. First(b, i + 4, Quotes, f)
  <2>1. First(a, i + 4, Quotes, f)
    BY DEF Auths
  <2>2. Quotes \in SUBSET {"quote"} /\ SameFor({"quote"}, a, b)
    BY AlikeSame DEF Quotes
  <2> QED
    BY <2>1, <2>2, SameFirst
<1> DEFINE c == SubSeq(a, i + 5, f - 1)
           d == SubSeq(b, i + 5, f - 1)
           n == (f - 1) - (i + 5) + 1
<1>5. /\ c \in Text /\ d \in Text /\ Len(c) = n /\ Len(d) = n /\ n \in Nat
      /\ \A x \in 1..n : c[x] = a[i + 5 + x - 1] /\ d[x] = b[i + 5 + x - 1] /\ i + 5 + x - 1 \in DOMAIN a
  <2>1. /\ i + 5 \in Nat /\ i + 5 >= 1 /\ f - 1 \in Int /\ f - 1 <= Len(a) /\ f - 1 <= Len(b)
        /\ n \in Nat /\ (~(i + 5 <= f - 1) => n = 0)
        /\ \A x \in 1..n : i + 5 + x - 1 \in 1..Len(a)
    BY <1>1, <1>2
  <2>2. c \in Text /\ Len(c) = n /\ \A x \in 1..n : c[x] = a[i + 5 + x - 1]
    BY <2>1, SubText
  <2>3. d \in Text /\ Len(d) = n /\ \A x \in 1..n : d[x] = b[i + 5 + x - 1]
    BY <2>1, SubText
  <2> QED
    BY <1>1, <2>1, <2>2, <2>3
<1>6. LongEnough(c)
  BY DEF Auths
<1> HIDE DEF c, d, n
<1>7. DOMAIN c = 1..n /\ DOMAIN d = 1..n
  BY <1>5 DEF Text
<1>8. LongEnough(d)
  <2>1. CASE c = d
    BY <1>6, <2>1
  <2>2. CASE c # d
    <3>1. PICK x \in 1..n : c[x] # d[x]
      BY <1>5, <2>2, SameText
    <3>2. d[x] \in {"tag", "mark"}
      BY <1>5, <3>1 DEF Alike
    <3>3. d[x] \in ToSet(d)
      BY <1>7, <3>1 DEF ToSet
    <3> QED
      BY <3>2, <3>3 DEF LongEnough
  <2> QED
    BY <2>1, <2>2
<1> QED
  BY <1>3, <1>4, <1>8 DEF Auths, d

LEMMA AuthsAlike ==
    ASSUME NEW a \in Text, NEW b \in Text, Alike(a, b)
    PROVE  Alike(RedactAuths(a), RedactAuths(b))
<1>1. PICK u : AuthScan(u, a, RedactAuths(a))
  BY AuthScanIs
<1>2. PICK v : AuthScan(v, b, RedactAuths(b))
  BY AuthScanIs
<1> DEFINE e == AuthEnds(a)
           f == AuthEnds(b)
<1>3. \A i \in DOMAIN a : e[i] = f[i]
  <2>1. DOMAIN a = DOMAIN b
    BY DEF Alike, Text
  <2>2. Alike(b, a)
    BY <2>1 DEF Alike
  <2>3. ASSUME NEW i \in DOMAIN a PROVE AuthEnd(a, i) = AuthEnd(b, i)
    <3>1. CASE AuthEnd(a, i) # 0
      <4>1. Auths(a, i, AuthEnd(a, i))
        BY <3>1, AuthEndIs
      <4>2. Auths(b, i, AuthEnd(a, i))
        BY <4>1, SameAuthEnd
      <4> QED
        BY <2>1, <4>2, AuthEndIs
    <3>2. CASE AuthEnd(b, i) # 0
      <4>1. Auths(b, i, AuthEnd(b, i))
        BY <2>1, <3>2, AuthEndIs
      <4>2. Auths(a, i, AuthEnd(b, i))
        BY <2>1, <2>2, <4>1, SameAuthEnd
      <4> QED
        BY <4>2, AuthEndIs
    <3> QED
      BY <3>1, <3>2
  <2> QED
    BY <2>1, <2>3, AuthRule
<1>4. IsScan(u, a, e, AuthFiller) /\ IsScan(v, b, f, AuthFiller)
      /\ RedactAuths(a) = u[Len(a)].out /\ RedactAuths(b) = v[Len(b)].out
  BY <1>1, <1>2 DEF AuthScan
<1> HIDE DEF e, f
<1>5. Alike(u[Len(a)].out, v[Len(b)].out)
  BY <1>3, <1>4, ScanAlike, SMTT(60)
<1> QED
  BY <1>4, <1>5

-----------------------------------------------------------------------------
(* What becomes of a signal, and the verdict                                 *)

LEMMA MaskedLeaves ==
    ASSUME NEW s \in BOOLEAN, NEW t \in Text, NEW w, w = Masked(s, t)
    PROVE  /\ w \in Text /\ Len(w) = Len(t) /\ DOMAIN w = DOMAIN t
           /\ \A k \in DOMAIN t : \A x \in {"url", "colon", "at", "quote", "auth"} : w[k] = x <=> t[k] = x
           /\ \A k \in DOMAIN t : URLEnd(w, k) = URLEnd(t, k)
           /\ \A k \in Nat : OpensAt(w, k) <=> OpensAt(t, k)
<1>1. /\ w \in Text /\ Len(w) = Len(t) /\ DOMAIN w = DOMAIN t
      /\ \A k \in DOMAIN t : w[k] = Replaced(s, t[k]) /\ t[k] \in Token
  BY MaskedIs
<1>2. \A x \in {"url", "colon", "at", "quote", "auth"} : x \notin {"tag", "mark"} /\ x \notin Secrets
  BY NoneReserved DEF Secrets, Reserved
<1>3. \A k \in DOMAIN t : \A x \in {"url", "colon", "at", "quote", "auth"} : w[k] = x <=> t[k] = x
  BY <1>1, <1>2, ReplacedLeaves
<1>4. SameFor(UrlTokenSet, t, w)
  <2>1. ASSUME NEW k \in DOMAIN t PROVE t[k] = w[k] \/ (t[k] \notin UrlTokenSet /\ w[k] \notin UrlTokenSet)
    <3>1. \A x \in UrlTokenSet : w[k] = x <=> t[k] = x
      BY <1>3 DEF UrlTokenSet
    <3> QED
      BY <3>1
  <2> QED
    BY <1>1, <2>1 DEF SameFor
<1>5. \A k \in DOMAIN t : URLEnd(w, k) = URLEnd(t, k)
  BY <1>1, <1>4, SameURLEnd
<1>6. \A k \in Nat : OpensAt(w, k) <=> OpensAt(t, k)
  BY <1>1, <1>3 DEF OpensAt
<1> QED
  BY <1>1, <1>3, <1>5, <1>6

\* A match of the rule for URLs that covers p reaches it.
LEMMA CoverReaches ==
    ASSUME raw \in Text, NEW k \in DOMAIN raw, URLEnd(raw, k) # 0, NEW p \in DOMAIN raw, k < p, p < URLEnd(raw, k)
    PROVE  Reached(p)
<1> DEFINE a == URLEnd(raw, k)
<1>1. DOMAIN raw = 1..Len(raw) /\ Len(raw) \in Nat
  BY DEF Text
<1>2. k \in Nat /\ p \in Nat
  BY <1>1
<1>3. PICK c : Matches(raw, k, c, a)
  BY MatchEnd
<1>4. k < c /\ c < a /\ c \in DOMAIN raw /\ a \in DOMAIN raw /\ raw[a] = "at" /\ raw[k] = "url" /\ p < a
  BY <1>3, MatchEnd DEF Matches
<1> HIDE DEF a
<1>5. ASSUME NEW b \in k + 1..a - 1, raw[b] = "at", NEW d \in k + 1..b PROVE raw[d] \notin {"colon", "url"}
  <2>1. b \in DOMAIN raw /\ d \in DOMAIN raw /\ k < d /\ d <= b /\ b < a
        /\ b \in Nat /\ c \in Nat /\ a \in Nat /\ d \in Nat
    BY <1>1, <1>2, <1>4, <1>5
  <2>2. b # c
    <3>1. raw[c] \in {"colon", "url"}
      BY <1>3 DEF Matches, First, After, Colons
    <3> QED
      BY <1>5, <3>1
  <2>3. ~(c < b)
    BY <1>3, <1>5, <2>1 DEF Matches, First, Ats
  <2>4. d < c
    BY <2>1, <2>2, <2>3
  <2> QED
    BY <1>3, <2>1, <2>4 DEF Matches, First, Colons
<1> QED
  BY <1>4, <1>5 DEF Reached

\* A token that no URL reaches is copied.
LEMMA UrlKeeps ==
    ASSUME raw \in Text, NEW s \in BOOLEAN, NEW w, w = Masked(s, raw), NEW u, NEW o, UrlScan(u, w, o),
           NEW p \in DOMAIN raw, raw[p] \notin {"url", "at"}, ~Reached(p)
    PROVE  Kept(UrlEnds(w), u, p)
<1> DEFINE e == UrlEnds(w)
<1>1. /\ w \in Text /\ DOMAIN w = DOMAIN raw
      /\ \A k \in DOMAIN raw : URLEnd(w, k) = URLEnd(raw, k)
  BY MaskedLeaves
<1>2. \A k \in DOMAIN raw : e[k] = URLEnd(raw, k)
  BY <1>1, UrlRule
<1>3. IsScan(u, w, e, UrlFiller)
  BY DEF UrlScan
<1> HIDE DEF e
<1>4. e[p] = 0
  <2>1. URLEnd(raw, p) = 0
    BY MatchEnd DEF Matches
  <2> QED
    BY <1>2, <2>1
<1>5. ASSUME NEW k \in DOMAIN w, e[k] # 0, k < p, p <= e[k] PROVE FALSE
  <2> DEFINE a == URLEnd(raw, k)
  <2>1. k \in DOMAIN raw /\ a = e[k]
    BY <1>1, <1>2, <1>5
  <2>2. a \in DOMAIN raw /\ raw[a] = "at"
    BY <1>5, <2>1, MatchEnd
  <2>3. a # p
    BY <2>2
  <2>4. a \in Nat /\ p \in Nat
    BY <2>2 DEF Text
  <2>5. p < a
    <3>1. p <= a
      BY <1>5, <2>1
    <3> HIDE DEF a
    <3> QED
      BY <2>3, <2>4, <3>1
  <2> QED
    BY <1>5, <2>1, <2>5, CoverReaches
<1> QED
  BY <1>1, <1>3, <1>4, <1>5, Survives, SMTT(60) DEF e

\* The token after a copied one is copied if the rule cannot have put it there.
LEMMA NextKept ==
    ASSUME NEW t, NEW u, NEW o, UrlScan(u, t, o), NEW k \in 1..Len(t), Kept(UrlEnds(t), u, k),
           NEW q, q = Upto(u, k), q + 1 \in DOMAIN o, o[q + 1] \notin {"tag", "at"}
    PROVE  /\ k + 1 \in 1..Len(t) /\ Kept(UrlEnds(t), u, k + 1)
           /\ Upto(u, k + 1) = q + 1 /\ t[k + 1] = o[q + 1]
<1> DEFINE e == UrlEnds(t)
           b == UrlFiller
<1>1. IsScan(u, t, e, b) /\ o = u[Len(t)].out /\ t \in Text /\ Kept(e, u, k)
  BY DEF UrlScan
<1>2. Len(b) = 2 /\ \A x \in 1..2 : b[x] \in {"tag", "at"}
  BY <1>1, UrlRule
<1>3. DOMAIN o = 1..Len(o) /\ Len(o) \in Nat
  BY DEF UrlScan, Text
<1> HIDE DEF e, b
<1>4. q \in Nat
  BY <1>1, Written, SMTT(60)
<1>5. k # Len(t)
  <2>1. q # Len(o)
    BY <1>3, <1>4
  <2>2. k = Len(t) => Upto(u, k) = Len(o)
    BY <1>1, NextToken, SMTT(60)
  <2> QED
    BY <2>1, <2>2
<1>6. k + 1 \in 1..Len(t) /\ (k + 1) - 1 = k /\ (Kept(e, u, k + 1) \/ Hit(e, u, k + 1))
  BY <1>1, <1>5, NextToken, SMTT(60)
<1>7. /\ Kept(e, u, k + 1) => /\ Upto(u, k + 1) = Upto(u, (k + 1) - 1) + 1 /\ o[Upto(u, k + 1)] = t[k + 1]
      /\ Hit(e, u, k + 1) => \A x \in 1..Len(b) : o[Upto(u, (k + 1) - 1) + x] = b[x]
  BY <1>1, <1>6, Written, SMTT(60)
<1>8. ~Hit(e, u, k + 1)
  <2>1. ASSUME Hit(e, u, k + 1) PROVE FALSE
    <3>1. 1 \in 1..Len(b) /\ 1 \in 1..2
      BY <1>2
    <3>2. o[q + 1] = b[1]
      BY <1>6, <1>7, <2>1, <3>1
    <3> QED
      BY <1>2, <3>1, <3>2
  <2> QED
    BY <2>1
<1> QED
  BY <1>6, <1>7, <1>8 DEF e

\* A quote is copied from one.
LEMMA QuoteFrom ==
    ASSUME NEW t, NEW u, NEW o, UrlScan(u, t, o), NEW q \in DOMAIN o, o[q] = "quote"
    PROVE  \E k \in 1..Len(t) : Kept(UrlEnds(t), u, k) /\ Upto(u, k) = q /\ t[k] = "quote"
<1> DEFINE e == UrlEnds(t)
           b == UrlFiller
<1>1. IsScan(u, t, e, b) /\ o = u[Len(t)].out /\ t \in Text
  BY DEF UrlScan
<1>2. Len(b) = 2 /\ \A x \in 1..2 : b[x] \in {"tag", "at"}
  BY <1>1, UrlRule
<1>3. q \in 1..Len(o)
  BY DEF UrlScan, Text
<1> HIDE DEF e, b
<1>4. PICK k \in 1..Len(t) : \/ Kept(e, u, k) /\ Upto(u, k) = q /\ t[k] = o[q]
                             \/ \E x \in 1..Len(b) : o[q] = b[x]
  BY <1>1, <1>3, Origin, SMTT(60)
<1>5. ~\E x \in 1..Len(b) : o[q] = b[x]
  BY <1>2
<1> QED
  BY <1>4, <1>5 DEF e

\* An opening is copied from one.
LEMMA OpeningFrom ==
    ASSUME NEW t, NEW u, NEW o, UrlScan(u, t, o), NEW m \in DOMAIN o, OpensAt(o, m)
    PROVE  \E k \in 1..Len(t) : /\ OpensAt(t, k) /\ k + 4 \in 1..Len(t) /\ Kept(UrlEnds(t), u, k + 4)
                                /\ Upto(u, k + 4) = m + 4
<1> DEFINE e == UrlEnds(t)
<1>1. /\ m + 1 \in DOMAIN o /\ m + 2 \in DOMAIN o /\ m + 3 \in DOMAIN o /\ m + 4 \in DOMAIN o
      /\ o[m] = "quote" /\ o[m + 1] = "auth" /\ o[m + 2] = "quote" /\ o[m + 3] = "colon" /\ o[m + 4] = "quote"
  BY DEF OpensAt
<1>2. PICK k \in 1..Len(t) : Kept(e, u, k) /\ Upto(u, k) = m /\ t[k] = "quote"
  BY <1>1, QuoteFrom
<1>3. m \in Nat /\ k \in Nat /\ DOMAIN t = 1..Len(t)
  BY DEF UrlScan, Text
<1>4. /\ m + 1 + 1 = m + 2 /\ m + 2 + 1 = m + 3 /\ m + 3 + 1 = m + 4
      /\ k + 1 + 1 = k + 2 /\ k + 2 + 1 = k + 3 /\ k + 3 + 1 = k + 4
  BY <1>3
<1> HIDE DEF e
<1>5. k + 1 \in 1..Len(t) /\ Kept(e, u, k + 1) /\ Upto(u, k + 1) = m + 1 /\ t[k + 1] = "auth"
  BY <1>1, <1>2, NextKept, SMTT(60) DEF e
<1>6. k + 2 \in 1..Len(t) /\ Kept(e, u, k + 2) /\ Upto(u, k + 2) = m + 2 /\ t[k + 2] = "quote"
  <2>1. /\ k + 1 + 1 \in 1..Len(t) /\ Kept(e, u, k + 1 + 1) /\ Upto(u, k + 1 + 1) = m + 1 + 1
        /\ t[k + 1 + 1] = o[m + 1 + 1]
    BY <1>1, <1>4, <1>5, NextKept, SMTT(60) DEF e
  <2> QED
    BY <1>1, <1>4, <2>1
<1>7. k + 3 \in 1..Len(t) /\ Kept(e, u, k + 3) /\ Upto(u, k + 3) = m + 3 /\ t[k + 3] = "colon"
  <2>1. /\ k + 2 + 1 \in 1..Len(t) /\ Kept(e, u, k + 2 + 1) /\ Upto(u, k + 2 + 1) = m + 2 + 1
        /\ t[k + 2 + 1] = o[m + 2 + 1]
    BY <1>1, <1>4, <1>6, NextKept, SMTT(60) DEF e
  <2> QED
    BY <1>1, <1>4, <2>1
<1>8. k + 4 \in 1..Len(t) /\ Kept(e, u, k + 4) /\ Upto(u, k + 4) = m + 4 /\ t[k + 4] = "quote"
  <2>1. /\ k + 3 + 1 \in 1..Len(t) /\ Kept(e, u, k + 3 + 1) /\ Upto(u, k + 3 + 1) = m + 3 + 1
        /\ t[k + 3 + 1] = o[m + 3 + 1]
    BY <1>1, <1>4, <1>7, NextKept, SMTT(60) DEF e
  <2> QED
    BY <1>1, <1>4, <2>1
<1>9. OpensAt(t, k)
  BY <1>2, <1>3, <1>5, <1>6, <1>7, <1>8 DEF OpensAt
<1> QED
  BY <1>8, <1>9 DEF e

\* The order of two copied tokens is that of their copies.
LEMMA CopiesInOrder ==
    ASSUME NEW t, NEW u, NEW o, UrlScan(u, t, o), NEW i \in 1..Len(t), NEW j \in 1..Len(t),
           Kept(UrlEnds(t), u, i), Kept(UrlEnds(t), u, j)
    PROVE  i < j <=> Upto(u, i) < Upto(u, j)
<1> DEFINE e == UrlEnds(t)
<1>1. IsScan(u, t, e, UrlFiller) /\ t \in Text /\ o = u[Len(t)].out
  BY DEF UrlScan
<1>2. i \in Nat /\ j \in Nat
  OBVIOUS
<1> HIDE DEF e
<1>3. Upto(u, i) \in Nat /\ Upto(u, j) \in Nat
  BY <1>1, Written, SMTT(60)
<1>4. i < j => Upto(u, i) < Upto(u, j)
  BY <1>1, Ordered, SMTT(60) DEF e
<1>5. j < i => Upto(u, j) < Upto(u, i)
  BY <1>1, Ordered, SMTT(60) DEF e
<1> DEFINE a == Upto(u, i)
           b == Upto(u, j)
<1>6. a \in Nat /\ b \in Nat /\ (i < j => a < b) /\ (j < i => b < a) /\ (i = j => a = b)
  BY <1>3, <1>4, <1>5
<1> HIDE DEF a, b
<1>7. i < j <=> a < b
  BY <1>2, <1>6
<1> QED
  BY <1>7 DEF a, b

\* A token that neither rule reaches is in the result.
LEMMA SureStays ==
    ASSUME raw \in Text, NEW s \in BOOLEAN, NEW p \in DOMAIN raw, raw[p] \notin Reserved, raw[p] \notin Buried,
           ~Reached(p), ~Quoted(p)
    PROVE  raw[p] \in ToSet(Sanitize(s, raw))
<1> DEFINE w == Masked(s, raw)
           x == RedactURLs(w)
           o == RedactAuths(x)
           e == UrlEnds(w)
           f == AuthEnds(x)
<1>1. /\ w \in Text /\ Len(w) = Len(raw) /\ DOMAIN w = DOMAIN raw /\ DOMAIN raw = 1..Len(raw) /\ Len(raw) \in Nat
      /\ \A k \in DOMAIN raw : w[k] = "quote" <=> raw[k] = "quote"
      /\ \A k \in Nat : OpensAt(w, k) <=> OpensAt(raw, k)
  BY MaskedLeaves DEF Text
<1>2. w[p] = raw[p]
  <2>1. w[p] = Replaced(s, raw[p]) /\ raw[p] \in Token
    BY MaskedIs
  <2>2. raw[p] \notin Secrets
    BY DEF Secrets, Reserved
  <2> QED
    BY <2>1, <2>2, ReplacedIs
<1>3. PICK u : UrlScan(u, w, x)
  BY <1>1, UrlScanIs
<1>4. x \in Text /\ x = u[Len(w)].out /\ IsScan(u, w, e, UrlFiller)
  BY <1>3 DEF UrlScan
<1>5. PICK v : AuthScan(v, x, o)
  BY <1>4, AuthScanIs
<1>6. IsScan(v, x, f, AuthFiller) /\ o = v[Len(x)].out
  BY <1>5 DEF AuthScan
<1>7. Sanitize(s, raw) = o
  BY SanitizeIs
<1>8. \A k \in DOMAIN raw : raw[k] \notin {"url", "at"} /\ ~Reached(k) => Kept(e, u, k)
  <2>1. w = Masked(s, raw)
    OBVIOUS
  <2> HIDE DEF w
  <2> QED
    BY <1>3, <2>1, UrlKeeps, SMTT(60)
<1> HIDE DEF w, x, o, e, f
<1>9. Kept(e, u, p)
  BY <1>8 DEF Reserved
<1> DEFINE q == Upto(u, p)
<1>10. q \in DOMAIN x /\ x[q] = raw[p] /\ p \in 1..Len(w)
  BY <1>1, <1>2, <1>4, <1>9, Written, SMTT(60)
<1>11. q \in Nat /\ DOMAIN x = 1..Len(x) /\ Len(x) \in Nat
  BY <1>4, <1>10 DEF Text
<1>12. \A i, j \in 1..Len(w) : Kept(e, u, i) /\ Kept(e, u, j) => (i < j <=> Upto(u, i) < Upto(u, j))
  BY <1>3, CopiesInOrder, SMTT(60) DEF e
<1>13. \A k \in DOMAIN x : f[k] = AuthEnd(x, k)
  BY <1>4, AuthRule DEF f
<1>14. f[q] = 0
  <2>1. ASSUME AuthEnd(x, q) # 0 PROVE FALSE
    <3>1. x[q] = "quote"
      BY <1>4, <1>10, <2>1, AuthEndIs DEF OpensAt
    <3> QED
      BY <1>10, <3>1 DEF Reserved
  <2> QED
    BY <1>10, <1>13, <2>1
<1>15. ASSUME NEW m \in DOMAIN x, f[m] # 0, m < q, q <= f[m] PROVE FALSE
  <2> DEFINE z == AuthEnd(x, m)
  <2>1. z # 0 /\ q <= z
    BY <1>13, <1>15
  <2>2. Auths(x, m, z) /\ OpensAt(x, m) /\ z \in DOMAIN x /\ z \in Nat /\ x[z] = "quote" /\ m \in Nat
    BY <1>4, <2>1, AuthEndIs
  <2> HIDE DEF z
  <2>3. q < z
    <3>1. q # z
      BY <1>10, <2>2 DEF Reserved
    <3> QED
      BY <1>11, <2>1, <2>2, <3>1
  <2>4. m + 4 < q
    <3>1. \A y \in {m, m + 1, m + 2, m + 3, m + 4} : x[y] \in Reserved
      BY <2>2 DEF OpensAt, Reserved
    <3>2. q \notin {m, m + 1, m + 2, m + 3, m + 4}
      BY <1>10, <3>1
    <3> HIDE DEF q
    <3> QED
      BY <1>11, <1>15, <2>2, <3>2
  <2>5. PICK k \in 1..Len(w) : /\ OpensAt(w, k) /\ k + 4 \in 1..Len(w) /\ Kept(e, u, k + 4)
                               /\ Upto(u, k + 4) = m + 4
    BY <1>3, <2>2, OpeningFrom, SMTT(60) DEF e
  <2>6. PICK c \in 1..Len(w) : Kept(e, u, c) /\ Upto(u, c) = z /\ w[c] = "quote"
    BY <1>3, <2>2, QuoteFrom, SMTT(60) DEF e
  <2>7. k + 4 < p /\ p < c
    BY <1>9, <1>10, <1>12, <2>3, <2>4, <2>5, <2>6
  <2>8. k \in DOMAIN raw /\ c \in DOMAIN raw /\ raw[c] = "quote" /\ OpensAt(raw, k) /\ k \in Nat
    BY <1>1, <2>5, <2>6
  <2>9. ASSUME NEW y \in k + 5..p - 1, raw[y] = "quote", ~Reached(y) PROVE FALSE
    <3>1. y \in 1..Len(w) /\ k + 4 < y /\ y < p /\ y \in DOMAIN raw
      BY <1>1, <2>8, <2>9
    <3>2. Kept(e, u, y)
      BY <1>8, <2>9, <3>1
    <3>3. m + 4 < Upto(u, y) /\ Upto(u, y) < q
      BY <1>9, <1>10, <1>12, <2>5, <3>1, <3>2
    <3>4. Upto(u, y) \in DOMAIN x /\ x[Upto(u, y)] = w[y]
      BY <1>4, <3>1, <3>2, Written, SMTT(60)
    <3>5. x[Upto(u, y)] = "quote"
      BY <1>1, <2>9, <3>1, <3>4
    <3> DEFINE l == Upto(u, y)
    <3>6. l \in Nat /\ l < z
      <4>1. l \in DOMAIN x /\ l < q
        BY <3>3, <3>4
      <4> HIDE DEF l, q
      <4> QED
        BY <1>11, <2>2, <2>3, <4>1
    <3> QED
      BY <2>2, <3>3, <3>4, <3>5, <3>6 DEF Auths, First, Quotes
  <2>10. Opens(raw, k)
    BY <2>8, OpensIs
  <2>11. Quoted(p)
    BY <2>7, <2>8, <2>9, <2>10 DEF Quoted
  <2> QED
    BY <2>11
<1>16. Kept(f, v, q)
  BY <1>6, <1>10, <1>14, <1>15, Survives, SMTT(60)
<1>17. x[q] \in ToSet(o)
  <2>1. Len(x) \in 0..Len(x) /\ q \in 1..Len(x)
    BY <1>10, <1>11
  <2> HIDE DEF q
  <2> QED
    BY <1>6, <1>16, <2>1, ScanTokens, SMTT(60)
<1> QED
  BY <1>7, <1>10, <1>17

LEMMA SignalsOf ==
    ASSUME raw \in Text, NEW s \in BOOLEAN, NEW signals \in {AppSignals, InfraSignals}
    PROVE  /\ ToSet(Sanitize(s, raw)) \cap signals # {} => ToSet(raw) \cap signals # {}
           /\ Sure(signals) # {} => ToSet(Sanitize(s, raw)) \cap signals # {}
<1>1. \A x \in signals : x \notin Reserved
  BY NoneReserved
<1>2. ASSUME NEW x \in signals, x \in ToSet(Sanitize(s, raw)) PROVE x \in ToSet(raw)
  <2>1. x \notin {"tag", "at", "quote", "auth", "colon", "mark"}
    BY <1>1 DEF Reserved
  <2>2. PICK k \in DOMAIN raw : Replaced(s, raw[k]) = x /\ raw[k] \in Token
    BY <1>2, <2>1, SaneTokens
  <2>3. raw[k] = x
    BY <2>1, <2>2, ReplacedIs
  <2> QED
    BY <2>3 DEF ToSet
<1>3. ASSUME NEW p \in Sure(signals) PROVE ToSet(Sanitize(s, raw)) \cap signals # {}
  <2>1. p \in DOMAIN raw /\ raw[p] \in signals /\ raw[p] \notin Buried /\ ~Reached(p) /\ ~Quoted(p)
    BY DEF Sure
  <2>2. raw[p] \in ToSet(Sanitize(s, raw))
    BY <1>1, <2>1, SureStays
  <2> QED
    BY <2>1, <2>2
<1> QED
  BY <1>2, <1>3

LEMMA MissingOf ==
    ASSUME raw \in Text, NEW s \in BOOLEAN, ConfigMissing(Sanitize(s, raw))
    PROVE  /\ "missing" \in ToSet(raw)
           /\ ToSet(raw) \cap {"config", "jwt", "key", "url", "tag"} # {}
<1> DEFINE o == Sanitize(s, raw)
<1>1. ASSUME NEW x \in ToSet(o), x \in {"missing", "config"} PROVE x \in ToSet(raw)
  <2>1. x \notin {"tag", "at", "quote", "auth", "colon", "mark"}
    BY <1>1
  <2>2. PICK k \in DOMAIN raw : Replaced(s, raw[k]) = x /\ raw[k] \in Token
    BY <1>1, <2>1, SaneTokens
  <2>3. raw[k] = x
    BY <2>1, <2>2, ReplacedIs
  <2> QED
    BY <2>3 DEF ToSet
<1>2. ASSUME "tag" \in ToSet(o) PROVE ToSet(raw) \cap {"jwt", "key", "url", "tag"} # {}
  <2>1. \/ \E k \in DOMAIN raw : Replaced(s, raw[k]) = "tag" /\ raw[k] \in Token
        \/ "url" \in ToSet(raw)
    BY <1>2, SaneTokens
  <2>2. ASSUME NEW k \in DOMAIN raw, Replaced(s, raw[k]) = "tag" PROVE raw[k] \in {"jwt", "key", "tag"}
    BY <2>2 DEF Replaced
  <2> QED
    BY <2>1, <2>2 DEF ToSet
<1>3. "missing" \in ToSet(o) /\ ("config" \in ToSet(o) \/ "tag" \in ToSet(o))
  <2> HIDE DEF o
  <2>1. ConfigMissing(o)
    BY DEF o
  <2> QED
    BY <2>1 DEF ConfigMissing, ToSet
<1> HIDE DEF o
<1> QED
  BY <1>1, <1>2, <1>3

\* Two such texts have the same tokens but for what the secrets were replaced by.
LEMMA AlikeTokens ==
    ASSUME NEW a \in Text, NEW b \in Text, Alike(a, b), NEW x, x \notin {"tag", "mark"}
    PROVE  x \in ToSet(a) <=> x \in ToSet(b)
<1>1. DOMAIN a = DOMAIN b
  BY DEF Alike, Text
<1>2. \A k \in DOMAIN a : a[k] = x <=> b[k] = x
  BY DEF Alike
<1> QED
  BY <1>1, <1>2 DEF ToSet

\* The two sets of rules differ in the verdict only over bearer tokens in a
\* text that says something is missing.
LEMMA JudgedAlike ==
    ASSUME raw \in Text, ~({"jwt", "missing"} \subseteq ToSet(raw))
    PROVE  Classify(Sanitize(TRUE, raw)) = Classify(Sanitize(FALSE, raw))
<1>1. TRUE \in BOOLEAN /\ FALSE \in BOOLEAN
  OBVIOUS
<1>2. CASE "jwt" \notin ToSet(raw)
  <2>1. \A k \in DOMAIN raw : Replaced(TRUE, raw[k]) = Replaced(FALSE, raw[k])
    BY <1>2 DEF Replaced, ToSet
  <2>2. Masked(TRUE, raw) = Masked(FALSE, raw)
    BY <2>1 DEF Masked
  <2>3. Sanitize(TRUE, raw) = Sanitize(FALSE, raw)
    BY <2>2, SanitizeIs
  <2> QED
    BY <2>3
<1>3. CASE "missing" \notin ToSet(raw)
  <2> DEFINE w == Masked(TRUE, raw)
             z == Masked(FALSE, raw)
             x == Sanitize(TRUE, raw)
             y == Sanitize(FALSE, raw)
  <2>1. w \in Text /\ z \in Text /\ Len(w) = Len(z) /\ DOMAIN w = DOMAIN raw
        /\ \A k \in DOMAIN raw : w[k] = Replaced(TRUE, raw[k]) /\ z[k] = Replaced(FALSE, raw[k])
    BY <1>1, MaskedIs
  <2>2. ~ConfigMissing(x) /\ ~ConfigMissing(y)
    BY <1>1, <1>3, MissingOf
  <2>3. x = RedactAuths(RedactURLs(w)) /\ y = RedactAuths(RedactURLs(z))
    BY SanitizeIs
  <2>4. \A k \in DOMAIN raw : Replaced(TRUE, raw[k]) = Replaced(FALSE, raw[k])
                              \/ (Replaced(TRUE, raw[k]) = "tag" /\ Replaced(FALSE, raw[k]) = "mark")
    BY DEF Replaced
  <2> HIDE DEF w, z, x, y
  <2>5. Alike(w, z)
    BY <2>1, <2>4 DEF Alike
  <2>6. Alike(RedactURLs(w), RedactURLs(z)) /\ RedactURLs(w) \in Text /\ RedactURLs(z) \in Text
    BY <2>1, <2>5, UrlsAlike, RedactedIsClean
  <2>7. Alike(x, y) /\ x \in Text /\ y \in Text
    <3>1. \A t \in Text : RedactAuths(t) \in Text
      BY AuthScanIs DEF AuthScan
    <3> QED
      BY <2>3, <2>6, <3>1, AuthsAlike
  <2>8. \A c \in AppSignals \cup InfraSignals : c \in ToSet(x) <=> c \in ToSet(y)
    <3>1. \A c \in AppSignals \cup InfraSignals : c \notin {"tag", "mark"}
      BY NoneReserved DEF Reserved
    <3> QED
      BY <2>7, <3>1, AlikeTokens
  <2>9. /\ ToSet(x) \cap AppSignals = ToSet(y) \cap AppSignals
        /\ ToSet(x) \cap InfraSignals = ToSet(y) \cap InfraSignals
    BY <2>8
  <2>10. Classify(x) = Classify(y)
    BY <2>2, <2>9 DEF Classify
  <2> QED
    BY <2>10 DEF x, y
<1> QED
  BY <1>2, <1>3

LEMMA TrimSpaceTyped == ASSUME NEW t \in Text PROVE TrimSpace(t) \in Text
<1> DEFINE ink == {i \in DOMAIN t : t[i] \notin Blank}
<1>1. DOMAIN t = 1..Len(t) /\ Len(t) \in Nat /\ \A k \in 1..Len(t) : t[k] \in Token
  BY DEF Text
<1>2. CASE ink = {}
  BY <1>2, NoText DEF TrimSpace
<1>3. CASE ink # {}
  <2>1. ink \in SUBSET Nat /\ ink \in SUBSET (1..Len(t))
    BY <1>1
  <2>2. TrimSpace(t) = SubSeq(t, Min(ink), Max(ink))
    BY <1>3 DEF TrimSpace
  <2> HIDE DEF ink
  <2>3. \E m \in ink : \A i \in ink : m <= i
    BY <1>3, <2>1, LeastNumber
  <2>4. \E m \in ink : \A i \in ink : i <= m
    BY <1>1, <1>3, <2>1, LastPosition
  <2>5. Min(ink) \in ink
    BY <2>3 DEF Min
  <2>6. Max(ink) \in ink
    BY <2>4 DEF Max
  <2> DEFINE a == Min(ink)
             b == Max(ink)
  <2>7. a \in 1..Len(t) /\ b \in 1..Len(t)
    BY <2>1, <2>5, <2>6
  <2> HIDE DEF a, b
  <2>8. SubSeq(t, a, b) \in Seq(Token)
    BY <1>1, <2>7 DEF Text
  <2> QED
    BY <2>2, <2>8 DEF a, b, Text
<1> QED
  BY <1>2, <1>3

\* The verdict, once there is one, is one of the two that raw can get.
VerdictInv ==
    /\ raw \in Text
    /\ reading => ofStep /\ class = "none"
    /\ class # "none" /\ raw # <<>> =>
         class \in {Classify(Sanitize(FALSE, raw)), Classify(Sanitize(TRUE, raw))}

LEMMA VerdictInit == Init => VerdictInv
<1> SUFFICES ASSUME Init PROVE VerdictInv
  OBVIOUS
<1>1. PICK c \in Cases : ofStep = c.step /\ IF c.step THEN Collecting(c.out, c.err) ELSE Given(c.out)
  BY DEF Init
<1>2. c.out \in Text
  <2>1. c.out \in Seq(STRING)
    BY CasesAssumption
  <2> QED
    BY <2>1 DEF Text, Token
<1>3. raw \in Text /\ (reading => ofStep)
  BY <1>1, <1>2, NoText DEF Collecting, Given
<1>4. class = "none"
  BY DEF Init
<1> QED
  BY <1>3, <1>4 DEF VerdictInv

LEMMA VerdictNext == LinesInv /\ VerdictInv /\ [Next]_vars => VerdictInv'
<1> SUFFICES ASSUME LinesInv, VerdictInv, [Next]_vars PROVE VerdictInv'
  OBVIOUS
<1>1. CASE ReadLog
  <2>1. reading /\ ofStep' = ofStep /\ class' = class
    BY <1>1 DEF ReadLog, Collect, LogsEnd, Frame, analysing
  <2>2. class' = "none" /\ ofStep'
    BY <2>1 DEF VerdictInv
  <2>3. raw' \in Text
    <3>1. CASE LogsEnd
      <4> DEFINE whole == (got["stdout"] \o <<"nl">>) \o got["stderr"]
      <4>1. got["stdout"] \in Seq(Token) /\ got["stderr"] \in Seq(Token)
        BY <2>1 DEF LinesInv, Streams, Text
      <4>2. <<"nl">> \in Seq(Token)
        <5>1. "nl" \in Token
          BY DEF Token
        <5> QED
          BY <5>1
      <4>3. whole \in Text
        BY <4>1, <4>2 DEF Text
      <4>4. raw' = TrimSpace(whole) \/ raw' = <<>>
        BY <3>1 DEF LogsEnd
      <4> HIDE DEF whole
      <4> QED
        BY <4>3, <4>4, TrimSpaceTyped, NoText
    <3>2. CASE \E s \in Streams : Frame(s)
      BY <3>2 DEF Frame, VerdictInv
    <3> QED
      BY <1>1, <3>1, <3>2 DEF ReadLog, Collect
  <2> QED
    BY <2>2, <2>3 DEF VerdictInv
<1>2. CASE SuggestFix
  <2>1. raw' = raw /\ reading' = reading /\ ofStep' = ofStep /\ ~ofStep /\ class' = Classify(Sanitize(FALSE, raw))
    BY <1>2 DEF SuggestFix, collection
  <2> QED
    BY <2>1 DEF VerdictInv
<1>3. CASE Begin
  <2>1. raw' = raw /\ reading' = reading /\ ofStep' = ofStep /\ ~reading /\ class' = Classify(Sanitized(ofStep))
    BY <1>3 DEF Begin, collection
  <2>2. raw \in Text
    BY DEF VerdictInv
  <2>3. Sanitized(ofStep) \in {Sanitize(FALSE, raw), Sanitize(TRUE, raw)}
    <3>1. Sanitize(TRUE, Sanitize(FALSE, raw)) = Sanitize(FALSE, raw)
      BY <2>2, SanitizedStays
    <3> QED
      BY <3>1 DEF Sanitized
  <2>4. class' \in {Classify(Sanitize(FALSE, raw)), Classify(Sanitize(TRUE, raw))}
    BY <2>1, <2>3
  <2> QED
    BY <2>1, <2>2, <2>4 DEF VerdictInv
<1>4. CASE DiagnoseEmpty
  BY <1>4 DEF DiagnoseEmpty, collection, VerdictInv
<1>5. CASE UNCHANGED <<collection, ofStep, class>>
  BY <1>5 DEF collection, VerdictInv
<1>6. ASSUME Next, ~ReadLog, ~SuggestFix, ~Begin, ~DiagnoseEmpty
      PROVE  UNCHANGED <<collection, ofStep, class>>
  BY <1>6 DEF Next, OpenFile, LoadEntry, CloseFile, Match, AppError, NoClient, ChatFails,
              ChatAnswers, End, analysing
<1>7. UNCHANGED vars => UNCHANGED <<collection, ofStep, class>>
  BY DEF vars, analysing
<1> QED
  BY <1>1, <1>2, <1>3, <1>4, <1>5, <1>6, <1>7

\* What sanitizing does to the verdict has no other cause than a URL, a Docker
\* auth or a long identifier around a signal, and a secret where something is
\* missing.
THEOREM VerdictsHaveCauses == Spec => []VerdictHasCause
<1>1. VerdictInv => VerdictHasCause
  <2> SUFFICES ASSUME VerdictInv, class # "none", raw # <<>>
               PROVE  /\ Sure(AppSignals) # {} => class = "app_error"
                      /\ class = "app_error" => ToSet(raw) \cap AppSignals # {}
                      /\ Sure(InfraSignals) # {} => class # "unknown"
                      /\ class = "infra_error" /\ ToSet(raw) \cap InfraSignals = {} =>
                           /\ "missing" \in ToSet(raw)
                           /\ ToSet(raw) \cap {"config", "jwt", "key", "url", "tag"} # {}
                      /\ \A step \in BOOLEAN :
                           Classify(Sanitized(step)) # class => {"jwt", "missing"} \subseteq ToSet(raw)
    BY DEF VerdictHasCause
  <2>1. raw \in Text
    BY DEF VerdictInv
  <2>2. PICK s \in BOOLEAN : class = Classify(Sanitize(s, raw))
    BY DEF VerdictInv
  <2> DEFINE o == Sanitize(s, raw)
             app == AppSignals
             infra == InfraSignals
  <2>3. /\ ToSet(o) \cap app # {} => ToSet(raw) \cap app # {}
        /\ Sure(app) # {} => ToSet(o) \cap app # {}
    BY <2>1, SignalsOf
  <2>4. /\ ToSet(o) \cap infra # {} => ToSet(raw) \cap infra # {}
        /\ Sure(infra) # {} => ToSet(o) \cap infra # {}
    BY <2>1, SignalsOf
  <2>5. ConfigMissing(o) => /\ "missing" \in ToSet(raw)
                            /\ ToSet(raw) \cap {"config", "jwt", "key", "url", "tag"} # {}
    BY <2>1, MissingOf
  <2>6. ASSUME NEW step \in BOOLEAN, Classify(Sanitized(step)) # class
        PROVE  {"jwt", "missing"} \subseteq ToSet(raw)
    <3>1. Sanitize(TRUE, Sanitize(FALSE, raw)) = Sanitize(FALSE, raw)
      BY <2>1, SanitizedStays
    <3>2. Sanitized(step) \in {Sanitize(FALSE, raw), Sanitize(TRUE, raw)}
      BY <3>1 DEF Sanitized
    <3>3. Classify(Sanitize(TRUE, raw)) # Classify(Sanitize(FALSE, raw))
      BY <2>2, <2>6, <3>2
    <3> QED
      BY <2>1, <3>3, JudgedAlike
  <2> HIDE DEF o
  <2>7. class = IF ToSet(o) \cap app # {} THEN "app_error"
                ELSE IF ToSet(o) \cap infra # {} \/ ConfigMissing(o) THEN "infra_error"
                ELSE "unknown"
    BY <2>2 DEF Classify, o
  <2> HIDE DEF app, infra
  <2>8. /\ Sure(app) # {} => class = "app_error"
        /\ class = "app_error" => ToSet(raw) \cap app # {}
        /\ Sure(infra) # {} => class # "unknown"
    BY <2>3, <2>4, <2>7
  <2>9. class = "infra_error" /\ ToSet(raw) \cap infra = {} =>
          /\ "missing" \in ToSet(raw)
          /\ ToSet(raw) \cap {"config", "jwt", "key", "url", "tag"} # {}
    BY <2>4, <2>5, <2>7
  <2> QED
    BY <2>6, <2>8, <2>9 DEF app, infra
<1>2. Init => LinesInv /\ VerdictInv
  BY LinesInit, VerdictInit
<1>3. LinesInv /\ VerdictInv /\ [Next]_vars => (LinesInv /\ VerdictInv)'
  BY LinesNext, VerdictNext
<1> QED
  BY <1>1, <1>2, <1>3, PTL DEF Spec
=============================================================================
