--------------------------- MODULE SyncFilesProofs ---------------------------
(***************************************************************************)
(* Theorems about SyncFiles where Dolphin's GCI folder is called, for any  *)
(* identities, folders, units and bounds.  A restore reads the folder      *)
(* once; the argument is that every file it then writes over or removes,   *)
(* at whatever step it stops, is one the conflict check saw (Covered) and  *)
(* one of the games it replaces (MayGo), although a file is found by its   *)
(* identity and may have any name.                                         *)
(***************************************************************************)
EXTENDS SyncFiles, WellFoundedInduction, TLAPS

OnFolder == setup.platform = "gci"

(***************************************************************************)
(* The invariant.                                                          *)
(***************************************************************************)
GciSave == [game : Games, key : Ids, holds : Seq(Nat)]

\* The save in the file at p, known by the identity in its header.
SaveAt(d, p) == SaveOf(IdGame[d[p].id], d[p].id, d[p].data)

\* A save's key carries its game, as the identity in a .gci file does.
SavesOf(g) == {s \in GciSave : s.game = g /\ IdGame[s.key] = g}

LibrarySound ==
  /\ library = [g \in Games |-> library[g]]
  /\ \A g \in Games : \A u \in library[g] : u.saves \subseteq SavesOf(g) /\ u.saves # {}

\* A blob records saves that reached RomM.
BlobSound(blob) == blob = [synced |-> blob.synced, restored |-> blob.restored] /\ blob.synced \in [Games -> SUBSET Passed]

Folder == [Gci!Path -> {None} \cup GciFile]

\* A request asks for units that reached RomM.
AsksRestore(q) ==
  /\ q = RestoreRequest(q.game, q.mode, q.comp, q.unit, q.cunit, q.overwrite)
  /\ q.game \in Games /\ q.unit \in library[q.game] /\ q.overwrite \in BOOLEAN
  /\ q.comp \in Companions[q.game] \cup {None}
  /\ q.cunit = {} \/ (q.comp # None /\ \E u \in library[q.comp] : q.cunit = u.saves)

\* A file may go when it holds a save of the games the restore replaces, or is
\* a stale one, and the save is in RomM or given up.
MayGo(q, read, agreed, p) ==
  read[p] # None =>
    /\ read[p].data # Broken
    /\ IdGame[read[p].id] \in Gone(q) \/ p \in Gci!Stale(read, Ours(q))
    /\ SaveAt(read, p) \in Passed \cup agreed

\* A write takes a file away or puts one of those that come in its place.
WriteSound(q, read, agreed, w) ==
  /\ w.path \in Gci!Path
  /\ w.data \in {None} \cup Files(q)
  /\ MayGo(q, read, agreed, w.path)

RestoreSound(q) ==
  /\ AsksRestore(q)
  /\ wanted \in {None, q, [q EXCEPT !.overwrite = FALSE]}
  /\ call.read \in Folder
  /\ \A w \in call.todo : WriteSound(q, call.read, call.agreed, w)
  /\ q.mode = "managed" => \A p \in Gci!Path : disk[p] \in {call.read[p], None} \cup Files(q)

\* The record a call is.
IsCall(c) ==
  c = [op |-> c.op, req |-> c.req, todo |-> c.todo, agreed |-> c.agreed, blob |-> c.blob, read |-> c.read,
       placing |-> c.placing, since |-> c.since]

CallSound ==
  /\ IsCall(call)
  /\ call.op \in {"idle", "restore"}
  /\ call.op = "idle" => call = Idle
  /\ call.op = "restore" => RestoreSound(call.req)

Counted == edits \in 0..MaxEdits /\ calls \in 0..MaxCalls /\ fails \in 0..MaxFails

IInv ==
  /\ setup \in Setups /\ OnFolder
  /\ disk \in Folder
  /\ LibrarySound
  /\ BlobSound(st) /\ BlobSound(call.blob)
  /\ wanted # None => AsksRestore(wanted)
  /\ CallSound
  /\ Counted

(***************************************************************************)
(* Paths and files.                                                        *)
(***************************************************************************)
LEMMA LeastOf ==
  ASSUME NEW s, s \subseteq Nat, s # {}
  PROVE  \E n \in s : \A m \in s : n <= m
<1> DEFINE less == {p \in Nat \X Nat : p[1] < p[2]}
<1>1. IsWellFoundedOn(less, Nat)
  BY NatLessThanWellFounded, Zenon DEF OpToRel
<1>2. PICK n \in s : \A m \in s : <<m, n>> \notin less
  <2> HIDE DEF less
  <2> QED
    BY <1>1, WFMin
<1>3. ASSUME NEW m \in s
      PROVE  n <= m
  <2>1. m \in Nat /\ n \in Nat /\ ~(m < n)
    BY <1>2
  <2> QED
    BY <2>1
<1> QED
  BY <1>3

\* Names sort, so that there is a first one.
LEMMA FirstThere ==
  ASSUME NEW s, s \subseteq Nat \X Nat, s # {}
  PROVE  Gci!FirstPath(s) \in s
<1>1. PICK n \in {p[1] : p \in s} : \A m \in {p[1] : p \in s} : n <= m
  <2>1. {p[1] : p \in s} \subseteq Nat /\ {p[1] : p \in s} # {}
    OBVIOUS
  <2> QED
    BY <2>1, LeastOf
<1> DEFINE least == {p \in s : p[1] = n}
<1>2. least # {} /\ least \subseteq Nat \X Nat
  BY <1>1
<1>3. PICK z \in {p[2] : p \in least} : \A m \in {p[2] : p \in least} : z <= m
  <2>1. {p[2] : p \in least} \subseteq Nat /\ {p[2] : p \in least} # {}
    BY <1>2
  <2> QED
    BY <2>1, LeastOf
<1>4. PICK first \in s : first[1] = n /\ first[2] = z
  BY <1>3
<1>5. ASSUME NEW r \in s \ {first}
      PROVE  Gci!Before(first, r)
  <2>1. n <= r[1] /\ (r[1] = n => z <= r[2]) /\ r \in Nat \X Nat /\ first \in Nat \X Nat
    BY <1>1, <1>3
  <2>2. ~(r[1] = first[1] /\ r[2] = first[2])
    BY <2>1
  <2> QED
    BY <1>4, <2>1, <2>2 DEF Gci!Before
<1> QED
  BY <1>4, <1>5 DEF Gci!FirstPath

LEMMA PathsSort ==
  /\ \A i \in Ids : Gci!Names(i) \subseteq Gci!Path
  /\ Gci!Path \subseteq Nat \X Nat
<1>1. ASSUME NEW i \in Ids
      PROVE  Gci!Names(i) \subseteq Nat \X Nat
  BY IdsSound DEF Gci!Names
<1> QED
  BY <1>1 DEF Gci!Path

\* sync_gci_folder.c:43-75: a save is found in a file with its identity.
LEMMA PathIs ==
  ASSUME NEW d, NEW i, Gci!Holding(d, i) # {}
  PROVE  /\ Gci!PathOf(d, i) \in Gci!Holding(d, i)
         /\ Gci!PathOf(d, i) \in Gci!Path /\ d[Gci!PathOf(d, i)] # None
         /\ d[Gci!PathOf(d, i)].data # Broken /\ d[Gci!PathOf(d, i)].id = i
<1>1. Gci!Holding(d, i) \subseteq Nat \X Nat
  BY PathsSort DEF Gci!Holding, Gci!Saves, Gci!Listed
<1>2. Gci!PathOf(d, i) \in Gci!Holding(d, i)
  BY <1>1, FirstThere DEF Gci!PathOf
<1> QED
  BY <1>2 DEF Gci!Holding, Gci!Saves, Gci!Listed

\* A file that comes goes over the file with its identity, or where there is none.
LEMMA TargetIs ==
  ASSUME NEW d, NEW i \in Ids, Gci!Target(d, i) # None
  PROVE  /\ Gci!Target(d, i) \in Gci!Path
         /\ d[Gci!Target(d, i)] # None => Gci!Holding(d, i) # {} /\ Gci!Target(d, i) = Gci!PathOf(d, i)
<1>1. CASE Gci!Holding(d, i) # {}
  BY <1>1, PathIs DEF Gci!Target
<1>2. CASE Gci!Holding(d, i) = {}
  <2>1. Gci!NameFree(d, i) # {} /\ Gci!Target(d, i) = Gci!FirstPath(Gci!NameFree(d, i))
    BY <1>2 DEF Gci!Target
  <2>2. Gci!NameFree(d, i) \subseteq Gci!Path
    BY PathsSort DEF Gci!NameFree
  <2>3. Gci!Target(d, i) \in Gci!NameFree(d, i)
    BY <2>1, <2>2, PathsSort, FirstThere
  <2> QED
    BY <2>2, <2>3 DEF Gci!NameFree, Gci!Listed
<1> QED
  BY <1>1, <1>2

LEMMA FolderReads ==
  ASSUME OnFolder
  PROVE  /\ Path = Gci!Path
         /\ \A d, g : LocalOf(d, g) = GciLocal(d, g)
         /\ \A q : PlaceCode(q) = Gci!Code(disk, q.game, Ours(q), Gone(q), Files(q), setup.remove)
         /\ \A q : Turns(q) = Gci!Turns(disk, Ours(q), Gone(q), Files(q))
         /\ \A q : StaleOf(q) = Gci!Stale(disk, Ours(q))
         /\ ~Ambiguous
         /\ \A g : Listed(g) = Companions[g] \cup {None}
<1>1. Path = Gci!Path
  BY DEF OnFolder, Path
<1>2. \A d, g : LocalOf(d, g) = GciLocal(d, g)
  BY DEF OnFolder, LocalOf
<1>3. \A q : PlaceCode(q) = Gci!Code(disk, q.game, Ours(q), Gone(q), Files(q), setup.remove)
  BY DEF OnFolder, PlaceCode
<1>4. \A q : Turns(q) = Gci!Turns(disk, Ours(q), Gone(q), Files(q))
  BY DEF OnFolder, Turns
<1>5. \A q : StaleOf(q) = Gci!Stale(disk, Ours(q))
  BY DEF OnFolder, StaleOf
<1>6. ~Ambiguous
  BY DEF OnFolder, Ambiguous
<1>7. \A g : Listed(g) = Companions[g] \cup {None}
  BY DEF OnFolder, Listed
<1> QED
  BY <1>1, <1>2, <1>3, <1>4, <1>5, <1>6, <1>7

LEMMA HeldIs ==
  ASSUME OnFolder, NEW d
  PROVE  Held(d) = {<<p, SaveAt(d, p)>> : p \in Gci!Saves(d)}
<1> DEFINE at(p) ==
      CASE setup.platform = "gci" -> IF p \in Gci!Saves(d) THEN {SaveOf(IdGame[d[p].id], d[p].id, d[p].data)} ELSE {}
        [] setup.platform = "n64" -> N64Saves(CartGame, N64!Save(N64!InFile(p[1], d[p])))
        [] OTHER -> IF p = "ram" THEN GbLocal(d, CartGame) ELSE {}
<1>1. \A p : at(p) = IF p \in Gci!Saves(d) THEN {SaveAt(d, p)} ELSE {}
  BY DEF OnFolder, SaveAt
<1>2. Held(d) = UNION {{<<p, s>> : s \in at(p)} : p \in {r \in Path : d[r] # None}}
  BY DEF Held
<1>3. Path = Gci!Path
  BY FolderReads
<1> HIDE DEF at
<1> QED
  BY <1>1, <1>2, <1>3 DEF Gci!Saves, Gci!Listed

LEMMA SaveTyped ==
  ASSUME NEW d \in Folder, NEW p \in Gci!Saves(d)
  PROVE  /\ p \in Gci!Path /\ d[p] # None /\ d[p].data # Broken
         /\ d[p].id \in Ids /\ d[p] = Gci!File(d[p].id, d[p].data)
         /\ SaveAt(d, p) \in GciSave /\ SaveAt(d, p) \in SavesOf(IdGame[d[p].id])
<1>1. p \in Gci!Path /\ d[p] # None /\ d[p].data # Broken
  BY DEF Gci!Saves, Gci!Listed
<1>2. d[p] \in GciFile
  BY <1>1 DEF Folder
<1>3. d[p].id \in Ids /\ d[p].data \in Seq(Nat) /\ d[p] = [id |-> d[p].id, data |-> d[p].data]
  BY <1>1, <1>2 DEF GciFile
<1>4. IdGame[d[p].id] \in Games
  BY <1>3, IdsSound
<1> QED
  BY <1>1, <1>3, <1>4 DEF SaveAt, SaveOf, GciSave, SavesOf, Gci!File

\* What a call finds of a game are the saves in the first files with its identities.
LEMMA LocalIs ==
  ASSUME OnFolder, NEW d \in Folder, NEW g
  PROVE  LocalOf(d, g) = {SaveAt(d, Gci!PathOf(d, i)) : i \in {j \in Ids : IdGame[j] = g /\ Gci!Holding(d, j) # {}}}
<1> DEFINE ids == {j \in Ids : IdGame[j] = g /\ Gci!Holding(d, j) # {}}
<1>1. Gci!LocalIds(d, {g}) = ids
  BY DEF Gci!LocalIds, Gci!Ours
<1>2. GciLocal(d, g) = {SaveOf(g, f.id, f.data) : f \in {d[Gci!PathOf(d, i)] : i \in ids}}
  BY <1>1 DEF GciLocal, Gci!Local
<1>3. \A i \in ids : d[Gci!PathOf(d, i)].id = i
  BY PathIs
<1>4. \A i \in ids : SaveAt(d, Gci!PathOf(d, i)) = SaveOf(g, d[Gci!PathOf(d, i)].id, d[Gci!PathOf(d, i)].data)
  BY <1>3 DEF SaveAt
<1> HIDE DEF ids
<1>5. GciLocal(d, g) = {SaveAt(d, Gci!PathOf(d, i)) : i \in ids}
  BY <1>2, <1>4
<1> QED
  BY <1>5, FolderReads DEF ids

LEMMA LocalTyped ==
  ASSUME OnFolder, NEW d \in Folder, NEW g
  PROVE  LocalOf(d, g) \subseteq SavesOf(g) /\ LocalOf(d, g) \subseteq {h[2] : h \in Held(d)}
<1> DEFINE ids == {j \in Ids : IdGame[j] = g /\ Gci!Holding(d, j) # {}}
<1>1. ASSUME NEW i \in ids
      PROVE  SaveAt(d, Gci!PathOf(d, i)) \in SavesOf(g) /\ SaveAt(d, Gci!PathOf(d, i)) \in {h[2] : h \in Held(d)}
  <2>1. Gci!PathOf(d, i) \in Gci!Saves(d) /\ d[Gci!PathOf(d, i)].id = i
    BY PathIs DEF Gci!Holding
  <2>2. SaveAt(d, Gci!PathOf(d, i)) \in SavesOf(g)
    BY <2>1, SaveTyped
  <2>3. <<Gci!PathOf(d, i), SaveAt(d, Gci!PathOf(d, i))>> \in Held(d)
    BY <2>1, HeldIs
  <2> QED
    BY <2>2, <2>3
<1> QED
  BY <1>1, LocalIs

(***************************************************************************)
(* A restore that isn't refused.                                           *)
(***************************************************************************)
LEMMA IncomingSound ==
  ASSUME LibrarySound, NEW q, AsksRestore(q)
  PROVE  /\ q.game \in Games /\ q.comp # q.game
         /\ CompanionRestored(q) => q.comp \in Games /\ q.comp # None
         /\ q.unit.saves \subseteq SavesOf(q.game) /\ q.unit.saves \subseteq Passed /\ q.unit.saves # {}
         /\ CompanionRestored(q) => q.cunit \subseteq SavesOf(q.comp)
         /\ q.cunit \subseteq Passed
         /\ Incoming(q) \subseteq Passed
         /\ \A s \in Incoming(q) : s \in GciSave /\ s.key \in Ids /\ IdGame[s.key] = s.game /\ s.game \in Gone(q)
<1>1. q.game \in Games /\ q.unit \in library[q.game] /\ q.comp \in Companions[q.game] \cup {None}
  BY DEF AsksRestore
<1>2. Companions[q.game] \subseteq Games /\ q.game \notin Companions[q.game] /\ None \notin Games
  BY <1>1, BoundsSound, NoSelfCompanion
<1>3. CompanionRestored(q) => q.comp # None /\ \E u \in library[q.comp] : q.cunit = u.saves
  BY DEF AsksRestore, CompanionRestored
<1>4. q.comp # q.game /\ (CompanionRestored(q) => q.comp \in Games)
  BY <1>1, <1>2, <1>3
<1>5. \A g \in Games : \A u \in library[g] : u.saves \subseteq Passed
  BY DEF Passed
<1>6. q.unit.saves \subseteq SavesOf(q.game) /\ q.unit.saves \subseteq Passed /\ q.unit.saves # {}
  BY <1>1, <1>5 DEF LibrarySound
<1>7. q.cunit \subseteq Passed /\ (CompanionRestored(q) => q.cunit \subseteq SavesOf(q.comp))
  BY <1>3, <1>4, <1>5 DEF LibrarySound, CompanionRestored
<1>8. \A s \in Incoming(q) : s \in SavesOf(q.game) \/ (CompanionRestored(q) /\ s \in SavesOf(q.comp))
  BY <1>6, <1>7 DEF Incoming, CompanionRestored
<1>9. \A s \in Incoming(q) : s \in GciSave /\ IdGame[s.key] = s.game /\ s.game \in Gone(q)
  BY <1>8 DEF SavesOf, Gone
<1>10. \A s \in Incoming(q) : s.key \in Ids
  BY <1>9 DEF GciSave
<1> QED
  BY <1>1, <1>3, <1>4, <1>6, <1>7, <1>9, <1>10 DEF Incoming

LEMMA FilesTyped ==
  ASSUME LibrarySound, NEW q, AsksRestore(q), NEW f \in Files(q)
  PROVE  /\ f \in GciFile /\ f.id \in Ids /\ IdGame[f.id] \in Gone(q)
         /\ \A d, p : d[p] = f => SaveAt(d, p) \in Incoming(q)
<1>1. PICK s \in Incoming(q) : f = Gci!File(s.key, s.holds)
  BY DEF Files
<1>2. s \in [game : Games, key : Ids, holds : Seq(Nat)] /\ IdGame[s.key] = s.game /\ s.game \in Gone(q)
  BY IncomingSound DEF GciSave
<1>3. f = [id |-> s.key, data |-> s.holds]
  BY <1>1 DEF Gci!File
<1>4. s = SaveOf(IdGame[f.id], f.id, f.data)
  BY <1>2, <1>3 DEF SaveOf
<1>5. f \in GciFile
  BY <1>2, <1>3 DEF GciFile
<1> QED
  BY <1>2, <1>3, <1>4, <1>5 DEF SaveAt

\* sync.c:220-251: of a game a restore replaces, the saves a call finds were
\* recorded at the last sync, come again, or are given up.
LEMMA Covered ==
  ASSUME OnFolder, disk \in Folder, LibrarySound, BlobSound(st), NEW q, AsksRestore(q), ~Conflict(q),
         NEW i \in Ids, IdGame[i] \in Gone(q), Gci!Holding(disk, i) # {}
  PROVE  SaveAt(disk, Gci!PathOf(disk, i)) \in Passed \cup Agreed(q)
<1> DEFINE save == SaveAt(disk, Gci!PathOf(disk, i))
<1>1. \A g \in Games : st.synced[g] \subseteq Passed
  BY DEF BlobSound
<1>2. save \in LocalOf(disk, IdGame[i])
  BY LocalIs
<1> SUFFICES save \in Passed \cup Agreed(q)
  OBVIOUS
<1>3. CASE q.overwrite
  <2>1. <<Gci!PathOf(disk, i), save>> \in Held(disk)
    BY PathIs, HeldIs DEF Gci!Holding
  <2>2. save.game = IdGame[i]
    BY <1>2, LocalTyped DEF SavesOf
  <2> HIDE DEF save
  <2> QED
    BY <1>3, <2>1, <2>2 DEF Agreed
<1>4. CASE ~q.overwrite /\ IdGame[i] = q.game
  <2>1. save \in Mine(q)
    BY <1>2, <1>4 DEF Mine
  <2> HIDE DEF save
  <2> QED
    BY <1>1, <1>4, <2>1, IncomingSound DEF Conflict, BlocksRestore
<1>5. CASE ~q.overwrite /\ CompanionRestored(q) /\ IdGame[i] = q.comp
  <2>1. save \in Theirs(q) /\ q.comp \in Games
    BY <1>2, <1>5, IncomingSound DEF Theirs
  <2> HIDE DEF save
  <2> QED
    BY <1>1, <1>5, <2>1, IncomingSound DEF Conflict, BlocksRestore
<1> QED
  BY <1>3, <1>4, <1>5 DEF Gone

\* sync_gci_folder.c:124-132: a restore takes its games' files and no others.
LEMMA WritesSound ==
  ASSUME OnFolder, disk \in Folder, LibrarySound, BlobSound(st), NEW q, AsksRestore(q),
         RestoreCode(q) = "OK", ~AlreadyThere(q), NEW w \in Writes(q)
  PROVE  WriteSound(q, disk, Agreed(q), w)
<1>1. Refused(q) = "OK" /\ ~Conflict(q) /\ PlaceCode(q) = "OK"
  BY DEF RestoreCode
<1>2. ~Gci!Exists(disk, Files(q))
  <2>1. Gci!Code(disk, q.game, Ours(q), Gone(q), Files(q), setup.remove) = "OK"
    BY <1>1, FolderReads
  <2> QED
    BY <2>1 DEF Gci!Code
<1> DEFINE turns == Turns(q)
<1>3. PICK n \in DOMAIN turns : \E t \in turns[n] : w = [due |-> n, path |-> t.path, data |-> t.data]
  BY DEF Writes
<1>4. PICK t \in turns[n] : w = [due |-> n, path |-> t.path, data |-> t.data]
  BY <1>3
<1>5. turns = <<{[path |-> Gci!Target(disk, f.id), data |-> f] : f \in Files(q)},
                {[path |-> p, data |-> None] : p \in Gci!Goes(disk, Ours(q), Gone(q), Files(q))},
                {[path |-> p, data |-> None] : p \in Gci!Stale(disk, Ours(q))}>>
  BY FolderReads DEF Gci!Turns
<1>6. w.path = t.path /\ w.data = t.data
  BY <1>4
<1> HIDE DEF turns
<1>7. \/ \E f \in Files(q) : w.path = Gci!Target(disk, f.id) /\ w.data = f
      \/ w.data = None /\ w.path \in Gci!Goes(disk, Ours(q), Gone(q), Files(q))
      \/ w.data = None /\ w.path \in Gci!Stale(disk, Ours(q))
  <2>1. n \in 1..3
    BY <1>5
  <2> QED
    BY <1>4, <1>5, <1>6, <2>1
<1>8. ASSUME NEW i \in Ids, IdGame[i] \in Gone(q), Gci!Holding(disk, i) # {}
      PROVE  MayGo(q, disk, Agreed(q), Gci!PathOf(disk, i))
  BY <1>1, <1>8, Covered, PathIs DEF MayGo
<1>9. CASE \E f \in Files(q) : w.path = Gci!Target(disk, f.id) /\ w.data = f
  <2>1. PICK f \in Files(q) : w.path = Gci!Target(disk, f.id) /\ w.data = f
    BY <1>9
  <2>2. f.id \in Ids /\ IdGame[f.id] \in Gone(q)
    BY FilesTyped
  <2>3. Gci!Target(disk, f.id) # None
    BY <1>2 DEF Gci!Exists
  <2>4. w.path \in Gci!Path /\ (disk[w.path] # None => Gci!Holding(disk, f.id) # {} /\ w.path = Gci!PathOf(disk, f.id))
    BY <2>1, <2>2, <2>3, TargetIs
  <2>5. MayGo(q, disk, Agreed(q), w.path)
    BY <1>8, <2>2, <2>4 DEF MayGo
  <2> QED
    BY <2>1, <2>4, <2>5 DEF WriteSound
<1>10. CASE w.data = None /\ w.path \in Gci!Goes(disk, Ours(q), Gone(q), Files(q))
  <2>1. PICK i \in Gci!LocalIds(disk, Ours(q) \cap Gone(q)) : w.path = Gci!PathOf(disk, i)
    BY <1>10 DEF Gci!Goes
  <2>2. i \in Ids /\ IdGame[i] \in Gone(q) /\ Gci!Holding(disk, i) # {}
    BY <2>1 DEF Gci!LocalIds, Gci!Ours
  <2> QED
    BY <1>8, <1>10, <2>1, <2>2, PathIs DEF WriteSound
<1>11. CASE w.data = None /\ w.path \in Gci!Stale(disk, Ours(q))
  <2>1. w.path \in Gci!Saves(disk)
    BY <1>11 DEF Gci!Stale
  <2>2. <<w.path, SaveAt(disk, w.path)>> \in Held(disk)
    BY <2>1, HeldIs
  <2>3. SaveAt(disk, w.path) \in Agreed(q)
    BY <1>11, <2>2, FolderReads DEF Agreed
  <2>4. w.path \in Gci!Path /\ disk[w.path].data # Broken
    BY <2>1, SaveTyped
  <2> QED
    BY <1>11, <2>3, <2>4 DEF WriteSound, MayGo
<1> QED
  BY <1>7, <1>9, <1>10, <1>11

(***************************************************************************)
(* The invariant holds.                                                    *)
(***************************************************************************)
LEMMA InitSound ==
  ASSUME Init, OnFolder
  PROVE  IInv
<1>1. setup \in Setups /\ setup.platform = "gci" /\ Path = Gci!Path
  BY FolderReads DEF Init, OnFolder
<1>2. disk \in Folder
  <2>1. PICK d \in InitDisks[setup] : disk = [p \in Path |-> IF p \in DOMAIN d THEN d[p] ELSE None]
    BY DEF Init
  <2>2. \A p \in DOMAIN d : d[p] \in GciFile
    BY <1>1, FolderSetups
  <2> QED
    BY <1>1, <2>1, <2>2 DEF Folder
<1>3. LibrarySound
  <2>1. library = [g \in Games |-> IF g \in DOMAIN ServerUnits[setup] THEN ServerUnits[setup][g] ELSE {}]
    BY DEF Init
  <2>2. ASSUME NEW g \in Games, NEW u \in library[g]
        PROVE  u.saves # {} /\ u.saves \subseteq SavesOf(g)
    <3>1. g \in DOMAIN ServerUnits[setup] /\ u \in ServerUnits[setup][g]
      BY <2>1, <2>2
    <3>2. u.saves # {} /\ \A x \in u.saves : x \in [game : {g}, key : Ids, holds : Seq(Nat)] /\ IdGame[x.key] = g
      BY <1>1, <3>1, FolderSetups
    <3>3. ASSUME NEW x \in u.saves
          PROVE  x \in SavesOf(g)
      <4>1. x \in [game : {g}, key : Ids, holds : Seq(Nat)] /\ IdGame[x.key] = g
        BY <3>2
      <4> QED
        BY <4>1 DEF SavesOf, GciSave
    <3> QED
      BY <3>2, <3>3
  <2> QED
    BY <2>1, <2>2 DEF LibrarySound
<1>4. BlobSound(st) /\ BlobSound(call.blob) /\ CallSound
  BY DEF Init, Idle, NewBlob, BlobSound, CallSound, IsCall
<1>5. Counted
  BY BoundsSound DEF Init, Counted
<1> QED
  BY <1>1, <1>2, <1>3, <1>4, <1>5 DEF IInv, Init, OnFolder

LEMMA BlobStays ==
  ASSUME NEW blob, BlobSound(blob), Passed \subseteq Passed'
  PROVE  blob = [synced |-> blob.synced, restored |-> blob.restored] /\ blob.synced \in [Games -> SUBSET Passed']
  BY DEF BlobSound

LEMMA AsksStays ==
  ASSUME LibrarySound, NEW q, AsksRestore(q), \A g \in Games : library[g] \subseteq library'[g]
  PROVE  AsksRestore(q)'
<1>1. q.game \in Games /\ (q.comp # None => q.comp \in Games)
  BY BoundsSound DEF AsksRestore
<1> QED
  BY <1>1 DEF AsksRestore

\* What a collect uploads and what its blob records.
LEMMA UploadsSound ==
  ASSUME IInv, NEW q, q.game \in Games, q.comp \in Companions[q.game] \cup {None}, NEW g \in Games, NEW now
  PROVE  /\ \A u \in Uploads(q, g, now) :
              u.saves # {} /\ u.saves \subseteq SavesOf(g) /\ u.saves \subseteq {h[2] : h \in Held(disk)}
         /\ CollectBlob(q).synced[g] \subseteq Passed \cup UNION {u.saves : u \in Uploads(q, g, now)}
<1>1. LocalOf(disk, g) \subseteq SavesOf(g) /\ LocalOf(disk, g) \subseteq {h[2] : h \in Held(disk)}
  BY LocalTyped DEF IInv
<1>2. Uploads(q, g, now) \subseteq {Unit(LocalOf(disk, g), ClockNow(now))}
  BY DEF Uploads
<1>3. Unit(LocalOf(disk, g), ClockNow(now)).saves = LocalOf(disk, g)
  BY DEF Unit
<1>4. \A u \in Uploads(q, g, now) : u.saves = LocalOf(disk, g) /\ u.saves # {}
  BY <1>2, <1>3 DEF Uploads
<1>5. st.synced[g] \subseteq Passed
  BY DEF IInv, BlobSound
<1>6. CASE CollectBlob(q).synced[g] = st.synced[g]
  BY <1>1, <1>4, <1>5, <1>6
<1>7. CASE CollectBlob(q).synced[g] # st.synced[g]
  <2>1. CollectBlob(q).synced[g] =
          IF g = q.game THEN IF RestoreAgain(q) THEN st.synced[g] ELSE Mine(q)
          ELSE IF g = q.comp /\ Theirs(q) # {} THEN Theirs(q) ELSE st.synced[g]
    BY DEF CollectBlob
  <2>2. CollectBlob(q).synced[g] = LocalOf(disk, g) /\ g \in Ours(q) /\ ~(g = q.game /\ RestoreAgain(q))
    <3>1. None \notin Games
      BY NoSelfCompanion
    <3> QED
      BY <1>7, <2>1, <3>1 DEF Mine, Theirs, Ours
  <2>3. CASE LocalOf(disk, g) = {}
    BY <1>1, <1>4, <2>2, <2>3
  <2>4. CASE LocalOf(disk, g) # {}
    <3>1. Unit(LocalOf(disk, g), ClockNow(now)) \in Uploads(q, g, now)
      BY <1>3, <1>7, <2>2, <2>4 DEF Uploads
    <3> QED
      BY <1>1, <1>3, <1>4, <2>2, <3>1
  <2> QED
    BY <2>3, <2>4
<1> QED
  BY <1>1, <1>4, <1>6, <1>7

LEMMA CollectStep ==
  ASSUME IInv, NEW q, q.game \in Games, q.comp \in Companions[q.game] \cup {None}, Collect(q)
  PROVE  /\ IInv'
         /\ ~Managed /\ UNCHANGED <<setup, disk, call>>
         /\ \E s \in SUBSET {h[2] : h \in Held(disk)} : Passed' = Passed \cup s
<1>1. call.op = "idle" /\ calls < MaxCalls /\ calls' = calls + 1 /\ UNCHANGED <<setup, disk, call, wanted, edits, fails>>
  BY DEF Collect, MayCall
<1>2. PICK uploaded \in BOOLEAN, stored \in BOOLEAN, now \in Times :
        /\ stored => uploaded
        /\ library' = IF uploaded THEN [g \in Games |-> library[g] \cup Uploads(q, g, now)] ELSE library
        /\ st' = IF stored THEN CollectBlob(q) ELSE st
  BY DEF Collect
<1> DEFINE got(g) == IF uploaded THEN Uploads(q, g, now) ELSE {}
           s == UNION {UNION {u.saves : u \in got(g)} : g \in Games}
<1>3. library' = [g \in Games |-> library[g] \cup got(g)]
  BY <1>2 DEF IInv, LibrarySound
<1>4. \A g \in Games : \A u \in got(g) : u.saves # {} /\ u.saves \subseteq SavesOf(g) /\ u.saves \subseteq {h[2] : h \in Held(disk)}
  BY UploadsSound
<1>5. Passed' = Passed \cup s
  <2> HIDE DEF got
  <2>1. Passed' = UNION {UNION {u.saves : u \in library[g] \cup got(g)} : g \in Games}
    BY <1>3 DEF Passed
  <2> QED
    BY <2>1 DEF Passed
<1>6. s \in SUBSET {h[2] : h \in Held(disk)}
  BY <1>4
<1>7. LibrarySound'
  <2> HIDE DEF got
  <2>1. \A g \in Games : \A u \in library[g] \cup got(g) : u.saves \subseteq SavesOf(g) /\ u.saves # {}
    BY <1>4 DEF IInv, LibrarySound
  <2> QED
    BY <1>3, <2>1 DEF LibrarySound
<1>8. BlobSound(st)'
  <2>1. CASE ~stored
    <3>1. st' = st
      BY <1>2, <2>1
    <3>2. BlobSound(st) /\ Passed \subseteq Passed'
      BY <1>5 DEF IInv
    <3> HIDE DEF s
    <3> QED
      BY <3>1, <3>2, BlobStays DEF BlobSound
  <2>2. CASE stored
    <3>1. st' = CollectBlob(q) /\ \A g \in Games : got(g) = Uploads(q, g, now)
      BY <1>2, <2>2
    <3>2. \A g \in Games : CollectBlob(q).synced[g] \subseteq Passed \cup UNION {u.saves : u \in got(g)}
      BY <3>1, UploadsSound
    <3> HIDE DEF got
    <3>3. \A g \in Games : CollectBlob(q).synced[g] \subseteq Passed'
      BY <1>5, <3>2
    <3>4. CollectBlob(q) = [synced |-> CollectBlob(q).synced, restored |-> CollectBlob(q).restored]
          /\ CollectBlob(q).synced = [g \in Games |-> CollectBlob(q).synced[g]]
      BY DEF CollectBlob
    <3> QED
      BY <3>1, <3>3, <3>4 DEF BlobSound
  <2> QED
    BY <2>1, <2>2
<1>9. BlobSound(call.blob)'
  <2>1. call' = call /\ BlobSound(call.blob) /\ Passed \subseteq Passed'
    BY <1>1, <1>5 DEF IInv
  <2> HIDE DEF s
  <2> QED
    BY <2>1, BlobStays DEF BlobSound
<1>10. (wanted # None => AsksRestore(wanted))'
  <2>1. ASSUME wanted # None
        PROVE  AsksRestore(wanted)'
    <3>1. PICK r : r = wanted
      OBVIOUS
    <3>2. AsksRestore(r) /\ wanted' = r
      BY <1>1, <2>1, <3>1 DEF IInv
    <3>3. AsksRestore(r)'
      BY <1>3, <3>2, AsksStays DEF IInv
    <3> QED
      BY <3>2, <3>3 DEF AsksRestore
  <2> QED
    BY <1>1, <2>1
<1>11. CallSound'
  BY <1>1 DEF IInv, CallSound, IsCall, Idle
<1>12. Counted'
  BY <1>1, BoundsSound DEF IInv, Counted
<1>13. ~Managed
  BY <1>1 DEF Managed
<1> HIDE DEF s
<1> QED
  BY <1>1, <1>5, <1>6, <1>7, <1>8, <1>9, <1>10, <1>11, <1>12, <1>13 DEF IInv, OnFolder, Folder

LEMMA RestoreBlobSound ==
  ASSUME IInv, NEW q, AsksRestore(q)
  PROVE  BlobSound(RestoreBlob(q))
<1> DEFINE synced == [g \in Games |-> IF g = q.game THEN q.unit.saves
                                      ELSE IF g = q.comp /\ CompanionRestored(q) THEN q.cunit
                                      ELSE st.synced[g]]
<1>1. \A g \in Games : st.synced[g] \subseteq Passed
  BY DEF IInv, BlobSound
<1>2. q.unit.saves \subseteq Passed /\ q.cunit \subseteq Passed
  BY IncomingSound DEF IInv
<1>3. synced \in [Games -> SUBSET Passed]
  BY <1>1, <1>2
<1>4. RestoreBlob(q).synced = synced /\ RestoreBlob(q) = [synced |-> RestoreBlob(q).synced, restored |-> RestoreBlob(q).restored]
  BY DEF RestoreBlob
<1> QED
  BY <1>3, <1>4 DEF BlobSound

\* A restore that begins, for the first time or again.
LEMMA BeginStep ==
  ASSUME IInv, NEW q, AsksRestore(q), Begin(q), wanted' \in {q, [q EXCEPT !.overwrite = FALSE]}, AsksRestore(wanted'),
         calls' \in 0..MaxCalls
  PROVE  /\ IInv'
         /\ UNCHANGED <<setup, disk, library>>
         /\ Managed' <=> q.mode = "managed"
         /\ call'.agreed \subseteq {h[2] : h \in Held(disk)}
<1> DEFINE agrees == IF AlreadyThere(q) THEN {} ELSE Agreed(q)
           todo == IF AlreadyThere(q) THEN {} ELSE Writes(q)
<1>1. RestoreCode(q) = "OK" /\ UNCHANGED <<setup, disk, st, library, edits, fails>>
  BY DEF Begin
<1>2. call' = [op |-> "restore", req |-> q, agreed |-> agrees, todo |-> todo,
               blob |-> RestoreBlob(q), read |-> disk, placing |-> ~AlreadyThere(q), since |-> edits]
  BY DEF Begin
<1>3. \A w \in todo : WriteSound(q, disk, agrees, w)
  BY <1>1, WritesSound DEF IInv
<1>4. agrees \subseteq {h[2] : h \in Held(disk)}
  BY DEF Agreed
<1> HIDE DEF agrees, todo
<1>5. Passed' = Passed
  BY <1>1 DEF Passed
<1>6. BlobSound(RestoreBlob(q)) /\ call'.blob = RestoreBlob(q)
  BY <1>2, RestoreBlobSound
<1>7. BlobSound(call.blob)' /\ BlobSound(st)'
  BY <1>1, <1>5, <1>6 DEF BlobSound, IInv
<1>8. AsksRestore(q)' /\ (wanted # None => AsksRestore(wanted))'
  BY <1>1 DEF AsksRestore
<1>9. call'.op = "restore" /\ call'.req = q /\ call'.agreed = agrees /\ call'.todo = todo /\ call'.read = disk
  BY <1>2
<1>10. RestoreSound(q)'
  <2>1. (q.mode = "managed" => \A p \in Gci!Path : disk[p] \in {call.read[p], None} \cup Files(q))'
    BY <1>1, <1>9
  <2>2. (\A w \in call.todo : WriteSound(q, call.read, call.agreed, w))'
    BY <1>1, <1>3, <1>5, <1>9 DEF WriteSound, MayGo
  <2>3. (call.read \in Folder)'
    BY <1>9 DEF IInv, Folder
  <2> QED
    BY <1>8, <2>1, <2>2, <2>3 DEF RestoreSound
<1>12. CallSound'
  BY <1>2, <1>9, <1>10 DEF CallSound, IsCall, RestoreSound, AsksRestore, WriteSound, MayGo
<1>13. LibrarySound' /\ Counted'
  BY <1>1 DEF IInv, LibrarySound, Counted
<1>14. (disk \in Folder)' /\ (setup \in Setups)' /\ OnFolder'
  BY <1>1 DEF IInv, Folder, OnFolder
<1>15. Managed' <=> q.mode = "managed"
  BY <1>9 DEF Managed
<1>16. IInv'
  BY <1>7, <1>8, <1>12, <1>13, <1>14 DEF IInv
<1> QED
  BY <1>1, <1>4, <1>9, <1>15, <1>16

LEMMA RestoreStep ==
  ASSUME IInv, NEW q, AsksRestore(q), RestoreBegin(q)
  PROVE  /\ IInv' /\ call.op = "idle" /\ Begin(q)
         /\ UNCHANGED <<setup, disk, library>>
         /\ Managed' <=> q.mode = "managed"
         /\ call'.agreed \subseteq {h[2] : h \in Held(disk)}
<1>1. call.op = "idle" /\ calls < MaxCalls /\ calls' = calls + 1 /\ wanted' = q /\ Begin(q)
  BY DEF RestoreBegin, MayCall
<1>2. calls' \in 0..MaxCalls
  BY <1>1, BoundsSound DEF IInv, Counted
<1> QED
  BY <1>1, <1>2, BeginStep

LEMMA RetryStep ==
  ASSUME IInv, Retry
  PROVE  \E q :
           /\ IInv' /\ call.op = "idle" /\ Begin(q)
           /\ UNCHANGED <<setup, disk, library>>
           /\ Managed' <=> q.mode = "managed"
           /\ call'.agreed \subseteq {h[2] : h \in Held(disk)}
<1>1. call.op = "idle" /\ wanted # None /\ UNCHANGED <<wanted, calls>> /\ Begin(Again)
  BY DEF Retry, MayRetry
<1>2. PICK r : r = wanted
  OBVIOUS
<1>3. AsksRestore(r)
  BY <1>1, <1>2 DEF IInv
<1>4. PICK q : q = [r EXCEPT !.overwrite = TRUE]
  OBVIOUS
<1>5. r = [game |-> r.game, mode |-> r.mode, comp |-> r.comp, unit |-> r.unit, cunit |-> r.cunit, overwrite |-> r.overwrite]
  BY <1>3 DEF AsksRestore, RestoreRequest
<1>6. /\ q = [game |-> r.game, mode |-> r.mode, comp |-> r.comp, unit |-> r.unit, cunit |-> r.cunit, overwrite |-> TRUE]
      /\ q.game = r.game /\ q.mode = r.mode /\ q.comp = r.comp /\ q.unit = r.unit /\ q.cunit = r.cunit
  BY <1>4, <1>5
<1>7. AsksRestore(q)
  BY <1>3, <1>6 DEF AsksRestore, RestoreRequest
<1>8. Begin(q)
  BY <1>1, <1>2, <1>4 DEF Again
<1>9. wanted' = r
  BY <1>1, <1>2
<1>10. r \in {q, [q EXCEPT !.overwrite = FALSE]}
  <2>1. r.overwrite \in BOOLEAN
    BY <1>3 DEF AsksRestore
  <2>2. CASE r.overwrite = TRUE
    BY <1>5, <1>6, <2>2
  <2>3. CASE r.overwrite = FALSE
    <3>1. PICK o : o = [q EXCEPT !.overwrite = FALSE]
      OBVIOUS
    <3>2. q = [game |-> r.game, mode |-> r.mode, comp |-> r.comp, unit |-> r.unit, cunit |-> r.cunit, overwrite |-> TRUE]
      BY <1>6
    <3>3. o = [game |-> r.game, mode |-> r.mode, comp |-> r.comp, unit |-> r.unit, cunit |-> r.cunit, overwrite |-> FALSE]
      BY <3>1, <3>2
    <3> QED
      BY <1>5, <2>3, <3>1, <3>3
  <2> QED
    BY <2>1, <2>2, <2>3
<1>11. calls' \in 0..MaxCalls
  BY <1>1 DEF IInv, Counted
<1>12. wanted' \in {q, [q EXCEPT !.overwrite = FALSE]} /\ AsksRestore(wanted')
  BY <1>3, <1>9, <1>10
<1> QED
  BY <1>1, <1>7, <1>8, <1>11, <1>12, BeginStep

\* A step that leaves units and blobs alone keeps what the invariant says of them.
LEMMA KeptSound ==
  ASSUME IInv, UNCHANGED <<setup, st, library>>, call'.blob \in {call.blob, NewBlob}
  PROVE  /\ (setup \in Setups)' /\ OnFolder' /\ LibrarySound' /\ BlobSound(st)' /\ BlobSound(call.blob)'
         /\ Passed' = Passed
         /\ \A q : AsksRestore(q) => AsksRestore(q)'
         /\ \A q, read, agreed, w : WriteSound(q, read, agreed, w) => WriteSound(q, read, agreed, w)'
<1>1. Passed' = Passed
  BY DEF Passed
<1>2. (setup \in Setups)' /\ OnFolder' /\ LibrarySound' /\ BlobSound(st)'
  BY <1>1 DEF IInv, OnFolder, LibrarySound, BlobSound
<1>3. BlobSound(NewBlob)
  BY DEF NewBlob, BlobSound
<1>4. BlobSound(call.blob)'
  BY <1>1, <1>3 DEF IInv, BlobSound
<1>5. \A q : AsksRestore(q) => AsksRestore(q)'
  BY DEF AsksRestore
<1>6. \A q, read, agreed, w : WriteSound(q, read, agreed, w) => WriteSound(q, read, agreed, w)'
  BY <1>1 DEF WriteSound, MayGo
<1> QED
  BY <1>1, <1>2, <1>4, <1>5, <1>6

LEMMA WriteStep ==
  ASSUME IInv, NEW q, q = call.req, NEW w, w \in call.todo, disk' = [disk EXCEPT ![w.path] = w.data],
         call' = [call EXCEPT !.todo = @ \ {w}],
         UNCHANGED <<setup, st, library, wanted, edits, calls, fails>>
  PROVE  /\ IInv'
         /\ call.op = "restore" /\ RestoreSound(q) /\ WriteSound(q, call.read, call.agreed, w)
         /\ call'.op = call.op /\ call'.req = call.req /\ call'.agreed = call.agreed
<1>1. call.op = "restore"
  BY DEF IInv, CallSound, Idle
<1>2. RestoreSound(q) /\ WriteSound(q, call.read, call.agreed, w)
  BY <1>1 DEF IInv, CallSound, RestoreSound
<1>3. /\ call'.op = "restore" /\ call'.req = q /\ call'.agreed = call.agreed /\ call'.read = call.read
      /\ call'.blob = call.blob /\ call'.todo \subseteq call.todo /\ IsCall(call)'
  <2>1. IsCall(call)
    BY DEF IInv, CallSound
  <2>2. call' = [op |-> call.op, req |-> call.req, todo |-> call.todo \ {w}, agreed |-> call.agreed, blob |-> call.blob,
                 read |-> call.read, placing |-> call.placing, since |-> call.since]
    BY <2>1 DEF IsCall
  <2> QED
    BY <1>1, <2>2 DEF IsCall
<1>4. w.path \in Gci!Path /\ w.data \in {None} \cup Files(q)
  BY <1>2 DEF WriteSound
<1>5. Files(q) \subseteq GciFile
  BY <1>2, FilesTyped DEF IInv, RestoreSound
<1>6. (disk \in Folder)'
  BY <1>4, <1>5 DEF IInv, Folder
<1>7. q.mode = "managed" => \A p \in Gci!Path : disk'[p] \in {call.read[p], None} \cup Files(q)
  BY <1>2, <1>4 DEF RestoreSound, IInv, Folder
<1>8. (\A v \in call.todo : WriteSound(q, call.read, call.agreed, v))'
  BY <1>2, <1>3, KeptSound DEF RestoreSound
<1>9. (q.mode = "managed" => \A p \in Gci!Path : disk[p] \in {call.read[p], None} \cup Files(q))'
  BY <1>3, <1>7
<1>10. (call.read \in Folder)' /\ AsksRestore(q)' /\ (wanted \in {None, q, [q EXCEPT !.overwrite = FALSE]})'
  BY <1>2, <1>3, KeptSound DEF RestoreSound, Folder
<1>11. RestoreSound(q)'
  BY <1>8, <1>9, <1>10 DEF RestoreSound
<1>12. CallSound'
  BY <1>3, <1>11 DEF CallSound, IsCall, RestoreSound, AsksRestore, WriteSound, MayGo
<1>13. (wanted # None => AsksRestore(wanted))' /\ Counted'
  BY DEF IInv, AsksRestore, Counted
<1> QED
  BY <1>1, <1>2, <1>3, <1>6, <1>12, <1>13, KeptSound DEF IInv

LEMMA IdleSound ==
  ASSUME call' = Idle
  PROVE  CallSound' /\ (Managed' <=> FALSE)
<1>1. Idle.op = "idle" /\ IsCall(Idle)
  BY DEF Idle, IsCall
<1>2. CallSound'
  BY <1>1 DEF CallSound, IsCall, Idle
<1> QED
  BY <1>1, <1>2 DEF Managed

LEMMA EndStep ==
  ASSUME IInv, RestoreEnd \/ RestoreFails
  PROVE  IInv' /\ ~Managed' /\ UNCHANGED <<setup, disk, library>>
<1>1. call' = Idle /\ UNCHANGED <<setup, disk, library, edits, calls>>
  BY DEF RestoreEnd, RestoreFails
<1>2. Passed' = Passed
  BY <1>1 DEF Passed
<1>3. BlobSound(st)'
  <2>1. st' = call.blob \/ st' = st
    BY DEF RestoreEnd, RestoreFails
  <2> QED
    BY <1>2, <2>1 DEF IInv, BlobSound
<1>4. BlobSound(call.blob)'
  BY <1>1, <1>2 DEF Idle, NewBlob, BlobSound
<1>5. (wanted # None => AsksRestore(wanted))'
  <2>1. wanted' = None \/ wanted' = wanted
    BY DEF RestoreEnd, RestoreFails
  <2> QED
    BY <1>1, <2>1 DEF IInv, AsksRestore
<1>6. Counted'
  BY <1>1, BoundsSound DEF IInv, Counted, RestoreEnd, RestoreFails
<1>7. (setup \in Setups)' /\ OnFolder' /\ LibrarySound' /\ (disk \in Folder)'
  BY <1>1 DEF IInv, OnFolder, LibrarySound, Folder
<1> QED
  BY <1>1, <1>3, <1>4, <1>5, <1>6, <1>7, IdleSound DEF IInv

LEMMA EditStep ==
  ASSUME IInv, NEW path, NEW content \in GciFile \cup {None}, Edit(path, content)
  PROVE  IInv' /\ ~Managed /\ UNCHANGED <<setup, library, call>>
<1>1. /\ disk' = [disk EXCEPT ![path] = content] /\ edits < MaxEdits /\ edits' = edits + 1 /\ wanted' = None
      /\ UNCHANGED <<setup, st, library, call, calls, fails>>
      /\ call.op = "restore" => call.req.mode = "unmanaged"
  BY DEF Edit
<1>2. (disk \in Folder)'
  BY <1>1 DEF IInv, Folder
<1>3. ~Managed
  BY <1>1 DEF Managed
<1>4. CallSound'
  <2>1. CASE call.op = "restore"
    <3>1. PICK q : q = call.req
      OBVIOUS
    <3>2. RestoreSound(q) /\ q.mode # "managed"
      BY <1>1, <2>1, <3>1 DEF IInv, CallSound
    <3>3. RestoreSound(q)'
      <4>1. AsksRestore(q)' /\ (\A w \in call.todo : WriteSound(q, call.read, call.agreed, w))'
        BY <1>1, <3>2, KeptSound DEF RestoreSound
      <4> QED
        BY <1>1, <3>2, <4>1 DEF RestoreSound, Folder
    <3> QED
      BY <1>1, <2>1, <3>1, <3>3 DEF IInv, CallSound, IsCall, RestoreSound, AsksRestore, WriteSound, MayGo
  <2>2. CASE call.op # "restore"
    BY <1>1, <2>2 DEF IInv, CallSound, IsCall, Idle
  <2> QED
    BY <2>1, <2>2
<1>5. Counted'
  BY <1>1, BoundsSound DEF IInv, Counted
<1> QED
  BY <1>1, <1>2, <1>3, <1>4, <1>5, KeptSound DEF IInv

\* The requests calls are made with.
LEMMA CollectsAsk ==
  ASSUME IInv, Collects
  PROVE  \E q : q.game \in Games /\ q.comp \in Companions[q.game] \cup {None} /\ Collect(q)
<1>1. PICK g \in setup.games, m \in Modes : \E k \in Listed(g) : Collect(CollectRequest(g, m, k))
  BY DEF Collects
<1>2. PICK k \in Listed(g) : Collect(CollectRequest(g, m, k))
  BY <1>1
<1>3. g \in Games /\ k \in Companions[g] \cup {None}
  BY <1>2, BoundsSound, FolderReads DEF IInv
<1> QED
  BY <1>2, <1>3 DEF CollectRequest

LEMMA RestoresAsk ==
  ASSUME IInv, Restores
  PROVE  \E q : AsksRestore(q) /\ RestoreBegin(q)
<1>1. PICK g \in setup.games, m \in Modes :
        \E k \in Listed(g), u \in library[g] :
          \E w \in CompanionUnits(k) :
            LET q == RestoreRequest(g, m, k, u, w, FALSE)
            IN RestoreBegin([q EXCEPT !.overwrite = RestoreCode(q) = "CONFLICT"]) \/ RestoreBegin(q)
  BY DEF Restores
<1>2. PICK k \in Listed(g), u \in library[g] :
        \E w \in CompanionUnits(k) :
          LET q == RestoreRequest(g, m, k, u, w, FALSE)
          IN RestoreBegin([q EXCEPT !.overwrite = RestoreCode(q) = "CONFLICT"]) \/ RestoreBegin(q)
  BY <1>1
<1>3. PICK w \in CompanionUnits(k) :
        LET q == RestoreRequest(g, m, k, u, w, FALSE)
        IN RestoreBegin([q EXCEPT !.overwrite = RestoreCode(q) = "CONFLICT"]) \/ RestoreBegin(q)
  BY <1>2
<1>4. g \in Games /\ k \in Companions[g] \cup {None}
  BY <1>2, BoundsSound, FolderReads DEF IInv
<1>5. w = {} \/ (k # None /\ \E v \in library[k] : w = v.saves)
  BY <1>3 DEF CompanionUnits
<1>6. ASSUME NEW o \in BOOLEAN
      PROVE  AsksRestore(RestoreRequest(g, m, k, u, w, o))
  BY <1>2, <1>4, <1>5 DEF AsksRestore, RestoreRequest
<1>7. PICK r : r = RestoreRequest(g, m, k, u, w, FALSE)
  OBVIOUS
<1>8. PICK o \in BOOLEAN : o = (RestoreCode(r) = "CONFLICT")
  OBVIOUS
<1>9. [r EXCEPT !.overwrite = o] = RestoreRequest(g, m, k, u, w, o)
  BY <1>7 DEF RestoreRequest
<1>10. RestoreBegin([r EXCEPT !.overwrite = o]) \/ RestoreBegin(r)
  BY <1>3, <1>7, <1>8
<1>11. RestoreBegin(RestoreRequest(g, m, k, u, w, o)) \/ RestoreBegin(RestoreRequest(g, m, k, u, w, FALSE))
  BY <1>7, <1>9, <1>10
<1> QED
  BY <1>6, <1>11

\* What each step does: a call collects, begins, writes or ends, or someone else plays.
LEMMA StepDoes ==
  ASSUME IInv, Next
  PROVE  /\ IInv'
         /\ \/ /\ ~Managed /\ UNCHANGED <<setup, disk, call>>
               /\ \E s \in SUBSET {h[2] : h \in Held(disk)} : Passed' = Passed \cup s
            \/ \E q :
                 /\ call.op = "idle" /\ Begin(q)
                 /\ UNCHANGED <<setup, disk, library>>
                 /\ Managed' <=> q.mode = "managed"
                 /\ call'.agreed \subseteq {h[2] : h \in Held(disk)}
            \/ Write
            \/ ~Managed' /\ UNCHANGED <<setup, disk, library>>
            \/ ~Managed /\ UNCHANGED <<setup, library, call>>
<1>1. CASE Collects
  BY <1>1, CollectsAsk, CollectStep
<1>2. CASE Restores
  <2>1. PICK q : AsksRestore(q) /\ RestoreBegin(q)
    BY <1>2, RestoresAsk
  <2> QED
    BY <2>1, RestoreStep
<1>3. CASE Retry
  BY <1>3, RetryStep
<1>4. CASE Write
  <2>1. PICK w \in call.todo :
          disk' = [disk EXCEPT ![w.path] = w.data] /\ call' = [call EXCEPT !.todo = @ \ {w}]
    BY <1>4 DEF Write
  <2>2. UNCHANGED <<setup, st, library, wanted, edits, calls, fails>>
    BY <1>4 DEF Write
  <2>3. PICK q : q = call.req
    OBVIOUS
  <2>4. IInv'
    BY <2>1, <2>2, <2>3, WriteStep
  <2> QED
    BY <1>4, <2>4
<1>5. CASE RestoreEnd \/ RestoreFails
  BY <1>5, EndStep
<1>6. CASE \E e \in Edits[setup] : Edit(e[1], e[2])
  <2>1. PICK e \in Edits[setup] : Edit(e[1], e[2])
    BY <1>6
  <2>2. e[2] \in GciFile \cup {None}
    BY <2>1, FolderSetups DEF IInv, OnFolder
  <2> QED
    BY <2>1, <2>2, EditStep
<1> QED
  BY <1>1, <1>2, <1>3, <1>4, <1>5, <1>6 DEF Next

LEMMA StutterKeeps ==
  ASSUME IInv, UNCHANGED vars
  PROVE  IInv'
<1>1. UNCHANGED <<setup, disk, st, library, call, wanted, edits, calls, fails>>
  BY DEF vars
<1>2. (setup \in Setups)' /\ OnFolder' /\ LibrarySound' /\ (disk \in Folder)' /\ Counted'
  BY <1>1 DEF IInv, OnFolder, LibrarySound, Folder, Counted
<1>3. BlobSound(st)' /\ BlobSound(call.blob)' /\ (wanted # None => AsksRestore(wanted))'
  BY <1>1 DEF IInv, BlobSound, AsksRestore, Passed
<1>4. CallSound'
  <2>1. CASE call.op = "restore"
    <3>1. PICK q : q = call.req
      OBVIOUS
    <3>2. RestoreSound(q)
      BY <2>1, <3>1 DEF IInv, CallSound
    <3>3. RestoreSound(q)'
      <4>1. AsksRestore(q)' /\ (\A w \in call.todo : WriteSound(q, call.read, call.agreed, w))'
        BY <1>1, <3>2, KeptSound DEF RestoreSound
      <4> QED
        BY <1>1, <3>2, <4>1 DEF RestoreSound, Folder
    <3> QED
      BY <1>1, <2>1, <3>1, <3>3 DEF IInv, CallSound, IsCall, RestoreSound, AsksRestore, WriteSound, MayGo
  <2>2. CASE call.op # "restore"
    BY <1>1, <2>2 DEF IInv, CallSound, IsCall, Idle
  <2> QED
    BY <2>1, <2>2
<1> QED
  BY <1>2, <1>3, <1>4 DEF IInv

\* The invariant behind the theorems below holds for any identities, folders,
\* units and bounds, also while a restore is tried again.
THEOREM FilesInvariant == Spec /\ OnFolder => []IInv
<1>1. Init /\ OnFolder => IInv
  BY InitSound
<1>2. IInv /\ [Next]_vars => IInv'
  BY StepDoes, StutterKeeps
<1> QED
  BY <1>1, <1>2, PTL DEF Spec

\* Shape of the folder between any two steps, also while a restore has written
\* some of its files: every one is a save with an identity, or no save.
THEOREM FolderTypesHold == Spec /\ OnFolder => []FolderSound
<1>1. IInv => FolderSound
  <2> SUFFICES ASSUME IInv PROVE FolderSound
    OBVIOUS
  <2>1. setup.platform = "gci" /\ Path = Gci!Path
    BY FolderReads DEF IInv, OnFolder
  <2>2. DOMAIN disk = Path /\ \A p \in Path : disk[p] = None \/ FileOK(p, disk[p])
    <3>1. DOMAIN disk = Path /\ \A p \in Path : disk[p] = None \/ disk[p].id \in Ids
      BY <2>1 DEF IInv, Folder, GciFile
    <3>2. \A p, file : FileOK(p, file) <=> (file.id \in Ids /\ p \in Path)
      BY <2>1 DEF FileOK
    <3> QED
      BY <3>1, <3>2
  <2>3. DOMAIN st = {"synced", "restored"} /\ DOMAIN st.synced = Games
    BY DEF IInv, BlobSound
  <2>4. \A g \in Games : \A u \in library[g] : u.saves # {} /\ \A s \in u.saves : s.game = g
    BY DEF IInv, LibrarySound, SavesOf
  <2>5. call.op \in {"idle", "restore"}
        /\ (call.op = "restore" => wanted \in {None, call.req, [call.req EXCEPT !.overwrite = FALSE]})
    BY DEF IInv, CallSound, RestoreSound
  <2>6. TypeOK
    BY <2>2, <2>3, <2>4, <2>5 DEF IInv, TypeOK, Counted
  <2>7. ClockRead
    BY <2>1 DEF ClockRead
  <2> QED
    BY <2>6, <2>7 DEF FolderSound
<1> QED
  BY <1>1, FilesInvariant, PTL

(***************************************************************************)
(* Custody, and other games' saves.                                        *)
(***************************************************************************)
LEMMA OnDiskIs ==
  ASSUME OnFolder
  PROVE  OnDisk = {<<<<"gci", p>>, SaveAt(disk, p)>> : p \in Gci!Saves(disk)}
<1>1. Held(disk) = {<<p, SaveAt(disk, p)>> : p \in Gci!Saves(disk)}
  BY HeldIs
<1>2. ASSUME NEW h \in Held(disk)
      PROVE  \E p \in Gci!Saves(disk) : h[1] = p /\ h[2] = SaveAt(disk, p)
  BY <1>1
<1>3. ASSUME NEW p \in Gci!Saves(disk)
      PROVE  \E h \in Held(disk) : h[1] = p /\ h[2] = SaveAt(disk, p)
  <2>1. <<p, SaveAt(disk, p)>> \in Held(disk)
    BY <1>1
  <2> QED
    BY <2>1
<1>4. OnDisk = {<<<<"gci", h[1]>>, h[2]>> : h \in Held(disk)}
  BY DEF OnDisk, OnFolder
<1> QED
  BY <1>2, <1>3, <1>4

LEMMA OnDiskTyped ==
  ASSUME IInv
  PROVE  /\ OnDisk \subseteq Places \X Kept
         /\ Custody!SavesOn(OnDisk) = {h[2] : h \in Held(disk)}
<1>1. \A p \in Gci!Saves(disk) : p \in Gci!Path /\ SaveAt(disk, p) \in GciSave
  BY SaveTyped DEF IInv
<1>2. GciSave \subseteq Kept
  BY DEF GciSave, Kept
<1>3. \A p \in Gci!Path : <<"gci", p>> \in Places
  BY DEF Places
<1>4. OnDisk \subseteq Places \X Kept
  BY <1>1, <1>2, <1>3, OnDiskIs DEF IInv
<1>5. Custody!SavesOn(OnDisk) = {h[2] : h \in Held(disk)}
  <2>1. ASSUME NEW x \in OnDisk
        PROVE  x[2] \in {h[2] : h \in Held(disk)}
    BY DEF OnDisk
  <2>2. ASSUME NEW h \in Held(disk)
        PROVE  \E x \in OnDisk : x[2] = h[2]
    <3>1. <<<<setup.platform, h[1]>>, h[2]>> \in OnDisk
      BY DEF OnDisk
    <3> QED
      BY <3>1
  <2> QED
    BY <2>1, <2>2 DEF Custody!SavesOn
<1> QED
  BY <1>4, <1>5

\* What a write does to the saves on disk.
LEMMA WriteCovered ==
  ASSUME IInv, Write, Managed
  PROVE  /\ \A x \in OnDisk \ OnDisk' : x[2] \in Passed \cup call.agreed
         /\ \A x \in OnDisk' \ OnDisk : x[2] \in Passed
<1>1. PICK w \in call.todo : disk' = [disk EXCEPT ![w.path] = w.data] /\ call' = [call EXCEPT !.todo = @ \ {w}]
  BY DEF Write
<1>2. UNCHANGED <<setup, st, library, wanted, edits, calls, fails>>
  BY DEF Write
<1>3. PICK q : q = call.req
  OBVIOUS
<1>4. IInv' /\ RestoreSound(q) /\ WriteSound(q, call.read, call.agreed, w)
  BY <1>1, <1>2, <1>3, WriteStep
<1>5. q.mode = "managed"
  BY <1>3 DEF Managed
<1>6. Incoming(q) \subseteq Passed
  BY <1>4, IncomingSound DEF RestoreSound, IInv
<1>7. \A f \in Files(q) : \A d, p : d[p] = f => SaveAt(d, p) \in Passed
  BY <1>4, <1>6, FilesTyped DEF RestoreSound, IInv
<1>8. \A p \in Gci!Path : p # w.path => disk'[p] = disk[p]
  BY <1>1 DEF IInv, Folder
<1>9. w.path \in Gci!Path /\ disk'[w.path] = w.data
  BY <1>1, <1>4 DEF WriteSound, IInv, Folder
<1>10. OnDisk = {<<<<"gci", p>>, SaveAt(disk, p)>> : p \in Gci!Saves(disk)}
  BY OnDiskIs DEF IInv
<1>11. OnDisk' = {<<<<"gci", p>>, SaveAt(disk', p)>> : p \in Gci!Saves(disk')}
  <2>1. OnFolder'
    BY <1>4 DEF IInv
  <2>2. (OnDisk = {<<<<"gci", p>>, SaveAt(disk, p)>> : p \in Gci!Saves(disk)})'
    BY <2>1, OnDiskIs, PTL
  <2> QED
    BY <2>2
<1>12. \A p \in Gci!Path : p # w.path =>
         (p \in Gci!Saves(disk) <=> p \in Gci!Saves(disk')) /\ SaveAt(disk, p) = SaveAt(disk', p)
  BY <1>8 DEF Gci!Saves, Gci!Listed, SaveAt
<1>13. Gci!Saves(disk) \subseteq Gci!Path /\ Gci!Saves(disk') \subseteq Gci!Path
  BY DEF Gci!Saves, Gci!Listed
<1>14. ASSUME NEW x \in OnDisk \ OnDisk'
       PROVE  x[2] \in Passed \cup call.agreed
  <2>1. PICK p \in Gci!Saves(disk) : x = <<<<"gci", p>>, SaveAt(disk, p)>>
    BY <1>10
  <2>2. p = w.path
    BY <1>11, <1>12, <1>13, <1>14, <2>1
  <2>3. disk[p] # None
    BY DEF Gci!Saves, Gci!Listed
  <2>4. disk[p] = call.read[p] \/ disk[p] \in Files(q)
    BY <1>4, <1>5, <1>13, <2>1, <2>3 DEF RestoreSound
  <2>5. CASE disk[p] \in Files(q)
    BY <1>7, <2>1, <2>5
  <2>6. CASE disk[p] = call.read[p]
    <3>1. SaveAt(call.read, p) \in Passed \cup call.agreed
      BY <1>4, <2>2, <2>3, <2>6 DEF WriteSound, MayGo
    <3>2. SaveAt(disk, p) = SaveAt(call.read, p)
      BY <2>6 DEF SaveAt
    <3> QED
      BY <2>1, <3>1, <3>2
  <2> QED
    BY <2>4, <2>5, <2>6
<1>15. ASSUME NEW x \in OnDisk' \ OnDisk
       PROVE  x[2] \in Passed
  <2>1. PICK p \in Gci!Saves(disk') : x = <<<<"gci", p>>, SaveAt(disk', p)>>
    BY <1>11
  <2>2. p = w.path
    BY <1>10, <1>12, <1>13, <1>15, <2>1
  <2>3. disk'[p] # None
    BY DEF Gci!Saves, Gci!Listed
  <2>4. disk'[p] \in Files(q)
    BY <1>4, <1>9, <2>2, <2>3 DEF WriteSound
  <2> QED
    BY <1>7, <2>1, <2>4
<1> QED
  BY <1>14, <1>15

LEMMA StepKeepsCustody ==
  ASSUME IInv, [Next]_vars
  PROVE  [Custody!Next]_(Custody!custodyVars)
<1> DEFINE saves == {h[2] : h \in Held(disk)}
<1>1. OnDisk \subseteq Places \X Kept /\ Custody!SavesOn(OnDisk) = saves
  BY OnDiskTyped
<1>2. (OnDisk \subseteq Places \X Kept)'
  <2>1. IInv'
    BY StepDoes, StutterKeeps
  <2> QED
    BY <2>1, OnDiskTyped, PTL
<1>3. UNCHANGED <<setup, disk>> => OnDisk' = OnDisk
  BY DEF OnDisk, Held, N64Saves, SaveOf, GbLocal, Path, CartGame
<1>4. UNCHANGED library => Passed' = Passed
  BY DEF Passed
<1>5. (UNCHANGED call => Managed' = Managed /\ GivenUp' = GivenUp)
  BY DEF Managed, GivenUp
<1>6. GivenUp = IF Managed THEN call.agreed ELSE {}
  BY DEF GivenUp
<1>7. GivenUp' = IF Managed' THEN call'.agreed ELSE {}
  BY DEF GivenUp
<1>8. Managed \in BOOLEAN /\ Managed' \in BOOLEAN
  BY DEF Managed
<1> HIDE DEF saves
<1>9. CASE UNCHANGED vars
  <2>1. UNCHANGED <<setup, disk, library, call>>
    BY <1>9 DEF vars
  <2> QED
    BY <1>3, <1>4, <1>5, <2>1 DEF Custody!custodyVars
<1>10. CASE ~Managed /\ UNCHANGED <<setup, disk, call>> /\ \E s \in SUBSET saves : Passed' = Passed \cup s
  BY <1>1, <1>3, <1>5, <1>10 DEF Custody!Next, Custody!PassOn
<1>11. CASE \E q : /\ call.op = "idle" /\ Begin(q) /\ UNCHANGED <<setup, disk, library>>
                   /\ (Managed' <=> q.mode = "managed") /\ call'.agreed \subseteq saves
  <2>1. PICK q : /\ call.op = "idle" /\ UNCHANGED <<setup, disk, library>> /\ call'.agreed \subseteq saves
    BY <1>11
  <2>2. ~Managed /\ GivenUp = {} /\ OnDisk' = OnDisk /\ Passed' = Passed
    BY <1>3, <1>4, <1>6, <2>1 DEF Managed
  <2>3. CASE Managed'
    BY <1>1, <1>7, <1>8, <2>1, <2>2, <2>3 DEF Custody!Next, Custody!Begin
  <2>4. CASE ~Managed'
    BY <1>7, <1>8, <2>2, <2>4 DEF Custody!custodyVars
  <2> QED
    BY <2>3, <2>4
<1>12. CASE Write
  <2>1. UNCHANGED <<setup, library>> /\ \E w \in call.todo : call' = [call EXCEPT !.todo = @ \ {w}]
    BY <1>12 DEF Write
  <2>2. call'.op = call.op /\ call'.req = call.req /\ call'.agreed = call.agreed
    <3>1. PICK w \in call.todo :
            disk' = [disk EXCEPT ![w.path] = w.data] /\ call' = [call EXCEPT !.todo = @ \ {w}]
      BY <1>12 DEF Write
    <3>2. UNCHANGED <<setup, st, library, wanted, edits, calls, fails>>
      BY <1>12 DEF Write
    <3>3. PICK q : q = call.req
      OBVIOUS
    <3> QED
      BY <3>1, <3>2, <3>3, WriteStep
  <2>3. Managed' = Managed /\ GivenUp' = GivenUp /\ Passed' = Passed
    BY <1>4, <2>1, <2>2 DEF Managed, GivenUp
  <2>4. CASE Managed
    <3>1. /\ \A x \in OnDisk \ OnDisk' : x[2] \in Passed \cup GivenUp
          /\ \A x \in OnDisk' \ OnDisk : x[2] \in Passed
      BY <1>6, <1>12, <2>4, WriteCovered
    <3>2. Custody!SavesOn(OnDisk \ OnDisk') \subseteq Passed \cup GivenUp
          /\ Custody!SavesOn(OnDisk' \ OnDisk) \subseteq Passed
      BY <3>1 DEF Custody!SavesOn
    <3> QED
      BY <1>2, <2>3, <2>4, <3>2 DEF Custody!Next, Custody!Replace
  <2>5. CASE ~Managed
    BY <1>2, <2>3, <2>5 DEF Custody!Next, Custody!Play
  <2> QED
    BY <2>4, <2>5
<1>13. CASE ~Managed' /\ UNCHANGED <<setup, disk, library>>
  <2>1. OnDisk' = OnDisk /\ Passed' = Passed /\ GivenUp' = {}
    BY <1>3, <1>4, <1>7, <1>13
  <2>2. CASE Managed
    BY <1>8, <1>13, <2>1, <2>2 DEF Custody!Next, Custody!End
  <2>3. CASE ~Managed
    <3>1. GivenUp = {} /\ Managed' = Managed
      BY <1>6, <1>8, <1>13, <2>3
    <3> QED
      BY <2>1, <3>1 DEF Custody!custodyVars
  <2> QED
    BY <2>2, <2>3
<1>14. CASE ~Managed /\ UNCHANGED <<setup, library, call>>
  BY <1>2, <1>4, <1>5, <1>14 DEF Custody!Next, Custody!Play
<1>15. ASSUME Next
       PROVE  \/ ~Managed /\ UNCHANGED <<setup, disk, call>> /\ \E s \in SUBSET saves : Passed' = Passed \cup s
              \/ \E q : /\ call.op = "idle" /\ Begin(q) /\ UNCHANGED <<setup, disk, library>>
                        /\ (Managed' <=> q.mode = "managed") /\ call'.agreed \subseteq saves
              \/ Write
              \/ ~Managed' /\ UNCHANGED <<setup, disk, library>>
              \/ ~Managed /\ UNCHANGED <<setup, library, call>>
  BY <1>15, StepDoes DEF saves
<1> QED
  BY <1>9, <1>10, <1>11, <1>12, <1>13, <1>14, <1>15

\* sync.md "Refusals": in Dolphin's folder no managed restore loses a save that
\* was not passed on, whatever its file is called, whichever file it died before.
THEOREM FolderCustodyHolds == Spec /\ OnFolder => CustodyKept
<1>1. Init /\ OnFolder => Custody!Init
  <2> SUFFICES ASSUME Init, OnFolder PROVE Custody!Init
    OBVIOUS
  <2>1. IInv
    BY InitSound
  <2>2. OnDisk \subseteq Places \X Kept
    BY <2>1, OnDiskTyped
  <2>3. Passed \subseteq Kept
    BY <2>1 DEF IInv, LibrarySound, Passed, SavesOf, GciSave, Kept
  <2>4. ~Managed /\ Managed \in BOOLEAN /\ GivenUp = {}
    BY DEF Init, Idle, Managed, GivenUp
  <2> QED
    BY <2>2, <2>3, <2>4 DEF Custody!Init
<1>2. IInv /\ [Next]_vars => [Custody!Next]_(Custody!custodyVars)
  BY StepKeepsCustody
<1> QED
  BY <1>1, <1>2, FilesInvariant, PTL DEF Spec, CustodyKept, Custody!Spec

\* sync.md:56-57: a restore into Dolphin's folder writes over, or removes, files
\* of the games it restores and stale ones of the games it was called for.
THEOREM OtherFilesStay == Spec /\ OnFolder => OthersStay
<1> DEFINE Stay == Write => \A p \in Path : disk[p] \notin {None, disk'[p]} /\ disk[p] = call.read[p] => Belongs(p)
<1>1. IInv /\ Write => \A p \in Path : disk[p] \notin {None, disk'[p]} /\ disk[p] = call.read[p] => Belongs(p)
  <2> SUFFICES ASSUME IInv, Write, NEW p \in Path, disk[p] \notin {None, disk'[p]}, disk[p] = call.read[p]
               PROVE  Belongs(p)
    OBVIOUS
  <2>1. PICK w \in call.todo : disk' = [disk EXCEPT ![w.path] = w.data] /\ call' = [call EXCEPT !.todo = @ \ {w}]
    BY DEF Write
  <2>2. UNCHANGED <<setup, st, library, wanted, edits, calls, fails>>
    BY DEF Write
  <2>3. PICK q : q = call.req
    OBVIOUS
  <2>4. WriteSound(q, call.read, call.agreed, w)
    BY <2>1, <2>2, <2>3, WriteStep
  <2>5. p = w.path
    BY <2>1, FolderReads DEF IInv, Folder
  <2>6. disk[p].data # Broken /\ (IdGame[disk[p].id] \in Gone(q) \/ p \in Gci!Stale(call.read, Ours(q)))
    BY <2>4, <2>5 DEF WriteSound, MayGo
  <2>7. setup.platform = "gci"
    BY DEF IInv, OnFolder
  <2> QED
    BY <2>3, <2>6, <2>7 DEF Belongs
<1>2. IInv /\ [Next]_vars => [Stay]_vars
  BY <1>1
<1> QED
  BY <1>2, FilesInvariant, PTL DEF Spec, OthersStay
=============================================================================
