---------------------------- MODULE SyncProfiles ----------------------------
(***************************************************************************)
(* sigil_collect and sigil_restore on layouts whose saves are folders kept *)
(* per user profile (src/src/sync_profiles.c, save_profiles.c), with       *)
(* Ryujinx's save index: its counter, its entries and its folders, which   *)
(* the emulator allocates from too.                                        *)
(*                                                                         *)
(* A save is what one key of the index names: a title's account save of a  *)
(* profile, or its device save, which every profile shares.  Layouts       *)
(* without an index name each key's folder by the title: Indexed is FALSE  *)
(* and the index is a fixed map.  A hash is the set of parts it covers.    *)
(***************************************************************************)
EXTENDS FiniteSets, Naturals

CONSTANTS
  Titles,        \* games, by their save id
  Profiles,      \* the profiles the emulator lists
  Shared,        \* the slot of a device save
  Files,         \* file names inside a save
  Optional,      \* files of a folder a unit may leave out (3DS extdata)
  Data,          \* what a file can hold
  Indexed,       \* the layout has a save index
  Modes,         \* the modes the client uses, out of "managed", "unmanaged"
  ServerUnits,   \* [Titles -> SUBSET SUBSET Part], units already in RomM
  InitFolders,   \* what the folders may start with
  InitIndexes,   \* what the index may start with
  InitCounters,  \* what the counter may start at
  MaxId,         \* bound: folder ids
  MaxEdits,      \* bound: steps of the emulator
  MaxCalls,      \* bound: collects and restores
  None           \* no profile, no folder, no record

Slots == Profiles \cup {Shared}
Keys == [title : Titles, slot : Slots]
Ids == 1..MaxId
File == [name : Files, data : Data]

\* A member of a unit: a file and the area it belongs to.
Areas == {"account", "device"}
Part == [area : Areas, name : Files, data : Data]

ASSUME ConstantsTyped ==
  /\ Optional \subseteq Files /\ (Indexed => Optional = {})
  /\ Indexed \in BOOLEAN
  /\ Modes \subseteq {"managed", "unmanaged"}
  /\ ServerUnits \in [Titles -> SUBSET SUBSET Part]
  /\ InitFolders \subseteq [Ids -> SUBSET File]
  /\ InitIndexes \subseteq [Keys -> Ids \cup {None}]
  /\ InitCounters \subseteq 0..MaxId
  /\ MaxId \in Nat
  /\ Shared \notin Profiles /\ None \notin Slots /\ None \notin Nat

\* The emulator never handed out an id twice, or one past its counter.
ASSUME InitAllocated ==
  \A i \in InitIndexes, c \in InitCounters, k \in Keys :
    /\ Indexed /\ i[k] # None => i[k] <= c
    /\ \A h \in Keys : i[k] = i[h] /\ i[k] # None => k = h
    /\ ~Indexed => i[k] # None
\* A folder holds one file of a name.
ASSUME FoldersHold ==
  \A d \in InitFolders : \A i \in Ids : \A f, g \in d[i] : f.name = g.name => f = g
ASSUME NoneApart ==
  /\ \A s \in SUBSET File : s # None
  /\ \A i \in [Keys -> Ids \cup {None}] : i # None
ASSUME UnitsDistinct ==
  \A t \in Titles : \A u \in ServerUnits[t] :
    u # {} /\ \A p, r \in u : p.area = r.area /\ p.name = r.name => p = r

VARIABLES
  folder,    \* folder[id]: the files of its committed copy
  index,     \* index[k]: the id of k's folder, or None
  doomed,    \* the keys the index marks for deletion
  counter,   \* lastPublishedId
  st,        \* the state blob as the client stored it
  library,   \* library[t]: every unit of t that reached RomM
  call,      \* the restore under way: what it still has to write
  left,      \* left[k]: k's save as the last collect or restore of it left it
  edits,     \* emulator steps taken, up to MaxEdits
  calls      \* collects and restores made, up to MaxCalls

vars == <<folder, index, doomed, counter, st, library, call, left, edits, calls>>

(***************************************************************************)
(* The saves a request sees.  A request q says the title and the profile   *)
(* it settled on, None when the emulator lists several and the client      *)
(* picked none.                                                            *)
(***************************************************************************)
Key(t, s) == [title |-> t, slot |-> s]

\* The index's folder for a key, leaving out what is marked for deletion.
Named(k) == IF k \in doomed THEN None ELSE index[k]

KeyOf(q, area) == IF area = "device" THEN Key(q.title, Shared) ELSE Key(q.title, q.profile)
HasKey(q, area) == area = "device" \/ q.profile # None

FilesIn(id) == IF id \in Ids THEN folder[id] ELSE {}
SaveOf(k) == FilesIn(Named(k))
AsPart(area, f) == [area |-> area, name |-> f.name, data |-> f.data]

LocalArea(q, area) == IF HasKey(q, area) THEN {AsPart(area, f) : f \in SaveOf(KeyOf(q, area))} ELSE {}
Local(q) == LocalArea(q, "account") \cup LocalArea(q, "device")

\* sigil_profile_undecided: some profile holds the game's saves, none is picked.
Undecided(q) == q.profile = None /\ \E p \in Profiles : SaveOf(Key(q.title, p)) # {}

(***************************************************************************)
(* The state blob.  `synced` and `restored` are kept for the whole unit,   *)
(* per profile; `account` and `device` are the hashes the areas last       *)
(* synced, the device's kept once for every profile.                       *)
(***************************************************************************)
\* With one profile there is nothing to pick (sigil_profile_root_open).
Asked == IF \E p \in Profiles : Profiles = {p} THEN Profiles ELSE Profiles \cup {None}
Blob == [synced : [Titles -> [Asked -> SUBSET Part]],
         restored : [Titles -> [Asked -> {None} \cup [new : SUBSET Part, old : SUBSET Part]]],
         account : [Titles -> [Asked -> SUBSET Part]],
         device : [Titles -> SUBSET Part]]

NewBlob == [synced |-> [t \in Titles |-> [p \in Asked |-> {}]],
            restored |-> [t \in Titles |-> [p \in Asked |-> None]],
            account |-> [t \in Titles |-> [p \in Asked |-> {}]],
            device |-> [t \in Titles |-> {}]]

Last(q, area) == IF area = "device" THEN st.device[q.title] ELSE st.account[q.title][q.profile]

Idle == [op |-> "idle", req |-> None, counter |-> None, puts |-> {}, drops |-> {}, index |-> None, agreed |-> {},
         blob |-> NewBlob]
MayCall == call.op = "idle" /\ calls < MaxCalls

(***************************************************************************)
(* Collect.                                                                *)
(***************************************************************************)
RestoreAgain(q) ==
  LET restored == st.restored[q.title][q.profile]
  IN restored # None /\ Local(q) # restored.new /\ Local(q) = restored.old

\* The area hashes are recorded whether or not the restore is asked for again.
CollectBlob(q) ==
  [synced |-> IF RestoreAgain(q) THEN st.synced ELSE [st.synced EXCEPT ![q.title][q.profile] = Local(q)],
   restored |-> IF RestoreAgain(q) THEN st.restored ELSE [st.restored EXCEPT ![q.title][q.profile] = None],
   account |-> [st.account EXCEPT ![q.title][q.profile] = LocalArea(q, "account")],
   device |-> [st.device EXCEPT ![q.title] = LocalArea(q, "device")]]

Uploads(q) == {u \in {Local(q)} : ~RestoreAgain(q) /\ u \notin {{}, st.synced[q.title][q.profile]}}

\* What a stored blob says of the saves it covers, for the properties.
LeftNow(q, areas) ==
  [k \in Keys |-> IF \E a \in areas : HasKey(q, a) /\ k = KeyOf(q, a) THEN SaveOf(k) ELSE left[k]]

\* As in SyncVolumes: the client may die before an upload or before it
\* stores the blob.
Collect(q) ==
  /\ MayCall
  /\ calls' = calls + 1
  /\ ~Undecided(q)
  /\ \E uploaded, stored \in BOOLEAN :
       /\ stored => uploaded
       /\ library' = IF uploaded THEN [library EXCEPT ![q.title] = @ \cup Uploads(q)] ELSE library
       /\ st' = IF stored THEN CollectBlob(q) ELSE st
       /\ left' = IF stored THEN LeftNow(q, Areas) ELSE left
  /\ UNCHANGED <<folder, index, doomed, counter, call, edits>>

(***************************************************************************)
(* Restore.  The request also carries the unit, and whether the user       *)
(* agreed to replace changed saves.                                        *)
(***************************************************************************)
UnitArea(q, area) == {p \in q.unit : p.area = area}
Carries(q, area) == UnitArea(q, area) # {}

\* The areas whose save the index has no folder for, account before device.
Unpublished(q) ==
  IF Indexed THEN {a \in Areas : Carries(q, a) /\ HasKey(q, a) /\ Named(KeyOf(q, a)) = None} ELSE {}

Used == {counter} \cup {index[k] : k \in {h \in Keys : index[h] # None}} \cup {i \in Ids : folder[i] # {}}

\* Mutant: a new id goes past the counter alone.
HighestIdCounted == counter

\* A new id goes past the counter, the index and the folders there.
HighestId == CHOOSE n \in Used : \A m \in Used : m <= n

\* Mutant: both new saves get one id.
NewIdOnce(q, area) == HighestId + 1

NewId(q, area) == IF area = "device" /\ "account" \in Unpublished(q) THEN HighestId + 2 ELSE HighestId + 1

\* The folder an area's members go in, and its files as restore lists them:
\* the new entries count as the index's own from then on.
Target(q, area) == IF area \in Unpublished(q) THEN NewId(q, area) ELSE Named(KeyOf(q, area))
FoundArea(q, area) == IF HasKey(q, area) THEN {AsPart(area, f) : f \in FilesIn(Target(q, area))} ELSE {}
Found(q) == FoundArea(q, "account") \cup FoundArea(q, "device")

\* The index with the new entries, and the counter past their ids.
IndexWith(q) ==
  [k \in Keys |-> IF \E a \in Unpublished(q) : k = KeyOf(q, a)
                  THEN Target(q, CHOOSE a \in Unpublished(q) : k = KeyOf(q, a)) ELSE index[k]]

\* Mutant: the counter is left at the highest id found.
CounterKept(q) == HighestId

CounterWith(q) == HighestId + Cardinality(Unpublished(q))

\* A file in an optional folder the unit leaves out: restore keeps it.  An
\* area's optional files are one folder of the row.
Kept(q, p) == p.name \in Optional /\ \A r \in UnitArea(q, p.area) : r.name \notin Optional
Compared(q, area) == {p \in FoundArea(q, area) : ~Kept(q, p)}

\* Mutant: changed saves are replaced without asking.
ConflictNever(q) == FALSE

\* Per area the unit carries.
Conflict(q) ==
  \E a \in Areas :
    /\ Carries(q, a) /\ ~q.overwrite
    /\ Compared(q, a) \notin {UnitArea(q, a), {}, Last(q, a)}
AlreadyThere(q) == \A a \in Areas : Carries(q, a) => Compared(q, a) = UnitArea(q, a)

RestoreCode(q) ==
  IF q.profile = None /\ Carries(q, "account") THEN "AMBIGUOUS"
  ELSE IF \E a \in Unpublished(q) : index[KeyOf(q, a)] # None THEN "NO_TARGET"
  ELSE IF Conflict(q) THEN "CONFLICT"
  ELSE "OK"

\* Mutant: a folder the unit leaves out goes with the rest of its area.
GoesOptionalToo(q, p) == Carries(q, p.area) /\ \A r \in UnitArea(q, p.area) : r.name # p.name

\* A local file of an area the unit carries that the unit lacks.
Goes(q, p) ==
  /\ Carries(q, p.area) /\ ~Kept(q, p)
  /\ \A r \in UnitArea(q, p.area) : r.name # p.name

AsFile(p) == [name |-> p.name, data |-> p.data]

\* Mutant: a file that is there is not written, whatever its bytes.
PutsMissing(q) ==
  {[id |-> Target(q, p.area), file |-> AsFile(p)] :
     p \in {r \in q.unit : \A g \in Found(q) : g.area # r.area \/ g.name # r.name}}

\* Only the files whose bytes differ are written.
Puts(q) ==
  IF AlreadyThere(q) THEN {}
  ELSE {[id |-> Target(q, p.area), file |-> AsFile(p)] : p \in q.unit \ Found(q)}
Drops(q) ==
  IF AlreadyThere(q) THEN {}
  ELSE {[id |-> Target(q, p.area), file |-> AsFile(p)] : p \in {r \in Found(q) : Goes(q, r)}}

\* The restored line pairs the unit's hash with that of every local file.
RestoreBlob(q) ==
  [synced |-> [st.synced EXCEPT ![q.title][q.profile] = q.unit],
   restored |-> IF q.mode = "managed" THEN st.restored
                ELSE [st.restored EXCEPT ![q.title][q.profile] = [new |-> q.unit, old |-> Found(q)]],
   account |-> IF Carries(q, "account") THEN [st.account EXCEPT ![q.title][q.profile] = UnitArea(q, "account")]
               ELSE st.account,
   device |-> IF Carries(q, "device") THEN [st.device EXCEPT ![q.title] = UnitArea(q, "device")] ELSE st.device]

\* What the user agreed to lose: the compared files of the areas carried.
Agreed(q) == IF q.overwrite THEN UNION {Compared(q, a) : a \in {b \in Areas : Carries(q, b)}} ELSE {}

\* Everything is read, placed and checked before the first write.
RestoreBegin(q) ==
  /\ MayCall
  /\ calls' = calls + 1
  /\ RestoreCode(q) = "OK"
  /\ CounterWith(q) <= MaxId
  /\ call' = [op |-> "restore", req |-> q,
              counter |-> IF Unpublished(q) = {} THEN None ELSE CounterWith(q),
              puts |-> Puts(q), drops |-> Drops(q),
              index |-> IF Unpublished(q) = {} THEN None ELSE IndexWith(q),
              agreed |-> Agreed(q), blob |-> RestoreBlob(q)]
  /\ UNCHANGED <<folder, index, doomed, counter, st, library, left, edits>>

\* The counter goes first,
WriteCounter ==
  /\ call.counter # None
  /\ counter' = call.counter
  /\ call' = [call EXCEPT !.counter = None]
  /\ UNCHANGED <<folder, index, doomed, st, library, left, edits, calls>>

PutFile(s, f) == {g \in s : g.name # f.name} \cup {f}

\* then each file,
WriteFile(w) ==
  /\ w \in call.puts /\ call.counter = None
  /\ folder' = [folder EXCEPT ![w.id] = PutFile(@, w.file)]
  /\ call' = [call EXCEPT !.puts = @ \ {w}]
  /\ UNCHANGED <<index, doomed, counter, st, library, left, edits, calls>>

\* then the files that go,
RemoveFile(w) ==
  /\ w \in call.drops /\ call.counter = None /\ call.puts = {}
  /\ folder' = [folder EXCEPT ![w.id] = @ \ {w.file}]
  /\ call' = [call EXCEPT !.drops = @ \ {w}]
  /\ UNCHANGED <<index, doomed, counter, st, library, left, edits, calls>>

\* Mutant: the index is written before the counter.
IndexTurnEarly == TRUE

IndexTurn == call.counter = None /\ call.puts = {} /\ call.drops = {}

\* and the index last.
WriteIndex ==
  /\ call.index # None /\ IndexTurn
  /\ index' = call.index
  /\ call' = [call EXCEPT !.index = None]
  /\ UNCHANGED <<folder, doomed, counter, st, library, left, edits, calls>>

RestoreEnd ==
  /\ call.op = "restore" /\ call.counter = None /\ call.puts = {} /\ call.drops = {} /\ call.index = None
  /\ st' = call.blob
  /\ left' = LeftNow(call.req, {a \in Areas : Carries(call.req, a)})
  /\ call' = Idle
  /\ UNCHANGED <<folder, index, doomed, counter, library, edits, calls>>

\* A write or a removal fails, or the client dies before it stores the blob.
RestoreFails ==
  /\ call.op = "restore"
  /\ call' = Idle
  /\ UNCHANGED <<folder, index, doomed, counter, st, library, left, edits, calls>>

(***************************************************************************)
(* The emulator, which is closed while a restore runs                      *)
(* (docs/platforms/switch.md).                                             *)
(***************************************************************************)
MayEdit == edits < MaxEdits /\ call.op = "idle"

\* A title's first run gives its save the next id, and wipes that folder.
EmulatorPublishes(k) ==
  /\ MayEdit /\ Indexed /\ index[k] = None /\ counter < MaxId
  /\ counter' = counter + 1
  /\ index' = [index EXCEPT ![k] = counter + 1]
  /\ folder' = [folder EXCEPT ![counter + 1] = {}]
  /\ edits' = edits + 1
  /\ UNCHANGED <<doomed, st, library, call, left, calls>>

EmulatorSaves(k, f) ==
  /\ MayEdit /\ Named(k) # None /\ f \notin folder[index[k]]
  /\ folder' = [folder EXCEPT ![index[k]] = PutFile(@, f)]
  /\ edits' = edits + 1
  /\ UNCHANGED <<index, doomed, counter, st, library, call, left, calls>>

EmulatorDeletes(k, f) ==
  /\ MayEdit /\ Named(k) # None /\ f \in folder[index[k]]
  /\ folder' = [folder EXCEPT ![index[k]] = @ \ {f}]
  /\ edits' = edits + 1
  /\ UNCHANGED <<index, doomed, counter, st, library, call, left, calls>>

\* The user deletes a save: the entry is marked, and purged on a later start.
EmulatorMarks(k) ==
  /\ MayEdit /\ Indexed /\ Named(k) # None
  /\ doomed' = doomed \cup {k}
  /\ edits' = edits + 1
  /\ UNCHANGED <<folder, index, counter, st, library, call, left, calls>>

EmulatorPurges(k) ==
  /\ call.op = "idle" /\ k \in doomed
  /\ index' = [index EXCEPT ![k] = None]
  /\ folder' = [folder EXCEPT ![index[k]] = {}]
  /\ doomed' = doomed \ {k}
  /\ UNCHANGED <<counter, st, library, call, left, edits, calls>>

Emulator ==
  \E k \in Keys :
    \/ EmulatorPublishes(k)
    \/ \E f \in File : EmulatorSaves(k, f) \/ EmulatorDeletes(k, f)
    \/ EmulatorMarks(k)
    \/ EmulatorPurges(k)

(***************************************************************************)
(* The specification.                                                      *)
(***************************************************************************)
CollectRequest(t, p) == [title |-> t, profile |-> p]
RestoreRequest(t, p, m, u, o) == [title |-> t, profile |-> p, mode |-> m, unit |-> u, overwrite |-> o]

Init ==
  /\ folder \in InitFolders
  /\ index \in InitIndexes
  /\ counter \in InitCounters
  /\ doomed = {}
  /\ st = NewBlob
  /\ library = ServerUnits
  /\ call = Idle
  /\ left = [k \in Keys |-> None]
  /\ edits = 0
  /\ calls = 0

Collects == \E t \in Titles, p \in Asked : LET q == CollectRequest(t, p) IN Collect(q)
Restores ==
  \E t \in Titles, p \in Asked, m \in Modes, o \in BOOLEAN :
    \E u \in library[t] : LET q == RestoreRequest(t, p, m, u, o) IN RestoreBegin(q)
Writes ==
  \/ WriteCounter
  \/ \E w \in call.puts : WriteFile(w)
  \/ \E w \in call.drops : RemoveFile(w)
  \/ WriteIndex

Next == Collects \/ Restores \/ Writes \/ RestoreEnd \/ RestoreFails \/ Emulator

Spec == Init /\ [][Next]_vars

(***************************************************************************)
(* Properties.                                                             *)
(***************************************************************************)
Requests ==
  [title : Titles, profile : Asked, mode : Modes, unit : SUBSET Part, overwrite : BOOLEAN]
Write == [id : Ids, file : File]

TypeOK ==
  /\ folder \in [Ids -> SUBSET File]
  /\ index \in [Keys -> Ids \cup {None}]
  /\ doomed \subseteq {k \in Keys : index[k] # None}
  /\ counter \in 0..MaxId
  /\ st \in Blob
  /\ library \in [Titles -> SUBSET SUBSET Part]
  /\ call \in [op : {"idle", "restore"}, req : {None} \cup Requests, counter : {None} \cup 0..MaxId,
              puts : SUBSET Write, drops : SUBSET Write, index : {None} \cup [Keys -> Ids \cup {None}],
              agreed : SUBSET Part, blob : Blob]
  /\ left \in [Keys -> {None} \cup SUBSET File]
  /\ edits \in Nat
  /\ calls \in Nat

\* sync_profiles.c:339: no save the index names lies past the counter, and no
\* two saves share a folder, for the index on disk and for the one a restore
\* is about to write, which keeps every entry there is.
Sound(i, c) ==
  /\ \A k \in Keys : i[k] # None => i[k] <= c
  /\ \A k, h \in Keys : i[k] # None /\ i[k] = i[h] => k = h

IndexSound ==
  /\ IF Indexed THEN Sound(index, counter) ELSE doomed = {} /\ \A k \in Keys : index[k] # None
  /\ call.op = "idle" => call.counter = None /\ call.index = None
  /\ call.counter # None => counter <= call.counter
  /\ call.index # None =>
       /\ Indexed /\ Sound(call.index, IF call.counter = None THEN counter ELSE call.counter)
       /\ \A k \in Keys : index[k] # None => call.index[k] = index[k]

\* sync_profiles.c:340-341, save_profiles.c:759: when the emulator publishes
\* an id, the folder it wipes is never one that holds another save, whatever
\* restore wrote or left half written.
NeverWiped ==
  [][ \A k, h \in Keys :
        EmulatorPublishes(k) /\ h # k /\ index[h] # None => folder'[index[h]] = folder[index[h]] ]_vars

\* save-units.md, sync.md:185: a restore writes only the saves of the areas
\* its unit carries, for the profile it settled on; every other profile's
\* save, the other area's and the other titles' stay as they are, and so do
\* the optional folders the unit leaves out.
OthersStay ==
  [][ call.op = "restore" => \A q \in {call.req} :
        /\ \A k \in Keys : (\A a \in Areas : Carries(q, a) => KeyOf(q, a) # k) => SaveOf(k)' = SaveOf(k)
        /\ \A a \in Areas : Carries(q, a) => {r \in LocalArea(q, a) : Kept(q, r)} \subseteq LocalArea(q, a)' ]_vars

\* Once a restore returned, each area its unit carries holds just what the
\* unit does, besides an optional folder the unit leaves out.
RestoreExact ==
  [][ RestoreEnd =>
        \A a \in Areas : Carries(call.req, a) =>
          {r \in LocalArea(call.req, a) : ~Kept(call.req, r)} = UnitArea(call.req, a) ]_vars

\* sync.md:185: CONFLICT says that "the saves on disk changed since the last
\* sync": some area the unit carries is not as the last call left it.
ConflictMeansChanged ==
  \A t \in Titles, p \in Asked, m \in Modes : \A u \in library[t] :
    \A q \in {RestoreRequest(t, p, m, u, FALSE)} :
      call.op = "idle" /\ RestoreCode(q) = "CONFLICT" =>
        \E a \in Areas : Carries(q, a) /\ SaveOf(KeyOf(q, a)) # left[KeyOf(q, a)]

\* sync.md:185, c.md:390-398: a restore takes off the disk only files that
\* reached RomM, unless the user agreed to lose them, and a restore that dies
\* half way has done no more than that.
SaveOfGame(t, p) == [title |-> t, part |-> p]
SavesOfGames == [title : Titles, part : Part]
AreaOf(k) == IF k.slot = Shared THEN "device" ELSE "account"
HeldNow ==
  {p \in Keys \X SavesOfGames :
     /\ p[2].title = p[1].title /\ p[2].part.area = AreaOf(p[1])
     /\ [name |-> p[2].part.name, data |-> p[2].part.data] \in SaveOf(p[1])}
Passed == {s \in SavesOfGames : s.part \in UNION library[s.title]}

Custody == INSTANCE SaveCustody WITH
  Places <- Keys, Saves <- SavesOfGames, disk <- HeldNow, safe <- Passed,
  agreed <- IF call.op = "restore" THEN {SaveOfGame(call.req.title, p) : p \in call.agreed} ELSE {},
  busy <- call.op = "restore"

CustodyKept == Custody!Spec
=============================================================================
