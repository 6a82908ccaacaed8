---------------------------- MODULE SyncVolumes ----------------------------
(***************************************************************************)
(* sigil_collect and sigil_restore on the volume platforms (Saturn, Sega   *)
(* CD, Dreamcast): src/src/sync_volumes.c with the state it keeps          *)
(* (sync_state.c), the conflict rule and the blob each call leaves         *)
(* (sync.c), against emulators that write the same volumes and a client    *)
(* that uploads units and stores the blob.                                 *)
(*                                                                         *)
(* Saves carry no game id here.  A save is an item: a device, a name and   *)
(* the data.  An identity hash is modelled as the set of items it hashes   *)
(* (sigil_named_hash sorts, so order never matters), and "no hash" as {}.  *)
(***************************************************************************)
EXTENDS FiniteSets, Naturals

CONSTANTS
  Games,          \* the games of the library, by their state key
  Volumes,        \* volume files, shared or one game's own
  Devices,        \* internal memory, cart, VMU ports
  Names,          \* save names
  Data,           \* what a save can hold
  Device,         \* [Volumes -> Devices]
  PerGame,        \* the volumes that are one game's own
  Targets,        \* [Games -> SUBSET Volumes], sigil_save_volume_targets
  NameTable,      \* [Games -> SUBSET Names], the save-name table's rows
  Companions,     \* [Games -> SUBSET Games], the companion a request may list
  Claimable,      \* the sets of names a user claims in one call
  Modes,          \* the modes the client uses, out of "managed", "unmanaged"
  Capacity,       \* [Volumes -> Nat], saves a volume has room for
  ServerUnits,    \* [Games -> SUBSET SUBSET Item], units already in RomM
  InitVolumes,    \* the contents the volumes may start with
  Damage,         \* out of "corrupt" and "unreadable": what emulators do to files
  Writable,       \* bound: the items emulators write
  MaxEdits,       \* bound: steps of the emulators
  MaxCalls,       \* bound: collects and restores
  CallsAtomic,    \* no emulator writes while a call runs
  None,           \* no game, no record
  Nameless        \* a corrupt save whose name the volume lost

Item == [dev : Devices, name : Names, data : Data]

\* Two items of one volume never share a name.
Distinct(s) == \A i, j \in s : i.dev = j.dev /\ i.name = j.name => i = j

\* A volume takes one device's saves, and holds them.
Fits(v, s) == s \subseteq {i \in Item : i.dev = Device[v]}

ASSUME ConstantsTyped ==
  /\ Device \in [Volumes -> Devices]
  /\ PerGame \subseteq Volumes
  /\ Targets \in [Games -> SUBSET Volumes]
  /\ NameTable \in [Games -> SUBSET Names]
  /\ Companions \in [Games -> SUBSET Games]
  /\ Claimable \subseteq SUBSET Names
  /\ Modes \subseteq {"managed", "unmanaged"}
  /\ ServerUnits \in [Games -> SUBSET SUBSET Item]
  /\ InitVolumes \subseteq [Volumes -> SUBSET Item]
  /\ Writable \subseteq Item
  /\ Damage \subseteq {"corrupt", "unreadable"}
  /\ CallsAtomic \in BOOLEAN
  /\ None \notin Games /\ None \notin Volumes
  /\ Nameless \notin Names

\* sigil_save_volume_targets gives a game one volume per device, and an own
\* volume is one game's.
ASSUME TargetsDistinct ==
  \A g \in Games : \A v, w \in Targets[g] : Device[v] = Device[w] => v = w
ASSUME TableDisjoint ==       \* sigil_save_names_match: mine && !theirs
  \A g, h \in Games : g # h => NameTable[g] \cap NameTable[h] = {}
ASSUME OwnVolumes ==
  \A g, h \in Games : \A v \in Targets[g] \cap Targets[h] : v \in PerGame => g = h
ASSUME NoSelfCompanion == \A g \in Games : g \notin Companions[g]
ASSUME VolumesHold == \A c \in InitVolumes : \A v \in Volumes : Fits(v, c[v]) /\ Distinct(c[v])
ASSUME UnitsDistinct == \A g \in Games : \A u \in ServerUnits[g] : u # {} /\ Distinct(u)
ASSUME NoneApart == \A s \in SUBSET Item : s # None

VARIABLES
  vol,        \* vol[v]: the items on volume v
  exists,     \* the volumes whose file is there
  corrupt,    \* corrupt[v]: names of corrupt saves on v, Nameless among them
  unreadable, \* the volumes whose file doesn't read as a volume
  st,         \* the state blob as the client stored it
  library,    \* library[g]: every unit of g that reached RomM
  holdings,   \* the items of every holding unit the client kept
  call,       \* the restore under way: what it will write and record
  core,       \* a running core: the volume it holds in memory, and its image
  edits,      \* emulator steps taken, up to MaxEdits
  calls       \* collects and restores made, up to MaxCalls

vars == <<vol, exists, corrupt, unreadable, st, library, holdings, call, core, edits, calls>>

Shared(g) == Targets[g] \ PerGame

(***************************************************************************)
(* The state blob, one field per kind of line.  An absent line is {} where *)
(* the code never stores an empty value, and None elsewhere.               *)
(***************************************************************************)
Blob == [synced : [Games -> SUBSET Item],
         restored : [Games -> {None} \cup [new : SUBSET Item, old : SUBSET Item]],
         owner : [Volumes -> [Names -> Games \cup {None}]],
         prepared : [Volumes -> Games \cup {None}],
         held : [Volumes -> SUBSET Item],
         seen : [Volumes -> {None} \cup SUBSET Item],
         unowned : [Volumes -> SUBSET Item]]

NewBlob == [synced |-> [g \in Games |-> {}],
            restored |-> [g \in Games |-> None],
            owner |-> [v \in Volumes |-> [n \in Names |-> None]],
            prepared |-> [v \in Volumes |-> None],
            held |-> [v \in Volumes |-> {}],
            seen |-> [v \in Volumes |-> None],
            unowned |-> [v \in Volumes |-> {}]]

(***************************************************************************)
(* Whose a save is.  A request q says the game, the mode, the names the    *)
(* user claims for it and at most one companion (the code takes a list:    *)
(* its order matters only for a name two companions share).  WhoseSave is  *)
(* q.game for SYNC_OWN_GAME, q.comp for SYNC_OWN_COMPANION, another game   *)
(* for SYNC_OWN_OTHER and None for SYNC_OWN_NONE.                          *)
(***************************************************************************)
Ours(q) == {q.game} \cup ({q.comp} \ {None})

\* Mutant: the owner lines are written but never read back.
LearnedForgotten(q, v, n) == FALSE

\* On a per-game file only the game's own or a companion's learned owner counts.
Learned(q, v, n) ==
  st.owner[v][n] # None /\ (st.owner[v][n] \in Ours(q) \/ v \notin PerGame)

Presumed(q, v, n) ==
  \/ v \in PerGame
  \/ q.mode = "managed" /\ st.prepared[v] = q.game
  \/ n \in NameTable[q.game]

WhoseSave(q, v, n) ==
  IF n \in q.claims THEN q.game
  ELSE IF Learned(q, v, n) THEN st.owner[v][n]
  ELSE IF Presumed(q, v, n) THEN q.game
  ELSE IF q.comp # None /\ n \in NameTable[q.comp] THEN q.comp
  ELSE None

OwnedOn(q, v, who) == {i \in vol[v] : WhoseSave(q, v, i.name) = who}
Owned(q, who) == UNION {OwnedOn(q, v, who) : v \in Targets[q.game]}

Mine(q) == Owned(q, q.game)
Theirs(q) == IF q.comp = None THEN {} ELSE Owned(q, q.comp)

\* A nameless corrupt save may be anyone's; a named one is whose its name is.
CorruptOwnSave(q, v) ==
  \/ Nameless \in corrupt[v]
  \/ \E n \in corrupt[v] \cap Names : WhoseSave(q, v, n) \in Ours(q)

\* What gather_volumes and gather_volume_saves refuse before anything else.
Damaged(q) == \E v \in Targets[q.game] : v \in unreadable \/ CorruptOwnSave(q, v)

\* Mutants: no owner is learned; a companion's save is learned as the game's.
LearnOwnersNever(q, mine, theirs) == st.owner
LearnOwnersAsGame(q, mine, theirs) ==
  [v \in Volumes |-> [n \in Names |->
    IF v \in Shared(q.game) /\ \E i \in mine \cup theirs : i.dev = Device[v] /\ i.name = n THEN q.game
    ELSE st.owner[v][n]]]

\* The owner lines after a call that found, or placed, these saves of the
\* game (learned on shared volumes) and of the companion (on any).
LearnOwners(q, mine, theirs) ==
  [v \in Volumes |-> [n \in Names |->
    IF v \in Shared(q.game) /\ \E i \in mine : i.dev = Device[v] /\ i.name = n THEN q.game
    ELSE IF v \in Targets[q.game] /\ \E i \in theirs : i.dev = Device[v] /\ i.name = n THEN q.comp
    ELSE st.owner[v][n]]]

(***************************************************************************)
(* Collect.                                                                *)
(***************************************************************************)

\* Mutant: the two halves of the restored line are swapped.
RestoreAgainSwapped(q) ==
  LET restored == st.restored[q.game]
  IN restored # None /\ Mine(q) # restored.old /\ Mine(q) = restored.new

\* The saves an unmanaged restore replaced are back, and what it wrote is gone.
RestoreAgain(q) ==
  LET restored == st.restored[q.game]
  IN restored # None /\ Mine(q) # restored.new /\ Mine(q) = restored.old

\* Mutant: a rewritten unclaimed save passes for the one seen before.
UnownedChangedByName(q, v) ==
  {i \in OwnedOn(q, v, None) : st.seen[v] # None /\ \A j \in st.unowned[v] : j.name # i.name}

UnownedChanged(q, v) ==
  {i \in OwnedOn(q, v, None) : st.seen[v] # None /\ i \notin st.unowned[v]}

CollectSynced(q) ==
  [h \in Games |-> IF h = q.game /\ ~RestoreAgain(q) THEN Mine(q)
                   ELSE IF h = q.comp /\ Theirs(q) # {} THEN Theirs(q)
                   ELSE st.synced[h]]

\* One record per shared volume of the game; the other volumes' stay.
NoteVolumes(q, old, new) == [v \in Volumes |-> IF v \in Shared(q.game) THEN new[v] ELSE old[v]]

CollectBlob(q) ==
  LET unclaimed == [v \in Volumes |-> OwnedOn(q, v, None)]
  IN [synced |-> CollectSynced(q),
      restored |-> IF RestoreAgain(q) THEN st.restored ELSE [st.restored EXCEPT ![q.game] = None],
      owner |-> LearnOwners(q, Mine(q), Theirs(q)),
      prepared |-> st.prepared,
      held |-> NoteVolumes(q, st.held, unclaimed),
      seen |-> NoteVolumes(q, st.seen, vol),
      unowned |-> NoteVolumes(q, st.unowned, unclaimed)]

\* Mutant: a game with no synced line counts as unchanged.
UploadsOfKnown(q, h) == {u \in {Mine(q)} : h = q.game /\ st.synced[h] # {} /\ u \notin {{}, st.synced[h]}}

\* What the client uploads for game h: a unit collect called changed.
Uploads(q, h) ==
  {u \in {Mine(q)} : h = q.game /\ ~RestoreAgain(q) /\ u \notin {{}, st.synced[h]}}
    \cup {u \in {Theirs(q)} : h = q.comp /\ u \notin {{}, st.synced[h]}}

\* Calls don't overlap: each needs the blob the one before it returned.
MayCall == call.op = "idle" /\ calls < MaxCalls

\* A collect that isn't refused.  The client uploads and keeps what it got,
\* then stores the blob; it may die before either.  A refused call (a damaged
\* file, one that won't open, a client that dies at once) changes nothing.
Collect(q) ==
  /\ MayCall
  /\ calls' = calls + 1
  /\ ~Damaged(q)
  /\ \E uploaded, stored \in BOOLEAN :
       /\ stored => uploaded
       /\ library' = IF uploaded THEN [h \in Games |-> library[h] \cup Uploads(q, h)] ELSE library
       /\ holdings' = IF uploaded THEN holdings \cup Owned(q, None) ELSE holdings
       /\ st' = IF stored THEN CollectBlob(q) ELSE st
  /\ UNCHANGED <<vol, exists, corrupt, unreadable, call, core, edits>>

(***************************************************************************)
(* Restore.  The request also carries the game's unit, the companion's     *)
(* unit or {}, and whether the user agreed to replace changed saves.       *)
(***************************************************************************)
CompanionRestored(q) == q.cunit # {}

\* A companion's save under a name the game's unit has too is left out.
TheirsIn(q) == {i \in q.cunit : \A j \in q.unit : ~(j.dev = i.dev /\ j.name = i.name)}
Incoming(q) == q.unit \cup TheirsIn(q)

\* Mutant: local saves that changed since the last sync don't block.
BlocksRestoreNever(q, local, incoming, last) == FALSE

BlocksRestore(q, local, incoming, last) ==
  local # incoming /\ local # {} /\ local # last /\ ~q.overwrite

Conflict(q) ==
  \/ BlocksRestore(q, Mine(q), q.unit, st.synced[q.game])
  \/ CompanionRestored(q) /\ BlocksRestore(q, Theirs(q), TheirsIn(q), st.synced[q.comp])

AlreadyThere(q) == Mine(q) = q.unit /\ (CompanionRestored(q) => Theirs(q) = TheirsIn(q))

CorruptShared(q) == q.mode = "managed" /\ \E v \in Shared(q.game) : corrupt[v] # {}

\* Mutant: another game's saves aren't compared with its last sync.
SwappableUnownedOnly(q) == \A v \in Shared(q.game) : OwnedOn(q, v, None) \in {{}, st.held[v]}

\* A shared volume is swapped only when everything on it was passed on.
Swappable(q) ==
  /\ \A v \in Shared(q.game) : OwnedOn(q, v, None) \in {{}, st.held[v]}
  /\ \A h \in Games \ Ours(q) : Owned(q, h) \in {{}, st.synced[h]}

Unchanged(q) == \A v \in Shared(q.game) : vol[v] \in {{}, st.seen[v]}

Uncollected(q) == IF q.mode = "managed" THEN ~Swappable(q) ELSE ~Unchanged(q)

Receives(q, v) == \E i \in Incoming(q) : i.dev = Device[v]
NoTarget(q) == \E i \in Incoming(q) : \A v \in Targets[q.game] : Device[v] # i.dev

ReplacedOwners(q) == {q.game} \cup (IF CompanionRestored(q) THEN {q.comp} ELSE {})

Writes(q, v) ==
  IF q.mode = "managed"
  THEN IF AlreadyThere(q) THEN \E i \in vol[v] : WhoseSave(q, v, i.name) \notin Ours(q)
       ELSE v \in exists \/ Receives(q, v)
  ELSE ~AlreadyThere(q) /\ (Receives(q, v) \/ OwnedOn(q, v, q.game) # {})

\* Mutant: an unmanaged restore builds its volume as a swap does.
KeptOursOnly(q, v) == {i \in vol[v] : WhoseSave(q, v, i.name) \in Ours(q) \ ReplacedOwners(q)}

\* Managed keeps a companion the restore has no unit for; unmanaged keeps
\* every save but the replaced.
Kept(q, v) ==
  {i \in vol[v] : LET who == WhoseSave(q, v, i.name)
                  IN who \notin ReplacedOwners(q) /\ (q.mode = "managed" => who \in Ours(q))}

\* Mutant: every incoming save goes on every volume written.
NextOnAnyDevice(q, v) == Kept(q, v) \cup Incoming(q)

NextOn(q, v) == Kept(q, v) \cup {i \in Incoming(q) : i.dev = Device[v]}

Written(q) == {v \in Targets[q.game] : Writes(q, v)}
NameTaken(q) == \E v \in Written(q) : ~Distinct(NextOn(q, v))
NoRoom(q) == \E v \in Written(q) : Cardinality(NextOn(q, v)) > Capacity[v]

\* The first refusal in the order of the code; "OK" when it goes ahead.
RestoreCode(q) ==
  IF CompanionRestored(q) /\ TheirsIn(q) = {} THEN "NOT_FOUND"
  ELSE IF Damaged(q) THEN "DAMAGED"
  ELSE IF Conflict(q) THEN "CONFLICT"
  ELSE IF CorruptShared(q) THEN "DAMAGED"
  ELSE IF Uncollected(q) THEN "UNCOLLECTED"
  ELSE IF NoTarget(q) THEN "NO_TARGET"
  ELSE IF NameTaken(q) THEN "EXISTS"
  ELSE IF NoRoom(q) THEN "NO_SPACE"
  ELSE "OK"

RestoreBlob(q) ==
  LET final == [v \in Volumes |-> IF Writes(q, v) THEN NextOn(q, v) ELSE vol[v]]
      swapped == [v \in Volumes |-> IF q.mode = "managed" THEN q.game ELSE st.prepared[v]]
      held == [v \in Volumes |-> IF q.mode = "managed" THEN {} ELSE st.held[v]]
  IN [synced |-> [h \in Games |-> IF h = q.game THEN q.unit
                                  ELSE IF h = q.comp /\ CompanionRestored(q) THEN TheirsIn(q)
                                  ELSE st.synced[h]],
      restored |-> IF q.mode = "managed" THEN st.restored
                   ELSE [st.restored EXCEPT ![q.game] = [new |-> q.unit, old |-> Mine(q)]],
      owner |-> LearnOwners(q, q.unit, TheirsIn(q)),
      prepared |-> NoteVolumes(q, st.prepared, swapped),
      held |-> NoteVolumes(q, st.held, held),
      seen |-> NoteVolumes(q, st.seen, final),
      unowned |-> st.unowned]

\* The volumes as a call reads them.
Disk == [v \in Volumes |-> <<vol[v], corrupt[v]>>]

Idle == [op |-> "idle", req |-> None, pending |-> {}, agreed |-> {}, blob |-> NewBlob,
         read |-> [v \in Volumes |-> <<{}, {}>>],
         next |-> [v \in Volumes |-> {}], rotten |-> [v \in Volumes |-> {}]]

\* What the user agreed to lose: the saves overwrite_local lets a restore replace.
Agreed(q) ==
  IF q.overwrite THEN UNION {{i \in vol[v] : WhoseSave(q, v, i.name) \in ReplacedOwners(q)} : v \in Targets[q.game]}
  ELSE {}

\* Everything is read, checked and built before the first write; next is what
\* each volume will hold.
RestoreBegin(q) ==
  /\ MayCall
  /\ calls' = calls + 1
  /\ RestoreCode(q) = "OK"
  /\ call' = [op |-> "restore", req |-> q, pending |-> Written(q), agreed |-> Agreed(q),
              blob |-> RestoreBlob(q), read |-> Disk,
              next |-> [v \in Volumes |-> IF v \in Written(q) THEN NextOn(q, v) ELSE vol[v]],
              rotten |-> [v \in Volumes |-> IF v \in Written(q) /\ q.mode = "unmanaged" THEN corrupt[v] ELSE {}]]
  /\ UNCHANGED <<vol, exists, corrupt, unreadable, st, library, holdings, core, edits>>

\* One volume written and read back.
RestoreWrite(v) ==
  /\ v \in call.pending
  /\ vol' = [vol EXCEPT ![v] = call.next[v]]
  /\ corrupt' = [corrupt EXCEPT ![v] = call.rotten[v]]
  /\ exists' = exists \cup {v}
  /\ unreadable' = unreadable \ {v}
  /\ call' = [call EXCEPT !.pending = @ \ {v}]
  /\ UNCHANGED <<st, library, holdings, core, edits, calls>>

RestoreEnd ==
  /\ call.op = "restore" /\ call.pending = {}
  /\ st' = call.blob
  /\ call' = Idle
  /\ UNCHANGED <<vol, exists, corrupt, unreadable, library, holdings, core, edits, calls>>

\* A write or its verify fails, or the client dies before it stores the blob.
RestoreFails ==
  /\ call.op = "restore"
  /\ call' = Idle
  /\ UNCHANGED <<vol, exists, corrupt, unreadable, st, library, holdings, core, edits, calls>>

(***************************************************************************)
(* Emulators, which sigil never sees run.  Any of them may save under any  *)
(* name on a volume, and a core that loaded a volume into memory writes    *)
(* the whole of it back when it unloads.                                   *)
(***************************************************************************)
MayEdit == edits < MaxEdits /\ (CallsAtomic => call.op = "idle")

Put(s, i) == {j \in s : j.name # i.name} \cup {i}

EmulatorSaves(v, i) ==
  /\ MayEdit /\ v \notin unreadable
  /\ i.dev = Device[v] /\ i \notin vol[v]
  /\ Cardinality(Put(vol[v], i)) <= Capacity[v]
  /\ vol' = [vol EXCEPT ![v] = Put(@, i)]
  /\ exists' = exists \cup {v}
  /\ corrupt' = [corrupt EXCEPT ![v] = @ \ {i.name}]
  /\ edits' = edits + 1
  /\ UNCHANGED <<unreadable, st, library, holdings, call, core, calls>>

EmulatorDeletes(v, i) ==
  /\ MayEdit
  /\ i \in vol[v]
  /\ vol' = [vol EXCEPT ![v] = @ \ {i}]
  /\ edits' = edits + 1
  /\ UNCHANGED <<exists, corrupt, unreadable, st, library, holdings, call, core, calls>>

\* A save stops reading, its name still in the directory or lost.
EmulatorCorrupts(v, i) ==
  /\ MayEdit /\ "corrupt" \in Damage
  /\ i \in vol[v]
  /\ vol' = [vol EXCEPT ![v] = @ \ {i}]
  /\ \E name \in {i.name, Nameless} : corrupt' = [corrupt EXCEPT ![v] = @ \cup {name}]
  /\ edits' = edits + 1
  /\ UNCHANGED <<exists, unreadable, st, library, holdings, call, core, calls>>

EmulatorTruncates(v) ==
  /\ MayEdit /\ "unreadable" \in Damage
  /\ v \in exists
  /\ vol' = [vol EXCEPT ![v] = {}]
  /\ unreadable' = unreadable \cup {v}
  /\ edits' = edits + 1
  /\ UNCHANGED <<exists, corrupt, st, library, holdings, call, core, calls>>

Closed == [vol |-> None, image |-> {}]

CoreLoads(v) ==
  /\ MayEdit /\ "unmanaged" \in Modes /\ core = Closed
  /\ v \in exists \ unreadable /\ corrupt[v] = {}
  /\ core' = [vol |-> v, image |-> vol[v]]
  /\ edits' = edits + 1
  /\ UNCHANGED <<vol, exists, corrupt, unreadable, st, library, holdings, call, calls>>

CoreUnloads ==
  /\ core # Closed
  /\ CallsAtomic => call.op = "idle"
  /\ vol' = [vol EXCEPT ![core.vol] = core.image]
  /\ corrupt' = [corrupt EXCEPT ![core.vol] = {}]
  /\ unreadable' = unreadable \ {core.vol}
  /\ exists' = exists \cup {core.vol}
  /\ core' = Closed
  /\ UNCHANGED <<st, library, holdings, call, edits, calls>>

Emulator ==
  \/ \E v \in Volumes :
       \/ \E i \in Writable : EmulatorSaves(v, i)
       \/ \E i \in vol[v] : EmulatorDeletes(v, i) \/ EmulatorCorrupts(v, i)
       \/ EmulatorTruncates(v)
       \/ CoreLoads(v)
  \/ CoreUnloads

(***************************************************************************)
(* The specification.                                                      *)
(***************************************************************************)
CollectRequest(g, m, c, k) == [game |-> g, mode |-> m, claims |-> c, comp |-> k]

RestoreRequest(g, m, c, k, u, w, o) ==
  [game |-> g, mode |-> m, claims |-> c, comp |-> k, unit |-> u, cunit |-> w, overwrite |-> o]

RestoreRequests ==
  [game : Games, mode : Modes, claims : Claimable, comp : Games \cup {None},
   unit : SUBSET Item, cunit : SUBSET Item, overwrite : BOOLEAN]

CompanionUnits(k) == {{}} \cup (IF k = None THEN {} ELSE library[k])

Collects ==
  \E g \in Games, m \in Modes, c \in Claimable :
    \E k \in Companions[g] \cup {None} :
      LET q == CollectRequest(g, m, c, k) IN Collect(q)

Restores ==
  \E g \in Games, m \in Modes, c \in Claimable, o \in BOOLEAN :
    \E k \in Companions[g] \cup {None}, u \in library[g] :
      \E w \in CompanionUnits(k) :
        LET q == RestoreRequest(g, m, c, k, u, w, o) IN RestoreBegin(q)

Init ==
  /\ vol \in InitVolumes
  /\ exists = {v \in Volumes : vol[v] # {}}
  /\ corrupt = [v \in Volumes |-> {}]
  /\ unreadable = {}
  /\ st = NewBlob
  /\ library = ServerUnits
  /\ holdings = {}
  /\ call = Idle
  /\ core = Closed
  /\ edits = 0
  /\ calls = 0

Next ==
  \/ Collects
  \/ Restores
  \/ \E v \in Volumes : RestoreWrite(v)
  \/ RestoreEnd
  \/ RestoreFails
  \/ Emulator

Spec == Init /\ [][Next]_vars
(***************************************************************************)
(* Properties.                                                             *)
(***************************************************************************)
Passed == holdings \cup UNION {UNION library[g] : g \in Games}

TypeOK ==
  /\ vol \in [Volumes -> SUBSET Item]
  /\ \A v \in Volumes : Fits(v, vol[v])
  /\ exists \subseteq Volumes
  /\ corrupt \in [Volumes -> SUBSET (Names \cup {Nameless})]
  /\ unreadable \subseteq Volumes
  /\ st \in Blob
  /\ library \in [Games -> SUBSET SUBSET Item]
  /\ holdings \subseteq Item
  /\ call \in [op : {"idle", "restore"}, req : {None} \cup RestoreRequests,
              pending : SUBSET Volumes, agreed : SUBSET Item, blob : Blob,
              read : [Volumes -> (SUBSET Item) \X SUBSET (Names \cup {Nameless})],
              next : [Volumes -> SUBSET Item],
              rotten : [Volumes -> SUBSET (Names \cup {Nameless})]]
  /\ \/ core = Closed
     \/ core \in [vol : Volumes, image : SUBSET Item] /\ Fits(core.vol, core.image)
  /\ edits \in Nat
  /\ calls \in Nat

\* What the blob says was synced did reach RomM as that game's saves, and
\* what it says is held is in a holding unit the client kept: the swap rules
\* of sync_volumes.c:262-298 rest on it, across crashes and lost blobs.
BlobPassedOn ==
  /\ \A g \in Games : st.synced[g] \subseteq UNION library[g]
  /\ \A v \in Volumes : st.held[v] \subseteq holdings

\* sync_volumes.c:402: a restore checks every volume before it writes the
\* first.  From then on, whatever it still has to write takes off only saves
\* that were passed on or that the user agreed to lose, puts on only saves
\* that were passed on, and will leave a blob that says no more than is true.
CallSound ==
  /\ call.op = "idle" => call.pending = {}
  /\ \A g \in Games : call.blob.synced[g] \subseteq UNION library[g]
  /\ \A v \in Volumes : call.blob.held[v] \subseteq holdings
  /\ \A v \in call.pending :
       /\ Fits(v, call.next[v])
       /\ CallsAtomic => /\ vol[v] \ call.next[v] \subseteq Passed \cup call.agreed
                         /\ call.next[v] \ vol[v] \subseteq Passed

\* sync.md:104-115: a restore, managed or not, takes off the disk only saves
\* that were passed on, unless the user agreed to overwrite them, and a
\* restore that dies half way has done no more than that.
Custody == INSTANCE SaveCustody WITH
  Places <- Volumes, Saves <- Item,
  disk <- {p \in Volumes \X Item : p[2] \in vol[p[1]]},
  safe <- Passed, agreed <- call.agreed, busy <- call.op = "restore"

CustodyKept == Custody!Spec

\* sync.md:112-114: an unmanaged restore replaces only the saves of the game
\* (and of a companion it has a unit for), and leaves corrupt saves in place.
\* A write may undo what an emulator did to the volume since the restore read
\* it, and nothing more.
UnmanagedKeepsOthers ==
  [][ \A v \in call.pending \ call'.pending :
        call'.op = "restore" /\ call.req.mode = "unmanaged" =>
          /\ call.read[v] = <<vol[v], corrupt[v]>> => corrupt'[v] = corrupt[v]
          /\ \A i \in vol[v] \cap call.read[v][1] :
               i \notin vol'[v] => WhoseSave(call.req, v, i.name) \in ReplacedOwners(call.req)
          /\ vol'[v] \subseteq call.read[v][1] \cup Incoming(call.req) ]_vars

\* sync_state.c:8, sync.c:253: once a restore returned, the saves the owner
\* rules give the game, and the companion it placed, are the ones the blob
\* records as synced, so that the next collect finds them unchanged, unless an
\* emulator wrote since the restore read the volumes.
RestoredAsSynced(q) ==
  /\ Mine(q) = st.synced[q.game]
  /\ CompanionRestored(q) => Theirs(q) = st.synced[q.comp]

RestoreExact ==
  [][ RestoreEnd /\ vol = call.next =>
        \A q \in {[call.req EXCEPT !.claims = {}]} : RestoredAsSynced(q)' ]_vars

\* sync.md:173-174: a companion's save that a restore leaves where it was is
\* still the companion's afterwards, and stays out of the game's unit.
CompanionsStay ==
  [][ RestoreEnd =>
        \A q \in {[call.req EXCEPT !.claims = {}]} : \A v \in Targets[q.game] :
          \A i \in vol[v] :
            q.comp # None /\ WhoseSave(q, v, i.name) = q.comp => (WhoseSave(q, v, i.name) = q.comp)' ]_vars

\* A learned owner moves to another game only through the user's claim, or
\* through a restore that puts a save of that name there (sync.md:66-68).
OwnerMoves ==
  [][ \A v \in Volumes, n \in Names :
        st.owner[v][n] # None /\ st'.owner[v][n] # st.owner[v][n] =>
          \/ call.op = "restore" /\ \E i \in Incoming(call.req) : i.dev = Device[v] /\ i.name = n
          \/ call.op = "idle" /\ \E c \in Claimable : n \in c ]_vars

\* sync.c:135-136: after an unmanaged restore, a collect that finds the
\* replaced saves back does not upload them over the unit just restored.
NoRevertUpload ==
  [][ \A g \in Games :
        /\ \A h \in Games : g \notin Companions[h]
        /\ st.restored[g] # None /\ st.restored[g].old # st.restored[g].new
        => st.restored[g].old \notin library'[g] \ library[g] ]_vars

=============================================================================
