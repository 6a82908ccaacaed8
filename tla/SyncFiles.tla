------------------------------ MODULE SyncFiles ------------------------------
(***************************************************************************)
(* sigil_collect and sigil_restore where a game's saves are files of their *)
(* own (src/src/sync.c): Dolphin's GCI folder (sync_gci_folder.c), N64     *)
(* cartridges (sync_n64.c) and Game Boy cartridges (sync_gb.c).  The       *)
(* modules GciFolder, N64Save and GbSave say what each reads and writes;   *)
(* this one is the calls, the client's blob, and a client that tries a     *)
(* restore again when a write failed.                                      *)
(*                                                                         *)
(* A save is its game, its key (an identity, a save type, the RAM) and     *)
(* what it holds; a hash is the set of saves it covers.                    *)
(***************************************************************************)
EXTENDS Integers, FiniteSets, Sequences

CONSTANTS
  Setups,       \* the emulators in play: a platform, the games called, and by platform
                \* the layout, the cart, whether the layout spells its files, and
                \* whether the client removes files (`remove`)
  Games,        \* game ids
  Companions,   \* Companions[g]: the titles g's calls may list, on GameCube
  Modes,        \* the modes the client uses, out of "managed", "unmanaged"
  Times,        \* times, for clocks
  ServerUnits,  \* [games -> units in RomM], by setup
  Edits,        \* pairs of a path and what it then holds, by setup
  InitDisks,    \* what the disk may start as, by setup
  MaxEdits,     \* bound: steps of emulators
  MaxCalls,     \* bound: collects and restores the client starts
  MaxFails,     \* bound: writes that fail
  Ids, IdGame, IdName, IdBlocks, Region, MaxZeros, DataBlocks, Tenth, OthersMax, EntriesMax, Broken,
  Types, Paks, Swapped, Void, Free,
  Day, LowDays, Word, Cells, Span, Nibble,
  None          \* no file, no game, no record

VARIABLES
  setup,    \* the emulator: platform, layout and cart
  disk,     \* the files, by path
  st,       \* the state blob as the client stored it
  library,  \* library[g]: every unit of g that reached RomM
  call,     \* the restore under way: what it still has to write
  wanted,   \* a restore that began and has not ended well
  edits,    \* emulator steps taken, up to MaxEdits
  calls,    \* calls started, up to MaxCalls
  fails     \* restores that failed, up to MaxFails

vars == <<setup, disk, st, library, call, wanted, edits, calls, fails>>

Gci == INSTANCE GciFolder
N64 == INSTANCE N64Save
Gb == INSTANCE GbSave

\* A unit travels with its clock, or None.
Unit(saves, clock) == [saves |-> saves, clock |-> clock]
SaveOf(g, key, holds) == [game |-> g, key |-> key, holds |-> holds]

ASSUME BoundsSound ==
  /\ \A s \in Setups : s.platform \in {"gci", "n64", "gb"} /\ s.games \subseteq Games
  /\ Companions \in [Games -> SUBSET Games]
  /\ Modes \subseteq {"managed", "unmanaged"}
  /\ MaxEdits \in Nat /\ MaxCalls \in Nat /\ MaxFails \in Nat

\* A companion is another game (sigil.h:600).
ASSUME NoSelfCompanion == None \notin Games /\ \A g \in Games : g \notin Companions[g]

\* In Dolphin's folder an identity carries its game, and a file is a save or
\* holds something else; units are of the game they are kept for.
GciFile == [id : Ids, data : {Broken} \cup Seq(Nat)]

ASSUME IdsSound == IdGame \in [Ids -> Games] /\ IdName \in [Ids -> Nat \X Nat] /\ MaxZeros \in Nat
ASSUME FolderSetups ==
  \A s \in Setups : s.platform = "gci" =>
    /\ \A g \in DOMAIN ServerUnits[s] : \A u \in ServerUnits[s][g] :
         /\ u.saves # {}
         /\ \A x \in u.saves : x \in [game : {g}, key : Ids, holds : Seq(Nat)] /\ IdGame[x.key] = g
    /\ \A d \in InitDisks[s] : \A p \in DOMAIN d : d[p] \in GciFile
    /\ \A e \in Edits[s] : e[2] \in GciFile \cup {None}

(***************************************************************************)
(* What a call reads (sync.c dispatches on the platform).                  *)
(***************************************************************************)
Path ==
  CASE setup.platform = "gci" -> Gci!Path [] setup.platform = "n64" -> N64!Path [] OTHER -> Gb!Path

Ours(q) == {q.game, q.comp} \ {None}
CartGame == CHOOSE g \in setup.games : TRUE   \* a cartridge has one game

GciLocal(d, g) == {SaveOf(g, f.id, f.data) : f \in Gci!Local(d, {g})}
N64Saves(g, save) == {SaveOf(g, t, save[t]) : t \in DOMAIN save}
N64Local(d, g) == N64Saves(g, N64!Local(d))
GbLocal(d, g) == {SaveOf(g, "ram", bytes) : bytes \in Gb!Local(d, setup.cart)}

LocalOf(d, g) ==
  CASE setup.platform = "gci" -> GciLocal(d, g) [] setup.platform = "n64" -> N64Local(d, g)
    [] OTHER -> GbLocal(d, g)

Mine(q) == LocalOf(disk, q.game)
Theirs(q) == IF q.comp = None THEN {} ELSE LocalOf(disk, q.comp)

\* Two files an emulator may read for one save type.
Ambiguous == setup.platform = "n64" /\ N64!Ambiguous(disk)

(***************************************************************************)
(* Collect.                                                                *)
(***************************************************************************)
NewBlob == [synced |-> [g \in Games |-> {}], restored |-> [g \in Games |-> None]]

RestoreAgain(q) ==
  LET restored == st.restored[q.game]
  IN restored # None /\ Mine(q) # restored.new /\ Mine(q) = restored.old

CollectBlob(q) ==
  [synced |-> [g \in Games |->
                 IF g = q.game THEN IF RestoreAgain(q) THEN st.synced[g] ELSE Mine(q)
                 ELSE IF g = q.comp /\ Theirs(q) # {} THEN Theirs(q)
                 ELSE st.synced[g]],
   restored |-> IF RestoreAgain(q) THEN st.restored ELSE [st.restored EXCEPT ![q.game] = None]]

ClockNow(now) == IF setup.platform = "gb" THEN Gb!UnitClock(disk, setup.layout, setup.cart, now) ELSE None

Uploads(q, g, now) ==
  {u \in {Unit(LocalOf(disk, g), ClockNow(now))} :
     g \in Ours(q) /\ ~(g = q.game /\ RestoreAgain(q)) /\ u.saves \notin {{}, st.synced[g]}}

MayCall == call.op = "idle" /\ calls < MaxCalls

\* The client uploads what it got, then stores the blob; it may die before
\* either.  A refused call changes nothing.
Collect(q) ==
  /\ MayCall
  /\ calls' = calls + 1
  /\ ~Ambiguous
  /\ \E uploaded, stored \in BOOLEAN, now \in Times :
       /\ stored => uploaded
       /\ library' = IF uploaded THEN [g \in Games |-> library[g] \cup Uploads(q, g, now)] ELSE library
       /\ st' = IF stored THEN CollectBlob(q) ELSE st
  /\ UNCHANGED <<setup, disk, call, wanted, edits, fails>>

(***************************************************************************)
(* Restore.  The request also carries the game's unit, the companion's     *)
(* saves or {}, and whether the user agreed to replace changed saves.      *)
(***************************************************************************)
CompanionRestored(q) == q.cunit # {}
Incoming(q) == q.unit.saves \cup q.cunit

BlocksRestore(q, local, incoming, last) ==
  local # incoming /\ local # {} /\ local # last /\ ~q.overwrite

\* Mutant: only the game's own saves are looked at.
ConflictOfGame(q) == BlocksRestore(q, Mine(q), q.unit.saves, st.synced[q.game])

Conflict(q) ==
  \/ BlocksRestore(q, Mine(q), q.unit.saves, st.synced[q.game])
  \/ CompanionRestored(q) /\ BlocksRestore(q, Theirs(q), q.cunit, st.synced[q.comp])

AlreadyThere(q) == Mine(q) = q.unit.saves /\ (CompanionRestored(q) => Theirs(q) = q.cunit)

Gone(q) == {q.game} \cup (IF CompanionRestored(q) THEN {q.comp} ELSE {})
Files(q) == {Gci!File(s.key, s.holds) : s \in Incoming(q)}
TypesOf(q) == [t \in {s.key : s \in Incoming(q)} |-> (CHOOSE s \in Incoming(q) : s.key = t).holds]
RamOf(q) == (CHOOSE s \in Incoming(q) : TRUE).holds

\* Before anything on disk is compared.
Refused(q) == IF setup.platform = "gci" /\ Gci!Foreign(q.game, Files(q)) THEN "REGION"
              ELSE IF Ambiguous THEN "AMBIGUOUS" ELSE "OK"

PlaceCode(q) ==
  CASE setup.platform = "gci" -> Gci!Code(disk, q.game, Ours(q), Gone(q), Files(q), setup.remove)
    [] setup.platform = "n64" -> N64!Code(setup.layout, setup.spelled, TypesOf(q), disk, setup.remove)
    [] OTHER -> "OK"

RestoreCode(q) ==
  IF Refused(q) # "OK" THEN Refused(q)
  ELSE IF Conflict(q) THEN "CONFLICT"
  ELSE IF AlreadyThere(q) THEN "OK"
  ELSE PlaceCode(q)

\* What is written, turn by turn; the files of one turn go in any order.
Turns(q) ==
  CASE setup.platform = "gci" -> Gci!Turns(disk, Ours(q), Gone(q), Files(q))
    [] setup.platform = "n64" -> N64!Turns(setup.layout, TypesOf(q), disk)
    [] OTHER -> Gb!Turns(disk, setup.layout, setup.cart, 0, RamOf(q), q.unit.clock)

\* The writes, each with the turn it is due in.
Writes(q) ==
  LET turns == Turns(q)
  IN UNION {{[due |-> i, path |-> w.path, data |-> w.data] : w \in turns[i]} : i \in DOMAIN turns}

RestoreBlob(q) ==
  [synced |-> [g \in Games |-> IF g = q.game THEN q.unit.saves
                               ELSE IF g = q.comp /\ CompanionRestored(q) THEN q.cunit
                               ELSE st.synced[g]],
   restored |-> IF q.mode = "managed" THEN st.restored
                ELSE [st.restored EXCEPT ![q.game] = [new |-> q.unit.saves, old |-> Mine(q)]]]

\* The saves each file holds, whatever its game, a stale one's too.
Held(d) ==
  LET at(p) == CASE setup.platform = "gci" -> IF p \in Gci!Saves(d) THEN {SaveOf(IdGame[d[p].id], d[p].id, d[p].data)} ELSE {}
                 [] setup.platform = "n64" -> N64Saves(CartGame, N64!Save(N64!InFile(p[1], d[p])))
                 [] OTHER -> IF p = "ram" THEN GbLocal(d, CartGame) ELSE {}
  IN UNION {{<<p, s>> : s \in at(p)} : p \in {r \in Path : d[r] # None}}

StaleOf(q) == IF setup.platform = "gci" THEN Gci!Stale(disk, Ours(q)) ELSE {}

\* What the user agreed to lose: the saves overwrite_local lets it replace, and
\* files the emulator refuses for another with their identity (sync.md:44).
Agreed(q) ==
  {h[2] : h \in {k \in Held(disk) : (q.overwrite /\ k[2].game \in Gone(q)) \/ k[1] \in StaleOf(q)}}

Idle == [op |-> "idle", req |-> None, todo |-> {}, agreed |-> {}, blob |-> NewBlob, read |-> None,
         placing |-> FALSE, since |-> 0]

\* Every file is read, checked and built before the first write.
Begin(q) ==
  /\ RestoreCode(q) = "OK"
  /\ call' = [op |-> "restore", req |-> q, agreed |-> IF AlreadyThere(q) THEN {} ELSE Agreed(q),
              todo |-> IF AlreadyThere(q) THEN {} ELSE Writes(q),
              blob |-> RestoreBlob(q), read |-> disk, placing |-> ~AlreadyThere(q), since |-> edits]
  /\ UNCHANGED <<setup, disk, st, library, edits, fails>>

RestoreBegin(q) ==
  /\ MayCall
  /\ calls' = calls + 1
  /\ wanted' = q
  /\ Begin(q)

\* The same restore again, the user having agreed to replace what is there.
Again == [wanted EXCEPT !.overwrite = TRUE]
MayRetry == call.op = "idle" /\ wanted # None /\ RestoreCode(Again) = "OK"

Retry ==
  /\ MayRetry
  /\ UNCHANGED <<wanted, calls>>
  /\ Begin(Again)

Write ==
  /\ \E w \in call.todo :
       /\ \A o \in call.todo : w.due <= o.due
       /\ disk' = [disk EXCEPT ![w.path] = w.data]
       /\ call' = [call EXCEPT !.todo = @ \ {w}]
  /\ UNCHANGED <<setup, st, library, wanted, edits, calls, fails>>

RestoreEnd ==
  /\ call.op = "restore" /\ call.todo = {}
  /\ st' = call.blob
  /\ call' = Idle
  /\ wanted' = None
  /\ UNCHANGED <<setup, disk, library, edits, calls, fails>>

\* A write fails, or the client dies before it stores the blob.
RestoreFails ==
  /\ call.op = "restore" /\ fails < MaxFails
  /\ call' = Idle
  /\ fails' = fails + 1
  /\ UNCHANGED <<setup, disk, st, library, wanted, edits, calls>>

\* Emulators and the user, who play while an unmanaged restore runs.  Whoever
\* plays on a half-restored save gives up the restore.
Edit(path, content) ==
  /\ edits < MaxEdits /\ (call.op = "restore" => call.req.mode = "unmanaged")
  /\ disk' = [disk EXCEPT ![path] = content]
  /\ disk' # disk
  /\ edits' = edits + 1
  /\ wanted' = None
  /\ UNCHANGED <<setup, st, library, call, calls, fails>>

(***************************************************************************)
(* The specification.                                                      *)
(***************************************************************************)
CollectRequest(g, m, k) == [game |-> g, mode |-> m, comp |-> k]

RestoreRequest(g, m, k, u, w, o) ==
  [game |-> g, mode |-> m, comp |-> k, unit |-> u, cunit |-> w, overwrite |-> o]

\* A cartridge's game lists none.
Listed(g) == (IF setup.platform = "gci" THEN Companions[g] ELSE {}) \cup {None}

\* The saves of a companion's unit, or none.
CompanionUnits(k) == {{}} \cup (IF k = None THEN {} ELSE {u.saves : u \in library[k]})

Collects == \E g \in setup.games, m \in Modes : \E k \in Listed(g) : Collect(CollectRequest(g, m, k))

\* The user agrees to overwrite only when asked to.
Restores ==
  \E g \in setup.games, m \in Modes :
    \E k \in Listed(g), u \in library[g] :
      \E w \in CompanionUnits(k) :
        LET q == RestoreRequest(g, m, k, u, w, FALSE)
        IN RestoreBegin([q EXCEPT !.overwrite = RestoreCode(q) = "CONFLICT"]) \/ RestoreBegin(q)

Init ==
  /\ setup \in Setups
  /\ disk \in {[p \in Path |-> IF p \in DOMAIN d THEN d[p] ELSE None] : d \in InitDisks[setup]}
  /\ st = NewBlob
  /\ library = [g \in Games |-> IF g \in DOMAIN ServerUnits[setup] THEN ServerUnits[setup][g] ELSE {}]
  /\ call = Idle
  /\ wanted = None
  /\ edits = 0
  /\ calls = 0
  /\ fails = 0

Next ==
  \/ Collects \/ Restores \/ Retry
  \/ Write \/ RestoreEnd \/ RestoreFails
  \/ \E e \in Edits[setup] : Edit(e[1], e[2])

Spec == Init /\ [][Next]_vars

\* A call that runs goes on, and the client tries a restore that failed again:
\* weak fairness of Retry, with MayRetry for ENABLED Retry, which TLC is slow at.
RetryFairly == []<>~MayRetry \/ []<><<Retry>>_vars

LiveSpec == Spec /\ WF_vars(Write) /\ WF_vars(RestoreEnd) /\ RetryFairly

(***************************************************************************)
(* Properties.                                                             *)
(***************************************************************************)
Passed == UNION {UNION {u.saves : u \in library[g]} : g \in Games}
Managed == call.op = "restore" /\ call.req.mode = "managed"
Undisturbed == edits = call.since

FileOK(p, file) ==
  CASE setup.platform = "gci" -> file.id \in Ids /\ p \in Path
    [] setup.platform = "n64" -> Len(file) >= N64!AllIn(p[1])
    [] OTHER -> IF p = "ram" THEN setup.cart = "mbc2" => Len(file.bytes) \in {Gb!Packed, Cells, Span}
                  ELSE file.size \in {Gb!SizeOf(f) : f \in Gb!Formats}

\* Shape of the state; every file an emulator loads has the size it expects.
TypeOK ==
  /\ setup \in Setups
  /\ DOMAIN disk = Path /\ \A p \in Path : disk[p] = None \/ FileOK(p, disk[p])
  /\ DOMAIN st = {"synced", "restored"} /\ DOMAIN st.synced = Games
  /\ \A g \in Games : \A u \in library[g] : u.saves # {} /\ \A s \in u.saves : s.game = g
  /\ call.op \in {"idle", "restore"} /\ (call.op = "restore" => wanted \in {None, call.req, [call.req EXCEPT !.overwrite = FALSE]})
  /\ edits \in 0..MaxEdits /\ calls \in 0..MaxCalls /\ fails \in 0..MaxFails

\* The disk as pairs of a place and a save, and what a managed call may lose.
Places == ({"gci"} \X Gci!Path) \cup ({"n64"} \X N64!Path) \cup ({"gb"} \X Gb!Path)
Kept == [game : Games, key : Ids \cup N64!TypeSet \cup {"ram"}, holds : Seq(Nat)]
OnDisk == {<<<<setup.platform, h[1]>>, h[2]>> : h \in Held(disk)}
GivenUp == IF Managed THEN call.agreed ELSE {}

\* sync.md "Refusals": a restore takes off the disk only saves that reached
\* RomM, unless the user agreed to overwrite them, and puts there only such
\* saves; one that stops between two files has done no more than that.
\* Managed calls: beside an unmanaged one the emulator writes as it likes.
Custody == INSTANCE SaveCustody WITH
  Places <- Places, Saves <- Kept, disk <- OnDisk, safe <- Passed, agreed <- GivenUp, busy <- Managed

CustodyKept == Custody!Spec

\* sync.md:56-57: a restore "never touches another game's save", nor those of a
\* companion it has no unit for, nor files that are no saves.  Of an N64 file
\* with more than one type it leaves what the game never used, and a 64DD disk
\* after the types (n64_save.c, plan_paks).
Belongs(p) ==
  CASE setup.platform = "gci" ->
         disk[p].data # Broken
         /\ (IdGame[disk[p].id] \in Gone(call.req) \/ p \in Gci!Stale(call.read, Ours(call.req)))
    [] setup.platform = "n64" ->
         LET kept(t) == t \notin DOMAIN N64!Local(call.read) \cup DOMAIN TypesOf(call.req)
         IN disk'[p] # None => N64!Rest(p[1], disk[p], kept) = N64!Rest(p[1], disk'[p], kept)
    [] OTHER -> TRUE

OthersStay == [][ Write => \A p \in Path : disk[p] \notin {None, disk'[p]} /\ disk[p] = call.read[p] => Belongs(p) ]_vars

\* sync_state.c:8: once a restore returned, the saves collect finds are those
\* the blob records as synced; and Dolphin, which reads the folder its own way,
\* loads every one of them (gamecube.md:67, 81).
RestoreExact ==
  [][ RestoreEnd /\ Undisturbed =>
        \A q \in {call.req} :
          /\ Mine(q)' = st'.synced[q.game]
          /\ CompanionRestored(q) => Theirs(q)' = st'.synced[q.comp]
          /\ setup.platform = "gci" /\ call.placing => Files(q) \subseteq Gci!Shows(disk, q.game) ]_vars

\* The files of an N64 game go in the order of their types: one of the first,
\* which the unit lacks, was removed, and nothing spells the names of the
\* unit's own any more (n64.md:89-92).
Unspelled ==
  /\ setup.platform = "n64" /\ ~setup.spelled /\ call.op = "idle" /\ wanted # None
  /\ Types[1] \notin {s.key : s \in wanted.unit.saves}
  /\ \A p \in Path : disk[p] = None

\* docs/sync.md:197-200: a restore the user agreed to is done in the end: one
\* that stopped half-way succeeds when it is tried again, unless the one file
\* that spelled the names went first.
RetryCompletes == wanted # None ~> wanted = None \/ Unspelled

\* docs/platforms/gb.md, "Clock formats": after a restore the emulator shows the
\* time the unit's clock shows, then and later, as far as its format can; a
\* restore without a clock leaves the one the emulator shows.
ClockKept ==
  [][ RestoreEnd /\ Undisturbed /\ call.placing /\ setup.platform = "gb" /\ setup.cart = "clock" =>
        \A clock \in {call.req.unit.clock}, now \in Times :
          LET format == Gb!TargetFormatAny(call.read, setup.layout, clock)
          IN IF clock = None
             THEN Gb!ShownClock(disk, setup.layout, now) = Gb!ShownClock(call.read, setup.layout, now)
             ELSE format # None /\ Gb!Kept(format, Gb!In(clock)) /\ now >= clock.stamp =>
                    Gb!ShownClock(disk, setup.layout, now) = Gb!Shows(Gb!In(clock), now) ]_vars

\* The clock collect sends along, whatever the format it was in, shows the time
\* the emulator shows, then and later; TGB Dual's, which stands still while the
\* game is off, goes on from the collect.
ClockRead ==
  setup.platform = "gb" /\ setup.cart = "clock" =>
    \A now, later \in Times :
      LET clock == ClockNow(now)
          shown == Gb!ShownClock(disk, setup.layout, IF clock # None /\ clock.stamp = now THEN now ELSE later)
      IN clock # None /\ later >= now =>
           shown = Gb!Shows(Gb!In(clock), IF clock.stamp = now THEN now ELSE later)

\* What holds of the folder between any two steps: types, and a clock that is
\* read as the emulator shows it (clock_gb.c:40).
FolderSound == TypeOK /\ ClockRead
=============================================================================
