# A verification of sigil's sync

sigil is a C library that identifies game images, finds where emulators keep
a game's saves, packs them into a unit, and syncs units with RomM. Nearly all
of it is stateless reading of files. What keeps state, writes the user's disk
and can lose a save is *sync*: `sigil_collect`, `sigil_restore`, and the
opaque blob the client carries between them. This project models sync on every
kind of platform, the card formats below it and the layout table above it,
checks them with TLC, and proves with TLAPS that sync loses no save it promised
to keep on volumes, in profiles, on cards and in Dolphin's folder, that a restore changes no
other game's saves there and leaves what its unit says, that no save folder of Ryujinx is wiped,
and that no file of a game's goes unnoticed by a resolve.

## The system

Paths below are in the repository; `src/` there is the library.

| Part | State it keeps | Operations | Hard because |
|---|---|---|---|
| Sync protocol (`sync.c`, `sync_state.c`, `sync_units.c`) | the blob: what each game last synced, what an unmanaged restore replaced | collect, restore | the blob outlives crashes, lost uploads and emulators' writes; it decides whether a save may be replaced |
| Volume platforms (`sync_volumes.c`: Saturn, Sega CD, Dreamcast) | blob lines per volume: owners learned, the game a volume is prepared for, unclaimed saves held, seen | the same, with managed swaps and unmanaged injection | saves carry no game id, volumes are shared, several volumes are written one by one |
| Card platforms (`sync_cards.c`, kinds for PS1, PS2, GameCube) | the cards | gather, place, write | a save may move between cards; cards are written one by one; a card may be damaged or unformatted |
| PCSX2 folder cards (`sync_folder_cards.c`) | one directory per save, a superblock | load, write, remove | a save is written file by file; PCSX2 hides saves behind a bad superblock |
| Dolphin's GCI folder (`sync_gci_folder.c`) | one file per save | gather, place, remove | names clash, Dolphin loads a folder by its own rules |
| Profile layouts (`sync_profiles.c`, `save_profiles.c`) | folders per profile, Ryujinx's save index and id counter | collect, publish, restore | index, counter and files are separate writes; areas are compared apart |
| Cartridges (`sync_n64.c`, `n64_save.c`, `sync_gb.c`, `clock_gb.c`) | files of one save in an emulator's shape | collect, restore | one save in several files; clocks convert between formats |
| Card formats (`card_*.c`) | directory and block table of a card image | list, export, inject, delete, repair | allocation on a full card, damaged chains |
| Layouts (`save_layout.c`, `save_unit.c`, `save_names.c`) | none | find a row, resolve a unit, alternates, hashes, volume targets | a table of conditional names read by five functions that must agree; the core's options may not be the client's |
| Profile roots (`save_profiles.c`) | none | open a root, list profiles, take and place files | the root may lie above, at or below the emulator's base, which may be there twice |
| Disc identification, readers, hashes | none | parse | byte layouts |
| The client (Argosy, RomM clients) | blob, uploads, holding units, claims | calls collect and restore | dies between an upload and storing the blob; follows `docs/sync.md` |
| Emulators | memory images of volumes | read and write saves at any time | write back a stale volume after a restore |

How they interact: the client calls collect and restore with the blob the last
call returned, never two at a time; sigil reads files through the client's
`open` and writes them through its `write` and `remove`; emulators share the
files and nothing else. There are no threads, timers or messages. The hard
behaviours are therefore the order of calls, what emulators do between them
(and during, unmanaged), a client that dies between any two steps, and writes
that fail half way.

What makes each part correct:

- *Protocol*: a save is taken off the disk only if it was passed on (in RomM
  or in a holding the client kept) or the user agreed; the blob never says
  more was passed on than was.
- *Volumes*: each save goes to the game that owns it and stays there; unmanaged
  restores leave every other save alone; refusals can be cleared as the
  documentation says.
- *Profiles*: a folder the save index names is never handed out again; a
  restore of one area leaves the other alone.
- *Cards*: each save goes back on its card, once; other games' saves are never
  touched; what restore wrote shows in the emulator.
- *Cartridges*: the files of one save are of one restore; a clock survives the
  conversion between formats.
- *GCI folder*: a save never takes another's file; what was restored is what
  Dolphin loads.
- *Formats*: no block belongs to two saves; a save goes in whole or not at all.
- *Layouts*: every file the row names is a member, shared, or offered with the
  options that take it; a restore writes what the next resolve reads; the
  identity compared changes when the save does and only then.
- *Roots*: wherever the client points, exactly the game's files for the profile
  are taken, and a member is put where the emulator keeps it.

## Modules

| Module | Models |
|---|---|
| `SaveCustody` | what sync promises about saves on any platform (abstract) |
| `SyncVolumes` | collect and restore on volume platforms, both modes, with emulators and crashes |
| `SyncClient` | a client that keeps to `docs/sync.md` beside `SyncVolumes` |
| `SyncProfiles` | collect and restore on profile layouts, with Ryujinx's save index |
| `SyncCards` | collect and restore on card platforms: raw cards and PCSX2 folder cards |
| `GciFolder`, `N64Save`, `GbSave`, `ClockGb` | what sigil reads and writes in Dolphin's folder, and in the files of N64 and Game Boy cartridges, with the clock's formats |
| `SyncFiles` | collect, restore and retry over any of these |
| `CardChains` | chains of blocks through a table, and the blocks a new save is given |
| `CardPs1`, `CardVmu`, `CardGamecube`, `CardPs2`, `CardSaturn`, `CardSegacd` | six card formats: what each operation makes of a card |
| `CardVolume` | a card of any of them under restores, repairs, damage and consoles |
| `CardSaves` | what sync takes a card for: saves by name (abstract) |
| `SaveLayouts`, `ProfileLayouts` | the layout table: every row that keeps files, and those that keep folders |
| `SaveUnit` | a resolve of a row of files, beside a core that writes them |
| `ProfileRoots` | a resolve of a row of folders, beside an emulator that writes them |
| `SaveResolve` | both as one resolve |
| `SyncVolumesProofs`, `SyncClientProofs`, `SyncProfilesProofs`, `SyncCardsProofs`, `SyncFilesProofs`, `SaveUnitProofs`, `CardVolumeProofs`, `CardGamecubeProofs` | the theorems |
| `MCSync`, `MCSyncClient`, `MCProfiles`, `MCCards`, `MCFiles`, `MCCardVolume`, `MCUnits` | the instances TLC checks |

`SaveCustody` is the abstract specification: a disk, a set of saves that are
*safe* (in RomM, or in a store of the client), and calls that replace saves on
the disk in several steps, each of which may be the last. `SyncVolumes`,
`SyncProfiles`, `SyncCards` and `SyncFiles` each state, as `CustodyKept`, that they
implement it, and map their own disk, library and call to it.

The four detailed modules are built alike. `st` is the blob as the client
stored it. `library` is what reached RomM. `call` is the restore under way:
its request and what it still has to write. A hash is modelled as the set of
things it covers; the code hashes sorted lists, so two hashes are equal when
the sets are. One action models one handler:

- `Collect`: all of `sigil_collect` and the client's upload and storing of the
  blob, either of which may be lost. A refused call changes nothing and has no
  action.
- `RestoreBegin`: all that `sigil_restore` does before its first write. It
  reads, checks and builds everything first, and `RestoreCode` gives the
  first refusal in the order of the code.
- one action per write: `RestoreWrite` (a volume), `WriteFile`, `RemoveFile`,
  `WriteIndex`, `WriteCounter` (profiles), `WriteImage`, `WriteSuperblock`,
  `WriteFile`, `RemoveFile` (cards), `Write` (files). A write replaces the file or leaves it, as
  the client's `write` callback is asked to.
- `RestoreEnd`: the blob's return to the client, which stores it.
- `RestoreFails`: a failed write, a failed verify, or a death between writes.
- what the emulator, the core and the user do: `Emulator...`, `Core...`. In
  managed mode they do nothing while a call runs (the client starts the game);
  in unmanaged mode they may act between any two writes, unless a run says
  `CallsAtomic`.

`SyncVolumes`: a save is an *item* (device, name, data) and a volume a set of
items. Ownership is worked out for every call as `volume_owner` does:
`WhoseSave` tries the user's claim, the learned owner, the per-game file, the
game the volume is prepared for, and the name table.

`SyncClient` adds the client's memory (`kept`, `taken`, `looked`, `fresh`):
the holding it keeps, what swaps took, and what it saw.

`SyncProfiles`: a save is the folder that a key (title and profile, or title and
the shared device slot) names through the index. Publishing writes the
counter, the files, and the index last; the emulator allocates from the same
counter, marks saves for deletion and purges them.

`SyncCards`: a save on a card is the set of its files. A raw card is written as
one image, built from the card as it was read; a folder card is brought in line
by a superblock, file writes and removals (`Steps`, in the order `Turn`
gives). `flawed` holds the cards whose check fails, or folder cards without a
usable superblock.

`SyncFiles`: the calls, the blob and the retry are the same for the three platforms;
what a restore writes, in which order, and what it refuses come from `GciFolder`,
`N64Save` and `GbSave`, which are functions of the files. `GciFolder` has the free
name a save takes, the twins and stale files a collect drops, and Dolphin's own
loading (the game's saves first, then others while a tenth of the card is free).
`N64Save` gives each save type two bytes, of which the second may be unused, so that
a partly used file, a pak's index entry and the byte order show. `ClockGb` has the
seven formats of a clock and the neutral clock between them; time is scaled (`Day`,
`LowDays`, `Word`), so that a day counter overflows and a 32-bit stamp wraps.

The card formats (`CardPs1`, `CardVmu`, `CardGamecube`, `CardPs2`, `CardSaturn`,
`CardSegacd`): a card is a record of its directory, its links and its blocks, and the code's `list`, `inject`, `delete`, `verify` and
`repair` are functions of it, one operator each. A block of a save carries whose
it is, which one and how many there are, so that reading a save back through a
wrong chain shows. A GameCube card has both copies of its directory and table, with
counters that wrap and checksums that may fail. A Saturn volume has no table: a save's
list of blocks runs on into the blocks it lists. On a Sega CD volume saves lie back to
back and their directory grows toward them. A PS2 card has a FAT, a root that grows by clusters
and a folder of its own for each save. `CardVolume` is the state machine
over them: `Place` takes the game's save off and injects the unit's on a copy,
as `clear_game` and `remove_game_saves` do, and writes it when every step went
well; `WriteRepaired` is the client writing what `sigil_card_repair` gives;
`Ps1Link`, `VmuLink`, `VmuUnwritten`, `GamecubeTorn`, `SaturnDecay`, `SegacdDecay`
and `Ps2Link` are damage (a changed link, a power cut before a chain is written, a
copy that fails its checksum, a block that no longer decodes);
`ConsoleSaves` writes the copies the console does not mount. `SavesKept` states
that all this implements `CardSaves`: only damage may change a save no one named.

`SaveLayouts` is the table as data: a row is a sequence of files, each with its
folder, its variables, the options it applies under, its role, device and region.
`SaveUnit` reads it as `save_unit.c` does: `Members`, `Unkeyed`, `Expected`,
`Alternates`, `IdentityHash`, `Targets`. Its state is a request, the options the
client sends, and the files on the disk, which the core writes under options of its
own (`Settings`). MD5 is modelled as the thing it is of.

`ProfileRoots` does the same for rows of folders: paths are sequences of segments, `walk`
binds a template's variables to them, `Located` finds the base above or below the root,
`Listed` the profiles, `area_of` the files of the game, `sigil_profile_place` where a member
goes. Paths on the modelled disk are whole; the client's listing is what lies below its
root. The emulator saves for two games, each profile, and under each base there is.

## Runs

| Run | Shows |
|---|---|
| `SyncUnmanaged` | unmanaged restores for a game and its companion, a core that writes its old volume back, emulators writing between sigil's read and write: other saves stay, no reverted save is uploaded, restored saves are what the blob says |
| `SyncSplit` | a game with an own volume and a shared cart, damaged volumes, a stop between two writes: what a restore still has to write stays sound |
| `SyncClient` | managed swaps on one volume two games share, by a documented client with claims, lost uploads and failed writes: the blob says no more than was passed on, `SaveCustody` holds, a save changes owner only when told so, collecting every game clears UNCOLLECTED, `unowned_changed` counts what is new |
| `ProfilesIndexed` | Ryujinx's index: no folder is handed out twice or wiped, whatever write fails |
| `ProfilesFixed` | two profiles and a device save, both modes, units of one area and of both, an optional folder (extdata) the units leave out: what the restore is not for stays |
| `CardsShared` | two games and a companion on a raw card and a folder card, both modes, with repair, damage and corrupt saves |
| `CardFormats` | a card of each of six formats that fills up: restores change one save, leak no block or slot and go through while there is room; a repair brings back what was written; either copy of a GameCube card serves |
| `SyncFiles` | a GCI folder with a companion, twins and files that are no saves, an N64 cartridge in its three forms, Game Boy cartridges in seven emulators: nothing is lost, a restore that failed half-way is done when it is tried again, a clock survives every conversion |
| `SaveUnit` | one request for each row of the table: what a resolve takes, offers, expects, hashes and targets agrees whatever options the client sends; for rows of folders, wherever the client points exactly the game's files are taken and members go where the emulator keeps them |

and three runs whose property the code does not keep:

| Run | Disagreement |
|---|---|
| `SyncLatestHolding` | a client that keeps the latest holding per volume, as documented, loses unclaimed saves an earlier swap took |
| `ProfilesLost` | a collect that asks for the restore again records the areas as synced; a later restore replaces a save that never reached RomM, without CONFLICT |
| `CardsRepair` | restore with `repair` leaves a folder card's superblock unusable when its saves are already there |

Five more configurations, not among the runs of PROJECT.json, each show one disagreement described at
the end, on the module and with the property the passing run has:

| Configuration | Module | Violates | Shows |
|---|---|---|---|
| `MCSyncRefused.cfg` | `MCSyncClient` | `UncollectedClears` | *Refusal that no collect clears* |
| `MCSyncUntouched.cfg` | `MCSync` | `RestoreExact` | *Companion on an untouched volume* |
| `MCCardsCopied.cfg` | `MCCards` | `CustodyKept` | *Save on two cards* |
| `MCCardCrossed.cfg` | `MCCardVolume` | `SavesKept` | *PS2 chains freed whole* |
| `MCFilesNamed.cfg` | `MCFiles` | `RestoreExact` | *One path for two saves* |

### Bounds

Volumes: two games, one or two volumes of capacity two, three names (one
learned, one in the name table, one nobody's), two contents per save.
Profiles: one title, two profiles and a device save, two contents, four folder
ids (one of them an orphan, so that a restore of two areas, the emulator and
the orphan compete). Cards: two games, three saves, two files per save, two
cards of capacity two, of which the first may be missing, erased or formatted
and the second is a folder card.

Card formats: three names, saves of one to three blocks, one content without a CRC and
one game file. PS1, VMU and GameCube cards have four data blocks and three slots, GameCube
counters four values started next to both wraps; a Saturn volume has six blocks of two words, so
that a list of blocks runs on into a block it lists; a Sega CD volume six, so that saves and
directory meet at an even and at an odd count; a PS2 card twelve clusters, so that the root grows
and a chain of each kind fails for space. Each holds two saves and refuses a third, which takes
a shared or leaked block, a second slot and a longer chain; `MaxDamage` is 1
and `MaxSteps` 5 (damage, a repair and three saves). `MaxDamage` 2 with
`MaxSteps` 4 and 1 with 6 were checked too for PS1, VMU and GameCube.

Files: three titles of which one is the game, one a companion and one neither; one edit, two calls, one
write that fails. The disks they start from (`MCDisks`) hold what an emulator leaves
there: a save under another's name, two files of one save, a file that is no save, partly
used N64 files, clocks in each format. So the interesting order of steps (edit, restore that fails,
retry) starts from each of them.

Layouts: one request for each row of the table, with and without an identification, a region
and a clock where a row tells them apart (`MCRequests`); two or three files on the disk
at a time, since an alternate, its file and the one taken, or a clock and two members, are what a
property compares; at most two options sent; one port of several that differ in a digit
only, one controller pak for Project64's four. Keys stand without the prefix of their core.

Folders: one request for each kind of row with profiles, a second title that differs in what the
row matches on (id, category, a name that begins the same), two profiles where there are any,
two or three files; two copies of the base for PPSSPP, Vita3K and Azahar, one for the other
rows, whose find_above is the same code. Roots are every folder on the way to a file of the
game's, with the root's own path sent or not. A client that does not send it points at a base or
above. No folder above the base is named like the row's own top folder: see the disagreements.

`MaxEdits` (2 or 3) and `MaxCalls` (3 or 4) bound what emulators and the client
do. A loss takes a save written, a call that records it, a call for another
game or area, and a restore: three or four calls with two edits, and every
refusal, both modes and every rule of ownership occur within them. Each run's
mutants in PROJECT.json confirm it: the altered code is caught under the same
bounds. `CHECK_DEADLOCK FALSE` everywhere: after `MaxCalls` and
`MaxEdits` nothing is left to do.

Constants keep apart what the passing runs check and what a disagreement needs: in `CardsShared` no
save comes to be on two cards (`Copied` is FALSE, TRUE in `MCCardsCopied.cfg`); in `CardFormats` a PS2 file's
last link breaks off but does not lead on (`Crossed` is FALSE, TRUE in `MCCardCrossed.cfg`); no name in the
`IdName` of `SyncFiles` is another's with a 0 after it (`MCIdNameNamed` in `MCFilesNamed.cfg`). `SyncClient` and
`SyncUnmanaged` have one volume; `MCSyncRefused.cfg` and `MCSyncUntouched.cfg` have two.

### Fairness

Sigil is a library with no scheduler: a call runs until it returns or the process dies,
and no caller has to make another. So most of what must eventually be possible is stated as
safety (`UncollectedClears`: after collecting every game no restore is refused).

`SyncFiles` alone has a liveness property, `RetryCompletes`: a restore the user agreed to is done in
the end, though a write of it failed, unless the last file that spelled the names went before it failed
(`Unspelled`, of N64 files; see *N64 saves retried for ever*). `LiveSpec` assumes what that takes and no more: weak fairness of `Write`
and `RestoreEnd`, since a call that runs goes on by itself, and of `Retry` (as
`RetryFairly`), since `docs/sync.md:197-200` tells the client to call again. Nothing
is assumed of emulators, of collects, or of new restores, and writes may fail up to `MaxFails`
times.

## What is proved

Every theorem holds for any number of games, volumes, cards, names, titles, folders,
calls and edits, under the named assumptions of the modules, which TLC evaluates in every run:
types of the constants; units that are sets of distinct saves of their own game (`UnitsDistinct`,
`UnitsSound`, `FolderSetups`); what a volume, folder or card starts with is what one holds
(`VolumesHold`, `FoldersHold`, `WritableSound`, `FoldersThere`); a game is no companion of its own
(`NoSelfCompanion`, `sigil.h:600`); the layout with its settings says for all games or for none
whether they have cards of their own (`OwnAlike`, `sync_cards.c:94-95`); an emulator that never handed
an id out twice (`InitAllocated`); an identity carries its game (`IdsSound`); and `None` is no save (`NoneApart`).

A theorem that needs more says so in its statement. These hypotheses stand for what the
disagreements below show, or for what the documentation asks of the client:

| Hypothesis | Theorems | Without it |
|---|---|---|
| `CallsAtomic` | custody of volumes | an emulator may write between sigil's read and its write |
| `Managed` (no unmanaged calls) | custody of profiles | the run `ProfilesLost` |
| `Optional = {}` | `ConflictsAreChanges` | *Extdata conflict* |
| `Alike`, `OnlyManaged` | `CollectingClears` | *Refusal that no collect clears*; an unmanaged restore needs a collect of its own |
| `~Copied` | all of `SyncCardsProofs` | *Save on two cards* |
| `OnFolder` (the setup is Dolphin's) | all of `SyncFilesProofs` | cartridges: left to the checks |

### Volumes (`SyncVolumesProofs`)

`TypeCorrect`, `BlobTrue` and `CallStaysSound` are `[]TypeOK`, `[]BlobPassedOn` and `[]CallSound`, the
parts of the inductive invariant `IInv`. `BlobPassedOn` is not inductive alone, since the blob a restore
will return is computed before its writes; `CallSound` says that this blob
will be true, and that every item a pending write takes off its volume is safe
or agreed. Its heart is the lemma about `Swappable`: what a managed swap drops
from a volume is some game's whole `synced` set or in the held unit.
`CustodyHolds`, the refinement of `SaveCustody`, then follows step by step: each write is a
`Replace`, each collect a `PassOn`.

The other properties of a restore need to know what it is about to write and record.
`PlacedInv` adds that to `IInv`: the owners the blob will name follow from the request
and the stored blob (`OwnersComing`), and what an unmanaged call has yet to write keeps every
other game's item it read (`UnmanagedPlaced`). From it (`RestorePlanned`) follow `OwnersMove`
(`OwnerMoves`), `RevertsNotUploaded` (`NoRevertUpload`) and `UnmanagedReplacesItsOwn`
(`UnmanagedKeepsOthers`), whatever emulators write meanwhile.

### The client (`SyncClientProofs`)

The documented client only narrows `SyncVolumes` down, by definition (the lemma `ClientIsClient`),
so all of the above holds of it (`ClientKeepsCustody`). `UnownedRemembered` (`UnownedMemory`) rests on
`MemoryInv`: an item the client saw at the last collect of a volume is one the blob lists as
unclaimed or has an owner for, and the blob of a restore under way forgets neither. `CollectingClears` (`UncollectedClears`) rests on `FreshInv`: a game that
is *fresh*, collected since anyone wrote, finds on its volumes exactly the items learned as its
own, and those are its `synced` set.

### Profiles (`SyncProfilesProofs`)

`ProfilesTyped`, `IndexStaysSound` (no save of the index lies past the counter, no
two share a folder) and `NoSaveWiped` (`NeverWiped`). The invariant is `TypeOK /\ IndexSound`, where
`IndexSound` also covers the index a restore is about to write: the counter it wrote first is past every
new id. It rests on `HighestIdSound`, that the highest of counter, index and folders is not below any of them.

Of restores, `RInv` adds `DiskSound` (a folder holds a file of a name once) and
`CallPlaced`: from the checks to the last write every file in the folder of an area is the unit's, is to be
kept, or is still to be replaced or removed. When nothing is left to write, that is `RestoreIsExact`; as
each write is of a file of an area the unit carries, it also gives `OthersAreKept`.

Of the state blob, `LInv` adds `LeftTrue`, that what the blob records of an area is what the last
call that covered it left there, hence `ConflictsAreChanges`. `CInv` adds that what the blob records reached
RomM and so did what a restore has left to replace, or the user gave it up, hence `ProfilesCustodyHolds`.
`RecordsPassed` alone is not inductive: a collect that is told to restore again records an area it does
not upload (`sync_profiles.c:110`). Without unmanaged calls nothing is ever to be restored again.

### Cards (`SyncCardsProofs`)

The invariant is `IInv /\ Progress`. `OneEach` in it says that a save is on one of its game's
cards, counting where a restore under way will put it: stated of the cards alone it is not
inductive, as the next write might put a save a second time. With it the conflict check sees every save a
restore replaces (`ReplacedCovered`). `Progress` says of each file of a card, from what is left to
write, how far the card is from what it will be: unless its image is still to be written, a part
the plan has no use for has a step left that takes its file away or writes it over, a part that is to come has
a step that puts it, and a card with a flaw has a step that mends it. It is claimed only while nothing disturbed the
restore. So: `OneCardEach` (`CardsSound`),
`CardsCustodyHolds` (`CustodyKept`), `OthersAreLeft` (`OthersStay`), `RestoreLeavesTheUnit`
(`RestoreExact`), `SavesArePutBack` (`PutBack`) and `WrittenIsShown` (`WrittenShows`).

### Dolphin's folder (`SyncFilesProofs`)

A file is found by its identity whatever it is called, the first of two by name, so the theorems start
from `FirstThere`: a set of names has a first one. `LocalIs` says that what a call finds are the
saves in those first files, `Covered` that each of these the restore replaces is recorded as synced, comes again or is
given up, and `WritesSound` that every write goes to such a file, a stale one, or a path without a
file. The invariant `IInv` keeps that of what is left to write (`WriteSound`, of the files as they were
read), and that a managed restore's folder holds what it read, what it wrote, or nothing. Hence
`FolderTypesHold` (`FolderSound`), `FolderCustodyHolds` (`CustodyKept`, also for restores that are
tried again) and `OtherFilesStay` (`OthersStay`). TLC checked `IInv` over the folder's setups first.

### Layouts (`SaveUnitProofs`)

`FilesAreSound` is `ResolveSpec => []FilesSound`, for any requests, files, options and values. It
rests on the assumption `TableKeeps`, which says of the rows what the code does not check and the
table only happens to keep: a file's folder is one the client lists, no
file has an option twice, no option that selects a file is also in a name, a
file and a folder never have one name, a device's own file and its shared ones never apply
together, and a default of the catalog is what an absent option stands for. TLC evaluates it on the whole
table (and refuted a first, stronger version).

- `FilesAreAccounted`: `With(options, AlternateOptions(options, file))` satisfies
  every condition of the file (`AdoptedApplies`) and leaves its name as it is (`AdoptedNames`), so
  the row's first entry with a listed name is an alternate that can be taken up whenever no entry that applies has it.
- `TargetServes`: `FirstOf` of the row's own files, else of the shared ones the region allows, is a
  file that applies, so once it is written it is a member or shared in the next resolve, and is chosen again.
- `DefaultsAgree`: sending a default decides each condition as sending nothing does.

### Card formats (`CardVolumeProofs`, `CardGamecubeProofs`)

`SavesKept` says that a card under restores, repairs and damage implements `CardSaves`: saves by
name, where each step puts or takes off one save, and damage may take some but never changes one.
It is proved for the Sega CD cart (`SegacdKeepsSaves`), the PS1 card (`Ps1KeepsSaves`) and the GameCube
card (`GamecubeKeepsSaves`), with `PlacesServe` (`SegacdPlacesServe`, `Ps1PlacesServe`, `GamecubePlacesServe`) and
`BlocksAccounted` (`SegacdAccounts`, `Ps1Accounts`, `GamecubeAccounts`),
for any number of blocks, slots and units and any damage. The theorems assume that a unit has
a name and at least one block (`UnitsAreSaves`), as the code refuses others
(`unit_blocks`, `gci_blocks`).

*Sega CD* (`SegInv`). Saves lie one after another from block 1, directory blocks come down from the other end.
`SegCard` bounds every entry the code reads, also on a damaged cart; where the entries are in order
(`InOrder`), names differ. A delete moves every later save down by the same gap, so each is read from
blocks that moved with it; a damaged cart out of order is neither written nor taken from (`SegIdle`).

*PS1* (`Ps1Inv`). Names of first frames differ, and on an undamaged card every save is
whole and every block is free or one's (`Ps1Whole`). On a damaged card links may be any. The chain
lemmas (`ChainIsPath`, `PathIsChain`, `PathStays`, `PathKept`) say that what `Chain` computes is a path without repetition,
is the only one from its first block, and stays in any set the links do not leave.
From them: a delete frees only blocks no listed save
has (`Ps1Deletes`), and a save put on free blocks leaves every listed save its blocks, unless a broken
chain ran into just these blocks; then the listing hides the new save and shows no other
differently (`Ps1Injects`). `BlocksAccounted` is a bijection from the blocks of the saves shown to
the blocks that are not free (`PlacesHeld`, `Ps1Holding`).

*GameCube*. The directory and the block table are kept twice, and two invariants say two things of the copies.
After a restore both pass their checksums and hold the same map (`Twins`, in `GcInv`), so any
copy that mounts is the same directory and table: `EitherCopyServes` (`CopiesServe`). Whatever power cuts
tore and consoles wrote, each copy still holds a directory whose names differ, and a table (`GcPair`, in `GcCards`), so what is
mounted after a copy is lost is one that was written whole. On a card without damage every entry is
listed and every block is free or in a listed save's chain (`GcWhole`). Names must differ besides,
as a save is found, listed and taken off by its name.
A delete frees the blocks of its save and no other (`GcRemoves`, `GcTakes`), since listed saves share none. A save
put on free blocks leaves every listed save its blocks, unless a broken chain ends in them: then the new
save is hidden and nothing else changes (`ChainsWritten`, `GcGains`). A console's save writes the older copies,
which are mounted from then on (`GcConsole`); the copies then differ until sigil writes both again. A repair writes
the copy that passes over the one that fails, which changes nothing mounted (`GcMends`). Hence `GamecubeKeepsSaves`; the other two
theorems are about `GcWhole` cards: a save written is the only one of its name and its chain, so
it is found again by both (`GcVerifies`), and blocks not free pair off with places in saves (`GcHolding`).

*Repairs*. `RepairsSettle` (`RepairSettles`, for every format but the VMU): a GameCube repair leaves both copies
passing, and the other formats have none.

### Only model-checked

- `RestoreExact` and `CompanionsStay` of `SyncVolumes`: false beyond the checked instances (*Two
  writers*, *Companion on an untouched volume*), and the hypotheses that make them true were not worked out.
- `SyncFiles` for N64 and Game Boy cartridges, whose saves are converted by functions over
  sequences of bytes (folds and remainders); `RestoreExact` of Dolphin's folder, where `Loaded`
  is a recursive function and *One path for two saves* is to be kept out; `ClockKept`.
- `SavesKept`, `PlacesServe` and `BlocksAccounted` of the VMU, the PS2 card and the Saturn
  volume, and `RepairSettles` of the VMU, whose repair goes from save to save.
- `IdentityOfState` of `SaveUnit`, and `ProfileRoots`, whose paths are folds over sequences.
- `RetryCompletes`, which is liveness. Nothing about ENABLED is stated.

## Disagreements met while modelling

Besides the three runs above, whose lines of code and quotes are in PROJECT.json, TLC showed these on instances of the same modules;
where a configuration is kept for one, it is named.

- *Retry refused.* After `restore_again`, restoring the same unit without
  `overwrite_local` is refused with CONFLICT (`sync.c:221`): the blob already
  calls the unit synced. `docs/quickstart-guides/c.md:397-398` says "Restore
  again instead of uploading."
- *Refusal that no collect clears.* A game with saves on a volume of its own and
  on a shared cart never matches `synced` on the cart alone (`sync_volumes.c:292`),
  so another game's restore stays UNCOLLECTED; `docs/sync.md:109-111` says
  to collect and restore again (`MCSyncRefused.cfg`).
- *First collect after a restore* to a volume no collect saw counts its unclaimed
  saves as changed (`sync_volumes.c:427`, against `docs/sync.md:89-90`).
- *Companion on an untouched volume.* An unmanaged restore leaves a companion's
  old save on a volume that receives nothing (`sync_volumes.c:372`), while
  `synced` of the companion is the restored unit, against the comment at `sync.c:253`
  (`MCSyncUntouched.cfg`).
- *Companion known by the name table alone* falls to the game a volume is prepared
  for after a managed restore (`sync_volumes.c:423`, against `docs/sync.md:173-175`).
- *Two writers.* A core that saves between sigil's read of a volume and its write
  loses the save in unmanaged mode (`sync_volumes.c:384`).
  `UnmanagedKeepsOthers` states what does hold.
- *Companion reverted.* `collect_companions` (`sync.c:69`) does not look at the
  `restored` line: saves a core wrote back over a companion's own restore are
  uploaded over the newer unit. `NoRevertUpload` is stated of games no call
  lists as companions.
- *Areas, asked again for ever.* After an unmanaged restore of one area that is
  already there, beside a save of the other area, each collect sets
  `restore_again` (`sync_profiles.c:372`).
- *Unread saves written over.* The blocks of a VMU save whose chain was never
  written are free in the table, and `choose_blocks` (`card_dreamcast.c:467`)
  gives them to the next save; `docs/sync.md:140-141` says "sigil never writes over
  saves it can't read". When that save leaves the blocks again, `sigil_dreamcast_card_repair`
  finds a CRC that checks there and gives the first save's name to the other's bytes
  (`vmu_damage`, against `docs/sync.md:143-144`). TLC needs three steps: the power cut, a
  restore, and the restored save moving elsewhere. `RepairSettles` claims nothing
  of a card a save went on since (`touched`).
- *Captured blocks.* A damaged chain's dangling link can reach blocks that a later save is
  given: inject and verify pass, and the listing then leaves out both. GameCube's kind refuses this
  with `SIGIL_ERR_IO` since it looks for the save in the listing (`sync_kind_gamecube.c:115`).
- *Extdata conflict.* A unit without extdata is refused with CONFLICT though
  nothing changed (`sync_profiles.c:307`, against `docs/platforms/3ds.md:84`).

- *A root named like the base's top folder.* `find_top` (`save_profiles.c:185`) takes the last
  segment of the root's path with the name of the row's top folder for the base's own, so a root
  above the base that is called so (RetroArch sorting saves by content folder:
  `saves/PSP`, with the base's `PSP/SAVEDATA` in it) counts as lying inside: nothing is collected,
  and a restore writes outside the base. `docs/save-units.md:231-236` says "The root may
  sit anywhere around the emulator's base folder". TLC violates `PlacesServe` with such a base.
- *Save on two cards.* Of a save copied to a second card only the first copy is collected and
  compared (`sync_cards.c:178`), while `clear_game` takes both off (`sync_units.c:331`): a change of the
  second is lost without CONFLICT, against `docs/sync.md:185` (`MCCardsCopied.cfg`).
- *N64 saves retried for ever.* With a file per type and no spelled names, a folder with `.eep`
  only, and a unit with another type only: the `.eep` goes first, the new file then
  has no name to take, and every retry is refused with NO_TARGET (`sync_n64.c:345`, `:250`;
  `docs/sync.md:197-200`). `SyncFiles` meets this case: it is the one `RetryCompletes` lets be (`Unspelled`).
- *One path for two saves.* A GCI save whose first name is taken, if only by a broken file, is given a 0,
  and the unit's next save may be called so already: both get the same path (`sync_gci_folder.c:108`), the second is
  written over the first and the restore succeeds, against `docs/sync.md:3-4` (`MCFilesNamed.cfg`).
- *PS2 chains freed whole.* `claim_chain` (`card_ps2.c:205`) counts the clusters a chain needs,
  `sigil_ps2_delete` (`:794`) frees all the chain links to, against the comment at `:239`: a link
  past the end into another save takes that save's clusters (`MCCardCrossed.cfg`).
- *Saturn blocks listed again.* A corrupt save whose list runs into blocks another save took shows
  again once that one is deleted (`card_saturn.c:398`). `SaturnDecay` makes no such list.
- *A clock alone.* A unit of an rtc file only has that file's hash for identity
  (`save_unit.c:540`), though `docs/save-units.md:71-72` says the identity is as if clocks were absent.
- *MemoryCardSize.* Dolphin's absent option lets files of every size apply (`save_layout.c:176-178`),
  while the catalog's default value is `-1`. `DefaultsAgree` leaves it out.
- *A file listed twice.* flycast's row names a game's VMU by its product number and by its stem; where these are equal
  a unit holds the file twice.
- *Big folders.* A unit is cut at 64 members without an error (`save_unit.c:350`), where
  `docs/save-units.md` takes the whole folder.
- *Retried clock.* A Game Boy restore whose RAM is written and whose clock is not is
  AlreadyThere when tried again (`sync_gb.c:395`): the old clock stays. `ClockKept` speaks of
  restores that wrote.

## Plan

In order of what can lose a save:

1. *Files beside a card* in `SyncCards`: the PARAM.SFO of a signed PSP card, which a
   retry does not complete; a game with two cards of its own; alternatives and AMBIGUOUS.
2. *PS2 folder cards*: packing a folder into a card and back (`card_ps2.c`), `_pcsx2_index`.
3. *Storage forms*: gzip, byte-expanded and headered volumes (Saturn, Sega CD), `.gci`, `.mcs`,
   `.dci` conversions.
4. *Readers*: block offsets of CSO and raw CD, if they earn it.

Theorems to add: the VMU, the PS2 card and the Saturn volume, on the chain lemmas of `CardVolumeProofs` and
`CardGamecubeProofs`; types
and custody of Game Boy and N64 cartridges; that a restore into Dolphin's folder leaves its unit, where no
two saves get one path; `IdentityOfState`.

## Left out

- Units and zips: packing, hashing, the hardcore marker. A unit is its saves.
- In the sync modules a volume or card is a set of named saves with a
  capacity, as `list`, `inject` and `image` of the kinds make it, and the
  verify after a write succeeds or the call fails. `CardVolume` shows for six formats
  that a card without damage is one; on a damaged card it shows what a restore may change.
- In the card formats: `.gme` and `.vmp` wrappers, conversion between save files,
  `sigil_gamecube_bind_serial` beyond finding the save, `sigil_dreamcast_format_like`, icons
  and dates, damage to a GameCube card other than a copy that fails, error
  correction on a Sega CD volume (a block decodes or not), PS2 indirect tables (one FAT).
- In `SaveUnit`: how the identification finds an id, a region or a hash (each is there or not), the limits
  of 64 members and 16 shared files, artifact names. In `ProfileRoots`: read errors, limits of lengths,
  the names of profiles, more than four candidate bases, Ryujinx's index (in `SyncProfiles`).
- In `SyncProfiles`: ignored and rebuilt members and older unit names, which
  `ProfileRoots` has.
- In `SyncFiles`: Dolphin's regions beyond one, sizes of real saves and clocks.
- In `SyncCards`: folders that cannot be packed, GameCube regions, and item 1 of the plan. A folder
  card's index `_pcsx2_index` is no part of `FolderCards`: it orders entries and carries their times. Damage to
  it refuses a call without `repair` before anything is written (`sync_folder_cards.c:106-120`) and is read past with
  it; no property depends on either.
- Hazards of PROJECT.json without a property, each with its reason there: a client that stores the blob
  though its uploads failed (in the model it stores only what it uploaded, as `c.md:272` asks), Saturn
  blocks listed again, the files beside a signed PSP card, and the clock a retried Game Boy restore leaves.
- Disc identification, readers, hashes, bindings: stateless; the reasons are in
  PROJECT.json beside each component.
