------------------------------ MODULE CardVolume ------------------------------
(***************************************************************************)
(* One memory card or backup volume of one of six formats under what sigil *)
(* does to it: a restore takes a game's save off and injects the unit's,   *)
(* on a copy it writes when every step went well                           *)
(* (src/src/sync_volumes.c, sync_cards.c); a card with damage is repaired  *)
(* (card.c) and written back by the client; consoles and emulators write   *)
(* the card in between, and lose power while they do.                      *)
(***************************************************************************)
EXTENDS Naturals, FiniteSets, Sequences, Functions

CONSTANTS
  Formats,       \* out of FormatNames
  Blocks,        \* data blocks of a PS1, VMU or GameCube card
  SaturnBlocks,  \* blocks of a Saturn volume past the reserved ones
  BlockWords,    \* words of a Saturn block
  SegacdBlocks,  \* blocks of a Sega CD volume between the first and the format block
  Clusters,      \* clusters of a PS2 card
  Slots,         \* directory slots, where they are not the blocks
  Counters,      \* values of a GameCube card's update counters
  FirstCount,    \* what the counters may start at
  Names,         \* names of saves
  Summed,        \* contents a VMS header holds a CRC of, or a Sega CD flag protects
  Units,         \* saves a client restores or a console writes
  Crossed,       \* may a damaged link lead past a PS2 file's end into another save?
  MaxDamage,     \* bound: how often the card is damaged
  MaxSteps,      \* bound: writes of the card
  None           \* no name, no content

FormatNames == {"ps1", "vmu", "gamecube", "saturn", "segacd", "ps2"}

ASSUME UnitsAreSaves ==
  \A u \in Units :
    /\ u.name \in Names \ {None} /\ u.type \in {"data", "game"}
    /\ u.file # <<>>
    /\ u.file \in Seq([of : {u.file[1].of}, at : 1..Blocks, len : {Len(u.file)}])
    /\ \A i \in 1..Len(u.file) : u.file[i].at = i

ASSUME BoundsSound ==
  /\ Formats \subseteq FormatNames
  /\ {Blocks, SaturnBlocks, SegacdBlocks, Clusters, Slots, Counters} \subseteq Nat \ {0}
  /\ BlockWords \in Nat \ {0, 1}
  /\ FirstCount \subseteq 0..(Counters - 1)

ASSUME CrossedIsFlag == Crossed \in BOOLEAN

VARIABLES
  format,   \* the card's format
  card,     \* the card's image
  shown,    \* the listing of the card: each save's content by its name
  wrote,    \* what was last written for each name, listed or not
  damage,   \* how often the card was damaged, up to MaxDamage
  touched,  \* a save went on the card since it was damaged
  ours,     \* a restore was the last to write the card
  steps     \* writes of the card, up to MaxSteps

vars == <<format, card, shown, wrote, damage, touched, ours, steps>>

Ps1 == INSTANCE CardPs1
Vmu == INSTANCE CardVmu
Gamecube == INSTANCE CardGamecube
Saturn == INSTANCE CardSaturn WITH Blocks <- SaturnBlocks, Words <- BlockWords, Fields <- 1
Segacd == INSTANCE CardSegacd WITH Blocks <- SegacdBlocks
Ps2 == INSTANCE CardPs2

(***************************************************************************)
(* The operations a card kind has, by format (sync_kind_sony.c,            *)
(* sync_kind_sega.c, sync_kind_gamecube.c).                                *)
(***************************************************************************)
List(v) ==
  CASE format = "ps1" -> Ps1!List(v)
    [] format = "vmu" -> Vmu!List(v)
    [] format = "gamecube" -> Gamecube!List(v)
    [] format = "saturn" -> Saturn!List(v)
    [] format = "segacd" -> Segacd!List(v)
    [] OTHER -> Ps2!List(v)
Corrupt(v) ==
  CASE format = "ps1" -> Ps1!Corrupt(v)
    [] format = "vmu" -> Vmu!Corrupt(v)
    [] format = "gamecube" -> Gamecube!Corrupt(v)
    [] format = "saturn" -> Saturn!Corrupt(v)
    [] format = "segacd" -> Segacd!Corrupt(v)
    [] OTHER -> Ps2!Corrupt(v)
FreeBlocks(v) ==
  CASE format = "ps1" -> Cardinality(Ps1!FreeBlocks(v))
    [] format = "vmu" -> Cardinality(Vmu!FreeBlocks(v))
    [] format = "gamecube" -> Cardinality(Gamecube!FreeBlocks(v))
    [] format = "saturn" -> Cardinality(Saturn!FreeBlocks(v))
    [] format = "segacd" -> Segacd!FreeBlocks(v)
    [] OTHER -> Cardinality(Ps2!FreeBlocks(v))
FreeSlots(v) ==
  CASE format = "ps1" -> Ps1!FreeSlots(v)
    [] format = "vmu" -> Vmu!FreeSlots(v)
    [] format = "gamecube" -> Gamecube!FreeSlots(v)
    [] format = "saturn" -> Saturn!FreeSlots(v)
    [] format = "segacd" -> Segacd!FreeSlots(v)
    [] OTHER -> Ps2!FreeSlots(v)
Remove(v, first) ==
  CASE format = "ps1" -> Ps1!Delete(v, first)
    [] format = "vmu" -> Vmu!Delete(v, first)
    [] format = "gamecube" -> Gamecube!Delete(v, first)
    [] format = "saturn" -> Saturn!Delete(v, first)
    [] format = "segacd" -> Segacd!Delete(v, first)
    [] OTHER -> Ps2!Delete(v, first)
Inject(v, u) ==
  CASE format = "ps1" -> Ps1!Inject(v, u)
    [] format = "vmu" -> Vmu!Inject(v, u)
    [] format = "gamecube" -> Gamecube!Inject(v, u)
    [] format = "saturn" -> Saturn!Inject(v, u)
    [] format = "segacd" -> Segacd!Inject(v, u)
    [] OTHER -> Ps2!Inject(v, u)
Verify(v, u) ==
  CASE format = "ps1" -> Ps1!Verify(v, u)
    [] format = "vmu" -> Vmu!Verify(v, u)
    [] format = "gamecube" -> Gamecube!Verify(v, u)
    [] format = "saturn" -> Saturn!Verify(v, u)
    [] format = "segacd" -> Segacd!Verify(v, u)
    [] OTHER -> Ps2!Verify(v, u)

\* GameCube's kind finds the save again to bind it to the card's serial.
InjectCode(v, u) ==
  CASE format = "ps1" -> Ps1!InjectCode(v, u)
    [] format = "vmu" -> Vmu!InjectCode(v, u)
    [] format = "saturn" -> Saturn!InjectCode(v, u)
    [] format = "segacd" -> Segacd!InjectCode(v, u)
    [] format = "ps2" -> Ps2!InjectCode(v, u)
    [] OTHER ->
         IF Gamecube!InjectCode(v, u) = "OK" /\ ~Gamecube!Bound(Gamecube!Inject(v, u), u) THEN "IO"
         ELSE Gamecube!InjectCode(v, u)

\* Only these two are repaired; damage to the others is only reported.
Repair(v) == CASE format = "vmu" -> Vmu!Repair(v) [] format = "gamecube" -> Gamecube!Repair(v) [] OTHER -> v

\* The blocks a save takes on this card, for blocks_short (sync_units.c:641).
Cost(v, u) ==
  CASE format = "saturn" -> Saturn!Cost(u)
    [] format = "segacd" -> Segacd!Cost(v, u)
    [] format = "ps2" -> Ps2!Cost(v, u)
    [] OTHER -> Len(u.file)

(***************************************************************************)
(* A restore, on a copy of the card.                                       *)
(***************************************************************************)
Named(v, n) == {e \in List(v) : e.name = n}

\* The game's saves come off, the listing read again after each.
Cleared(v, n) == IF Named(v, n) = {} THEN v ELSE Remove(v, (CHOOSE e \in Named(v, n) : TRUE).first)
Fitting(u) == u.type = "data" \/ format = "vmu"

\* A corrupt save of the game's own refuses the restore (sync_units.c:290),
\* and so does one without a name (sync_volumes.c:126) or one that will not
\* come off; empty is the card without the game's saves.
PlaceCode(v, empty, u) ==
  IF {u.name, None} \cap Corrupt(v) # {} THEN "DAMAGED"
  ELSE IF Named(empty, u.name) # {} THEN "UNSUPPORTED"
  ELSE InjectCode(empty, u)

Showing(list) == [n \in {e.name : e \in list} |-> (CHOOSE e \in list : e.name = n).file]

May == steps < MaxSteps
Step(v, list) == card' = v /\ shown' = Showing(list) /\ steps' = steps + 1 /\ UNCHANGED format
Wrote(u) == wrote' = [wrote EXCEPT ![u.name] = u.file]

Place ==
  /\ May
  /\ \E u \in {w \in Units : Fitting(w)} : \E empty \in {Cleared(card, u.name)} :
       /\ PlaceCode(card, empty, u) = "OK"
       /\ \E v \in {Inject(empty, u)} : Step(v, List(v))
       /\ Wrote(u)
  /\ touched' = (damage > 0) /\ ours' = TRUE
  /\ UNCHANGED damage

\* A unit that no longer has the save.
TakeOff ==
  /\ May
  /\ \E empty \in {Cleared(card, n) : n \in Names} : empty # card /\ Step(empty, List(empty))
  /\ ours' = TRUE
  /\ UNCHANGED <<wrote, damage, touched>>

\* The client writes back the image sigil_card_repair gives.
WriteRepaired ==
  /\ May /\ Repair(card) # card
  /\ \E v \in {Repair(card)} : Step(v, IF format = "vmu" THEN Vmu!List(v) ELSE Gamecube!List(v))
  /\ ours' = FALSE
  /\ UNCHANGED <<wrote, damage, touched>>

(***************************************************************************)
(* Consoles, emulators and power cuts.                                     *)
(***************************************************************************)
Harm(v, list) == May /\ damage < MaxDamage /\ Step(v, list) /\ damage' = damage + 1 /\ ours' = FALSE

Ps1Link ==
  /\ format = "ps1"
  /\ \E b \in Ps1!Block, l \in 0..Ps1!Off :
       /\ card.frame[b].state \in {"first", "middle"} /\ card.frame[b].link # l
       /\ \E v \in {Ps1!Relinked(card, b, l)} : Harm(v, Ps1!List(v))
  /\ UNCHANGED <<wrote, touched>>

VmuLink ==
  /\ format = "vmu"
  /\ \E b \in Vmu!Block, l \in 0..Vmu!Off : 
       card.fat[b] # l /\ \E v \in {[card EXCEPT !.fat[b] = l]} : Harm(v, Vmu!List(v))
  /\ UNCHANGED <<wrote, touched>>

\* A save whose chain was never written: the power went, or the VMU came out.
VmuUnwritten ==
  /\ format = "vmu"
  /\ \E u \in Units :
       /\ u.type = "data" /\ Vmu!InjectCode(card, u) = "OK"
       /\ \E v \in {Vmu!Laid(card, u, Vmu!Chosen(card, u))} : Harm(v, Vmu!List(v))
       /\ Wrote(u)
  /\ touched' = (damage > 0)

GamecubeTorn ==
  /\ format = "gamecube"
  /\ \E torn \in {Gamecube!Torn(card, part, i) : part \in {"dir", "bat"}, i \in Gamecube!Copies} :
       Gamecube!Opens(torn) /\ torn # card /\ Harm(torn, Gamecube!List(torn))
  /\ UNCHANGED <<wrote, touched>>

\* An archive block that loses its mark, or whose list or size goes beyond
\* the volume.
SaturnBroken(block) ==
  {[block EXCEPT !.archive = FALSE], [block EXCEPT !.size = SaturnBlocks * BlockWords],
   [block EXCEPT !.words[2] = Saturn!To(Saturn!Off)]} \ {block}

SaturnDecay ==
  /\ format = "saturn"
  /\ \E b \in Saturn!Block :
       /\ card[b].archive
       /\ \E v \in {[card EXCEPT ![b] = broken] : broken \in SaturnBroken(card[b])} : Harm(v, Saturn!List(v))
  /\ UNCHANGED <<wrote, touched>>

SegacdDecay ==
  /\ format = "segacd"
  /\ \E b \in Segacd!Block :
       /\ card.block[b].kind \in {"data", "entries"}
       /\ \E v \in {Segacd!Decayed(card, b)} : Harm(v, Segacd!List(v))
  /\ UNCHANGED <<wrote, touched>>

\* A link of a save.  The last of a chain breaks off or, where Crossed, leads
\* on into another save: the listing does not see that, and a delete of the one
\* takes both.
Ps2Link ==
  /\ format = "ps2"
  /\ \E c \in Ps2!Cluster \ Range(Ps2!Walk(card, 0)), l \in 0..Ps2!Off :
       /\ card.fat[c] \notin {Ps2!Free, l}
       /\ card.fat[c] = Ps2!End => Crossed \/ l = Ps2!Off
       /\ \E v \in {[card EXCEPT !.fat[c] = l]} : Harm(v, Ps2!List(v))
  /\ UNCHANGED <<wrote, touched>>

\* The console's counters may wrap under it, as they may on the real card:
\* then it mounts the older copy, and no save shows.  Left out here.
ConsoleSaves ==
  /\ May /\ format = "gamecube"
  /\ \E u \in {w \in Units : w.type = "data" /\ Gamecube!InjectCode(card, w) = "OK"} :
       \E v \in {Gamecube!ConsoleInject(card, u)} :
         /\ Gamecube!Current(v.dir) # Gamecube!Current(card.dir)
         /\ Gamecube!Current(v.bat) # Gamecube!Current(card.bat)
         /\ Step(v, Gamecube!List(v)) /\ Wrote(u)
  /\ touched' = (damage > 0) /\ ours' = FALSE /\ UNCHANGED damage

Formatted(c) ==
  CASE format = "ps1" -> Ps1!Format
    [] format = "vmu" -> Vmu!Format
    [] format = "gamecube" -> Gamecube!Format(c)
    [] format = "saturn" -> Saturn!Format
    [] format = "segacd" -> Segacd!Format
    [] OTHER -> Ps2!Format

Init ==
  /\ format \in Formats
  /\ \E c \in FirstCount : card = Formatted(c)
  /\ shown = <<>>
  /\ wrote = [n \in Names |-> None]
  /\ damage = 0
  /\ touched = FALSE
  /\ ours = TRUE
  /\ steps = 0

Restores == Place \/ TakeOff
Damages == Ps1Link \/ VmuLink \/ VmuUnwritten \/ GamecubeTorn \/ SaturnDecay \/ SegacdDecay \/ Ps2Link

Next == Restores \/ WriteRepaired \/ Damages \/ ConsoleSaves

Spec == Init /\ [][Next]_vars

(***************************************************************************)
(* Properties.                                                             *)
(***************************************************************************)
Sound == damage = 0

\* Whatever a card went through, restores change only the save they are for,
\* and repairs none: no two saves the listing shows share a block, and none
\* is built on what is damaged.
CardIsSaves == INSTANCE CardSaves WITH
  saves <- shown, Contents <- {u.file : u \in Units}
SavesKept == CardIsSaves!Spec

\* The blocks a listed save holds, those the directory holds, and all there
\* are.
Held(file) ==
  CASE format = "saturn" -> Saturn!Cost([file |-> file]) [] format = "ps2" -> Len(file) + 2 [] OTHER -> Len(file)
DirectoryBlocks ==
  CASE format = "segacd" -> 1 + (card.files \div 2) [] format = "ps2" -> Ps2!InClusters(card.count) [] OTHER -> 0
AllBlocks ==
  CASE format = "saturn" -> SaturnBlocks [] format = "segacd" -> SegacdBlocks [] format = "ps2" -> Clusters
    [] OTHER -> Blocks

Holding == UNION {{n} \X (1..Held(shown[n])) : n \in DOMAIN shown}

\* On a card without damage every block is free, one save's or the
\* directory's: restores leak no block, and blocks_short (sync_units.c:641)
\* counts what is there.
BlocksAccounted ==
  Sound =>
    /\ Corrupt(card) = {}
    /\ Cardinality(Holding) + DirectoryBlocks + FreeBlocks(card) = AllBlocks

Serves(empty, code, next, u) ==
  /\ code \in {"OK", "NO_SPACE"}
  /\ code = "NO_SPACE" /\ u.type = "data" => FreeBlocks(empty) < Cost(empty, u) \/ FreeSlots(empty) = 0
  /\ code = "OK" => Verify(next, u) /\ \E e \in Named(next, u.name) : e.file = u.file

\* sync_units.c:672: on a card without damage a restore that has the blocks
\* and a slot goes through, verifies, and the next collect reads the save
\* back as it was; a game file on a VMU also needs the blocks from 0 up.
PlacesServe ==
  Sound => \A u \in Units : Fitting(u) =>
    \A empty \in {Cleared(card, u.name)} : Serves(empty, PlaceCode(card, empty, u), Inject(empty, u), u)

\* sync.md:143-153: a repair finds nothing left to do the second time, and
\* of a card no save went on since, it brings back what was really written.
RepairSettles ==
  \A mended \in {Repair(card)} \ {card} :
    /\ Repair(mended) = mended
    /\ touched \/ \A e \in List(mended) : e.name \in DOMAIN shown \/ e.file = wrote[e.name]

\* card_gamecube.h:69: once a restore wrote a GameCube card, either copy of
\* its directory and its table serves, whatever the counters were.
CopiesServe ==
  format = "gamecube" /\ ours =>
    \A i, k \in Gamecube!Copies :
      Showing(Gamecube!List(Gamecube!Torn(Gamecube!Torn(card, "dir", i), "bat", k))) = shown
==============================================================================
