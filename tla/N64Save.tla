------------------------------- MODULE N64Save -------------------------------
(***************************************************************************)
(* An N64 cartridge's save in the files of its emulators                   *)
(* (src/src/n64_save.c, sync_n64.c): one .srm with every save type (the    *)
(* libretro cores), a file per type and one .mpk for the four paks         *)
(* (mupen64plus), or a .mpk per controller (Project64).                    *)
(*                                                                         *)
(* A file is a sequence of bytes.  Every type is two bytes long here: two  *)
(* halves of an EEPROM, of which the second may be unused; the index entry *)
(* and a note of a pak; one word of SRAM or flash.  A save maps the types  *)
(* a game uses to their bytes in the order the N64 reads them.             *)
(***************************************************************************)
EXTENDS Naturals, FiniteSets, Sequences, SequencesExt, Functions

CONSTANTS
  Types,    \* the save types in the order of the .srm, as a sequence
  Paks,     \* those of them that are controller paks
  Swapped,  \* those kept with each word reversed: SRAM, flash
  Void,     \* the byte an unwritten chip reads as, 0xFF
  Free,     \* an index entry no note uses
  None      \* no file

Size == 2
TypeSet == Range(Types)
Slots == {"srm", "mpk"} \cup TypeSet
PakList == SelectSeq(Types, LAMBDA t : t \in Paks)

Formatted == <<Free, 0>>
Blank(t) == IF t \in Paks THEN Formatted ELSE <<Void, Void>>
Written(bytes) == \E i \in DOMAIN bytes : bytes[i] \notin {0, Void}

(***************************************************************************)
(* Taking a save from files (n64_take, n64_take_blob).                     *)
(***************************************************************************)
\* The n bytes from `at` on; those past the end read as unwritten.
Part(file, at, n) == [i \in 1..n |-> IF at + i \in DOMAIN file THEN file[at + i] ELSE Void]

\* The emulators keep SRAM and flash word by word reversed; its own inverse.
Swap32(t, bytes) == IF t \in Swapped THEN Reverse(bytes) ELSE bytes

Bus(t, file) == Swap32(t, Part(file, 0, Size))

\* Mutant: a pak counts as used once it is written, as the other types do.
UsedIfWritten(t, bytes) == Written(bytes)

Used(t, bytes) == Written(bytes) /\ (t \in Paks => bytes[1] # Free)

\* An EEPROM is half as long unless its second half is written.
Trimmed(t, bytes) == IF t = "eeprom" /\ ~Written(Tail(bytes)) THEN <<bytes[1]>> ELSE bytes

\* EEPROM counts as used by the half it has.
Takes(t, file) == Used(t, Trimmed(t, Bus(t, file)))

\* The types `kept`, a function of the types to the bytes files keep, uses.
Save(kept) == [t \in {u \in DOMAIN kept : Takes(u, kept[u])} |-> Trimmed(t, Bus(t, kept[t]))]

TypesIn(slot) == CASE slot = "srm" -> Types [] slot = "mpk" -> PakList [] OTHER -> <<slot>>
AllIn(slot) == Size * Len(TypesIn(slot))

\* What a file keeps of each type that goes in its slot.
InFile(slot, file) ==
  LET in == TypesIn(slot)
      at == [t \in Range(in) |-> CHOOSE i \in DOMAIN in : in[i] = t]
  IN [t \in Range(in) |-> Part(file, Size * (at[t] - 1), Size)]

(***************************************************************************)
(* The game's files (files_of, read_local).  A file's path is a slot and a *)
(* copy: two copies of a slot are two files whose names both match.        *)
(***************************************************************************)
Path == Slots \X {1, 2}
Present(d, slot) == \E c \in {1, 2} : d[<<slot, c>>] # None
There(d) == {slot \in Slots : Present(d, slot)}
Ambiguous(d) == \E slot \in Slots : \A c \in {1, 2} : d[<<slot, c>>] # None
PathOf(d, slot) == IF d[<<slot, 2>>] # None THEN <<slot, 2>> ELSE <<slot, 1>>
File(d, slot) == d[PathOf(d, slot)]

\* A type's own file is read last and wins, even over what it does not use.
Kept(d) ==
  LET own == [t \in TypeSet \cap There(d) |-> InFile(t, File(d, t))[t]]
      in(slot) == IF Present(d, slot) THEN InFile(slot, File(d, slot)) ELSE <<>>
  IN own @@ in("mpk") @@ in("srm")

Local(d) == Save(Kept(d))

(***************************************************************************)
(* Writing a save (n64_give, n64_give_blob, plan).                         *)
(***************************************************************************)
\* Mutant: an EEPROM is written at the length it is used.
GiveTrimmed(s, t) == Swap32(t, s[t])

\* A type as an emulator stores it, at its full size.
Give(s, t) == Swap32(t, Part(s[t], 0, Size))

\* Mutant: what the unit lacks is blank, used before or not.
BlobAnew(s, old) == FlattenSeq([i \in DOMAIN Types |-> IF Types[i] \in DOMAIN s THEN Give(s, Types[i]) ELSE Blank(Types[i])])

\* Bytes the game did not use stay, and so does a disk after them.
Blob(s, old) ==
  LET had == IF Len(old) >= AllIn("srm") THEN InFile("srm", old) ELSE <<>>
      used == DOMAIN Save(had)
      holds(t) == IF t \in DOMAIN s THEN Give(s, t) ELSE IF t \in DOMAIN had \ used THEN had[t] ELSE Blank(t)
  IN FlattenSeq([i \in DOMAIN Types |-> holds(Types[i])]) \o SubSeq(old, AllIn("srm") + 1, Len(old))

PakFile(s, d) ==
  LET old == IF Present(d, "mpk") THEN File(d, "mpk") ELSE <<>>
      used == DOMAIN Local(d)
      stays(i) == Len(old) >= Size * i /\ PakList[i] \notin used
      holds(i) == IF PakList[i] \in DOMAIN s THEN Give(s, PakList[i])
                  ELSE IF stays(i) THEN InFile("mpk", old)[PakList[i]] ELSE Formatted
  IN FlattenSeq([i \in DOMAIN PakList |-> holds(i)])

\* Mutant: the paks' file is written or removed before the others.
PlannedPaksFirst(form) ==
  CASE form = "libretro" -> <<"srm">>
    [] form = "mupen64plus" -> <<"mpk">> \o SelectSeq(Types, LAMBDA t : t \notin Paks)
    [] form = "project64" -> Types

\* The slots an emulator of this form keeps files in, in the order written.
Planned(form) ==
  CASE form = "libretro" -> <<"srm">>
    [] form = "mupen64plus" -> SelectSeq(Types, LAMBDA t : t \notin Paks) \o <<"mpk">>
    [] form = "project64" -> Types

\* The slots that get a file; the others' files are removed.
Given(form, s) ==
  CASE form = "libretro" -> {"srm"}
    [] form = "mupen64plus" -> (DOMAIN s \ Paks) \cup (IF DOMAIN s \cap Paks # {} THEN {"mpk"} ELSE {})
    [] form = "project64" -> DOMAIN s

Holds(s, d, slot) ==
  CASE slot = "srm" -> Blob(s, IF Present(d, "srm") THEN File(d, "srm") ELSE <<>>)
    [] slot = "mpk" -> PakFile(s, d)
    [] OTHER -> Give(s, slot)

Code(form, spelled, s, d, remove) ==
  LET Ordered == Range(Planned(form))
      new == Given(form, s) \ There(d)
      drops == (Ordered \ Given(form, s)) \cap There(d)
  IN IF new # {} /\ There(d) = {} /\ ~spelled THEN "NO_TARGET"
     ELSE IF drops # {} /\ ~remove THEN "INVALID_ARG"
     ELSE "OK"

Turns(form, s, d) ==
  LET touched == SelectSeq(Planned(form), LAMBDA slot : slot \in Given(form, s) \cup There(d))
  IN [i \in DOMAIN touched |->
       {[path |-> PathOf(d, touched[i]),
         data |-> IF touched[i] \in Given(form, s) THEN Holds(s, d, touched[i]) ELSE None]}]

\* The bytes a file keeps of the types `kept`, and whatever follows its types.
Rest(slot, file, kept(_)) ==
  <<[t \in {u \in Range(TypesIn(slot)) : kept(u)} |-> InFile(slot, file)[t]], SubSeq(file, AllIn(slot) + 1, Len(file))>>
=============================================================================
