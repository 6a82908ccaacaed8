------------------------------ MODULE CardSegacd ------------------------------
(***************************************************************************)
(* Sega CD backup memory (src/src/card_segacd.c): saves lie back to back   *)
(* from block 1 in the order of the directory, which grows downward from   *)
(* the other end, two entries to a block.  A volume is a record of its     *)
(* counts and its blocks; a block holds a piece of a save, two entries, or *)
(* nothing that can be read.                                               *)
(*                                                                         *)
(* The error correction of directory blocks and protected saves is         *)
(* abstracted to whether a block decodes; the four copies of a count to    *)
(* the value three agree on.                                               *)
(***************************************************************************)
EXTENDS Naturals, FiniteSets, Sequences

CONSTANTS
  Blocks,   \* blocks between the first one and the format block
  Summed,   \* contents of protected saves
  None      \* no name, no data

Block == 1..Blocks
Clear == [kind |-> "clear"]
Bad == [kind |-> "bad"]
Data(p) == [kind |-> "data", piece |-> p]
Entries(low, high) == [kind |-> "entries", half |-> <<low, high>>]
NoEntry == [name |-> None, protect |-> FALSE, start |-> 0, blocks |-> 0]

(***************************************************************************)
(* The directory.  Slots count from 0.                                     *)
(***************************************************************************)
DirBlocks(files) == (files + 1) \div 2
DataEnd(files) == Blocks + 1 - DirBlocks(files)

\* One block is held for the next entry's when every directory block is full.
Held(files) == IF files % 2 = 1 THEN 0 ELSE 1
BiosFree(files, next) ==
  IF DataEnd(files) >= next + Held(files) THEN DataEnd(files) - next - Held(files) ELSE 0

SlotsUsed(v) == 0..(v.files - 1)
SlotBlock(s) == Blocks - (s \div 2)
Readable(v, s) == v.block[SlotBlock(s)].kind = "entries"
Slot(v, s) == v.block[SlotBlock(s)].half[1 + (s % 2)]

Piece(d) == IF d.kind = "data" THEN d.piece ELSE None
Contents(v, e) == [i \in 1..e.blocks |-> Piece(v.block[e.start + i - 1])]

\* An entry within the data, whose blocks decode where it is protected.
Valid(v, e) ==
  /\ e.start >= 1 /\ e.blocks >= 1
  /\ e.start + e.blocks + Held(v.files) <= DataEnd(v.files)
  /\ e.protect => \A b \in e.start..(e.start + e.blocks - 1) : v.block[b].kind # "bad"

Live(v) == {s \in SlotsUsed(v) : Readable(v, s) /\ Valid(v, Slot(v, s))}

\* The block after the saves of the first n slots.
NextBlock(v, n) == IF n = 0 THEN 1 ELSE Slot(v, n - 1).start + Slot(v, n - 1).blocks

\* What a change asks of the whole directory; a listing does without.
InOrder(v) == \A s \in SlotsUsed(v) : s \in Live(v) /\ Slot(v, s).start = NextBlock(v, s)

FreeBlocks(v) == IF InOrder(v) THEN BiosFree(v.files, NextBlock(v, v.files)) ELSE v.free

\* How many more saves of one block there is room for.
FreeSlots(v) ==
  LET more[left \in 0..Blocks, files \in Nat] ==
        IF left < 1 + (files % 2) THEN 0 ELSE 1 + more[left - 1 - (files % 2), files + 1]
  IN more[FreeBlocks(v), v.files]

List(v) ==
  {[name |-> Slot(v, s).name, first |-> Slot(v, s).start, file |-> Contents(v, Slot(v, s))] : s \in Live(v)}

\* An entry that does not decode has no name.
Corrupt(v) == {IF Readable(v, s) THEN Slot(v, s).name ELSE None : s \in SlotsUsed(v) \ Live(v)}

(***************************************************************************)
(* Writing.                                                                *)
(***************************************************************************)
Format == [files |-> 0, free |-> BiosFree(0, 1), block |-> [b \in Block |-> Clear]]

\* Mutant: that block is given to the save.
CostOfSave(v, u) == Len(u.file)

\* At an odd count a save also takes the block held for the entry after it.
Cost(v, u) == Len(u.file) + (v.files % 2)

\* Writing the first entry of a block clears the second.
WithSlot(block, s, e) ==
  [b \in Block |->
     IF b # SlotBlock(s) THEN block[b]
     ELSE IF s % 2 = 0 THEN Entries(e, NoEntry)
     ELSE IF block[b].kind = "entries" THEN Entries(block[b].half[1], e) ELSE Entries(NoEntry, e)]

InjectCode(v, u) ==
  IF ~InOrder(v) THEN "UNSUPPORTED"
  ELSE IF \E s \in SlotsUsed(v) : Slot(v, s).name = u.name THEN "EXISTS"
  ELSE IF FreeBlocks(v) < Cost(v, u) THEN "NO_SPACE" ELSE "OK"

Inject(v, u) ==
  LET n == Len(u.file)
      start == NextBlock(v, v.files)
      e == [name |-> u.name, protect |-> u.file[1].of \in Summed, start |-> start, blocks |-> n]
      filled == [b \in Block |-> IF b \in start..(start + n - 1) THEN Data(u.file[b - start + 1]) ELSE v.block[b]]
  IN IF InjectCode(v, u) # "OK" THEN v
     ELSE [files |-> v.files + 1, free |-> BiosFree(v.files + 1, start + n), block |-> WithSlot(filled, v.files, e)]

Moved(e, gap) == [name |-> e.name, protect |-> e.protect, start |-> e.start - gap, blocks |-> e.blocks]

\* The saves after it move down over it, and so do their entries.
Delete(v, first) ==
  LET k == CHOOSE s \in SlotsUsed(v) : Slot(v, s).start = first
      last == v.files - 1
      gap == Slot(v, k).blocks
      end == NextBlock(v, v.files)
      entry(s) == IF s < k THEN Slot(v, s)
                  ELSE IF s < last THEN Moved(Slot(v, s + 1), gap) ELSE NoEntry
      moved(b) == IF b \in first..(end - gap - 1) THEN v.block[b + gap]
                  ELSE IF b \in (end - gap)..(end - 1) THEN Clear
                  ELSE IF b <= Blocks - DirBlocks(v.files) THEN v.block[b]
                  ELSE IF 2 * (Blocks - b) = last THEN Clear
                  ELSE Entries(entry(2 * (Blocks - b)), entry(2 * (Blocks - b) + 1))
  IN IF ~InOrder(v) \/ (\A s \in SlotsUsed(v) : Slot(v, s).start # first) THEN v
     ELSE [files |-> last, free |-> BiosFree(last, end - gap), block |-> [b \in Block |-> moved(b)]]

\* A save is read back from the first entry that starts where it does.
Verify(v, u) ==
  \E s \in Live(v) :
    /\ \A r \in Live(v) : Slot(v, r).start = Slot(v, s).start => r >= s
    /\ Slot(v, s).name = u.name /\ Contents(v, Slot(v, s)) = u.file

\* A block with more errors than its code corrects.
Decayed(v, b) == [files |-> v.files, free |-> v.free, block |-> [d \in Block |-> IF d = b THEN Bad ELSE v.block[d]]]
==============================================================================
