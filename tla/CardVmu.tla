------------------------------- MODULE CardVmu -------------------------------
(***************************************************************************)
(* Dreamcast VMUs (src/src/card_dreamcast.c): a directory of slots and an  *)
(* allocation table with a link for each user block.  A card is a record   *)
(* of its table, its slots and its blocks.                                 *)
(*                                                                         *)
(* A block of a save says whose it is, which one, and how many there are:  *)
(* what the CRC in the VMS header of the first block vouches for.          *)
(***************************************************************************)
EXTENDS Naturals, FiniteSets, Sequences, SequencesExt, CardChains

CONSTANTS
  Blocks,   \* user blocks, 200 on the real card
  Slots,    \* directory slots
  Summed,   \* contents whose header holds a CRC
  None      \* no name, no data

Block == 0..(Blocks - 1)
End == Blocks          \* the link of a chain's last block
Free == Blocks + 1     \* the link of a free block
Off == Blocks + 2      \* a link that leaves the user area
Slot == 1..Slots
Empty == [type |-> "empty", name |-> None, first |-> 0, size |-> 0]
IsFile(e) == e.type \in {"data", "game"}

\* The chain from a block in order, or <<>> when a link leaves the user area
\* or revisits a block.
Walk(v, first) == Chain(v.fat, End, first)

\* A slot's chain, when it is as long as the slot says.
EntryChain(v, s) ==
  LET order == Walk(v, v.slot[s].first) IN IF Len(order) = v.slot[s].size THEN order ELSE <<>>

Contents(v, order) == [i \in DOMAIN order |-> v.data[order[i]]]
Files(v) == {s \in Slot : IsFile(v.slot[s])}
FreeBlocks(v) == {b \in Block : v.fat[b] = Free}
FreeSlots(v) == Cardinality({s \in Slot : v.slot[s].type = "empty"})

\* A block two files' chains reach marks both broken.
Shared(v, s) ==
  \E b \in Range(EntryChain(v, s)), other \in Files(v) \ {s} : b \in Range(EntryChain(v, other))

Intact(v, s) == EntryChain(v, s) # <<>> /\ ~Shared(v, s)
Listed(v) == {s \in Files(v) : Intact(v, s)}
List(v) ==
  {[name |-> v.slot[s].name, first |-> v.slot[s].first, file |-> Contents(v, EntryChain(v, s))] : s \in Listed(v)}
Corrupt(v) == {v.slot[s].name : s \in Files(v) \ Listed(v)}

\* The n highest numbers of S, or all there are, downward.
Highest(S, n) ==
  [i \in 1..(IF n < Cardinality(S) THEN n ELSE Cardinality(S)) |-> CHOOSE b \in S : Cardinality({c \in S : c > b}) = i - 1]

\* The slot of the file an operation names by its first block: the first one
\* there with an intact chain, or none.
FindByBlock(v, first) ==
  Lowest({s \in Files(v) : v.slot[s].first = first /\ EntryChain(v, s) # <<>>}, 1)

Format ==
  [fat |-> [b \in Block |-> Free], slot |-> [s \in Slot |-> Empty], data |-> [b \in Block |-> None]]

NameTaken(v, u) == \E s \in Files(v) : v.slot[s].name = u.name

\* A game file runs contiguously from block 0; a data file takes the highest
\* free blocks downward, as the BIOS does.
Chosen(v, u) ==
  LET n == Len(u.file) IN
  IF u.type = "data" THEN Highest(FreeBlocks(v), n)
  ELSE IF 0..(n - 1) \subseteq FreeBlocks(v) THEN [i \in 1..n |-> i - 1]
  ELSE <<>>

Linked(v, order) ==
  [v EXCEPT !.fat = [b \in Block |->
     IF b \notin Range(order) THEN @[b]
     ELSE IF b = Last(order) THEN End
     ELSE order[1 + CHOOSE i \in DOMAIN order : order[i] = b]]]

\* u's bytes and slot, before the chain is written.
Laid(v, u, order) ==
  LET s == CHOOSE s \in Slot : v.slot[s].type = "empty" /\ \A r \in 1..(s - 1) : v.slot[r].type # "empty" IN
  [v EXCEPT
     !.data = [b \in Block |-> IF b \in Range(order) THEN u.file[CHOOSE i \in DOMAIN order : order[i] = b] ELSE @[b]],
     !.slot[s] = [type |-> u.type, name |-> u.name, first |-> order[1], size |-> Len(order)]]

InjectCode(v, u) ==
  IF NameTaken(v, u) THEN "EXISTS"
  ELSE IF Len(Chosen(v, u)) < Len(u.file) \/ FreeSlots(v) = 0 THEN "NO_SPACE"
  ELSE "OK"

Inject(v, u) ==
  IF InjectCode(v, u) = "OK" THEN Linked(Laid(v, u, Chosen(v, u)), Chosen(v, u)) ELSE v

Delete(v, first) ==
  LET s == FindByBlock(v, first) IN
  IF s = <<>> THEN v
  ELSE [v EXCEPT !.fat = [b \in Block |-> IF b \in Range(EntryChain(v, s[1])) THEN Free ELSE @[b]],
                 !.slot[s[1]] = Empty]

\* The file is read back through its first block, so the slot found may be
\* another one that starts there.
Verify(v, u) ==
  \E s \in Files(v) :
    /\ v.slot[s].name = u.name /\ Len(EntryChain(v, s)) = Len(u.file)
    /\ \E r \in Range(FindByBlock(v, v.slot[s].first)) :
         /\ v.slot[r].name = u.name /\ v.slot[r].type = u.type
         /\ Contents(v, EntryChain(v, r)) = u.file

(***************************************************************************)
(* Repair.                                                                 *)
(***************************************************************************)
\* Mutant: a header is enough.
ChecksHeader(contents) == contents[1] # None /\ contents[1].at = 1

\* The CRC covers the bytes the header counts.
Checks(contents) ==
  LET h == contents[1] IN
  /\ h # None /\ h.at = 1 /\ h.of \in Summed /\ h.len <= Len(contents)
  /\ \A i \in 1..h.len : contents[i] = [h EXCEPT !.at = i]

\* The chain a save that lost its own can be given: the BIOS gives a data
\* save the highest free blocks, so they run down from the first.
Unwritten(v, s) ==
  LET e == v.slot[s]
      down == [i \in 1..e.size |-> e.first - (i - 1)]
  IN IF /\ Walk(v, e.first) = <<>> /\ e.first \in FreeBlocks(v)
        /\ e.type = "data" /\ e.size \in 1..(e.first + 1)
        /\ Range(down) \subseteq FreeBlocks(v)
        /\ Checks(Contents(v, down))
     THEN down ELSE <<>>

\* Slot by slot: a chain just rebuilt holds its blocks against the next one.
Repair(v) ==
  LET after[s \in 0..Slots] ==
        IF s = 0 THEN v
        ELSE LET w == after[s - 1] IN
             IF IsFile(w.slot[s]) /\ EntryChain(w, s) = <<>> THEN Linked(w, Unwritten(w, s)) ELSE w
  IN after[Slots]
==============================================================================
