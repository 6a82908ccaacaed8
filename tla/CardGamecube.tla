----------------------------- MODULE CardGamecube -----------------------------
(***************************************************************************)
(* GameCube cards (src/src/card_gamecube.c): a directory and a block       *)
(* allocation table, each kept in two copies with a checksum and an update *)
(* counter; the console mounts the later of the copies that pass.  A card  *)
(* is a record of the copies and the blocks.                               *)
(***************************************************************************)
EXTENDS Integers, FiniteSets, Sequences, SequencesExt, CardChains

CONSTANTS
  Blocks,    \* data blocks of a card
  Slots,     \* directory entries, 127 on the real card
  Counters,  \* how many values a counter has, 2^16 on the real card
  None       \* no name, no data

Block == 1..Blocks
Free == 0              \* the link of a free block
End == Blocks + 1      \* the link of a chain's last block
Slot == 1..Slots
Empty == [name |-> None, first |-> 0, size |-> 0]
Copies == {0, 1}
Copy(map, n) == [map |-> map, counter |-> n, ok |-> TRUE]

\* Counters wrap, and compare as signed numbers.
Up(n) == (n + 1) % Counters
Signed(n) == IF 2 * n < Counters THEN n ELSE n - Counters

\* The copy the console mounts: with both valid, the second only when the
\* first is lower.
Current(pair) ==
  IF pair[0].ok /\ pair[1].ok THEN IF Signed(pair[0].counter) < Signed(pair[1].counter) THEN 1 ELSE 0
  ELSE IF pair[0].ok THEN 0 ELSE 1

\* A card loads while one copy of each passes.
Opens(v) == (v.dir[0].ok \/ v.dir[1].ok) /\ (v.bat[0].ok \/ v.bat[1].ok)
Dir(v) == v.dir[Current(v.dir)].map
Bat(v) == v.bat[Current(v.bat)].map
IsLive(e) == e.name # None

\* The chain from a block in order, or <<>> when a link leaves the data area,
\* revisits a block or lands on a free one.
Walk(v, first) == Chain(Bat(v), End, first)

Contents(v, order) == [i \in DOMAIN order |-> v.data[order[i]]]
Live(v) == {s \in Slot : IsLive(Dir(v)[s])}
FreeBlocks(v) == {b \in Block : Bat(v)[b] = Free}
FreeSlots(v) == Slots - Cardinality(Live(v))
EntryChain(v, s) == Walk(v, Dir(v)[s].first)

\* Any live entry's chain counts, of the length its entry says or not.
Shared(v, s) == \E b \in Range(EntryChain(v, s)), other \in Live(v) \ {s} : b \in Range(EntryChain(v, other))

Intact(v, s) == Dir(v)[s].size > 0 /\ Len(EntryChain(v, s)) = Dir(v)[s].size /\ ~Shared(v, s)
Listed(v) == {s \in Live(v) : Intact(v, s)}
List(v) ==
  {[name |-> Dir(v)[s].name, first |-> Dir(v)[s].first, file |-> Contents(v, EntryChain(v, s))] : s \in Listed(v)}
Corrupt(v) == {Dir(v)[s].name : s \in Live(v) \ Listed(v)}

\* The entry whose save starts at a block, with a chain as long as it says.
FindEntryAt(v, first) ==
  Lowest({s \in Live(v) : Dir(v)[s].first = first /\ Len(EntryChain(v, s)) = Dir(v)[s].size}, 1)

Identity(v, name) == Lowest({s \in Live(v) : Dir(v)[s].name = name}, 1)

Format(c) ==
  LET pair(map) == [i \in Copies |-> Copy(map, (c + i) % Counters)] IN
  [dir |-> pair([s \in Slot |-> Empty]), bat |-> pair([b \in Block |-> Free]), data |-> [b \in Block |-> None]]

Both(pair, map) == [i \in Copies |-> Copy(map, Up(pair[Current(pair)].counter))]
Older(pair, map) == [pair EXCEPT ![1 - Current(pair)] = Copy(map, Up(pair[Current(pair)].counter))]

\* Mutant: like the console, only the older copies are written.
CommitOlder(v, dir, bat, data) == [dir |-> Older(v.dir, dir), bat |-> Older(v.bat, bat), data |-> data]

\* Both copies are written, one update past the ones mounted.
Commit(v, dir, bat, data) == [dir |-> Both(v.dir, dir), bat |-> Both(v.bat, bat), data |-> data]

NameTaken(v, u) == Identity(v, u.name) # <<>>
Chosen(v, u) == Lowest(FreeBlocks(v), Len(u.file))

InjectCode(v, u) ==
  IF NameTaken(v, u) THEN "EXISTS"
  ELSE IF FreeSlots(v) = 0 \/ Cardinality(FreeBlocks(v)) < Len(u.file) THEN "NO_SPACE"
  ELSE "OK"

DirWith(v, u) ==
  LET slot == Lowest(Slot \ Live(v), 1)[1] IN
  [Dir(v) EXCEPT ![slot] = [name |-> u.name, first |-> Chosen(v, u)[1], size |-> Len(u.file)]]

BatWith(v, u) ==
  LET order == Chosen(v, u) IN
  [b \in Block |->
     IF b \notin Range(order) THEN Bat(v)[b]
     ELSE IF b = Last(order) THEN End
     ELSE order[1 + CHOOSE i \in DOMAIN order : order[i] = b]]

Filled(v, u) ==
  LET order == Chosen(v, u) IN
  [b \in Block |-> IF b \in Range(order) THEN u.file[CHOOSE i \in DOMAIN order : order[i] = b] ELSE v.data[b]]

Inject(v, u) ==
  IF InjectCode(v, u) = "OK" THEN Commit(v, DirWith(v, u), BatWith(v, u), Filled(v, u)) ELSE v

\* The block a save put on the card starts at, as the listing has it
\* (sync_kind_gamecube.c): a save the listing leaves out can't be bound.
Bound(v, u) == \E e \in List(v) : e.name = u.name

Delete(v, first) ==
  LET at == FindEntryAt(v, first)
      order == Walk(v, first)
  IN IF at = <<>> THEN v
     ELSE Commit(v, [Dir(v) EXCEPT ![at[1]] = Empty],
                 [b \in Block |-> IF b \in Range(order) THEN Free ELSE Bat(v)[b]],
                 [b \in Block |-> IF b \in Range(order) THEN None ELSE v.data[b]])

\* The first entry of the save's name is the one read back.
Verify(v, u) ==
  \E s \in Range(Identity(v, u.name)) :
    /\ Dir(v)[s].size = Len(u.file)
    /\ \E r \in Range(Lowest({r \in Live(v) : /\ Dir(v)[r].first = Dir(v)[s].first
                                              /\ Dir(v)[r].size = Dir(v)[s].size
                                              /\ Len(EntryChain(v, r)) = Dir(v)[r].size}, 1)) :
         Dir(v)[r].name = u.name /\ Contents(v, EntryChain(v, r)) = u.file

(***************************************************************************)
(* Repair, and what happens to copies.                                     *)
(***************************************************************************)
\* The copy that passes goes over the one that fails.
Restored(pair) == IF pair[0].ok = pair[1].ok THEN pair ELSE [i \in Copies |-> pair[Current(pair)]]
Repair(v) == [dir |-> Restored(v.dir), bat |-> Restored(v.bat), data |-> v.data]

Lost(copy) == [map |-> copy.map, counter |-> copy.counter, ok |-> FALSE]
Tear(pair, i) == [k \in Copies |-> IF k = i THEN Lost(pair[k]) ELSE pair[k]]
Torn(v, part, i) ==
  IF part = "dir" THEN [dir |-> Tear(v.dir, i), bat |-> v.bat, data |-> v.data]
  ELSE [dir |-> v.dir, bat |-> Tear(v.bat, i), data |-> v.data]

\* The console's own save: a new directory and table in the older copies.
ConsoleInject(v, u) ==
  [dir |-> Older(v.dir, DirWith(v, u)), bat |-> Older(v.bat, BatWith(v, u)), data |-> Filled(v, u)]
==============================================================================
