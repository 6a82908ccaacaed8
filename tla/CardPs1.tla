------------------------------- MODULE CardPs1 -------------------------------
(***************************************************************************)
(* PS1 memory cards (src/src/card_ps1.c): a directory frame for each data  *)
(* block says whether the block is free or which part of a save it holds,  *)
(* and links it to the save's next block.  A card is a record of its       *)
(* frames and its blocks; the operations are functions of the card.        *)
(***************************************************************************)
EXTENDS Naturals, FiniteSets, Sequences, SequencesExt, CardChains

CONSTANTS
  Blocks,   \* data blocks of a card, 15 on the real one
  None      \* the name in a frame no save starts at

Block == 1..Blocks
End == 0              \* the link of a chain's last block
Off == Blocks + 1     \* a link that leaves the card
Frame(s, l, n) == [state |-> s, link |-> l, name |-> n]

\* A block's link, where it is the last or leads to part of a live save.
Links(v) ==
  [b \in Block |->
     LET next == v.frame[b].link IN
       IF next = End \/ (next \in Block /\ v.frame[next].state \in {"middle", "last"}) THEN next ELSE Off]

\* The blocks of the chain from a first frame in order, or <<>> when a link
\* leaves the card, revisits a block or lands on one that isn't part of a
\* live save.
Walk(v, first) == Chain(Links(v), End, first)

File(v, first) == [i \in DOMAIN Walk(v, first) |-> v.data[Walk(v, first)[i]]]
Firsts(v) == {b \in Block : v.frame[b].state = "first"}
FreeBlocks(v) == {b \in Block : v.frame[b].state \in {"free", "deleted"}}

\* Mutant: blocks two chains reach are not looked for.
SharedNever(v, first) == FALSE

\* A block two saves' chains reach marks both broken.
Shared(v, first) ==
  \E b \in Range(Walk(v, first)), other \in Firsts(v) \ {first} : b \in Range(Walk(v, other))

Intact(v, first) == Walk(v, first) # <<>> /\ ~Shared(v, first)
Listed(v) == {b \in Firsts(v) : Intact(v, b)}

\* What the listing gives: each save left whole, and the names of the others.
List(v) == {[name |-> v.frame[b].name, first |-> b, file |-> File(v, b)] : b \in Listed(v)}
Corrupt(v) == {v.frame[b].name : b \in Firsts(v) \ Listed(v)}

Format ==
  [frame |-> [b \in Block |-> Frame("free", End, None)], data |-> [b \in Block |-> None]]

FreeSlots(v) == Cardinality(FreeBlocks(v))
NameTaken(v, u) == \E b \in Firsts(v) : v.frame[b].name = u.name

\* Mutant: only a deleted frame's state is looked at, not the last one's.
ChosenAnew(v, u) == Lowest(Block \ {b \in Block : v.frame[b].state \in {"first", "middle"}}, Len(u.file))

\* The lowest free blocks, in order.
Chosen(v, u) == Lowest(FreeBlocks(v), Len(u.file))

\* The card with u's file on the blocks `order`.
Written(v, u, order) ==
  LET n == Len(order)
      At(b) == CHOOSE i \in 1..n : order[i] = b
      Linked(i) == IF i = n THEN End ELSE order[i + 1]
      State(i) == IF i = 1 THEN "first" ELSE IF i = n THEN "last" ELSE "middle"
      Sealed(i) == Frame(State(i), Linked(i), IF i = 1 THEN u.name ELSE None)
  IN [frame |-> [b \in Block |-> IF b \in Range(order) THEN Sealed(At(b)) ELSE v.frame[b]],
      data |-> [b \in Block |-> IF b \in Range(order) THEN u.file[At(b)] ELSE v.data[b]]]

InjectCode(v, u) ==
  IF NameTaken(v, u) THEN "EXISTS"
  ELSE IF Cardinality(FreeBlocks(v)) < Len(u.file) THEN "NO_SPACE"
  ELSE "OK"

Inject(v, u) == IF InjectCode(v, u) = "OK" THEN Written(v, u, Chosen(v, u)) ELSE v

Marked(v, gone) ==
  [frame |-> [b \in Block |->
     IF b \in gone THEN Frame("deleted", v.frame[b].link, v.frame[b].name) ELSE v.frame[b]],
   data |-> v.data]

\* Mutant: the last block of the chain keeps its state.
DeleteAllButLast(v, first) ==
  LET order == Walk(v, first) IN Marked(v, {b \in Range(order) : b = first \/ b # Last(order)})

\* Deleted frames keep their links and the name.
Delete(v, first) == Marked(v, IF v.frame[first].state = "first" THEN Range(Walk(v, first)) ELSE {})

Verify(v, u) == \E b \in Firsts(v) : v.frame[b].name = u.name /\ File(v, b) = u.file

\* The card with one link changed.
Relinked(v, b, l) ==
  [frame |-> [c \in Block |-> IF c = b THEN Frame(v.frame[b].state, l, v.frame[b].name) ELSE v.frame[c]],
   data |-> v.data]
==============================================================================
