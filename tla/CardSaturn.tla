------------------------------ MODULE CardSaturn ------------------------------
(***************************************************************************)
(* Saturn backup memory (src/src/card_saturn.c): blocks without a table.   *)
(* An archive block starts a save; its byte stream gives the fields, the   *)
(* list of the blocks that follow and then the data, and runs on into the  *)
(* blocks it lists, so the list may itself lie partly in them.  A block is *)
(* a record of its mark, the fields of an archive and its words.           *)
(*                                                                         *)
(* A word holds one block number of a list or one piece of a file; name    *)
(* and size stand for the fields, whose words are left as they are.        *)
(***************************************************************************)
EXTENDS Naturals, FiniteSets, Sequences, SequencesExt, CardChains

CONSTANTS
  Blocks,   \* blocks past the two reserved ones
  Words,    \* words of a block past its mark
  Fields,   \* words the fields of an archive take
  None      \* no name, and the word of a cleared block

Block == 1..Blocks
Off == Blocks + 1       \* a reserved block, or one past the volume
To(b) == [link |-> b]
Clear == [archive |-> FALSE, name |-> None, size |-> 0, words |-> [i \in 1..Words |-> None]]
Format == [b \in Block |-> Clear]

\* The k-th word of the stream that runs through these blocks.
WordAt(v, order, k) == v[order[1 + (k \div Words)]].words[1 + (k % Words)]

\* A word read as a block number; a piece of a file is none of the volume's.
Target(w) == IF "link" \in DOMAIN w THEN w.link ELSE Off

(***************************************************************************)
(* The blocks of the save with archive block a, a first, or <<>> when it   *)
(* is broken: its list is read from the blocks listed so far, and each     *)
(* entry must be a block of the volume that no save before it owns.        *)
(***************************************************************************)
Parse(v, a, owned) ==
  LET from[order \in Seq(Block)] ==
        LET k == Fields + Len(order) - 1
            w == WordAt(v, order, k)
        IN IF k \div Words >= Len(order) THEN <<>>
           ELSE IF w = None
             THEN IF Len(order) * Words >= k + 1 + v[a].size THEN order ELSE <<>>
           ELSE IF Target(w) \notin Block \ (owned \cup Range(order)) \/ v[Target(w)].archive THEN <<>>
           ELSE from[Append(order, Target(w))]
  IN from[<<a>>]

\* The blocks owned once the archives up to b are read in block order.  A
\* broken save owns its archive block and gives up the others.
OwnedTo(v) ==
  LET owned[b \in 0..Blocks] ==
        IF b = 0 THEN {}
        ELSE LET before == owned[b - 1] IN
             IF v[b].archive THEN before \cup {b} \cup Range(Parse(v, b, before)) ELSE before
  IN owned

Archives(v) == {b \in Block : v[b].archive}
Chains(v) == LET owned == OwnedTo(v) IN [a \in Archives(v) |-> Parse(v, a, owned[a - 1])]

FreeBlocks(v) == Block \ OwnedTo(v)[Blocks]
FreeSlots(v) == Cardinality(FreeBlocks(v))

\* The data follows the list and its terminator.
Contents(v, order) ==
  [j \in 1..v[order[1]].size |-> WordAt(v, order, Fields + Len(order) + j - 1)]

List(v) ==
  LET chain == Chains(v) IN
  {[name |-> v[a].name, first |-> a, file |-> Contents(v, chain[a])] : a \in {b \in DOMAIN chain : chain[b] # <<>>}}
Corrupt(v) == LET chain == Chains(v) IN {v[a].name : a \in {b \in DOMAIN chain : chain[b] = <<>>}}

(***************************************************************************)
(* Writing.                                                                *)
(***************************************************************************)
\* Mutant: the list words are not counted.
CostOfData(u) == (Fields + Len(u.file) + Words - 1) \div Words

\* The fewest blocks that hold the fields, one list word each and the data.
Cost(u) == (Fields + Len(u.file) + Words - 2) \div (Words - 1)

InjectCode(v, u) ==
  IF \E e \in List(v) : e.name = u.name THEN "EXISTS"
  ELSE IF Cardinality(FreeBlocks(v)) < Cost(u) THEN "NO_SPACE" ELSE "OK"

\* What the stream holds after the fields: the list, a terminator, the data.
Stream(u, order) == [i \in 1..(Len(order) - 1) |-> To(order[i + 1])] \o <<None>> \o u.file

Inject(v, u) ==
  LET order == Lowest(FreeBlocks(v), Cost(u))
      stream == Stream(u, order)
      word(i, k) == LET at == ((i - 1) * Words) + k - Fields IN IF at \in DOMAIN stream THEN stream[at] ELSE None
      block(i) ==
        [archive |-> i = 1, name |-> IF i = 1 THEN u.name ELSE None, size |-> IF i = 1 THEN Len(u.file) ELSE 0,
         words |-> [k \in 1..Words |-> word(i, k)]]
  IN IF InjectCode(v, u) # "OK" THEN v
     ELSE [b \in Block |-> IF b \in Range(order) THEN block(CHOOSE i \in DOMAIN order : order[i] = b) ELSE v[b]]

\* The archive block and every listed one are zeroed.
Delete(v, first) ==
  LET chain == Chains(v) IN
  IF first \notin DOMAIN chain THEN v ELSE [b \in Block |-> IF b \in Range(chain[first]) THEN Clear ELSE v[b]]

Verify(v, u) == \E e \in List(v) : e.name = u.name /\ e.file = u.file
==============================================================================
