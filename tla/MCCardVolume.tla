----------------------------- MODULE MCCardVolume -----------------------------
(* Saves x, y and z of one to three blocks on a card of four; z may be a game *)
(* file, and the longer content of y has no CRC.                             *)
EXTENDS CardVolume

CONSTANTS x, y, z, one, two, bare

MCFile(d, n) == [i \in 1..n |-> [of |-> d, at |-> i, len |-> n]]
MCUnit(n, t, d, k) == [name |-> n, type |-> t, file |-> MCFile(d, k)]
MCUnits ==
  {MCUnit(x, "data", one, 1), MCUnit(x, "data", two, 2), MCUnit(y, "data", two, 2), MCUnit(y, "data", bare, 3),
   MCUnit(z, "data", one, 1), MCUnit(z, "game", two, 2)}
MCSummed == {one, two}
MCFirst == {0, 1, 3}
==============================================================================
