------------------------------ MODULE MCProfiles ------------------------------
(* A title t with profiles p1 and p2, of an emulator with a save index or of *)
(* one that names folders by title; file e is of an optional folder.         *)
EXTENDS SyncProfiles

CONSTANTS t, p1, p2, f, e, old, new

MCAccount(n, d) == [area |-> "account", name |-> n, data |-> d]
MCDevice(n, d) == [area |-> "device", name |-> n, data |-> d]
MCFile(n, d) == [name |-> n, data |-> d]

MCUnitsBoth == [x \in Titles |-> {{MCAccount(f, old), MCDevice(f, old)}, {MCAccount(f, new)}}]
MCUnitsEach == [x \in Titles |-> {{MCAccount(f, old)}, {MCDevice(f, old)}}]
MCUnitsAccount == [x \in Titles |-> {{MCAccount(f, new)}}]

MCNoFolders == {[i \in Ids |-> {}]}
\* An orphan: a folder past the counter that nothing names.
MCOrphan == {[i \in Ids |-> IF i = 1 THEN {MCFile(f, new)} ELSE {}]}
MCNoEntries == {[k \in Keys |-> None]}
MCCounterZero == {0}

\* Layouts without an index: every key has a folder of its own.
MCFixed == {[k \in Keys |-> CHOOSE i \in Ids : k.slot = (CASE i = 1 -> Shared [] i = 2 -> p1 [] OTHER -> p2)]}
=============================================================================
