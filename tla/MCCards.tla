------------------------------- MODULE MCCards -------------------------------
(* Two games, a with saves x and w and b with y, on a raw card and a folder  *)
(* card (PCSX2's two slots), or on cards of their own beside a shared one.   *)
EXTENDS SyncCards

CONSTANTS a, b, x, w, y, f, h, old, new, one, two

MCPart(n, i, d) == [name |-> n, file |-> i, data |-> d]
MCSave(n, d) == {MCPart(n, i, d) : i \in {f, h}}

MCOwner == [n \in {x, w, y} |-> IF n = y THEN b ELSE a]
MCAllShared == [g \in {a, b} |-> None]
MCSlot == [c \in {one, two} |-> IF c = one THEN 1 ELSE 2]
MCCapacity2 == [c \in {one, two} |-> 2]
MCCompanionB == [g \in {a, b} |-> IF g = a THEN {b} ELSE {}]
MCServerUnits == [g \in {a, b} |-> IF g = a THEN {MCSave(x, old) \cup {MCPart(w, f, old)}} ELSE {{MCPart(y, f, old)}}]
MCWritable == {MCSave(x, new), {MCPart(x, f, new)}, {MCPart(y, f, new)}}
MCSlots == {[c \in {one, two} |-> IF c = two THEN "card" ELSE s] : s \in {"none", "erased", "card"}}
==============================================================================
