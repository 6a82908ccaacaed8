------------------------------ MODULE CardSaves ------------------------------
(***************************************************************************)
(* What sync takes a memory card for: saves by name, put and taken off one *)
(* at a time.  Only damage changes a save no one named; a repair brings    *)
(* saves back and changes none.                                            *)
(***************************************************************************)
EXTENDS Naturals, Functions

CONSTANTS Names, Contents

VARIABLES
  saves,    \* the contents of each save the card lists
  damage    \* how often the card was damaged

Put(n, c) ==
  /\ saves' = [m \in DOMAIN saves \cup {n} |-> IF m = n THEN c ELSE saves[m]]
  /\ UNCHANGED damage

TakeOff(n) ==
  /\ n \in DOMAIN saves
  /\ saves' = Restrict(saves, DOMAIN saves \ {n})
  /\ UNCHANGED damage

\* Damage may hide any save and change any content.
Damage == damage' = damage + 1

BringBack ==
  /\ damage > 0
  /\ \A n \in DOMAIN saves : n \in DOMAIN saves' /\ saves'[n] = saves[n]
  /\ UNCHANGED damage

Init == saves = <<>> /\ damage = 0
Next ==
  \/ \E n \in Names : TakeOff(n) \/ \E c \in Contents : Put(n, c)
  \/ Damage
  \/ BringBack

Spec == Init /\ [][Next]_<<saves, damage>>
==============================================================================
