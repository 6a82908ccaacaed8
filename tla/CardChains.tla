------------------------------ MODULE CardChains ------------------------------
(***************************************************************************)
(* What the cards with a table share: chains of blocks, where a table      *)
(* links each block to the next of its save and the last to `end`, and     *)
(* which blocks a new save is given.                                       *)
(***************************************************************************)
EXTENDS Naturals, FiniteSets

\* Where the links lead from a block, as long as they stay on the card.
Hops(link, first) ==
  LET hop[i \in 0..Cardinality(DOMAIN link)] ==
        IF i = 0 THEN first ELSE LET b == hop[i - 1] IN IF b \in DOMAIN link THEN link[b] ELSE b
  IN hop

\* The steps until they first come to the end.
Ends(hop, end, i) == hop[i] = end /\ (i = 0 \/ hop[i - 1] # end)
Until(hop, end) ==
  IF \E i \in DOMAIN hop : Ends(hop, end, i)
  THEN [i \in 1..(CHOOSE i \in DOMAIN hop : Ends(hop, end, i)) |-> hop[i - 1]] ELSE <<>>

\* The blocks from `first` to the end in order, or <<>> when the links lead
\* elsewhere or to no end.
Chain(link, end, first) == Until(Hops(link, first), end)

\* The n lowest numbers of S, or all there are, in order.
Lowest(S, n) ==
  [i \in 1..(IF n < Cardinality(S) THEN n ELSE Cardinality(S)) |-> CHOOSE b \in S : Cardinality({c \in S : c < b}) = i - 1]
==============================================================================
