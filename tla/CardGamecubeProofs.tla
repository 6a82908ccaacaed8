-------------------------- MODULE CardGamecubeProofs --------------------------
(***************************************************************************)
(* Theorems about the GameCube card of CardVolume, for cards of any size   *)
(* and any saves.  The directory and the table are kept twice: what either *)
(* copy serves (GcInv) and what a card whose copies power cuts tore still  *)
(* keeps (GcCards) are apart, and the theorems about saves rest on both.   *)
(***************************************************************************)
EXTENDS CardVolumeProofs

----------------------------------------------------------------------------
(* GameCube: the copies of the directory and the table. *)

\* Either copy passes and says the same.
Twins(p) == p[0].ok /\ p[1].ok /\ p[0].map = p[1].map

GcInv ==
  format = "gamecube" =>
    /\ shown = Showing(Gamecube!List(card))
    /\ ours => Twins(card.dir) /\ Twins(card.bat)

LEMMA GcIs ==
  ASSUME format = "gamecube", NEW v, NEW u, NEW b
  PROVE  /\ List(v) = Gamecube!List(v)
         /\ Remove(v, b) = Gamecube!Delete(v, b)
         /\ Inject(v, u) = Gamecube!Inject(v, u)
         /\ Repair(v) = Gamecube!Repair(v)
  BY DEF List, Remove, Inject, Repair

\* Only the directory, the table and the blocks count for a listing.
LEMMA GcListOf ==
  ASSUME NEW v, NEW w, Gamecube!Dir(v) = Gamecube!Dir(w), Gamecube!Bat(v) = Gamecube!Bat(w), v.data = w.data
  PROVE  Gamecube!List(v) = Gamecube!List(w)
<1>1. \A b : Gamecube!Walk(v, b) = Gamecube!Walk(w, b)
  BY DEF Gamecube!Walk
<1>2. \A s : Gamecube!EntryChain(v, s) = Gamecube!EntryChain(w, s)
  BY <1>1 DEF Gamecube!EntryChain
<1>3. Gamecube!Live(v) = Gamecube!Live(w)
  BY DEF Gamecube!Live
<1>4. \A s : Gamecube!Intact(v, s) = Gamecube!Intact(w, s)
  BY <1>2, <1>3 DEF Gamecube!Intact, Gamecube!Shared
<1>5. Gamecube!Listed(v) = Gamecube!Listed(w)
  BY <1>3, <1>4 DEF Gamecube!Listed
<1>6. \A order : Gamecube!Contents(v, order) = Gamecube!Contents(w, order)
  BY DEF Gamecube!Contents
<1> QED
  BY <1>2, <1>5, <1>6 DEF Gamecube!List

\* card_gamecube.c:380: a commit writes both copies.
LEMMA GcCommits ==
  ASSUME NEW v, NEW dir, NEW bat, NEW data
  PROVE  Twins(Gamecube!Commit(v, dir, bat, data).dir) /\ Twins(Gamecube!Commit(v, dir, bat, data).bat)
  BY DEF Gamecube!Commit, Gamecube!Both, Gamecube!Copies, Gamecube!Copy, Twins

LEMMA GcDeletes ==
  ASSUME NEW v, NEW b, Gamecube!Delete(v, b) # v
  PROVE  \E dir, bat, data : Gamecube!Delete(v, b) = Gamecube!Commit(v, dir, bat, data)
<1> DEFINE at == Gamecube!FindEntryAt(v, b)
           order == Gamecube!Walk(v, b)
           dir == [Gamecube!Dir(v) EXCEPT ![at[1]] = Gamecube!Empty]
           bat == [c \in Gamecube!Block |-> IF c \in Gamecube!Range(order) THEN Gamecube!Free ELSE Gamecube!Bat(v)[c]]
           data == [c \in Gamecube!Block |-> IF c \in Gamecube!Range(order) THEN None ELSE v.data[c]]
<1>1. Gamecube!Delete(v, b) = IF at = <<>> THEN v ELSE Gamecube!Commit(v, dir, bat, data)
  BY DEF Gamecube!Delete
<1> HIDE DEF at, order, dir, bat, data
<1> QED BY <1>1

LEMMA GcInjects ==
  ASSUME NEW v, NEW u, Gamecube!InjectCode(v, u) = "OK"
  PROVE  \E dir, bat, data : Gamecube!Inject(v, u) = Gamecube!Commit(v, dir, bat, data)
  BY DEF Gamecube!Inject

\* A torn copy leaves what the other says.
LEMMA GcTears ==
  ASSUME NEW p, Twins(p), NEW i \in {0, 1}
  PROVE  Gamecube!Tear(p, i)[Gamecube!Current(Gamecube!Tear(p, i))].map = p[Gamecube!Current(p)].map
<1> DEFINE t == Gamecube!Tear(p, i)
<1>1. /\ t[0] = IF i = 0 THEN Gamecube!Lost(p[0]) ELSE p[0]
      /\ t[1] = IF i = 1 THEN Gamecube!Lost(p[1]) ELSE p[1]
  BY DEF Gamecube!Tear, Gamecube!Copies
<1>2. Gamecube!Current(p) \in {0, 1}
  BY DEF Gamecube!Current
<1> HIDE DEF t
<1>3. t[0].map = p[0].map /\ t[1].map = p[0].map
  BY <1>1 DEF Twins, Gamecube!Lost
<1>4. Gamecube!Current(t) \in {0, 1}
  BY DEF Gamecube!Current
<1> QED
  BY <1>2, <1>3, <1>4 DEF t, Twins

\* card_gamecube.c:580: a repair shows what the copies that pass say, and a
\* second one nothing more.
LEMMA GcRestored ==
  ASSUME NEW p
  PROVE  /\ Gamecube!Restored(p)[Gamecube!Current(Gamecube!Restored(p))].map = p[Gamecube!Current(p)].map
         /\ Gamecube!Restored(Gamecube!Restored(p)) = Gamecube!Restored(p)
<1>1. CASE p[0].ok = p[1].ok
  BY <1>1 DEF Gamecube!Restored
<1>2. CASE p[0].ok # p[1].ok
  <2> DEFINE r == Gamecube!Restored(p)
  <2>1. r = [i \in {0, 1} |-> p[Gamecube!Current(p)]]
    BY <1>2 DEF Gamecube!Restored, Gamecube!Copies
  <2>2. r[0] = p[Gamecube!Current(p)] /\ r[1] = p[Gamecube!Current(p)]
    BY <2>1
  <2> HIDE DEF r
  <2>3. Gamecube!Current(r) \in {0, 1}
    BY DEF Gamecube!Current
  <2>4. Gamecube!Restored(r) = r
    BY <2>2 DEF Gamecube!Restored
  <2> QED BY <2>2, <2>3, <2>4 DEF r
<1> QED
  BY <1>1, <1>2

LEMMA GcFormatted ==
  ASSUME NEW c
  PROVE  /\ Gamecube!List(Gamecube!Format(c)) = {}
         /\ Twins(Gamecube!Format(c).dir) /\ Twins(Gamecube!Format(c).bat)
<1> DEFINE v == Gamecube!Format(c)
<1>1. /\ Twins(v.dir) /\ Twins(v.bat)
      /\ v.dir[0].map = [s \in Gamecube!Slot |-> Gamecube!Empty]
  BY DEF Gamecube!Format, Gamecube!Copies, Gamecube!Copy, Twins
<1> HIDE DEF v
<1>2. Gamecube!Dir(v) = [s \in Gamecube!Slot |-> Gamecube!Empty]
  <2>1. Gamecube!Current(v.dir) \in {0, 1}
    BY DEF Gamecube!Current
  <2> QED BY <1>1, <2>1 DEF Gamecube!Dir, Twins
<1>3. Gamecube!Listed(v) = {}
  BY <1>2 DEF Gamecube!Listed, Gamecube!Live, Gamecube!IsLive, Gamecube!Empty
<1>4. Gamecube!List(v) = {}
  BY <1>3 DEF Gamecube!List
<1> QED
  BY <1>1, <1>4 DEF v

LEMMA GcStep ==
  ASSUME GcInv, [Next]_vars
  PROVE  GcInv'
<1> SUFFICES ASSUME format = "gamecube", format' = "gamecube"
             PROVE  /\ shown' = Showing(Gamecube!List(card'))
                    /\ ours' => Twins(card'.dir) /\ Twins(card'.bat)
  BY FormatStays DEF GcInv, Gamecube!List, Gamecube!Listed, Gamecube!Live, Gamecube!Intact, Gamecube!Contents
<1>1. ASSUME NEW v, Step(v, Gamecube!List(v))
      PROVE  shown' = Showing(Gamecube!List(card')) /\ card' = v
  BY <1>1 DEF Step
<1>2. CASE Place
  <2>1. PICK u, empty : /\ PlaceCode(card, empty, u) = "OK" /\ ours'
                        /\ Step(Inject(empty, u), List(Inject(empty, u)))
    BY <1>2 DEF Place
  <2>2. InjectCode(empty, u) = "OK"
    BY <2>1 DEF PlaceCode
  <2>3. Gamecube!InjectCode(empty, u) = "OK"
    BY <2>2 DEF InjectCode
  <2>4. Step(Gamecube!Inject(empty, u), Gamecube!List(Gamecube!Inject(empty, u)))
    BY <2>1, GcIs
  <2>5. Twins(Gamecube!Inject(empty, u).dir) /\ Twins(Gamecube!Inject(empty, u).bat)
    BY <2>3, GcInjects, GcCommits
  <2> QED BY <1>1, <2>4, <2>5
<1>3. CASE TakeOff
  <2>1. PICK n \in Names : Cleared(card, n) # card /\ Step(Cleared(card, n), List(Cleared(card, n)))
    BY <1>3 DEF TakeOff
  <2>2. PICK b : Cleared(card, n) = Gamecube!Delete(card, b)
    BY <2>1, GcIs DEF Cleared
  <2>3. Step(Gamecube!Delete(card, b), Gamecube!List(Gamecube!Delete(card, b))) /\ Gamecube!Delete(card, b) # card
    BY <2>1, <2>2, GcIs
  <2>4. Twins(Gamecube!Delete(card, b).dir) /\ Twins(Gamecube!Delete(card, b).bat)
    BY <2>3, GcDeletes, GcCommits
  <2> QED BY <1>1, <2>3, <2>4
<1>4. CASE WriteRepaired
  <2>1. Step(Gamecube!Repair(card), Gamecube!List(Gamecube!Repair(card))) /\ ~ours'
    BY <1>4, GcIs DEF WriteRepaired
  <2> QED BY <1>1, <2>1
<1>5. CASE GamecubeTorn
  <2>1. PICK v : Step(v, Gamecube!List(v)) /\ ~ours'
    BY <1>5 DEF GamecubeTorn, Harm
  <2> QED BY <1>1, <2>1
<1>6. CASE ConsoleSaves
  <2>1. PICK v : Step(v, Gamecube!List(v)) /\ ~ours'
    BY <1>6 DEF ConsoleSaves
  <2> QED BY <1>1, <2>1
<1>7. CASE UNCHANGED vars
  BY <1>7 DEF vars, GcInv
<1> QED
  BY <1>2, <1>3, <1>4, <1>5, <1>6, <1>7
     DEF Next, Restores, Damages, Ps1Link, VmuLink, VmuUnwritten, SaturnDecay, SegacdDecay, Ps2Link

LEMMA GcHolds == Spec => []GcInv
<1>1. Init => GcInv
  <2> SUFFICES ASSUME Init, format = "gamecube" PROVE GcInv
    BY DEF GcInv
  <2>1. PICK c : card = Gamecube!Format(c) /\ shown = <<>>
    BY DEF Init, Formatted
  <2> QED BY <2>1, GcFormatted, ShowsNone DEF GcInv
<1> QED
  BY <1>1, GcStep, PTL DEF Spec

\* card_gamecube.h:69: once a restore wrote a card, either copy of its
\* directory and of its table serves.
THEOREM EitherCopyServes == Spec => []CopiesServe
<1>1. GcInv => CopiesServe
  <2> SUFFICES ASSUME GcInv, format = "gamecube", ours, NEW i \in {0, 1}, NEW k \in {0, 1}
               PROVE  Showing(Gamecube!List(Gamecube!Torn(Gamecube!Torn(card, "dir", i), "bat", k))) = shown
    BY DEF CopiesServe, Gamecube!Copies
  <2> DEFINE v == Gamecube!Torn(Gamecube!Torn(card, "dir", i), "bat", k)
  <2>1. v.dir = Gamecube!Tear(card.dir, i) /\ v.bat = Gamecube!Tear(card.bat, k) /\ v.data = card.data
    BY DEF Gamecube!Torn
  <2>2. Twins(card.dir) /\ Twins(card.bat) /\ shown = Showing(Gamecube!List(card))
    BY DEF GcInv
  <2> HIDE DEF v
  <2>3. Gamecube!Dir(v) = Gamecube!Dir(card) /\ Gamecube!Bat(v) = Gamecube!Bat(card)
    BY <2>1, <2>2, GcTears DEF Gamecube!Dir, Gamecube!Bat
  <2>4. Gamecube!List(v) = Gamecube!List(card)
    BY <2>1, <2>3, GcListOf
  <2> QED BY <2>2, <2>4 DEF v
<1> QED
  BY <1>1, GcHolds, PTL

\* sync.md:143-153: a second repair finds nothing, and a repair of a copy
\* brings nothing back but what the listing had, on every card but a VMU.
THEOREM RepairsSettle == Spec => [](format # "vmu" => RepairSettles)
<1>1. GcInv => (format # "vmu" => RepairSettles)
  <2> SUFFICES ASSUME GcInv, format # "vmu", Repair(card) # card
               PROVE  /\ Repair(Repair(card)) = Repair(card)
                      /\ \A e \in List(Repair(card)) : e.name \in DOMAIN shown
    BY DEF RepairSettles
  <2>1. format = "gamecube"
    BY DEF Repair
  <2> DEFINE v == Gamecube!Repair(card)
  <2>2. v.dir = Gamecube!Restored(card.dir) /\ v.bat = Gamecube!Restored(card.bat) /\ v.data = card.data
    BY DEF Gamecube!Repair
  <2>3. Gamecube!Repair(v) = v
    <3>1. Gamecube!Repair(v) = [dir |-> Gamecube!Restored(v.dir), bat |-> Gamecube!Restored(v.bat), data |-> v.data]
      BY DEF Gamecube!Repair
    <3>2. v = [dir |-> Gamecube!Restored(card.dir), bat |-> Gamecube!Restored(card.bat), data |-> card.data]
      BY DEF Gamecube!Repair
    <3>3. Gamecube!Restored(v.dir) = v.dir /\ Gamecube!Restored(v.bat) = v.bat
      BY <2>2, GcRestored
    <3> HIDE DEF v
    <3> QED BY <2>2, <3>1, <3>2, <3>3
  <2>4. Gamecube!List(v) = Gamecube!List(card)
    <3> HIDE DEF v
    <3>1. Gamecube!Dir(v) = Gamecube!Dir(card) /\ Gamecube!Bat(v) = Gamecube!Bat(card)
      BY <2>2, GcRestored DEF Gamecube!Dir, Gamecube!Bat
    <3> QED BY <2>2, <3>1, GcListOf
  <2>5. Repair(card) = v /\ Repair(v) = Gamecube!Repair(v) /\ List(v) = Gamecube!List(v)
    BY <2>1, GcIs
  <2>6. \A e \in Gamecube!List(card) : e.name \in DOMAIN shown
    BY <2>1 DEF GcInv, Showing
  <2> HIDE DEF v
  <2> QED BY <2>3, <2>4, <2>5, <2>6
<1> QED
  BY <1>1, GcHolds, PTL

----------------------------------------------------------------------------
(* Tables that say of each block which one follows, or that it is free:    *)
(* GameCube cards and VMUs.                                                *)

Linkable(link, end) == IsFiniteSet(DOMAIN link) /\ end \notin DOMAIN link
Trail(link, end, c) == {Chain(link, end, c)[i] : i \in 1..Len(Chain(link, end, c))}

\* What a chain is: distinct blocks, each linked to the next.
LEMMA ChainIs ==
  ASSUME NEW link, NEW end, NEW c, Linkable(link, end), Chain(link, end, c) # <<>>
  PROVE  LET order == Chain(link, end, c)
             n == Len(order)
         IN  /\ n \in Nat \ {0} /\ order[1] = c
             /\ order = [i \in 1..n |-> order[i]]
             /\ \A i \in 1..n : order[i] \in DOMAIN link
             /\ \A i, j \in 1..n : order[i] = order[j] => i = j
             /\ \A i \in 1..n : link[order[i]] = IF i = n THEN end ELSE order[i + 1]
<1> DEFINE order == Chain(link, end, c)
           n == Len(order)
<1>1. IsFiniteSet(DOMAIN link) /\ end \notin DOMAIN link
  BY DEF Linkable
<1>2. Path(link, end, order) /\ order[1] = c
  BY <1>1, ChainIsPath
<1> HIDE DEF order
<1>3. n \in Nat \ {0} /\ order = [i \in 1..n |-> order[i]] /\ \A i \in 1..n : order[i] \in DOMAIN link
  BY <1>2, PathIs
<1>4. \A i, j \in 1..n : order[i] = order[j] => i = j
  BY <1>1, <1>2, PathInjective
<1>5. \A i \in 1..n : link[order[i]] = IF i = n THEN end ELSE order[i + 1]
  <2>1. \A i \in 1..n : i # n => i \in 1..(n - 1)
    BY <1>3
  <2> QED BY <1>2, <2>1 DEF Path
<1> QED
  BY <1>2, <1>3, <1>4, <1>5 DEF order

\* The blocks of a chain link to one another or to the end.
LEMMA TrailIs ==
  ASSUME NEW link, NEW end, NEW c, Linkable(link, end)
  PROVE  LET order == Chain(link, end, c)
             D == Trail(link, end, c)
         IN  /\ order = <<>> => D = {}
             /\ order # <<>> => c \in D /\ order[Len(order)] \in D
             /\ D \subseteq DOMAIN link
             /\ \A b \in D : link[b] \in D \cup {end}
             /\ {order[i] : i \in DOMAIN order} = D
<1> DEFINE order == Chain(link, end, c)
           n == Len(order)
<1>1. CASE order = <<>>
  BY <1>1 DEF Trail
<1>2. CASE order # <<>>
  <2>1. /\ n \in Nat \ {0} /\ order[1] = c
        /\ order = [i \in 1..n |-> order[i]]
        /\ \A i \in 1..n : order[i] \in DOMAIN link
        /\ \A i \in 1..n : link[order[i]] = IF i = n THEN end ELSE order[i + 1]
    BY <1>2, ChainIs
  <2>2. Trail(link, end, c) = {order[i] : i \in 1..n}
    BY DEF Trail
  <2> HIDE DEF order, n
  <2>3. \A i \in 1..n : i # n => i + 1 \in 1..n
    BY <2>1
  <2>4. \A b \in Trail(link, end, c) : link[b] \in Trail(link, end, c) \cup {end}
    <3>1. ASSUME NEW i \in 1..n PROVE link[order[i]] \in Trail(link, end, c) \cup {end}
      <4>1. CASE i = n
        BY <2>1, <4>1
      <4>2. CASE i # n
        BY <2>1, <2>2, <2>3, <4>2
      <4> QED BY <4>1, <4>2
    <3> QED BY <2>2, <3>1
  <2>5. c \in Trail(link, end, c) /\ order[n] \in Trail(link, end, c) /\ Trail(link, end, c) \subseteq DOMAIN link
    BY <2>1, <2>2
  <2>6. DOMAIN order = 1..n
    BY <2>1
  <2> QED BY <1>2, <2>2, <2>4, <2>5, <2>6 DEF order, n
<1> QED
  BY <1>1, <1>2

\* The same chain runs over a table that agrees on it.
LEMMA ChainSame ==
  ASSUME NEW link, NEW end, NEW c, Linkable(link, end), Chain(link, end, c) # <<>>,
         NEW next, DOMAIN next = DOMAIN link, \A b \in Trail(link, end, c) : next[b] = link[b]
  PROVE  Chain(next, end, c) = Chain(link, end, c)
<1> DEFINE order == Chain(link, end, c)
<1>1. IsFiniteSet(DOMAIN link) /\ end \notin DOMAIN link
  BY DEF Linkable
<1>2. Path(link, end, order) /\ order[1] = c
  BY <1>1, ChainIsPath
<1>3. \A i \in 1..Len(order) : next[order[i]] = link[order[i]]
  BY DEF Trail
<1> HIDE DEF order
<1>4. Path(next, end, order)
  BY <1>2, <1>3, PathKept
<1>5. Chain(next, end, c) = order
  BY <1>1, <1>2, <1>4, PathIsChain
<1> QED BY <1>5 DEF order

\* A chain that meets a set the links don't leave ends in it.
LEMMA TrailsMeet ==
  ASSUME NEW link, NEW end, NEW c, Linkable(link, end),
         NEW S, \A b \in S : link[b] \in S \cup {end}, S \cap Trail(link, end, c) # {}
  PROVE  LET order == Chain(link, end, c) IN order # <<>> /\ order[Len(order)] \in S
<1> DEFINE order == Chain(link, end, c)
           n == Len(order)
<1>1. order # <<>>
  BY TrailIs
<1>2. Path(link, end, order) /\ n \in Nat \ {0}
  BY <1>1, ChainIsPath, ChainIs DEF Linkable
<1>3. PICK i \in 1..n : order[i] \in S
  BY DEF Trail
<1>4. \A b \in S : link[b] \in DOMAIN link => link[b] \in S
  BY DEF Linkable
<1> HIDE DEF order
<1>5. \A j \in 1..n : i <= j => order[j] \in S
  BY <1>2, <1>3, <1>4, PathStays
<1> QED BY <1>1, <1>2, <1>3, <1>5 DEF order

\* Freeing blocks leaves the chains that don't have them.
LEMMA ChainsFreed ==
  ASSUME NEW link, NEW end, Linkable(link, end), NEW D, NEW free, free \notin DOMAIN link, free # end,
         NEW next, DOMAIN next = DOMAIN link,
         \A b \in DOMAIN link : next[b] = IF b \in D THEN free ELSE link[b],
         NEW c, Trail(link, end, c) \cap D = {}
  PROVE  Chain(next, end, c) = Chain(link, end, c)
<1>1. Linkable(next, end)
  BY DEF Linkable
<1>2. CASE Chain(link, end, c) # <<>>
  <2>1. \A b \in Trail(link, end, c) : next[b] = link[b]
    BY TrailIs
  <2> QED BY <1>2, <2>1, ChainSame
<1>3. CASE Chain(next, end, c) # <<>>
  <2>1. \A b \in Trail(next, end, c) : b \in DOMAIN link /\ next[b] \in DOMAIN link \cup {end}
    BY <1>1, TrailIs
  <2>2. \A b \in Trail(next, end, c) : link[b] = next[b]
    BY <2>1
  <2> QED BY <1>1, <1>3, <2>2, ChainSame
<1> QED BY <1>2, <1>3

\* A table with a chain written on blocks that were free.
Laid(link, end, order, D, next) ==
  /\ Linkable(link, end)
  /\ Len(order) \in Nat \ {0} /\ order = [i \in 1..Len(order) |-> order[i]]
  /\ D = {order[i] : i \in 1..Len(order)}
  /\ \A b \in D : b \in DOMAIN link /\ link[b] \notin DOMAIN link \cup {end}
  /\ DOMAIN next = DOMAIN link
  /\ \A b \in DOMAIN link \ D : next[b] = link[b]
  /\ \A i \in 1..Len(order) : next[order[i]] = IF i = Len(order) THEN end ELSE order[i + 1]

\* A chain written on free blocks leaves the others; one that was broken and
\* now comes to an end does so in the new one, and on the way meets none that
\* wasn't.
LEMMA ChainsWritten ==
  ASSUME NEW link, NEW end, NEW order, NEW D, NEW next, Laid(link, end, order, D, next)
  PROVE  /\ Linkable(next, end)
         /\ Chain(next, end, order[1]) = order /\ Trail(next, end, order[1]) = D
         /\ \A c : Chain(link, end, c) # <<>> =>
              Chain(next, end, c) = Chain(link, end, c) /\ Trail(link, end, c) \cap D = {}
         /\ \A c : Chain(link, end, c) = <<>> /\ Chain(next, end, c) # <<>> =>
              /\ Trail(next, end, c) \cap D # {}
              /\ \A a : Chain(link, end, a) # <<>> => Trail(next, end, c) \cap Trail(link, end, a) = {}
<1> DEFINE n == Len(order)
<1>0. /\ Linkable(link, end) /\ n \in Nat \ {0} /\ order = [i \in 1..n |-> order[i]]
      /\ D = {order[i] : i \in 1..n} /\ \A i \in 1..n : order[i] \in DOMAIN link
      /\ \A b \in D : b \in DOMAIN link /\ link[b] \notin DOMAIN link \cup {end}
      /\ DOMAIN next = DOMAIN link
      /\ \A b \in DOMAIN link \ D : next[b] = link[b]
      /\ \A i \in 1..n : next[order[i]] = IF i = n THEN end ELSE order[i + 1]
  BY DEF Laid
<1> HIDE DEF n
<1> USE <1>0
<1>1. Linkable(next, end)
  BY DEF Linkable
<1>2. Chain(next, end, order[1]) = order /\ Trail(next, end, order[1]) = D
  <2>1. order \in Seq(DOMAIN next) /\ order # <<>>
    OBVIOUS
  <2>2. \A i \in 1..(n - 1) : i \in 1..n /\ i # n
    OBVIOUS
  <2>3. n \in 1..n
    OBVIOUS
  <2>4. Path(next, end, order)
    BY <2>1, <2>2, <2>3 DEF Path, n
  <2>5. Chain(next, end, order[1]) = order
    BY <1>1, <2>4, PathIsChain DEF Linkable
  <2>6. Trail(next, end, order[1]) = {order[i] : i \in 1..n}
    BY <2>5 DEF Trail, n
  <2> QED BY <2>5, <2>6
<1>3. ASSUME NEW c, Chain(link, end, c) # <<>>
      PROVE  Chain(next, end, c) = Chain(link, end, c) /\ Trail(link, end, c) \cap D = {}
  <2>1. \A b \in Trail(link, end, c) : b \in DOMAIN link /\ link[b] \in DOMAIN link \cup {end}
    BY TrailIs
  <2>2. Trail(link, end, c) \cap D = {}
    BY <2>1
  <2>3. \A b \in Trail(link, end, c) : next[b] = link[b]
    BY <2>1, <2>2
  <2> QED BY <1>3, <2>2, <2>3, ChainSame
<1>4. ASSUME NEW c, Chain(link, end, c) = <<>>, Chain(next, end, c) # <<>>
      PROVE  Trail(next, end, c) \cap D # {}
  <2> SUFFICES ASSUME Trail(next, end, c) \cap D = {} PROVE FALSE
    OBVIOUS
  <2>1. \A b \in Trail(next, end, c) : link[b] = next[b]
    BY <1>1, TrailIs
  <2>2. Chain(link, end, c) = Chain(next, end, c)
    BY <1>1, <1>4, <2>1, ChainSame
  <2> QED BY <1>4, <2>2
<1>5. ASSUME NEW c, Chain(link, end, c) = <<>>, Chain(next, end, c) # <<>>,
             NEW a, Chain(link, end, a) # <<>>
      PROVE  Trail(next, end, c) \cap Trail(link, end, a) = {}
  <2> DEFINE S == Trail(link, end, a)
             last == Chain(next, end, c)[Len(Chain(next, end, c))]
  <2> SUFFICES ASSUME S \cap Trail(next, end, c) # {} PROVE FALSE
    OBVIOUS
  <2>1. Trail(next, end, a) = S /\ S \cap D = {}
    <3>1. Chain(next, end, a) = Chain(link, end, a) /\ S \cap D = {}
      BY <1>3, <1>5
    <3> QED BY <3>1, SMTT(20) DEF Trail
  <2>2. \A b \in S : next[b] \in S \cup {end}
    BY <1>1, <2>1, TrailIs
  <2>3. \A b \in D : next[b] \in D \cup {end}
    BY <1>1, <1>2, TrailIs
  <2>4. D \cap Trail(next, end, c) # {}
    BY <1>4, <1>5
  <2> HIDE DEF S
  <2>5. last \in S /\ last \in D
    BY <1>1, <2>2, <2>3, <2>4, TrailsMeet
  <2> QED BY <2>1, <2>5
<1> QED
  BY <1>1, <1>2, <1>3, <1>4, <1>5

----------------------------------------------------------------------------
(* GameCube cards: the saves. *)

GcEntries == [name : Names \cup {None}, first : Nat, size : Nat]

\* Directories whose saves have names of their own, and tables.
GcDirs == {d \in [Gamecube!Slot -> GcEntries] :
             \A s, t \in Gamecube!Slot : d[s].name # None /\ d[s].name = d[t].name => s = t}
GcBats == [Gamecube!Block -> Nat]

\* What a card that mounts has.
GcMounts(v) == Gamecube!Dir(v) \in GcDirs /\ Gamecube!Bat(v) \in GcBats

GcTrail(v, s) == Trail(Gamecube!Bat(v), Gamecube!End, Gamecube!Dir(v)[s].first)

LEMMA GcBounds == /\ Blocks \in Nat \ {0} /\ Gamecube!Block = 1..Blocks /\ IsFiniteSet(Gamecube!Block)
                  /\ Cardinality(Gamecube!Block) = Blocks
                  /\ Gamecube!Free = 0 /\ Gamecube!Free \notin Gamecube!Block
                  /\ Gamecube!End \in Nat /\ Gamecube!End \notin Gamecube!Block /\ Gamecube!End # Gamecube!Free
                  /\ Slots \in Nat \ {0} /\ Gamecube!Slot = 1..Slots /\ IsFiniteSet(Gamecube!Slot)
                  /\ Cardinality(Gamecube!Slot) = Slots
<1>1. /\ Blocks \in Nat \ {0} /\ Gamecube!Block = 1..Blocks /\ Gamecube!End = Blocks + 1 /\ Gamecube!Free = 0
      /\ Slots \in Nat \ {0} /\ Gamecube!Slot = 1..Slots
  BY BoundsSound DEF Gamecube!Block, Gamecube!End, Gamecube!Free, Gamecube!Slot
<1>2. ASSUME NEW n \in Nat \ {0} PROVE IsFiniteSet(1..n) /\ Cardinality(1..n) = n
  <2>1. 1 \in Int /\ n \in Int /\ ~(1 > n) /\ n - 1 + 1 = n
    BY <1>2
  <2> QED BY <2>1, FS_Interval
<1> QED BY <1>1, <1>2

LEMMA GcCounts == \A S : Gamecube!Cardinality(S) = Cardinality(S)
  BY DEF Gamecube!Cardinality, Cardinality, Gamecube!IsFiniteSet, IsFiniteSet

LEMMA GcLowest ==
  ASSUME NEW S, NEW n
  PROVE  Gamecube!Lowest(S, n) = Lowest(S, n)
<1> DEFINE rank(b) == Cardinality({c \in S : c < b})
           k == IF n < Cardinality(S) THEN n ELSE Cardinality(S)
<1>1. Gamecube!Cardinality(S) = Cardinality(S) /\ \A b : Gamecube!Cardinality({c \in S : c < b}) = rank(b)
  BY GcCounts
<1>2. Gamecube!Lowest(S, n) =
        [i \in 1..(IF n < Gamecube!Cardinality(S) THEN n ELSE Gamecube!Cardinality(S)) |->
           CHOOSE b \in S : Gamecube!Cardinality({c \in S : c < b}) = i - 1]
  BY DEF Gamecube!Lowest
<1>3. Lowest(S, n) = [i \in 1..k |-> CHOOSE b \in S : rank(b) = i - 1]
  BY DEF Lowest
<1> HIDE DEF rank
<1> QED BY <1>1, <1>2, <1>3

\* The first of a set of numbers, or none.
LEMMA LowestFirst ==
  ASSUME NEW S \in SUBSET Nat, IsFiniteSet(S)
  PROVE  /\ S = {} => Lowest(S, 1) = <<>>
         /\ S # {} => Lowest(S, 1) # <<>> /\ Lowest(S, 1)[1] \in S /\ {Lowest(S, 1)[i] : i \in DOMAIN Lowest(S, 1)} \subseteq S
         /\ S # {} => Lowest(S, 1)[1] \in {Lowest(S, 1)[i] : i \in DOMAIN Lowest(S, 1)}
<1> DEFINE L == Lowest(S, 1)
<1>1. L \in Seq(S) /\ Len(L) = IF 1 < Cardinality(S) THEN 1 ELSE Cardinality(S)
  BY LowestIs
<1> HIDE DEF L
<1>2. Cardinality(S) \in Nat /\ (S = {} <=> Cardinality(S) = 0)
  BY FS_CardinalityType, FS_EmptySet
<1>3. CASE S = {}
  BY <1>1, <1>2, <1>3 DEF L
<1>4. CASE S # {}
  <2>1. Len(L) = 1
    <3>1. Cardinality(S) # 0 /\ Len(L) = IF 1 < Cardinality(S) THEN 1 ELSE Cardinality(S)
      BY <1>1, <1>2, <1>4
    <3> DEFINE k == Cardinality(S)
    <3>2. k \in Nat /\ k # 0 /\ Len(L) = IF 1 < k THEN 1 ELSE k
      BY <1>2, <3>1
    <3> HIDE DEF k
    <3> QED BY <3>2
  <2>2. L # <<>> /\ L[1] \in S /\ DOMAIN L = 1..1
    BY <1>1, <2>1
  <2>3. \A x : x \in {L[i] : i \in DOMAIN L} <=> x = L[1]
    <3>1. \A i : i \in 1..1 <=> i = 1
      OBVIOUS
    <3> QED BY <2>2, <3>1
  <2> QED BY <1>4, <2>2, <2>3 DEF L
<1> QED BY <1>3, <1>4

LEMMA GcChain ==
  ASSUME NEW v, NEW c
  PROVE  Gamecube!Walk(v, c) = Chain(Gamecube!Bat(v), Gamecube!End, c)
<1>1. Gamecube!Cardinality(DOMAIN Gamecube!Bat(v)) = Cardinality(DOMAIN Gamecube!Bat(v))
  BY GcCounts
<1>2. Gamecube!Hops(Gamecube!Bat(v), c) = Hops(Gamecube!Bat(v), c)
  BY <1>1 DEF Gamecube!Hops, Hops
<1> QED BY <1>2 DEF Gamecube!Walk, Gamecube!Chain, Chain, Gamecube!Until, Until, Gamecube!Ends, Ends

\* A table with a link for every block has chains.
LEMMA GcTrails ==
  ASSUME NEW v, GcMounts(v), NEW s
  PROVE  /\ Linkable(Gamecube!Bat(v), Gamecube!End) /\ DOMAIN Gamecube!Bat(v) = Gamecube!Block
         /\ Gamecube!EntryChain(v, s) = Chain(Gamecube!Bat(v), Gamecube!End, Gamecube!Dir(v)[s].first)
         /\ Gamecube!Range(Gamecube!EntryChain(v, s)) = GcTrail(v, s)
         /\ GcTrail(v, s) \subseteq Gamecube!Block
         /\ Gamecube!EntryChain(v, s) = <<>> => GcTrail(v, s) = {}
<1>1. DOMAIN Gamecube!Bat(v) = Gamecube!Block
  BY DEF GcMounts, GcBats
<1>2. Linkable(Gamecube!Bat(v), Gamecube!End)
  BY <1>1, GcBounds DEF Linkable
<1>3. Gamecube!EntryChain(v, s) = Chain(Gamecube!Bat(v), Gamecube!End, Gamecube!Dir(v)[s].first)
  BY GcChain DEF Gamecube!EntryChain
<1> DEFINE order == Gamecube!EntryChain(v, s)
<1>4. Gamecube!Range(order) = {order[i] : i \in DOMAIN order}
  BY DEF Gamecube!Range
<1>5. /\ {order[i] : i \in DOMAIN order} = GcTrail(v, s)
      /\ GcTrail(v, s) \subseteq Gamecube!Block
      /\ order = <<>> => GcTrail(v, s) = {}
  BY <1>1, <1>2, <1>3, TrailIs DEF GcTrail
<1> QED BY <1>1, <1>2, <1>3, <1>4, <1>5

LEMMA GcShared ==
  ASSUME NEW v, GcMounts(v), NEW s
  PROVE  Gamecube!Shared(v, s) <=> \E o \in Gamecube!Live(v) \ {s} : GcTrail(v, s) \cap GcTrail(v, o) # {}
<1>1. \A o : Gamecube!Range(Gamecube!EntryChain(v, o)) = GcTrail(v, o)
  BY GcTrails
<1> QED
  BY <1>1 DEF Gamecube!Shared

GcShown(v, s) == [name |-> Gamecube!Dir(v)[s].name, first |-> Gamecube!Dir(v)[s].first,
                  file |-> Gamecube!Contents(v, Gamecube!EntryChain(v, s))]

LEMMA GcLists ==
  ASSUME NEW v, GcMounts(v)
  PROVE  /\ Gamecube!List(v) = {GcShown(v, s) : s \in Gamecube!Listed(v)}
         /\ \A s, t \in Gamecube!Live(v) : Gamecube!Dir(v)[s].name = Gamecube!Dir(v)[t].name => s = t
         /\ \A x, y \in Gamecube!List(v) : x.name = y.name => x = y
         /\ \A s : GcShown(v, s).name = Gamecube!Dir(v)[s].name /\ GcShown(v, s).first = Gamecube!Dir(v)[s].first
                   /\ GcShown(v, s).file = Gamecube!Contents(v, Gamecube!EntryChain(v, s))
<1>1. Gamecube!List(v) = {GcShown(v, s) : s \in Gamecube!Listed(v)}
  BY DEF Gamecube!List, GcShown
<1>2. \A s : GcShown(v, s).name = Gamecube!Dir(v)[s].name /\ GcShown(v, s).first = Gamecube!Dir(v)[s].first
             /\ GcShown(v, s).file = Gamecube!Contents(v, Gamecube!EntryChain(v, s))
  BY DEF GcShown
<1>3. Gamecube!Listed(v) \subseteq Gamecube!Live(v)
  BY DEF Gamecube!Listed
<1>4. \A s, t \in Gamecube!Live(v) : Gamecube!Dir(v)[s].name = Gamecube!Dir(v)[t].name => s = t
  BY DEF Gamecube!Live, Gamecube!IsLive, GcMounts, GcDirs
<1>5. ASSUME NEW x \in Gamecube!List(v), NEW y \in Gamecube!List(v), x.name = y.name PROVE x = y
  <2>1. PICK s \in Gamecube!Listed(v) : x = GcShown(v, s)
    BY <1>1
  <2>2. PICK t \in Gamecube!Listed(v) : y = GcShown(v, t)
    BY <1>1
  <2>3. s = t
    BY <1>2, <1>3, <1>4, <1>5, <2>1, <2>2
  <2> QED BY <2>1, <2>2, <2>3
<1> QED
  BY <1>1, <1>2, <1>4, <1>5

\* A listed save has a chain.
LEMMA GcListed ==
  ASSUME NEW v, GcMounts(v), NEW s \in Gamecube!Listed(v)
  PROVE  /\ s \in Gamecube!Live(v) /\ s \in Gamecube!Slot
         /\ Gamecube!EntryChain(v, s) # <<>> /\ ~Gamecube!Shared(v, s)
<1>1. /\ s \in Gamecube!Live(v) /\ Gamecube!Dir(v)[s].size > 0
      /\ Len(Gamecube!EntryChain(v, s)) = Gamecube!Dir(v)[s].size /\ ~Gamecube!Shared(v, s)
  BY DEF Gamecube!Listed, Gamecube!Intact
<1>2. Gamecube!EntryChain(v, s) # <<>>
  <2> SUFFICES ASSUME Gamecube!EntryChain(v, s) = <<>> PROVE FALSE
    OBVIOUS
  <2>1. Len(<<>>) = 0
    OBVIOUS
  <2>2. Gamecube!Dir(v)[s].size = 0
    BY <1>1, <2>1
  <2> QED BY <1>1, <2>2
<1> QED
  BY <1>1, <1>2 DEF Gamecube!Live

\* Every save is whole, and every block is free or one's.
GcWhole(v) ==
  /\ Gamecube!Live(v) \subseteq Gamecube!Listed(v)
  /\ \A b \in Gamecube!Block \ Gamecube!FreeBlocks(v) : \E s \in Gamecube!Live(v) : b \in GcTrail(v, s)

\* Both copies hold directories, or tables, whatever power cuts tore.
GcPair(p, maps) == DOMAIN p = {0, 1} /\ p[0].map \in maps /\ p[1].map \in maps
GcMounted(p) == p[Gamecube!Current(p)].map

LEMMA GcPairs ==
  ASSUME NEW p, NEW maps, GcPair(p, maps), NEW map \in maps
  PROVE  /\ GcMounted(p) \in maps
         /\ GcPair(Gamecube!Both(p, map), maps) /\ GcMounted(Gamecube!Both(p, map)) = map
         /\ GcPair(Gamecube!Older(p, map), maps)
         /\ Gamecube!Current(Gamecube!Older(p, map)) # Gamecube!Current(p) => GcMounted(Gamecube!Older(p, map)) = map
         /\ GcPair(Gamecube!Restored(p), maps)
         /\ \A i \in {0, 1} : GcPair(Gamecube!Tear(p, i), maps)
<1>1. \A q : Gamecube!Current(q) \in {0, 1}
  BY DEF Gamecube!Current
<1>2. GcMounted(p) \in maps
  BY <1>1 DEF GcPair, GcMounted
<1>3. \A n : Gamecube!Copy(map, n).map = map
  BY DEF Gamecube!Copy
<1>4. GcPair(Gamecube!Both(p, map), maps) /\ GcMounted(Gamecube!Both(p, map)) = map
  <2> DEFINE q == Gamecube!Both(p, map)
  <2>1. DOMAIN q = {0, 1} /\ \A i \in {0, 1} : q[i] = Gamecube!Copy(map, Gamecube!Up(p[Gamecube!Current(p)].counter))
    BY DEF Gamecube!Both, Gamecube!Copies
  <2> HIDE DEF q
  <2>2. \A i \in {0, 1} : q[i].map = map
    BY <1>3, <2>1
  <2> QED BY <1>1, <2>1, <2>2 DEF GcPair, GcMounted, q
<1>5. /\ GcPair(Gamecube!Older(p, map), maps)
      /\ Gamecube!Current(Gamecube!Older(p, map)) # Gamecube!Current(p) => GcMounted(Gamecube!Older(p, map)) = map
  <2> DEFINE q == Gamecube!Older(p, map)
             c == Gamecube!Current(p)
             new == Gamecube!Copy(map, Gamecube!Up(p[c].counter))
  <2>1. q = [p EXCEPT ![1 - c] = new]
    BY DEF Gamecube!Older
  <2>2. c \in {0, 1} /\ 1 - c \in {0, 1} /\ (c = 0 => 1 - c = 1) /\ (c = 1 => 1 - c = 0)
    BY <1>1
  <2>3. new.map = map
    BY <1>3
  <2> HIDE DEF q, c, new
  <2>4. DOMAIN q = {0, 1} /\ \A i \in {0, 1} : q[i] = IF i = c THEN p[i] ELSE new
    BY <2>1, <2>2 DEF GcPair
  <2>5. GcPair(q, maps)
    BY <2>3, <2>4 DEF GcPair
  <2>6. Gamecube!Current(q) # c => GcMounted(q) = map
    BY <1>1, <2>3, <2>4 DEF GcMounted
  <2> QED BY <2>5, <2>6 DEF q, c
<1>6. GcPair(Gamecube!Restored(p), maps)
  <2>1. CASE p[0].ok = p[1].ok
    BY <2>1 DEF Gamecube!Restored
  <2>2. CASE p[0].ok # p[1].ok
    BY <1>1, <2>2 DEF Gamecube!Restored, Gamecube!Copies, GcPair
  <2> QED BY <2>1, <2>2
<1>7. ASSUME NEW i \in {0, 1} PROVE GcPair(Gamecube!Tear(p, i), maps)
  <2> DEFINE t == Gamecube!Tear(p, i)
  <2>1. DOMAIN t = {0, 1} /\ \A k \in {0, 1} : t[k] = IF k = i THEN Gamecube!Lost(p[k]) ELSE p[k]
    BY DEF Gamecube!Tear, Gamecube!Copies
  <2>2. \A c : Gamecube!Lost(c).map = c.map
    BY DEF Gamecube!Lost
  <2> HIDE DEF t
  <2>3. t[0].map = p[0].map /\ t[1].map = p[1].map
    BY <2>1, <2>2
  <2> QED BY <2>1, <2>3 DEF GcPair, t
<1> QED
  BY <1>2, <1>4, <1>5, <1>6, <1>7

\* A card that mounts w's directory and table in place of v's, without the
\* save of slot s.
GcWithout(v, s, w) ==
  LET D == GcTrail(v, s) IN
    /\ Gamecube!Dir(w) = [Gamecube!Dir(v) EXCEPT ![s] = Gamecube!Empty]
    /\ Gamecube!Bat(w) = [b \in Gamecube!Block |-> IF b \in D THEN Gamecube!Free ELSE Gamecube!Bat(v)[b]]
    /\ \A b \in Gamecube!Block \ D : w.data[b] = v.data[b]

LEMMA GcTakes ==
  ASSUME NEW v, GcMounts(v), NEW s \in Gamecube!Listed(v), NEW w, GcWithout(v, s, w)
  PROVE  /\ GcMounts(w)
         /\ Gamecube!List(w) = Gamecube!List(v) \ {GcShown(v, s)}
         /\ GcWhole(v) => GcWhole(w)
<1> DEFINE D == GcTrail(v, s)
           chain(x, o) == Gamecube!EntryChain(x, o)
<1>1. /\ s \in Gamecube!Live(v) /\ s \in Gamecube!Slot
      /\ chain(v, s) # <<>> /\ ~Gamecube!Shared(v, s)
  BY GcListed
<1>2. /\ DOMAIN Gamecube!Dir(v) = Gamecube!Slot
      /\ \A t \in Gamecube!Slot : Gamecube!Dir(w)[t] = IF t = s THEN Gamecube!Empty ELSE Gamecube!Dir(v)[t]
      /\ Gamecube!Empty.name = None /\ Gamecube!Empty \in GcEntries
  BY <1>1 DEF GcMounts, GcDirs, GcWithout, Gamecube!Empty, GcEntries
<1>3. /\ D \subseteq Gamecube!Block
      /\ \A b \in Gamecube!Block : Gamecube!Bat(w)[b] = IF b \in D THEN Gamecube!Free ELSE Gamecube!Bat(v)[b]
      /\ DOMAIN Gamecube!Bat(w) = Gamecube!Block
      /\ \A b \in Gamecube!Block \ D : w.data[b] = v.data[b]
  BY GcTrails DEF GcWithout
<1>4. GcMounts(w)
  <2>1. Gamecube!Bat(w) \in GcBats
    <3>1. Gamecube!Bat(v) \in [Gamecube!Block -> Nat] /\ Gamecube!Free \in Nat
      BY GcBounds DEF GcMounts, GcBats
    <3> HIDE DEF D
    <3> QED BY <3>1 DEF GcWithout, GcBats, D
  <2>2. Gamecube!Dir(w) \in [Gamecube!Slot -> GcEntries]
    BY <1>1, <1>2 DEF GcMounts, GcDirs, GcWithout
  <2>3. \A a, b \in Gamecube!Slot : Gamecube!Dir(w)[a].name # None /\ Gamecube!Dir(w)[a].name = Gamecube!Dir(w)[b].name => a = b
    <3>1. \A a, b \in Gamecube!Slot : Gamecube!Dir(v)[a].name # None /\ Gamecube!Dir(v)[a].name = Gamecube!Dir(v)[b].name => a = b
      BY DEF GcMounts, GcDirs
    <3> QED BY <1>2, <3>1
  <2> QED BY <2>1, <2>2, <2>3 DEF GcMounts, GcDirs
<1>5. Gamecube!Live(w) = Gamecube!Live(v) \ {s}
  BY <1>2 DEF Gamecube!Live, Gamecube!IsLive
<1> HIDE DEF D
<1>6. ASSUME NEW o \in Gamecube!Live(v) \ {s}
      PROVE  /\ chain(w, o) = chain(v, o) /\ GcTrail(w, o) = GcTrail(v, o) /\ GcTrail(v, o) \cap D = {}
             /\ Gamecube!Dir(w)[o] = Gamecube!Dir(v)[o]
  <2>1. GcTrail(v, o) \cap D = {}
    BY <1>1, GcShared DEF D
  <2>2. Gamecube!Dir(w)[o] = Gamecube!Dir(v)[o]
    BY <1>2 DEF Gamecube!Live
  <2> DEFINE c == Gamecube!Dir(v)[o].first
             link == Gamecube!Bat(v)
             next == Gamecube!Bat(w)
             end == Gamecube!End
  <2>3. /\ Linkable(link, end) /\ DOMAIN link = Gamecube!Block
        /\ chain(v, o) = Chain(link, end, c) /\ GcTrail(v, o) = Trail(link, end, c)
    BY GcTrails DEF GcTrail
  <2>4. chain(w, o) = Chain(next, end, c) /\ GcTrail(w, o) = Trail(next, end, c)
    BY <1>4, <2>2, GcTrails DEF GcTrail
  <2>5. Gamecube!Free \notin Gamecube!Block /\ Gamecube!Free # end
    BY GcBounds
  <2> HIDE DEF c, link, next, end
  <2>6. Chain(next, end, c) = Chain(link, end, c)
    <3>1. DOMAIN next = DOMAIN link
      BY <1>3, <2>3 DEF next
    <3>2. \A b \in DOMAIN link : next[b] = IF b \in D THEN Gamecube!Free ELSE link[b]
      BY <1>3, <2>3 DEF next, link
    <3> QED BY <2>1, <2>3, <2>5, <3>1, <3>2, ChainsFreed
  <2> QED BY <2>1, <2>2, <2>3, <2>4, <2>6 DEF Trail
<1>7. ASSUME NEW c \in Gamecube!Live(v) \ {s} PROVE Gamecube!Shared(w, c) <=> Gamecube!Shared(v, c)
  <2>1. GcTrail(v, c) \cap GcTrail(v, s) = {}
    BY <1>6 DEF D
  <2> QED BY <1>4, <1>5, <1>6, <2>1, GcShared
<1>8. Gamecube!Listed(w) = Gamecube!Listed(v) \ {s}
  <2>1. \A c \in Gamecube!Live(v) \ {s} : Gamecube!Intact(w, c) <=> Gamecube!Intact(v, c)
    BY <1>6, <1>7 DEF Gamecube!Intact
  <2> QED BY <1>5, <2>1 DEF Gamecube!Listed
<1>9. \A c \in Gamecube!Listed(w) : GcShown(w, c) = GcShown(v, c)
  <2> SUFFICES ASSUME NEW c \in Gamecube!Listed(w) PROVE GcShown(w, c) = GcShown(v, c)
    OBVIOUS
  <2>1. c \in Gamecube!Live(v) \ {s}
    BY <1>5 DEF Gamecube!Listed
  <2> DEFINE order == chain(v, c)
  <2>2. \A i \in DOMAIN order : order[i] \in Gamecube!Block \ D
    <3>1. GcTrail(v, c) \subseteq Gamecube!Block /\ Gamecube!Range(order) = GcTrail(v, c)
      BY GcTrails
    <3>2. \A i \in DOMAIN order : order[i] \in GcTrail(v, c)
      BY <3>1 DEF Gamecube!Range
    <3> QED BY <1>6, <2>1, <3>1, <3>2
  <2>3. Gamecube!Contents(w, order) = Gamecube!Contents(v, order)
    BY <1>3, <2>2 DEF Gamecube!Contents
  <2> QED BY <1>6, <2>1, <2>3 DEF GcShown
<1>10. Gamecube!List(w) = Gamecube!List(v) \ {GcShown(v, s)}
  <2>1. /\ Gamecube!List(w) = {GcShown(w, c) : c \in Gamecube!Listed(w)}
        /\ Gamecube!List(v) = {GcShown(v, c) : c \in Gamecube!Listed(v)}
    BY <1>4, GcLists
  <2>2. \A a, b \in Gamecube!Listed(v) : GcShown(v, a) = GcShown(v, b) => a = b
    BY GcLists DEF Gamecube!Listed
  <2> QED BY <1>8, <1>9, <2>1, <2>2
<1>11. ASSUME GcWhole(v) PROVE GcWhole(w)
  <2>1. Gamecube!Live(w) \subseteq Gamecube!Listed(w)
    BY <1>5, <1>8, <1>11 DEF GcWhole
  <2>2. ASSUME NEW b \in Gamecube!Block \ Gamecube!FreeBlocks(w) PROVE \E c \in Gamecube!Live(w) : b \in GcTrail(w, c)
    <3>1. b \notin D /\ b \notin Gamecube!FreeBlocks(v)
      BY <1>3, <2>2 DEF Gamecube!FreeBlocks
    <3>2. PICK c \in Gamecube!Live(v) : b \in GcTrail(v, c)
      BY <1>11, <3>1 DEF GcWhole
    <3>3. c # s
      BY <3>1, <3>2 DEF D
    <3> QED BY <1>5, <1>6, <3>2, <3>3
  <2> QED BY <2>1, <2>2 DEF GcWhole
<1> QED
  BY <1>4, <1>10, <1>11

\* What a card keeps, whatever its copies went through.
GcCard(v) == GcPair(v.dir, GcDirs) /\ GcPair(v.bat, GcBats)

LEMMA GcKeeps ==
  ASSUME NEW v, GcCard(v)
  PROVE  /\ GcMounts(v)
         /\ \A dir \in GcDirs, bat \in GcBats : \A data :
              LET w == Gamecube!Commit(v, dir, bat, data)
              IN  GcCard(w) /\ Gamecube!Dir(w) = dir /\ Gamecube!Bat(w) = bat /\ w.data = data
<1>1. GcMounts(v)
  <2>1. GcMounted(v.dir) \in GcDirs
    <3>1. v.dir[0].map \in GcDirs
      BY DEF GcCard, GcPair
    <3> QED BY <3>1, GcPairs DEF GcCard
  <2>2. GcMounted(v.bat) \in GcBats
    <3>1. v.bat[0].map \in GcBats
      BY DEF GcCard, GcPair
    <3> QED BY <3>1, GcPairs DEF GcCard
  <2> QED BY <2>1, <2>2 DEF GcMounts, Gamecube!Dir, Gamecube!Bat, GcMounted
<1>2. ASSUME NEW dir \in GcDirs, NEW bat \in GcBats, NEW data
      PROVE  LET w == Gamecube!Commit(v, dir, bat, data)
             IN  GcCard(w) /\ Gamecube!Dir(w) = dir /\ Gamecube!Bat(w) = bat /\ w.data = data
  <2> DEFINE w == Gamecube!Commit(v, dir, bat, data)
  <2>1. w.dir = Gamecube!Both(v.dir, dir) /\ w.bat = Gamecube!Both(v.bat, bat) /\ w.data = data
    BY DEF Gamecube!Commit
  <2> HIDE DEF w
  <2>2. GcPair(w.dir, GcDirs) /\ GcMounted(w.dir) = dir
    BY <2>1, GcPairs DEF GcCard
  <2>3. GcPair(w.bat, GcBats) /\ GcMounted(w.bat) = bat
    BY <2>1, GcPairs DEF GcCard
  <2> QED BY <2>1, <2>2, <2>3 DEF GcCard, Gamecube!Dir, Gamecube!Bat, GcMounted, w
<1> QED
  BY <1>1, <1>2

\* The first of one.
LEMMA GcOnly ==
  ASSUME NEW S, NEW s \in Nat, S = {s}
  PROVE  LET L == Gamecube!Lowest(S, 1) IN L # <<>> /\ L[1] = s /\ Gamecube!Range(L) = {s}
<1> DEFINE L == Gamecube!Lowest(S, 1)
           M == Lowest(S, 1)
<1>1. S \in SUBSET Nat /\ IsFiniteSet(S) /\ S # {}
  BY FS_Singleton
<1>2. M # <<>> /\ M[1] \in S /\ {M[i] : i \in DOMAIN M} \subseteq S /\ M[1] \in {M[i] : i \in DOMAIN M}
  BY <1>1, LowestFirst
<1>3. L = M
  BY GcLowest
<1> HIDE DEF L, M
<1>4. Gamecube!Range(L) = {L[i] : i \in DOMAIN L}
  BY DEF Gamecube!Range
<1> QED
  BY <1>2, <1>3, <1>4 DEF L

\* A listed save's first block finds its entry, and no other.
LEMMA GcFinds ==
  ASSUME NEW v, GcMounts(v), NEW s \in Gamecube!Listed(v)
  PROVE  LET first == Gamecube!Dir(v)[s].first
             found == {r \in Gamecube!Live(v) : /\ Gamecube!Dir(v)[r].first = first
                                                /\ Len(Gamecube!EntryChain(v, r)) = Gamecube!Dir(v)[r].size}
         IN  /\ found = {s}
             /\ Gamecube!FindEntryAt(v, first) # <<>> /\ Gamecube!FindEntryAt(v, first)[1] = s
<1> DEFINE first == Gamecube!Dir(v)[s].first
           found == {r \in Gamecube!Live(v) : /\ Gamecube!Dir(v)[r].first = first
                                              /\ Len(Gamecube!EntryChain(v, r)) = Gamecube!Dir(v)[r].size}
<1>1. /\ s \in Gamecube!Live(v) /\ s \in Gamecube!Slot
      /\ Len(Gamecube!EntryChain(v, s)) = Gamecube!Dir(v)[s].size
      /\ Gamecube!EntryChain(v, s) # <<>> /\ ~Gamecube!Shared(v, s)
  BY GcListed DEF Gamecube!Listed, Gamecube!Intact
<1>2. GcTrail(v, s) # {}
  BY <1>1, GcTrails, TrailIs DEF GcTrail
<1>3. \A r \in Gamecube!Live(v) : Gamecube!Dir(v)[r].first = first => r = s
  <2> SUFFICES ASSUME NEW r \in Gamecube!Live(v), Gamecube!Dir(v)[r].first = first, r # s PROVE FALSE
    OBVIOUS
  <2>1. GcTrail(v, r) = GcTrail(v, s)
    BY DEF GcTrail
  <2> QED BY <1>1, <1>2, <2>1, GcShared
<1>4. found = {s}
  BY <1>1, <1>3
<1>5. s \in Nat
  BY <1>1, GcBounds
<1>6. Gamecube!FindEntryAt(v, first) = Gamecube!Lowest(found, 1)
  BY DEF Gamecube!FindEntryAt
<1> HIDE DEF found
<1>7. Gamecube!Lowest(found, 1) # <<>> /\ Gamecube!Lowest(found, 1)[1] = s
  BY <1>4, <1>5, GcOnly
<1> QED
  BY <1>4, <1>6, <1>7 DEF found

\* card_gamecube.c:442: a listed save comes off.
LEMMA GcRemoves ==
  ASSUME NEW v, GcCard(v), NEW s \in Gamecube!Listed(v)
  PROVE  LET w == Gamecube!Delete(v, Gamecube!Dir(v)[s].first)
         IN  GcCard(w) /\ GcWithout(v, s, w)
<1> DEFINE first == Gamecube!Dir(v)[s].first
           w == Gamecube!Delete(v, first)
           D == GcTrail(v, s)
           order == Gamecube!Walk(v, first)
           dir == [Gamecube!Dir(v) EXCEPT ![s] = Gamecube!Empty]
           bat == [b \in Gamecube!Block |-> IF b \in D THEN Gamecube!Free ELSE Gamecube!Bat(v)[b]]
           data == [b \in Gamecube!Block |-> IF b \in D THEN None ELSE v.data[b]]
<1>1. GcMounts(v)
  BY GcKeeps
<1>2. Gamecube!FindEntryAt(v, first) # <<>> /\ Gamecube!FindEntryAt(v, first)[1] = s
  BY <1>1, GcFinds
<1>3. Gamecube!Range(order) = D
  BY <1>1, GcTrails DEF Gamecube!EntryChain
<1>4. w = Gamecube!Commit(v, dir, bat, data)
  <2> DEFINE at == Gamecube!FindEntryAt(v, first)
  <2>1. w = IF at = <<>> THEN v
            ELSE Gamecube!Commit(v, [Gamecube!Dir(v) EXCEPT ![at[1]] = Gamecube!Empty],
                   [b \in Gamecube!Block |-> IF b \in Gamecube!Range(order) THEN Gamecube!Free ELSE Gamecube!Bat(v)[b]],
                   [b \in Gamecube!Block |-> IF b \in Gamecube!Range(order) THEN None ELSE v.data[b]])
    BY DEF Gamecube!Delete
  <2> HIDE DEF at, order, D, w
  <2> QED BY <1>2, <1>3, <2>1 DEF at
<1>5. dir \in GcDirs /\ bat \in GcBats
  <2>1. /\ Gamecube!Dir(v) \in [Gamecube!Slot -> GcEntries] /\ Gamecube!Bat(v) \in [Gamecube!Block -> Nat]
        /\ \A a, b \in Gamecube!Slot : Gamecube!Dir(v)[a].name # None /\ Gamecube!Dir(v)[a].name = Gamecube!Dir(v)[b].name => a = b
    BY <1>1 DEF GcMounts, GcDirs, GcBats
  <2>2. Gamecube!Empty.name = None /\ Gamecube!Empty \in GcEntries
    BY DEF Gamecube!Empty, GcEntries
  <2>3. bat \in GcBats
    <3>1. Gamecube!Free \in Nat
      BY GcBounds
    <3> HIDE DEF D
    <3> QED BY <2>1, <3>1 DEF GcBats
  <2>4. dir \in [Gamecube!Slot -> GcEntries]
    BY <2>1, <2>2
  <2>5. s \in Gamecube!Slot /\ \A a \in Gamecube!Slot : dir[a] = IF a = s THEN Gamecube!Empty ELSE Gamecube!Dir(v)[a]
    BY <2>1 DEF Gamecube!Listed, Gamecube!Live
  <2> HIDE DEF dir
  <2>6. \A a, b \in Gamecube!Slot : dir[a].name # None /\ dir[a].name = dir[b].name => a = b
    BY <2>1, <2>2, <2>5
  <2> QED BY <2>3, <2>4, <2>6 DEF GcDirs
<1> HIDE DEF dir, bat, data, w
<1>6. GcCard(w) /\ Gamecube!Dir(w) = dir /\ Gamecube!Bat(w) = bat /\ w.data = data
  BY <1>4, <1>5, GcKeeps
<1>7. \A b \in Gamecube!Block \ D : w.data[b] = v.data[b]
  BY <1>6 DEF data
<1> QED
  BY <1>6, <1>7 DEF GcWithout, dir, bat, w

\* A card that mounts w's directory and table in place of v's, with a save.
GcWith(v, u, w) ==
  Gamecube!Dir(w) = Gamecube!DirWith(v, u) /\ Gamecube!Bat(w) = Gamecube!BatWith(v, u) /\ w.data = Gamecube!Filled(v, u)

GcSlot(v) == Gamecube!Lowest(Gamecube!Slot \ Gamecube!Live(v), 1)[1]

\* The blocks chosen are free, distinct and as many as the file has, and the
\* slot is no save's.
LEMMA GcChooses ==
  ASSUME NEW v, GcMounts(v), NEW u \in Units, Gamecube!InjectCode(v, u) = "OK"
  PROVE  LET order == Gamecube!Chosen(v, u)
             n == Len(u.file)
         IN  /\ n \in Nat \ {0} /\ Len(order) = n
             /\ order = [i \in 1..n |-> order[i]]
             /\ \A i \in 1..n : order[i] \in Gamecube!FreeBlocks(v)
             /\ \A i, j \in 1..n : order[i] = order[j] => i = j
             /\ GcSlot(v) \in Gamecube!Slot \ Gamecube!Live(v)
             /\ \A s \in Gamecube!Live(v) : Gamecube!Dir(v)[s].name # u.name
<1> DEFINE S == Gamecube!FreeBlocks(v)
           n == Len(u.file)
           order == Gamecube!Chosen(v, u)
           L == Gamecube!Live(v)
           T == Gamecube!Slot \ L
           N == {s \in L : Gamecube!Dir(v)[s].name = u.name}
<1>1. n \in Nat \ {0}
  BY UnitsHaveFiles
<1>2. /\ Gamecube!Identity(v, u.name) = <<>>
      /\ Slots - Cardinality(L) # 0 /\ ~(Cardinality(S) < n)
  <2>1. /\ ~Gamecube!NameTaken(v, u)
        /\ Gamecube!FreeSlots(v) # 0 /\ ~(Gamecube!Cardinality(S) < n)
    BY DEF Gamecube!InjectCode
  <2>2. Gamecube!FreeSlots(v) = Slots - Gamecube!Cardinality(L)
    BY DEF Gamecube!FreeSlots
  <2> HIDE DEF S, L, n
  <2> QED BY <2>1, <2>2, GcCounts DEF Gamecube!NameTaken
<1>3. S \in SUBSET Nat /\ IsFiniteSet(S) /\ Cardinality(S) \in Nat
  <2>1. S \subseteq Gamecube!Block /\ Gamecube!Block \subseteq Nat /\ IsFiniteSet(Gamecube!Block)
    BY GcBounds DEF Gamecube!FreeBlocks
  <2> HIDE DEF S
  <2>2. IsFiniteSet(S) /\ Cardinality(S) \in Nat
    BY <2>1, FS_Subset, FS_CardinalityType
  <2> QED BY <2>1, <2>2
<1>4. L \subseteq Gamecube!Slot /\ N \in SUBSET Nat /\ IsFiniteSet(N) /\ T \in SUBSET Nat /\ IsFiniteSet(T)
  <2>1. L \subseteq Gamecube!Slot
    BY DEF Gamecube!Live
  <2>2. Gamecube!Slot \subseteq Nat /\ IsFiniteSet(Gamecube!Slot)
    BY GcBounds
  <2>3. N \subseteq Gamecube!Slot /\ T \subseteq Gamecube!Slot
    BY <2>1
  <2> HIDE DEF N, T, L
  <2>4. IsFiniteSet(N) /\ IsFiniteSet(T)
    BY <2>2, <2>3, FS_Subset
  <2> QED BY <2>1, <2>2, <2>3, <2>4
<1>5. order = Lowest(S, n) /\ Gamecube!Identity(v, u.name) = Lowest(N, 1) /\ GcSlot(v) = Lowest(T, 1)[1]
  <2>1. order = Gamecube!Lowest(S, n) /\ Gamecube!Identity(v, u.name) = Gamecube!Lowest(N, 1)
    BY DEF Gamecube!Chosen, Gamecube!Identity
  <2>2. GcSlot(v) = Gamecube!Lowest(T, 1)[1]
    BY DEF GcSlot
  <2> HIDE DEF S, n, order, N, T
  <2> QED BY <2>1, <2>2, GcLowest
<1>6. \A s \in L : Gamecube!Dir(v)[s].name # u.name
  <2>1. N = {}
    <3> HIDE DEF N
    <3> QED BY <1>2, <1>4, <1>5, LowestFirst
  <2> QED BY <2>1
<1>7. T # {}
  <2> SUFFICES ASSUME T = {} PROVE FALSE
    OBVIOUS
  <2>1. L = Gamecube!Slot
    BY <1>4
  <2> HIDE DEF L
  <2>2. Cardinality(L) = Slots /\ Slots \in Nat
    BY <2>1, GcBounds
  <2> QED BY <1>2, <2>2
<1> HIDE DEF S, n, order, T, N
<1>8. GcSlot(v) \in T
  BY <1>4, <1>5, <1>7, LowestFirst
<1>9. n <= Cardinality(S)
  BY <1>1, <1>2, <1>3
<1>10. /\ order \in Seq(S) /\ Len(order) = IF n < Cardinality(S) THEN n ELSE Cardinality(S)
       /\ \A i, j \in 1..Len(order) : order[i] = order[j] => i = j
  BY <1>1, <1>3, <1>5, LowestIs
<1>11. Len(order) = n
  BY <1>1, <1>3, <1>9, <1>10
<1>12. order = [i \in 1..n |-> order[i]] /\ \A i \in 1..n : order[i] \in S
  BY <1>10, <1>11
<1> QED
  BY <1>1, <1>6, <1>8, <1>10, <1>11, <1>12 DEF S, n, order, T

\* card_gamecube.c:322: what is written for a save.
LEMMA GcWrites ==
  ASSUME NEW v, GcMounts(v), NEW u \in Units, Gamecube!InjectCode(v, u) = "OK"
  PROVE  LET order == Gamecube!Chosen(v, u)
             n == Len(u.file)
             D == {order[i] : i \in 1..n}
             dir == Gamecube!DirWith(v, u)
             bat == Gamecube!BatWith(v, u)
             data == Gamecube!Filled(v, u)
         IN  /\ dir \in GcDirs /\ bat \in GcBats
             /\ \A t \in Gamecube!Slot : dir[t] = IF t = GcSlot(v) THEN [name |-> u.name, first |-> order[1], size |-> n]
                                                  ELSE Gamecube!Dir(v)[t]
             /\ \A b \in Gamecube!Block \ D : bat[b] = Gamecube!Bat(v)[b] /\ data[b] = v.data[b]
             /\ \A i \in 1..n : /\ bat[order[i]] = IF i = n THEN Gamecube!End ELSE order[i + 1]
                                /\ data[order[i]] = u.file[i]
<1> DEFINE order == Gamecube!Chosen(v, u)
           n == Len(u.file)
           D == {order[i] : i \in 1..n}
           slot == GcSlot(v)
           new == [name |-> u.name, first |-> order[1], size |-> n]
           dir == Gamecube!DirWith(v, u)
           bat == Gamecube!BatWith(v, u)
           data == Gamecube!Filled(v, u)
           At(b) == CHOOSE i \in 1..n : order[i] = b
<1>1. /\ n \in Nat \ {0} /\ Len(order) = n
      /\ order = [i \in 1..n |-> order[i]]
      /\ \A i \in 1..n : order[i] \in Gamecube!FreeBlocks(v)
      /\ \A i, j \in 1..n : order[i] = order[j] => i = j
      /\ slot \in Gamecube!Slot \ Gamecube!Live(v)
      /\ \A s \in Gamecube!Live(v) : Gamecube!Dir(v)[s].name # u.name
  BY GcChooses
<1>2. DOMAIN order = 1..n /\ Gamecube!Range(order) = D /\ Gamecube!Last(order) = order[n]
  <2> HIDE DEF order, n
  <2>1. DOMAIN order = 1..n
    BY <1>1
  <2> QED BY <1>1, <2>1 DEF Gamecube!Range, Gamecube!Last
<1>3. /\ dir = [Gamecube!Dir(v) EXCEPT ![slot] = new]
      /\ bat = [b \in Gamecube!Block |-> IF b \notin D THEN Gamecube!Bat(v)[b]
                                         ELSE IF b = order[n] THEN Gamecube!End ELSE order[1 + At(b)]]
      /\ data = [b \in Gamecube!Block |-> IF b \in D THEN u.file[At(b)] ELSE v.data[b]]
  <2>1. dir = [Gamecube!Dir(v) EXCEPT ![slot] = new]
    BY DEF Gamecube!DirWith, GcSlot
  <2>2. bat = [b \in Gamecube!Block |->
                 IF b \notin Gamecube!Range(order) THEN Gamecube!Bat(v)[b]
                 ELSE IF b = Gamecube!Last(order) THEN Gamecube!End
                 ELSE order[1 + CHOOSE i \in DOMAIN order : order[i] = b]]
    BY DEF Gamecube!BatWith
  <2>3. data = [b \in Gamecube!Block |->
                  IF b \in Gamecube!Range(order) THEN u.file[CHOOSE i \in DOMAIN order : order[i] = b] ELSE v.data[b]]
    BY DEF Gamecube!Filled
  <2> HIDE DEF D, order, n, bat, data, dir
  <2> QED BY <1>2, <2>1, <2>2, <2>3
<1>4. \A i \in 1..n : order[i] \in Gamecube!Block /\ order[i] \in D /\ order[i] \in Nat
  <2>1. Gamecube!FreeBlocks(v) \subseteq Gamecube!Block /\ Gamecube!Block \subseteq Nat
    BY GcBounds DEF Gamecube!FreeBlocks
  <2> HIDE DEF order, n
  <2> QED BY <1>1, <2>1
<1> HIDE DEF order, n, slot, dir, bat, data
<1>5. \A i \in 1..n : At(order[i]) = i
  BY <1>1
<1>6. \A b \in D : \E i \in 1..n : b = order[i]
  OBVIOUS
<1> HIDE DEF At
<1>7. \A i \in 1..n : order[i] = order[n] <=> i = n
  <2>1. n \in 1..n
    BY <1>1
  <2> QED BY <1>1, <2>1
<1>8. \A i \in 1..n : i # n => i + 1 \in 1..n /\ 1 + i = i + 1
  BY <1>1
<1> HIDE DEF D
<1>9. \A i \in 1..n : /\ bat[order[i]] = IF i = n THEN Gamecube!End ELSE order[i + 1]
                      /\ data[order[i]] = u.file[i]
  <2> SUFFICES ASSUME NEW i \in 1..n
               PROVE  /\ bat[order[i]] = IF i = n THEN Gamecube!End ELSE order[i + 1]
                      /\ data[order[i]] = u.file[i]
    OBVIOUS
  <2>1. order[i] \in Gamecube!Block /\ order[i] \in D /\ At(order[i]) = i
    BY <1>4, <1>5
  <2>2. bat[order[i]] = IF order[i] = order[n] THEN Gamecube!End ELSE order[1 + At(order[i])]
    BY <1>3, <2>1
  <2>3. bat[order[i]] = IF i = n THEN Gamecube!End ELSE order[i + 1]
    BY <1>7, <1>8, <2>1, <2>2
  <2>4. data[order[i]] = u.file[i]
    BY <1>3, <2>1
  <2> QED BY <2>3, <2>4
<1>10. \A b \in Gamecube!Block \ D : bat[b] = Gamecube!Bat(v)[b] /\ data[b] = v.data[b]
  BY <1>3
<1>11. bat \in GcBats
  <2>1. \A b \in Gamecube!Block : bat[b] \in Nat
    <3> SUFFICES ASSUME NEW b \in Gamecube!Block PROVE bat[b] \in Nat
      OBVIOUS
    <3>1. CASE b \notin D
      <4>1. Gamecube!Bat(v)[b] \in Nat
        BY DEF GcMounts, GcBats
      <4> QED BY <1>10, <3>1, <4>1
    <3>2. CASE b \in D
      <4>1. PICK i \in 1..n : b = order[i]
        BY <1>6, <3>2
      <4> QED BY <1>4, <1>8, <1>9, <4>1, GcBounds
    <3> QED BY <3>1, <3>2
  <2>2. bat = [b \in Gamecube!Block |-> bat[b]]
    BY <1>3
  <2> QED BY <2>1, <2>2 DEF GcBats
<1>12. /\ Gamecube!Dir(v) \in [Gamecube!Slot -> GcEntries]
       /\ \A s, t \in Gamecube!Slot : Gamecube!Dir(v)[s].name # None /\ Gamecube!Dir(v)[s].name = Gamecube!Dir(v)[t].name => s = t
  BY DEF GcMounts, GcDirs
<1>13. \A t \in Gamecube!Slot : dir[t] = IF t = slot THEN new ELSE Gamecube!Dir(v)[t]
  BY <1>3, <1>12
<1>14. new \in GcEntries /\ new.name = u.name
  <2>1. u.name \in Names
    BY UnitsHaveFiles
  <2>2. 1 \in 1..n /\ n \in Nat
    BY <1>1
  <2> QED BY <1>4, <2>1, <2>2 DEF GcEntries
<1>15. dir \in GcDirs
  <2>1. dir \in [Gamecube!Slot -> GcEntries]
    BY <1>3, <1>12, <1>14
  <2>2. \A t \in Gamecube!Slot : t # slot => Gamecube!Dir(v)[t].name # u.name
    <3>1. u.name # None
      BY UnitsAreSaves
    <3> QED BY <1>1, <3>1 DEF Gamecube!Live, Gamecube!IsLive
  <2>3. \A s, t \in Gamecube!Slot : dir[s].name # None /\ dir[s].name = dir[t].name => s = t
    <3> HIDE DEF new
    <3> QED BY <1>12, <1>13, <1>14, <2>2
  <2> QED BY <2>1, <2>3 DEF GcDirs
<1> QED
  BY <1>9, <1>10, <1>11, <1>13, <1>15 DEF order, n, D, slot, dir, bat, data

\* A save goes on, and what the listing shows stays: the new one shows too
\* unless a broken chain leads into its blocks.
LEMMA GcGains ==
  ASSUME NEW v, GcMounts(v), NEW u \in Units, Gamecube!InjectCode(v, u) = "OK", NEW w, GcWith(v, u, w)
  PROVE  LET slot == GcSlot(v)
             e == GcShown(w, slot)
         IN  /\ GcMounts(w)
             /\ slot \in Gamecube!Live(w) /\ Gamecube!Dir(w)[slot].size = Len(u.file)
             /\ e.name = u.name /\ e.file = u.file
             /\ \A x \in Gamecube!List(v) : x.name # u.name
             /\ Gamecube!List(w) \in {Gamecube!List(v), Gamecube!List(v) \cup {e}}
             /\ GcWhole(v) => GcWhole(w) /\ slot \in Gamecube!Listed(w) /\ e \in Gamecube!List(w)
<1> DEFINE order == Gamecube!Chosen(v, u)
           n == Len(u.file)
           D == {order[i] : i \in 1..n}
           slot == GcSlot(v)
           link == Gamecube!Bat(v)
           next == Gamecube!Bat(w)
           end == Gamecube!End
           first(s) == Gamecube!Dir(v)[s].first
<1>1. /\ n \in Nat \ {0} /\ Len(order) = n
      /\ order = [i \in 1..n |-> order[i]]
      /\ \A i \in 1..n : order[i] \in Gamecube!FreeBlocks(v)
      /\ \A i, j \in 1..n : order[i] = order[j] => i = j
      /\ slot \in Gamecube!Slot \ Gamecube!Live(v)
      /\ \A s \in Gamecube!Live(v) : Gamecube!Dir(v)[s].name # u.name
  BY GcChooses
<1>2. /\ GcMounts(w)
      /\ \A t \in Gamecube!Slot : Gamecube!Dir(w)[t] = IF t = slot THEN [name |-> u.name, first |-> order[1], size |-> n]
                                                       ELSE Gamecube!Dir(v)[t]
      /\ \A b \in Gamecube!Block \ D : next[b] = link[b] /\ w.data[b] = v.data[b]
      /\ \A i \in 1..n : /\ next[order[i]] = IF i = n THEN end ELSE order[i + 1]
                         /\ w.data[order[i]] = u.file[i]
  <2> DEFINE dir == Gamecube!DirWith(v, u)
             bat == Gamecube!BatWith(v, u)
             data == Gamecube!Filled(v, u)
  <2>1. /\ dir \in GcDirs /\ bat \in GcBats
        /\ \A t \in Gamecube!Slot : dir[t] = IF t = slot THEN [name |-> u.name, first |-> order[1], size |-> n]
                                             ELSE Gamecube!Dir(v)[t]
        /\ \A b \in Gamecube!Block \ D : bat[b] = link[b] /\ data[b] = v.data[b]
        /\ \A i \in 1..n : /\ bat[order[i]] = IF i = n THEN end ELSE order[i + 1]
                           /\ data[order[i]] = u.file[i]
    BY GcWrites
  <2>2. Gamecube!Dir(w) = dir /\ next = bat /\ w.data = data
    BY DEF GcWith
  <2> HIDE DEF dir, bat, data, order, n, D, slot, link, end
  <2> QED BY <2>1, <2>2 DEF GcMounts, next
<1>3. /\ Linkable(link, end) /\ DOMAIN link = Gamecube!Block /\ DOMAIN next = Gamecube!Block
      /\ \A s : /\ Gamecube!EntryChain(v, s) = Chain(link, end, first(s))
                /\ GcTrail(v, s) = Trail(link, end, first(s))
                /\ Gamecube!EntryChain(v, s) = <<>> => GcTrail(v, s) = {}
      /\ \A s : /\ Gamecube!EntryChain(w, s) = Chain(next, end, Gamecube!Dir(w)[s].first)
                /\ GcTrail(w, s) = Trail(next, end, Gamecube!Dir(w)[s].first)
                /\ Gamecube!EntryChain(w, s) = <<>> => GcTrail(w, s) = {}
  BY <1>2, GcTrails DEF GcTrail
<1> HIDE DEF order, n, slot, link, next, end
<1>4. /\ \A i \in 1..n : order[i] \in DOMAIN link
      /\ \A b \in D : link[b] \notin DOMAIN link \cup {end}
  <2>1. \A b \in Gamecube!FreeBlocks(v) : b \in Gamecube!Block /\ link[b] = Gamecube!Free
    BY DEF Gamecube!FreeBlocks, link
  <2>2. Gamecube!Free \notin Gamecube!Block /\ Gamecube!Free # end
    BY GcBounds DEF end
  <2> QED BY <1>1, <1>3, <2>1, <2>2
<1>5. /\ Chain(next, end, order[1]) = order /\ Trail(next, end, order[1]) = D
      /\ \A c : Chain(link, end, c) # <<>> =>
           Chain(next, end, c) = Chain(link, end, c) /\ Trail(link, end, c) \cap D = {}
      /\ \A c : Chain(link, end, c) = <<>> /\ Chain(next, end, c) # <<>> =>
           /\ Trail(next, end, c) \cap D # {}
           /\ \A a : Chain(link, end, a) # <<>> => Trail(next, end, c) \cap Trail(link, end, a) = {}
  <2>1. \A b \in D : b \in DOMAIN link
    BY <1>4
  <2>2. D = {order[i] : i \in 1..Len(order)} /\ Len(order) = n
    BY <1>1
  <2> HIDE DEF D
  <2>3. Laid(link, end, order, D, next)
    BY <1>1, <1>2, <1>3, <1>4, <2>1, <2>2 DEF Laid
  <2> QED BY <2>3, ChainsWritten
<1>6. D \subseteq Gamecube!FreeBlocks(v) /\ \A i \in 1..n : order[i] \in D
  BY <1>1
<1> HIDE DEF D, first
<1>7. Gamecube!Live(w) = Gamecube!Live(v) \cup {slot} /\ slot \notin Gamecube!Live(v)
  <2>1. u.name # None
    BY UnitsAreSaves
  <2>2. \A t \in Gamecube!Slot : Gamecube!Dir(w)[t].name # None <=> t = slot \/ Gamecube!Dir(v)[t].name # None
    BY <1>2, <2>1
  <2> QED BY <1>1, <2>2 DEF Gamecube!Live, Gamecube!IsLive
\* The new save's chain, and those that were whole.
<1>8. Gamecube!EntryChain(w, slot) = order /\ GcTrail(w, slot) = D /\ Gamecube!Dir(w)[slot].size = n
      /\ Gamecube!Dir(w)[slot].name = u.name
  <2>1. Gamecube!Dir(w)[slot] = [name |-> u.name, first |-> order[1], size |-> n]
    BY <1>1, <1>2
  <2>2. /\ Gamecube!Dir(w)[slot].first = order[1] /\ Gamecube!Dir(w)[slot].size = n
        /\ Gamecube!Dir(w)[slot].name = u.name
    BY <2>1
  <2>3. /\ Gamecube!EntryChain(w, slot) = Chain(next, end, Gamecube!Dir(w)[slot].first)
        /\ GcTrail(w, slot) = Trail(next, end, Gamecube!Dir(w)[slot].first)
    BY <1>3
  <2> QED BY <1>5, <2>2, <2>3
<1>9. ASSUME NEW s \in Gamecube!Live(v)
      PROVE  /\ s # slot /\ Gamecube!Dir(w)[s] = Gamecube!Dir(v)[s]
             /\ Gamecube!EntryChain(v, s) # <<>> =>
                  /\ Gamecube!EntryChain(w, s) = Gamecube!EntryChain(v, s)
                  /\ GcTrail(w, s) = GcTrail(v, s) /\ GcTrail(v, s) \cap D = {}
             /\ Gamecube!EntryChain(v, s) = <<>> /\ Gamecube!EntryChain(w, s) # <<>> =>
                  /\ GcTrail(w, s) \cap D # {}
                  /\ \A o : Gamecube!EntryChain(v, o) # <<>> => GcTrail(w, s) \cap GcTrail(v, o) = {}
  <2>1. s # slot /\ Gamecube!Dir(w)[s] = Gamecube!Dir(v)[s]
    BY <1>1, <1>2 DEF Gamecube!Live
  <2>2. Gamecube!Dir(w)[s].first = first(s)
    BY <2>1 DEF first
  <2>3. /\ Gamecube!EntryChain(w, s) = Chain(next, end, first(s)) /\ GcTrail(w, s) = Trail(next, end, first(s))
        /\ Gamecube!EntryChain(v, s) = Chain(link, end, first(s)) /\ GcTrail(v, s) = Trail(link, end, first(s))
    BY <1>3, <2>2
  <2>4. Gamecube!EntryChain(v, s) # <<>> =>
          /\ Gamecube!EntryChain(w, s) = Gamecube!EntryChain(v, s)
          /\ GcTrail(w, s) = GcTrail(v, s) /\ GcTrail(v, s) \cap D = {}
    <3> SUFFICES ASSUME Chain(link, end, first(s)) # <<>>
                 PROVE  /\ Chain(next, end, first(s)) = Chain(link, end, first(s))
                        /\ Trail(next, end, first(s)) = Trail(link, end, first(s))
                        /\ Trail(link, end, first(s)) \cap D = {}
      BY <2>3
    <3>1. Chain(next, end, first(s)) = Chain(link, end, first(s)) /\ Trail(link, end, first(s)) \cap D = {}
      BY <1>5
    <3> QED BY <3>1 DEF Trail
  <2>5. Gamecube!EntryChain(v, s) = <<>> /\ Gamecube!EntryChain(w, s) # <<>> =>
          /\ GcTrail(w, s) \cap D # {}
          /\ \A o : Gamecube!EntryChain(v, o) # <<>> => GcTrail(w, s) \cap GcTrail(v, o) = {}
    BY <1>3, <1>5, <2>3
  <2> QED BY <2>1, <2>4, <2>5
<1>10. ASSUME NEW c \in Gamecube!Listed(v)
       PROVE  c \in Gamecube!Listed(w)
  <2>1. c \in Gamecube!Live(v) /\ Gamecube!EntryChain(v, c) # <<>> /\ ~Gamecube!Shared(v, c)
    BY GcListed
  <2>2. /\ Gamecube!EntryChain(w, c) = Gamecube!EntryChain(v, c) /\ GcTrail(w, c) = GcTrail(v, c)
        /\ GcTrail(v, c) \cap D = {} /\ Gamecube!Dir(w)[c] = Gamecube!Dir(v)[c]
    BY <1>9, <2>1
  <2>3. ASSUME NEW o \in Gamecube!Live(w) \ {c} PROVE GcTrail(w, c) \cap GcTrail(w, o) = {}
    <3>1. CASE o = slot
      BY <1>8, <2>2, <3>1
    <3>2. CASE o \in Gamecube!Live(v) /\ Gamecube!EntryChain(v, o) # <<>>
      <4>1. GcTrail(w, o) = GcTrail(v, o)
        BY <1>9, <3>2
      <4>2. GcTrail(v, c) \cap GcTrail(v, o) = {}
        BY <2>1, <2>3, <3>2, GcShared
      <4> QED BY <2>2, <4>1, <4>2
    <3>3. CASE o \in Gamecube!Live(v) /\ Gamecube!EntryChain(v, o) = <<>>
      <4>1. CASE Gamecube!EntryChain(w, o) = <<>>
        BY <1>3, <4>1
      <4>2. CASE Gamecube!EntryChain(w, o) # <<>>
        <5>1. GcTrail(w, o) \cap GcTrail(v, c) = {}
          BY <1>9, <2>1, <3>3, <4>2
        <5> QED BY <2>2, <5>1
      <4> QED BY <4>1, <4>2
    <3> QED BY <1>7, <3>1, <3>2, <3>3
  <2>4. ~Gamecube!Shared(w, c)
    BY <1>2, <2>3, GcShared
  <2> QED BY <1>7, <2>1, <2>2, <2>4 DEF Gamecube!Listed, Gamecube!Intact
<1>11. ASSUME NEW c \in Gamecube!Listed(w), c # slot
       PROVE  c \in Gamecube!Listed(v)
  <2>1. c \in Gamecube!Live(w) /\ Gamecube!EntryChain(w, c) # <<>> /\ ~Gamecube!Shared(w, c)
    BY <1>2, GcListed
  <2>2. c \in Gamecube!Live(v)
    BY <1>7, <1>11, <2>1
  <2>3. Gamecube!EntryChain(v, c) # <<>>
    <3> SUFFICES ASSUME Gamecube!EntryChain(v, c) = <<>> PROVE FALSE
      OBVIOUS
    <3>1. GcTrail(w, c) \cap GcTrail(w, slot) # {}
      BY <1>8, <1>9, <2>1, <2>2
    <3>2. slot \in Gamecube!Live(w) \ {c}
      BY <1>7, <1>11
    <3> QED BY <1>2, <2>1, <3>1, <3>2, GcShared
  <2>4. /\ Gamecube!EntryChain(w, c) = Gamecube!EntryChain(v, c) /\ GcTrail(w, c) = GcTrail(v, c)
        /\ Gamecube!Dir(w)[c] = Gamecube!Dir(v)[c]
    BY <1>9, <2>2, <2>3
  <2>5. ASSUME NEW o \in Gamecube!Live(v) \ {c} PROVE GcTrail(v, c) \cap GcTrail(v, o) = {}
    <3>1. CASE Gamecube!EntryChain(v, o) = <<>>
      BY <1>3, <3>1
    <3>2. CASE Gamecube!EntryChain(v, o) # <<>>
      <4>1. GcTrail(w, o) = GcTrail(v, o)
        BY <1>9, <3>2
      <4>2. GcTrail(w, c) \cap GcTrail(w, o) = {}
        BY <1>2, <1>7, <2>1, GcShared
      <4> QED BY <2>4, <4>1, <4>2
    <3> QED BY <3>1, <3>2
  <2>6. ~Gamecube!Shared(v, c)
    BY <2>5, GcShared
  <2> QED BY <2>2, <2>4, <2>6 DEF Gamecube!Listed, Gamecube!Intact
<1>12. Gamecube!Listed(w) \in {Gamecube!Listed(v), Gamecube!Listed(v) \cup {slot}}
  BY <1>10, <1>11
<1>13. ASSUME NEW s \in Gamecube!Listed(v) PROVE GcShown(w, s) = GcShown(v, s)
  <2>1. s \in Gamecube!Live(v) /\ Gamecube!EntryChain(v, s) # <<>>
    BY GcListed
  <2>2. /\ Gamecube!EntryChain(w, s) = Gamecube!EntryChain(v, s) /\ GcTrail(v, s) \cap D = {}
        /\ Gamecube!Dir(w)[s] = Gamecube!Dir(v)[s]
    BY <1>9, <2>1
  <2> DEFINE walk == Gamecube!EntryChain(v, s)
  <2>3. \A i \in DOMAIN walk : walk[i] \in Gamecube!Block \ D
    <3>1. GcTrail(v, s) \subseteq Gamecube!Block /\ Gamecube!Range(walk) = GcTrail(v, s)
      BY GcTrails
    <3>2. \A i \in DOMAIN walk : walk[i] \in GcTrail(v, s)
      BY <3>1 DEF Gamecube!Range
    <3> QED BY <2>2, <3>1, <3>2
  <2>4. Gamecube!Contents(w, walk) = Gamecube!Contents(v, walk)
    BY <1>2, <2>3 DEF Gamecube!Contents
  <2> QED BY <2>2, <2>4 DEF GcShown
<1> DEFINE e == GcShown(w, slot)
<1>14. e.name = u.name /\ e.file = u.file
  <2>1. e.name = u.name /\ e.file = Gamecube!Contents(w, order)
    BY <1>8 DEF GcShown
  <2>2. Gamecube!Contents(w, order) = [i \in 1..n |-> w.data[order[i]]]
    <3>1. DOMAIN order = 1..n
      BY <1>1
    <3> QED BY <3>1 DEF Gamecube!Contents
  <2>3. u.file = [i \in 1..n |-> u.file[i]]
    BY UnitsHaveFiles DEF n
  <2> QED BY <1>2, <2>1, <2>2, <2>3
<1>15. /\ Gamecube!List(w) = {GcShown(w, s) : s \in Gamecube!Listed(w)}
       /\ Gamecube!List(v) = {GcShown(v, s) : s \in Gamecube!Listed(v)}
       /\ \A s : GcShown(v, s).name = Gamecube!Dir(v)[s].name
  BY <1>2, GcLists
<1>16. \A x \in Gamecube!List(v) : x.name # u.name
  BY <1>1, <1>15, GcListed
<1>17. Gamecube!List(w) \in {Gamecube!List(v), Gamecube!List(v) \cup {e}}
  BY <1>12, <1>13, <1>15
<1>18. ASSUME GcWhole(v) PROVE GcWhole(w) /\ slot \in Gamecube!Listed(w)
  <2>1. \A o \in Gamecube!Live(v) : Gamecube!EntryChain(v, o) # <<>> /\ o \in Gamecube!Listed(v)
    BY <1>18, GcListed DEF GcWhole
  <2>2. ~Gamecube!Shared(w, slot)
    <3>1. \A o \in Gamecube!Live(w) \ {slot} : GcTrail(w, slot) \cap GcTrail(w, o) = {}
      BY <1>7, <1>8, <1>9, <2>1
    <3> QED BY <1>2, <3>1, GcShared
  <2>3. slot \in Gamecube!Listed(w)
    <3>1. n > 0 /\ Len(order) = n
      BY <1>1
    <3> QED BY <1>7, <1>8, <2>2, <3>1 DEF Gamecube!Listed, Gamecube!Intact
  <2>4. Gamecube!Live(w) \subseteq Gamecube!Listed(w)
    BY <1>7, <1>10, <2>1, <2>3
  <2>5. ASSUME NEW b \in Gamecube!Block \ Gamecube!FreeBlocks(w) PROVE \E c \in Gamecube!Live(w) : b \in GcTrail(w, c)
    <3>1. CASE b \in D
      BY <1>7, <1>8, <3>1
    <3>2. CASE b \notin D
      <4>1. next[b] = link[b]
        BY <1>2, <3>2
      <4>2. b \notin Gamecube!FreeBlocks(v)
        BY <2>5, <4>1 DEF Gamecube!FreeBlocks, next, link
      <4>3. PICK c \in Gamecube!Live(v) : b \in GcTrail(v, c)
        BY <1>18, <4>2 DEF GcWhole
      <4> QED BY <1>7, <1>9, <2>1, <4>3
    <3> QED BY <3>1, <3>2
  <2> QED BY <2>3, <2>4, <2>5 DEF GcWhole
<1>19. slot \in Gamecube!Listed(w) => e \in Gamecube!List(w)
  BY <1>15
<1>20. slot \in Gamecube!Live(w)
  BY <1>7
<1> HIDE DEF e
<1> QED
  BY <1>2, <1>8, <1>14, <1>16, <1>17, <1>18, <1>19, <1>20 DEF slot, n, e

\* Taking a game's save off leaves the others, and none of its name.
LEMMA GcClears ==
  ASSUME format = "gamecube", NEW v, GcCard(v), NEW n
  PROVE  LET w == Cleared(v, n)
         IN  /\ GcCard(w) /\ (GcWhole(v) => GcWhole(w))
             /\ Showing(Gamecube!List(w)) = Without(Showing(Gamecube!List(v)), n)
             /\ \A x \in Gamecube!List(w) : x.name # n
             /\ w # v => n \in DOMAIN Showing(Gamecube!List(v))
<1> DEFINE w == Cleared(v, n)
           list == Gamecube!List(v)
<1>0. GcMounts(v)
  BY GcKeeps
<1>1. /\ list = {GcShown(v, s) : s \in Gamecube!Listed(v)}
      /\ \A x, y \in list : x.name = y.name => x = y
      /\ \A s : GcShown(v, s).name = Gamecube!Dir(v)[s].name /\ GcShown(v, s).first = Gamecube!Dir(v)[s].first
  BY <1>0, GcLists
<1>2. Named(v, n) = {x \in list : x.name = n}
  BY GcIs DEF Named
<1>3. DOMAIN Showing(list) = {x.name : x \in list} /\ Showing(list) = [m \in DOMAIN Showing(list) |-> Showing(list)[m]]
  BY ShowsNames
<1>4. CASE Named(v, n) = {}
  <2>1. w = v
    BY <1>4 DEF Cleared
  <2>2. n \notin DOMAIN Showing(list) /\ \A x \in list : x.name # n
    BY <1>2, <1>3, <1>4
  <2>3. Without(Showing(list), n) = Showing(list)
    BY <1>3, <2>2, ShowsSame
  <2> QED BY <2>1, <2>2, <2>3
<1>5. CASE Named(v, n) # {}
  <2> DEFINE e == CHOOSE x \in Named(v, n) : TRUE
  <2>1. e \in Named(v, n)
    BY <1>5
  <2>2. e \in list /\ e.name = n
    BY <1>2, <2>1
  <2>3. PICK s \in Gamecube!Listed(v) : e = GcShown(v, s)
    BY <1>1, <2>2
  <2>4. w = Gamecube!Delete(v, Gamecube!Dir(v)[s].first)
    <3>1. w = Remove(v, e.first)
      BY <1>5 DEF Cleared
    <3>2. e.first = Gamecube!Dir(v)[s].first
      BY <1>1, <2>3
    <3> QED BY <3>1, <3>2, GcIs
  <2>5. GcCard(w) /\ (GcWhole(v) => GcWhole(w)) /\ Gamecube!List(w) = list \ {e}
    <3> HIDE DEF list, e, w
    <3>1. GcCard(w) /\ GcWithout(v, s, w)
      BY <2>4, GcRemoves
    <3>2. (GcWhole(v) => GcWhole(w)) /\ Gamecube!List(w) = Gamecube!List(v) \ {GcShown(v, s)}
      BY <1>0, <3>1, GcTakes
    <3> QED BY <2>3, <3>1, <3>2 DEF list
  <2> HIDE DEF list, e, w
  <2>6. Showing(list \ {e}) = Without(Showing(list), n)
    <3>1. Showing(list \ {e}) = Without(Showing(list), e.name)
      BY <1>1, <2>2, ShowsLess
    <3> QED BY <2>2, <3>1
  <2>7. \A x \in list \ {e} : x.name # n
    BY <1>1, <2>2
  <2>8. n \in DOMAIN Showing(list)
    BY <1>3, <2>2
  <2> QED BY <2>5, <2>6, <2>7, <2>8 DEF list, w
<1> QED
  BY <1>4, <1>5

\* A save that goes on shows as it was given, unless a broken chain leads
\* into it: then it doesn't.  The others show as they did.
LEMMA GcPuts ==
  ASSUME NEW v, GcMounts(v), NEW u \in Units, Gamecube!InjectCode(v, u) = "OK", NEW w, GcWith(v, u, w)
  PROVE  LET show == Showing(Gamecube!List(v))
         IN  /\ Showing(Gamecube!List(w)) \in {show, With(show, u.name, u.file)}
             /\ GcWhole(v) => GcWhole(w) /\ Showing(Gamecube!List(w)) = With(show, u.name, u.file)
<1> DEFINE list == Gamecube!List(v)
           e == GcShown(w, GcSlot(v))
<1>1. /\ e.name = u.name /\ e.file = u.file
      /\ \A x \in list : x.name # u.name
      /\ Gamecube!List(w) \in {list, list \cup {e}}
      /\ GcWhole(v) => GcWhole(w) /\ e \in Gamecube!List(w)
  BY GcGains
<1>2. \A x, y \in list : x.name = y.name => x = y
  BY GcLists
<1> HIDE DEF list, e
<1>3. e \notin list
  BY <1>1
<1>4. Showing(list \cup {e}) = With(Showing(list), u.name, u.file)
  BY <1>1, <1>2, ShowsMore
<1> QED
  BY <1>1, <1>3, <1>4 DEF list

\* card_gamecube.c:380: both copies carry the save.
LEMMA GcPlaced ==
  ASSUME NEW v, GcCard(v), NEW u \in Units, Gamecube!InjectCode(v, u) = "OK"
  PROVE  GcCard(Gamecube!Inject(v, u)) /\ GcWith(v, u, Gamecube!Inject(v, u))
<1> DEFINE w == Gamecube!Inject(v, u)
<1>1. GcMounts(v)
  BY GcKeeps
<1>2. w = Gamecube!Commit(v, Gamecube!DirWith(v, u), Gamecube!BatWith(v, u), Gamecube!Filled(v, u))
  BY DEF Gamecube!Inject
<1>3. Gamecube!DirWith(v, u) \in GcDirs /\ Gamecube!BatWith(v, u) \in GcBats
  BY <1>1, GcWrites
<1> HIDE DEF w
<1> QED
  BY <1>2, <1>3, GcKeeps DEF GcWith, w

\* The console's own save: the copies it wrote are the ones it mounts next.
LEMMA GcConsole ==
  ASSUME NEW v, GcCard(v), NEW u \in Units, Gamecube!InjectCode(v, u) = "OK",
         NEW w, w = Gamecube!ConsoleInject(v, u),
         Gamecube!Current(w.dir) # Gamecube!Current(v.dir), Gamecube!Current(w.bat) # Gamecube!Current(v.bat)
  PROVE  GcCard(w) /\ GcWith(v, u, w)
<1> DEFINE dir == Gamecube!DirWith(v, u)
           bat == Gamecube!BatWith(v, u)
<1>1. w.dir = Gamecube!Older(v.dir, dir) /\ w.bat = Gamecube!Older(v.bat, bat) /\ w.data = Gamecube!Filled(v, u)
  BY DEF Gamecube!ConsoleInject
<1>2. dir \in GcDirs /\ bat \in GcBats
  BY GcKeeps, GcWrites
<1> HIDE DEF dir, bat
<1>3. GcPair(w.dir, GcDirs) /\ GcMounted(w.dir) = dir
  <2>1. GcPair(v.dir, GcDirs) /\ Gamecube!Current(Gamecube!Older(v.dir, dir)) # Gamecube!Current(v.dir)
    BY <1>1 DEF GcCard
  <2>2. GcPair(Gamecube!Older(v.dir, dir), GcDirs) /\ GcMounted(Gamecube!Older(v.dir, dir)) = dir
    BY <1>2, <2>1, GcPairs
  <2> QED BY <1>1, <2>2
<1>4. GcPair(w.bat, GcBats) /\ GcMounted(w.bat) = bat
  <2>1. GcPair(v.bat, GcBats) /\ Gamecube!Current(Gamecube!Older(v.bat, bat)) # Gamecube!Current(v.bat)
    BY <1>1 DEF GcCard
  <2>2. GcPair(Gamecube!Older(v.bat, bat), GcBats) /\ GcMounted(Gamecube!Older(v.bat, bat)) = bat
    BY <1>2, <2>1, GcPairs
  <2> QED BY <1>1, <2>2
<1> QED
  BY <1>1, <1>3, <1>4 DEF GcCard, GcWith, Gamecube!Dir, Gamecube!Bat, GcMounted, dir, bat

\* A card's copies hold directories and tables, and its saves are whole
\* unless it was damaged.
GcCards ==
  format = "gamecube" =>
    /\ damage \in Nat
    /\ GcCard(card)
    /\ damage = 0 => GcWhole(card)

LEMMA GcPlaces ==
  ASSUME GcInv, GcCards, format = "gamecube", Place
  PROVE  \E u \in Units :
           /\ GcCard(card') /\ (damage = 0 => GcWhole(card'))
           /\ shown' \in {Without(shown, u.name), With(shown, u.name, u.file)}
           /\ UNCHANGED damage
<1>1. PICK u \in Units : \E empty \in {Cleared(card, u.name)} :
        /\ PlaceCode(card, empty, u) = "OK"
        /\ Step(Inject(empty, u), List(Inject(empty, u)))
  BY DEF Place
<1> DEFINE empty == Cleared(card, u.name)
           w == Gamecube!Inject(empty, u)
<1>2. Gamecube!InjectCode(empty, u) = "OK"
  <2>1. InjectCode(empty, u) = "OK"
    BY <1>1 DEF PlaceCode
  <2> HIDE DEF empty
  <2> QED BY <2>1 DEF InjectCode
<1>3. /\ GcCard(empty) /\ (damage = 0 => GcWhole(empty))
      /\ Showing(Gamecube!List(empty)) = Without(shown, u.name)
  BY GcClears DEF GcInv, GcCards
<1>4. card' = w /\ shown' = Showing(Gamecube!List(w))
  BY <1>1, GcIs DEF Step
<1> HIDE DEF empty
<1>5. /\ GcCard(w) /\ (GcWhole(empty) => GcWhole(w))
      /\ Showing(Gamecube!List(w)) \in {Without(shown, u.name), With(Without(shown, u.name), u.name, u.file)}
  <2>1. GcMounts(empty) /\ GcCard(w) /\ GcWith(empty, u, w)
    BY <1>2, <1>3, GcKeeps, GcPlaced
  <2> HIDE DEF w
  <2>2. /\ Showing(Gamecube!List(w)) \in {Showing(Gamecube!List(empty)), With(Showing(Gamecube!List(empty)), u.name, u.file)}
        /\ GcWhole(empty) => GcWhole(w)
    BY <1>2, <2>1, GcPuts
  <2> QED BY <1>3, <2>1, <2>2
<1>6. UNCHANGED damage
  BY DEF Place
<1> QED
  BY <1>3, <1>4, <1>5, <1>6, ShowsAnew

LEMMA GcTakesOff ==
  ASSUME GcInv, GcCards, format = "gamecube", TakeOff
  PROVE  \E n \in Names :
           /\ GcCard(card') /\ (damage = 0 => GcWhole(card'))
           /\ n \in DOMAIN shown /\ shown' = Without(shown, n)
           /\ UNCHANGED damage
<1>1. PICK n \in Names : Cleared(card, n) # card /\ Step(Cleared(card, n), List(Cleared(card, n)))
  BY DEF TakeOff
<1> DEFINE w == Cleared(card, n)
<1>2. /\ GcCard(w) /\ (damage = 0 => GcWhole(w))
      /\ Showing(Gamecube!List(w)) = Without(shown, n)
      /\ n \in DOMAIN shown
  BY <1>1, GcClears DEF GcInv, GcCards
<1>3. card' = w /\ shown' = Showing(Gamecube!List(w))
  BY <1>1, GcIs DEF Step
<1>4. UNCHANGED damage
  BY DEF TakeOff
<1> QED
  BY <1>2, <1>3, <1>4

\* A repair changes neither what is mounted nor what shows.
LEMMA GcMends ==
  ASSUME GcInv, GcCards, format = "gamecube", WriteRepaired
  PROVE  GcCard(card') /\ (damage = 0 => GcWhole(card')) /\ UNCHANGED <<shown, damage>>
<1> DEFINE w == Gamecube!Repair(card)
<1>1. card' = w /\ shown' = Showing(Gamecube!List(w)) /\ UNCHANGED damage
  BY GcIs DEF WriteRepaired, Step
<1>2. /\ w.dir = Gamecube!Restored(card.dir) /\ w.bat = Gamecube!Restored(card.bat) /\ w.data = card.data
  BY DEF Gamecube!Repair
<1> HIDE DEF w
<1>3. GcCard(w)
  <2>1. GcPair(card.dir, GcDirs) /\ GcPair(card.bat, GcBats)
    BY DEF GcCards, GcCard
  <2>2. card.dir[0].map \in GcDirs /\ card.bat[0].map \in GcBats
    BY <2>1 DEF GcPair
  <2> QED BY <1>2, <2>1, <2>2, GcPairs DEF GcCard
<1>4. Gamecube!Dir(w) = Gamecube!Dir(card) /\ Gamecube!Bat(w) = Gamecube!Bat(card)
  BY <1>2, GcRestored DEF Gamecube!Dir, Gamecube!Bat
<1>5. Gamecube!List(w) = Gamecube!List(card)
  BY <1>2, <1>4, GcListOf
<1>6. GcWhole(card) => GcWhole(w)
  <2>1. \A s : GcTrail(w, s) = GcTrail(card, s)
    BY <1>4 DEF GcTrail
  <2>2. Gamecube!Live(w) = Gamecube!Live(card) /\ Gamecube!FreeBlocks(w) = Gamecube!FreeBlocks(card)
    BY <1>4 DEF Gamecube!Live, Gamecube!FreeBlocks
  <2>3. \A s : Gamecube!EntryChain(w, s) = Gamecube!EntryChain(card, s)
    BY <1>4 DEF Gamecube!EntryChain, Gamecube!Walk
  <2>4. \A s : Gamecube!Intact(w, s) <=> Gamecube!Intact(card, s)
    BY <1>4, <2>2, <2>3 DEF Gamecube!Intact, Gamecube!Shared
  <2>5. Gamecube!Listed(w) = Gamecube!Listed(card)
    BY <2>2, <2>4 DEF Gamecube!Listed
  <2> QED BY <2>1, <2>2, <2>5 DEF GcWhole
<1> QED
  BY <1>1, <1>3, <1>5, <1>6 DEF GcInv, GcCards

LEMMA GcLoses ==
  ASSUME GcCards, format = "gamecube", GamecubeTorn
  PROVE  GcCard(card') /\ damage' = damage + 1
<1>1. PICK part \in {"dir", "bat"}, i \in {0, 1} :
        Harm(Gamecube!Torn(card, part, i), Gamecube!List(Gamecube!Torn(card, part, i)))
  BY DEF GamecubeTorn, Gamecube!Copies
<1> DEFINE w == Gamecube!Torn(card, part, i)
<1>2. card' = w /\ damage' = damage + 1
  BY <1>1 DEF Harm, Step
<1>3. \/ w.dir = Gamecube!Tear(card.dir, i) /\ w.bat = card.bat
      \/ w.dir = card.dir /\ w.bat = Gamecube!Tear(card.bat, i)
  BY DEF Gamecube!Torn
<1> HIDE DEF w
<1>4. GcPair(card.dir, GcDirs) /\ GcPair(card.bat, GcBats) /\ card.dir[0].map \in GcDirs /\ card.bat[0].map \in GcBats
  BY DEF GcCards, GcCard, GcPair
<1>5. GcPair(Gamecube!Tear(card.dir, i), GcDirs) /\ GcPair(Gamecube!Tear(card.bat, i), GcBats)
  BY <1>4, GcPairs
<1> QED
  BY <1>2, <1>3, <1>4, <1>5 DEF GcCard

LEMMA GcSaves ==
  ASSUME GcInv, GcCards, format = "gamecube", ConsoleSaves
  PROVE  \E u \in Units :
           /\ GcCard(card') /\ (damage = 0 => GcWhole(card'))
           /\ shown' \in {shown, With(shown, u.name, u.file)}
           /\ UNCHANGED damage
<1>1. PICK u \in Units :
        /\ Gamecube!InjectCode(card, u) = "OK"
        /\ \E v \in {Gamecube!ConsoleInject(card, u)} :
             /\ Gamecube!Current(v.dir) # Gamecube!Current(card.dir)
             /\ Gamecube!Current(v.bat) # Gamecube!Current(card.bat)
             /\ Step(v, Gamecube!List(v))
  BY DEF ConsoleSaves
<1> DEFINE w == Gamecube!ConsoleInject(card, u)
<1>2. /\ Gamecube!Current(w.dir) # Gamecube!Current(card.dir)
      /\ Gamecube!Current(w.bat) # Gamecube!Current(card.bat)
      /\ Step(w, Gamecube!List(w))
  BY <1>1
<1>3. GcCard(w) /\ GcWith(card, u, w) /\ GcMounts(card)
  BY <1>1, <1>2, GcConsole, GcKeeps DEF GcCards
<1>4. card' = w /\ shown' = Showing(Gamecube!List(w))
  BY <1>2 DEF Step
<1> HIDE DEF w
<1>5. /\ Showing(Gamecube!List(w)) \in {Showing(Gamecube!List(card)), With(Showing(Gamecube!List(card)), u.name, u.file)}
      /\ GcWhole(card) => GcWhole(w)
  BY <1>1, <1>3, GcPuts
<1>6. UNCHANGED damage
  BY DEF ConsoleSaves
<1> QED
  BY <1>3, <1>4, <1>5, <1>6 DEF GcInv, GcCards

LEMMA GcCardsStep ==
  ASSUME GcInv, GcCards, [Next]_vars
  PROVE  GcCards'
<1> SUFFICES ASSUME format = "gamecube", format' = "gamecube"
             PROVE  /\ damage' \in Nat
                    /\ GcCard(card')
                    /\ damage' = 0 => GcWhole(card')
  BY FormatStays DEF GcCards
<1>1. CASE Place
  BY <1>1, GcPlaces DEF GcCards
<1>2. CASE TakeOff
  BY <1>2, GcTakesOff DEF GcCards
<1>3. CASE WriteRepaired
  BY <1>3, GcMends DEF GcCards
<1>4. CASE GamecubeTorn
  BY <1>4, GcLoses DEF GcCards
<1>5. CASE ConsoleSaves
  BY <1>5, GcSaves DEF GcCards
<1>6. CASE UNCHANGED vars
  BY <1>6 DEF vars, GcCards
<1> QED
  BY <1>1, <1>2, <1>3, <1>4, <1>5, <1>6
     DEF Next, Restores, Damages, Ps1Link, VmuLink, VmuUnwritten, SaturnDecay, SegacdDecay, Ps2Link

LEMMA GcCardsHold == Spec => []GcCards
<1>1. Init => GcCards
  <2> SUFFICES ASSUME Init, format = "gamecube"
               PROVE  damage \in Nat /\ GcCard(card) /\ GcWhole(card)
    BY DEF GcCards
  <2>1. PICK c : card = Gamecube!Format(c)
    BY DEF Init, Formatted
  <2> DEFINE dir == [s \in Gamecube!Slot |-> Gamecube!Empty]
             bat == [b \in Gamecube!Block |-> Gamecube!Free]
  <2>2. /\ DOMAIN card.dir = {0, 1} /\ \A i \in {0, 1} : card.dir[i].map = dir
        /\ DOMAIN card.bat = {0, 1} /\ \A i \in {0, 1} : card.bat[i].map = bat
    <3>1. \A map, n : Gamecube!Copy(map, n).map = map
      BY DEF Gamecube!Copy
    <3>2. /\ card.dir = [i \in {0, 1} |-> Gamecube!Copy(dir, (c + i) % Counters)]
          /\ card.bat = [i \in {0, 1} |-> Gamecube!Copy(bat, (c + i) % Counters)]
      BY <2>1 DEF Gamecube!Format, Gamecube!Copies
    <3> HIDE DEF dir, bat
    <3> QED BY <3>1, <3>2
  <2>3. dir \in GcDirs /\ bat \in GcBats
    <3>1. Gamecube!Empty \in GcEntries /\ Gamecube!Empty.name = None
      BY DEF Gamecube!Empty, GcEntries
    <3> QED BY <3>1, GcBounds DEF GcDirs, GcBats
  <2>4. Gamecube!Dir(card) = dir /\ Gamecube!Bat(card) = bat
    <3>1. \A p : Gamecube!Current(p) \in {0, 1}
      BY DEF Gamecube!Current
    <3> HIDE DEF dir, bat
    <3> QED BY <2>2, <3>1 DEF Gamecube!Dir, Gamecube!Bat
  <2>5. Gamecube!Live(card) = {} /\ Gamecube!FreeBlocks(card) = Gamecube!Block
    BY <2>4 DEF Gamecube!Live, Gamecube!IsLive, Gamecube!Empty, Gamecube!FreeBlocks
  <2>6. damage = 0
    BY DEF Init
  <2> HIDE DEF dir, bat
  <2> QED BY <2>2, <2>3, <2>5, <2>6 DEF GcCard, GcPair, GcWhole
<1> QED
  BY <1>1, GcCardsStep, GcHolds, PTL DEF Spec

\* Whatever a GameCube card went through, a restore changes only the save it
\* is for, the console's saves only their own, and a repair none: whichever
\* copies power cuts tore, no two saves shown share a block.
THEOREM GamecubeKeepsSaves == format = "gamecube" /\ Spec => SavesKept
<1>1. format = "gamecube" /\ Init => CardIsSaves!Init
  BY DEF Init, CardIsSaves!Init
<1>2. ASSUME format = "gamecube", GcInv, GcCards, [Next]_vars
      PROVE  [CardIsSaves!Next]_<<shown, damage>>
  <2>1. ASSUME NEW u \in Units, shown' = With(shown, u.name, u.file), UNCHANGED damage
        PROVE  CardIsSaves!Next
    <3>1. u.name \in Names /\ u.file \in {w.file : w \in Units}
      BY UnitsHaveFiles
    <3>2. CardIsSaves!Put(u.name, u.file)
      BY <2>1 DEF CardIsSaves!Put, With
    <3> QED BY <3>1, <3>2 DEF CardIsSaves!Next
  <2>2. ASSUME NEW n \in Names, n \in DOMAIN shown, shown' = Without(shown, n), UNCHANGED damage
        PROVE  CardIsSaves!Next
    <3>1. CardIsSaves!TakeOff(n)
      BY <2>2 DEF CardIsSaves!TakeOff, CardIsSaves!Restrict, Without
    <3> QED BY <3>1 DEF CardIsSaves!Next
  <2>3. CASE Place
    <3>1. PICK u \in Units : /\ shown' \in {Without(shown, u.name), With(shown, u.name, u.file)}
                             /\ UNCHANGED damage
      BY <1>2, <2>3, GcPlaces
    <3>2. u.name \in Names
      BY UnitsHaveFiles
    <3>3. CASE shown' = Without(shown, u.name) /\ u.name \notin DOMAIN shown
      <4>1. shown = [m \in DOMAIN shown |-> shown[m]]
        BY <1>2, ShowsNames DEF GcInv
      <4> QED BY <3>1, <3>3, <4>1, ShowsSame
    <3> QED BY <2>1, <2>2, <3>1, <3>2, <3>3
  <2>4. CASE TakeOff
    BY <1>2, <2>2, <2>4, GcTakesOff
  <2>5. CASE WriteRepaired
    BY <1>2, <2>5, GcMends
  <2>6. CASE GamecubeTorn
    BY <1>2, <2>6, GcLoses DEF CardIsSaves!Next, CardIsSaves!Damage
  <2>7. CASE ConsoleSaves
    BY <1>2, <2>1, <2>7, GcSaves
  <2>8. CASE UNCHANGED vars
    BY <2>8 DEF vars
  <2> QED
    BY <1>2, <2>3, <2>4, <2>5, <2>6, <2>7, <2>8
       DEF Next, Restores, Damages, Ps1Link, VmuLink, VmuUnwritten, SaturnDecay, SegacdDecay, Ps2Link
<1>3. format = "gamecube" /\ [Next]_vars => (format = "gamecube")'
  BY FormatStays
<1> QED
  BY <1>1, <1>2, <1>3, GcHolds, GcCardsHold, PTL DEF Spec, SavesKept, CardIsSaves!Spec

\* The blocks that aren't free are one save's each.
LEMMA GcHolding ==
  ASSUME GcInv, GcCards, format = "gamecube", GcWhole(card)
  PROVE  Cardinality(Holding) = Cardinality(Gamecube!Block \ Gamecube!FreeBlocks(card))
<1> DEFINE F == Gamecube!Live(card)
           B == Gamecube!Block \ Gamecube!FreeBlocks(card)
           name == [s \in F |-> Gamecube!Dir(card)[s].name]
           walk == [s \in F |-> Gamecube!EntryChain(card, s)]
           list == Gamecube!List(card)
<1>1. GcMounts(card) /\ shown = Showing(list) /\ Gamecube!Listed(card) = F
  <2>1. GcMounts(card)
    BY GcKeeps DEF GcCards
  <2> QED BY <2>1, GcListed DEF GcInv, GcWhole
<1>2. \A s \in F : /\ walk[s] # <<>> /\ ~Gamecube!Shared(card, s)
                   /\ walk[s] = Gamecube!EntryChain(card, s) /\ name[s] = Gamecube!Dir(card)[s].name
  BY <1>1, GcListed
<1>3. /\ \A s \in F : /\ Len(walk[s]) \in Nat \ {0}
                      /\ walk[s] = [i \in 1..Len(walk[s]) |-> walk[s][i]]
                      /\ \A i \in 1..Len(walk[s]) : walk[s][i] \in B /\ walk[s][i] \in GcTrail(card, s)
                      /\ \A i, k \in 1..Len(walk[s]) : walk[s][i] = walk[s][k] => i = k
                      /\ \A b \in GcTrail(card, s) : \E i \in 1..Len(walk[s]) : walk[s][i] = b
  <2> SUFFICES ASSUME NEW s \in F
               PROVE  LET order == Gamecube!EntryChain(card, s)
                          n == Len(order)
                      IN  /\ n \in Nat \ {0} /\ order = [i \in 1..n |-> order[i]]
                          /\ \A i \in 1..n : order[i] \in B /\ order[i] \in GcTrail(card, s)
                          /\ \A i, k \in 1..n : order[i] = order[k] => i = k
                          /\ \A b \in GcTrail(card, s) : \E i \in 1..n : order[i] = b
    BY <1>2
  <2> DEFINE link == Gamecube!Bat(card)
             end == Gamecube!End
             c == Gamecube!Dir(card)[s].first
             order == Gamecube!EntryChain(card, s)
             n == Len(order)
  <2>1. Linkable(link, end) /\ DOMAIN link = Gamecube!Block /\ order = Chain(link, end, c) /\ order # <<>>
    BY <1>1, <1>2, GcTrails
  <2>2. GcTrail(card, s) = {order[i] : i \in 1..n}
    BY <2>1 DEF GcTrail, Trail
  <2> HIDE DEF link, end, c, order
  <2>3. /\ n \in Nat \ {0} /\ order = [i \in 1..n |-> order[i]]
        /\ \A i \in 1..n : order[i] \in Gamecube!Block
        /\ \A i, k \in 1..n : order[i] = order[k] => i = k
        /\ \A i \in 1..n : link[order[i]] = IF i = n THEN end ELSE order[i + 1]
    BY <2>1, ChainIs
  <2>4. \A i \in 1..n : order[i] \notin Gamecube!FreeBlocks(card)
    <3> SUFFICES ASSUME NEW i \in 1..n PROVE link[order[i]] # Gamecube!Free
      BY DEF Gamecube!FreeBlocks, link
    <3>1. i # n => order[i + 1] \in Gamecube!Block
      BY <2>3
    <3>2. Gamecube!Free \notin Gamecube!Block /\ end # Gamecube!Free
      BY GcBounds DEF end
    <3> QED BY <2>3, <3>1, <3>2
  <2> QED BY <2>2, <2>3, <2>4 DEF order
<1>4. \A s, t \in F : \A b : b \in GcTrail(card, s) /\ b \in GcTrail(card, t) => s = t
  BY <1>1, <1>2, GcShared
<1>5. \A s, t \in F : name[s] = name[t] => s = t
  BY <1>1, <1>2, GcLists
<1>6. \A b \in B : \E s \in F : b \in GcTrail(card, s)
  BY DEF GcWhole
<1>7. IsFiniteSet(B)
  <2>1. B \subseteq Gamecube!Block
    OBVIOUS
  <2> HIDE DEF B
  <2> QED BY <2>1, GcBounds, FS_Subset
<1>8. /\ DOMAIN shown = {name[s] : s \in F}
      /\ \A s \in F : Held(shown[name[s]]) = Len(walk[s])
  <2>1. /\ list = {GcShown(card, s) : s \in F}
        /\ \A x, y \in list : x.name = y.name => x = y
        /\ \A s : GcShown(card, s).name = Gamecube!Dir(card)[s].name
                  /\ GcShown(card, s).file = Gamecube!Contents(card, Gamecube!EntryChain(card, s))
    BY <1>1, GcLists
  <2>2. \A s \in F : \E e \in list : e.name = name[s] /\ e.file = Gamecube!Contents(card, walk[s])
    BY <1>2, <2>1
  <2>3. {e.name : e \in list} = {name[s] : s \in F}
    BY <1>2, <2>1
  <2> HIDE DEF list, F, name, walk
  <2>4. DOMAIN Showing(list) = {e.name : e \in list}
    BY ShowsNames
  <2>5. \A e \in list : Showing(list)[e.name] = e.file
    BY <2>1, ShowsEach
  <2>6. \A s \in F : shown[name[s]] = Gamecube!Contents(card, walk[s])
    BY <1>1, <2>2, <2>5
  <2>7. ASSUME NEW s \in F PROVE Held(shown[name[s]]) = Len(walk[s])
    <3>1. Gamecube!Contents(card, walk[s]) = [i \in 1..Len(walk[s]) |-> card.data[walk[s][i]]]
      <4>1. DOMAIN walk[s] = 1..Len(walk[s])
        BY <1>3
      <4> QED BY <4>1 DEF Gamecube!Contents
    <3>2. Len(Gamecube!Contents(card, walk[s])) = Len(walk[s])
      BY <1>3, <3>1
    <3>3. Held(shown[name[s]]) = Len(Gamecube!Contents(card, walk[s]))
      BY <2>6 DEF Held
    <3> QED BY <3>2, <3>3
  <2> QED BY <1>1, <2>3, <2>4, <2>7
<1> HIDE DEF F, B, name, walk, list
<1>9. HeldOnce(B, F, name, walk)
  <2>1. \A s, t \in F : \A i \in 1..Len(walk[s]), k \in 1..Len(walk[t]) : walk[s][i] = walk[t][k] => s = t /\ i = k
    BY <1>3, <1>4
  <2>2. \A b \in B : \E s \in F : \E i \in 1..Len(walk[s]) : walk[s][i] = b
    BY <1>3, <1>6
  <2> QED BY <1>3, <1>5, <1>7, <2>1, <2>2 DEF HeldOnce
<1>10. \A p : p \in Holding <=> \E s \in F : \E i \in 1..Len(walk[s]) : p = <<name[s], i>>
  <2>1. \A p : p \in Holding <=> \E n \in DOMAIN shown : \E i \in 1..Held(shown[n]) : p = <<n, i>>
    BY DEF Holding
  <2>2. \A s \in F : name[s] \in DOMAIN shown
    BY <1>8
  <2>3. \A n \in DOMAIN shown : \E s \in F : n = name[s]
    BY <1>8
  <2> QED BY <1>8, <2>1, <2>2, <2>3
<1>11. Cardinality(Holding) = Cardinality(B)
  BY <1>9, <1>10, PlacesHeld
<1> QED
  BY <1>11 DEF B

\* sync_units.c:641: on a GameCube card without damage every block is free or
\* one save's.
THEOREM GamecubeAccounts == Spec => [](format = "gamecube" => BlocksAccounted)
<1>1. GcInv /\ GcCards => (format = "gamecube" => BlocksAccounted)
  <2> SUFFICES ASSUME GcInv, GcCards, format = "gamecube", damage = 0
               PROVE  Corrupt(card) = {} /\ Cardinality(Holding) + DirectoryBlocks + FreeBlocks(card) = AllBlocks
    BY DEF BlocksAccounted, Sound
  <2>1. GcWhole(card)
    BY DEF GcCards
  <2>2. Corrupt(card) = {}
    <3>1. Corrupt(card) = Gamecube!Corrupt(card)
      BY DEF Corrupt
    <3> QED BY <2>1, <3>1 DEF GcWhole, Gamecube!Corrupt
  <2> DEFINE free == Gamecube!FreeBlocks(card)
  <2>3. DirectoryBlocks = 0 /\ AllBlocks = Blocks
    BY DEF DirectoryBlocks, AllBlocks
  <2>4. FreeBlocks(card) = Cardinality(free)
    BY DEF FreeBlocks
  <2>5. Cardinality(Holding) = Cardinality(Gamecube!Block \ free)
    BY <2>1, GcHolding
  <2>6. free \subseteq Gamecube!Block
    BY DEF Gamecube!FreeBlocks
  <2>7. /\ Cardinality(Gamecube!Block \ free) = Cardinality(Gamecube!Block) - Cardinality(free)
        /\ Cardinality(free) \in Nat /\ Cardinality(Gamecube!Block) \in Nat
    <3> HIDE DEF free
    <3> QED BY <2>6, GcBounds, Parted
  <2> HIDE DEF free
  <2> QED BY <2>2, <2>3, <2>4, <2>5, <2>7, GcBounds
<1> QED
  BY <1>1, GcHolds, GcCardsHold, PTL

\* card_gamecube.c: what was written reads back as it was, by the first
\* entry of its name.
LEMMA GcVerifies ==
  ASSUME NEW w, GcMounts(w), NEW u \in Units, NEW s \in Gamecube!Listed(w),
         GcShown(w, s).name = u.name, GcShown(w, s).file = u.file, Gamecube!Dir(w)[s].size = Len(u.file)
  PROVE  Gamecube!Verify(w, u)
<1> DEFINE first == Gamecube!Dir(w)[s].first
           size == Gamecube!Dir(w)[s].size
           N == {r \in Gamecube!Live(w) : Gamecube!Dir(w)[r].name = u.name}
           R == {r \in Gamecube!Live(w) : /\ Gamecube!Dir(w)[r].first = first
                                          /\ Gamecube!Dir(w)[r].size = size
                                          /\ Len(Gamecube!EntryChain(w, r)) = Gamecube!Dir(w)[r].size}
           found == {r \in Gamecube!Live(w) : /\ Gamecube!Dir(w)[r].first = first
                                              /\ Len(Gamecube!EntryChain(w, r)) = Gamecube!Dir(w)[r].size}
<1>1. Gamecube!Dir(w)[s].name = u.name /\ Gamecube!Contents(w, Gamecube!EntryChain(w, s)) = u.file
  BY DEF GcShown
<1>2. s \in Gamecube!Live(w) /\ s \in Gamecube!Slot
  BY GcListed
<1>3. N = {s}
  BY <1>1, <1>2, GcLists
<1>4. R = {s}
  <2>1. found = {s}
    BY GcFinds
  <2> QED BY <2>1
<1>5. s \in Nat
  BY <1>2, GcBounds
<1>6. \A S : S = {s} => Gamecube!Range(Gamecube!Lowest(S, 1)) = {s}
  BY <1>5, GcOnly
<1> HIDE DEF N, R, size
<1>7. s \in Gamecube!Range(Gamecube!Identity(w, u.name))
  <2>1. Gamecube!Identity(w, u.name) = Gamecube!Lowest(N, 1)
    BY DEF Gamecube!Identity, N
  <2> QED BY <1>3, <1>6, <2>1
<1>8. s \in Gamecube!Range(Gamecube!Lowest(R, 1))
  BY <1>4, <1>6
<1> QED
  BY <1>1, <1>7, <1>8 DEF Gamecube!Verify, R, size

\* sync_units.c:672: on a GameCube card without damage a restore that has the
\* blocks and a slot goes through, verifies, and reads back as it was.
THEOREM GamecubePlacesServe == Spec => [](format = "gamecube" => PlacesServe)
<1>1. GcInv /\ GcCards => (format = "gamecube" => PlacesServe)
  <2> SUFFICES ASSUME GcInv, GcCards, format = "gamecube", damage = 0, NEW u \in Units, Fitting(u)
               PROVE  Serves(Cleared(card, u.name), PlaceCode(card, Cleared(card, u.name), u),
                             Inject(Cleared(card, u.name), u), u)
    BY DEF PlacesServe, Sound
  <2> DEFINE empty == Cleared(card, u.name)
             code == PlaceCode(card, empty, u)
             w == Gamecube!Inject(empty, u)
             slot == GcSlot(empty)
             e == GcShown(w, slot)
  <2>1. GcCard(card) /\ GcWhole(card)
    BY DEF GcCards
  <2>2. GcCard(empty) /\ GcWhole(empty) /\ \A x \in Gamecube!List(empty) : x.name # u.name
    BY <2>1, GcClears
  <2>3. Corrupt(card) = {}
    <3>1. Corrupt(card) = Gamecube!Corrupt(card)
      BY DEF Corrupt
    <3> QED BY <2>1, <3>1 DEF GcWhole, Gamecube!Corrupt
  <2> HIDE DEF empty
  <2>4. Named(empty, u.name) = {}
    BY <2>2, GcIs DEF Named
  <2>5. GcMounts(empty)
    BY <2>2, GcKeeps
  <2>6. ASSUME Gamecube!InjectCode(empty, u) = "OK"
        PROVE  /\ GcMounts(w) /\ slot \in Gamecube!Listed(w) /\ e \in Gamecube!List(w)
               /\ e.name = u.name /\ e.file = u.file /\ Gamecube!Dir(w)[slot].size = Len(u.file)
    <3>1. GcWith(empty, u, w)
      BY <2>2, <2>6, GcPlaced
    <3> HIDE DEF w
    <3> QED BY <2>2, <2>5, <2>6, <3>1, GcGains
  <2>7. code = Gamecube!InjectCode(empty, u)
    <3>1. code = InjectCode(empty, u)
      BY <2>3, <2>4 DEF PlaceCode
    <3>2. InjectCode(empty, u) = IF Gamecube!InjectCode(empty, u) = "OK" /\ ~Gamecube!Bound(w, u) THEN "IO"
                                 ELSE Gamecube!InjectCode(empty, u)
      BY DEF InjectCode
    <3> HIDE DEF w, slot, code
    <3>3. Gamecube!InjectCode(empty, u) = "OK" => Gamecube!Bound(w, u)
      BY <2>6 DEF Gamecube!Bound
    <3> QED BY <3>1, <3>2, <3>3
  <2>8. ~Gamecube!NameTaken(empty, u)
    <3> DEFINE N == {s \in Gamecube!Live(empty) : Gamecube!Dir(empty)[s].name = u.name}
    <3>1. /\ Gamecube!List(empty) = {GcShown(empty, s) : s \in Gamecube!Listed(empty)}
          /\ \A s : GcShown(empty, s).name = Gamecube!Dir(empty)[s].name
      BY <2>5, GcLists
    <3>2. N = {}
      BY <2>2, <3>1 DEF GcWhole
    <3>3. Gamecube!Lowest({}, 1) = <<>>
      <4>1. IsFiniteSet({}) /\ {} \in SUBSET Nat
        BY FS_EmptySet
      <4> QED BY <4>1, GcLowest, LowestFirst
    <3>4. Gamecube!Identity(empty, u.name) = Gamecube!Lowest(N, 1)
      BY DEF Gamecube!Identity
    <3> HIDE DEF N
    <3> QED BY <3>2, <3>3, <3>4 DEF Gamecube!NameTaken
  <2>9. code = IF Gamecube!FreeSlots(empty) = 0 \/ Gamecube!Cardinality(Gamecube!FreeBlocks(empty)) < Len(u.file)
               THEN "NO_SPACE" ELSE "OK"
    <3> HIDE DEF code
    <3> QED BY <2>7, <2>8 DEF Gamecube!InjectCode
  <2>10. code = "NO_SPACE" => FreeBlocks(empty) < Cost(empty, u) \/ FreeSlots(empty) = 0
    <3>1. /\ FreeBlocks(empty) = Cardinality(Gamecube!FreeBlocks(empty))
          /\ FreeSlots(empty) = Gamecube!FreeSlots(empty) /\ Cost(empty, u) = Len(u.file)
      BY DEF FreeBlocks, FreeSlots, Cost
    <3> HIDE DEF code
    <3> QED BY <2>9, <3>1, GcCounts
  <2>11. ASSUME code = "OK"
         PROVE  Verify(w, u) /\ \E x \in Named(w, u.name) : x.file = u.file
    <3>1. /\ GcMounts(w) /\ slot \in Gamecube!Listed(w) /\ e \in Gamecube!List(w)
          /\ e.name = u.name /\ e.file = u.file /\ Gamecube!Dir(w)[slot].size = Len(u.file)
      BY <2>6, <2>7, <2>11
    <3> HIDE DEF w, slot
    <3>2. Gamecube!Verify(w, u)
      BY <3>1, GcVerifies
    <3>3. Verify(w, u) = Gamecube!Verify(w, u)
      BY DEF Verify
    <3>4. e \in Named(w, u.name)
      BY <3>1, GcIs DEF Named
    <3> QED BY <3>1, <3>2, <3>3, <3>4
  <2>12. Inject(empty, u) = w
    BY GcIs
  <2> HIDE DEF code, w
  <2>13. code \in {"OK", "NO_SPACE"}
    BY <2>9
  <2>14. Serves(empty, code, w, u)
    BY <2>10, <2>11, <2>13 DEF Serves
  <2> QED BY <2>12, <2>14 DEF empty, code
<1> QED
  BY <1>1, GcHolds, GcCardsHold, PTL
===============================================================================
