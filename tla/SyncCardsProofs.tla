--------------------------- MODULE SyncCardsProofs ---------------------------
(***************************************************************************)
(* Theorems about SyncCards for any games, cards, saves and bounds, as     *)
(* long as no save is copied to a second card.  The argument: a save sits  *)
(* on one of a game's cards, also counting where a restore under way will  *)
(* put it (OneEach), so that the conflict check sees every save a restore  *)
(* replaces (ReplacedCovered); and what is left to write says, file by     *)
(* file, how far a card is from what it will be (Progress).                *)
(***************************************************************************)
EXTENDS SyncCards, WellFoundedInduction, TLAPS

(***************************************************************************)
(* The invariant.                                                          *)
(***************************************************************************)
LibrarySound == \A g \in Games : \A u \in library[g] : Whole(u) /\ \A p \in u : Owner[p.name] = g

FolderCards == \A c \in Folders : slot[c] = "card"

\* The saves on a card, and those a restore will put there.
HeldOn(c) == NamesOn(c) \cup NamesIn(call.final[c])

OneEach ==
  \A g \in Games, n \in Names : \A c, d \in CardsOf(g) : n \in HeldOn(c) \cap HeldOn(d) => c = d

BlobPassed ==
  \A g \in Games : st.synced[g] \subseteq UNION library[g] /\ call.blob.synced[g] \subseteq UNION library[g]

\* What every request says, a collect's or a restore's.
Asks(q) == q.game \in Games /\ q.comp \in Companions[q.game] \cup {None}

\* A restore's request also carries units that reached RomM.
AsksRestore(q) ==
  /\ Asks(q) /\ q \in RestoreRequests
  /\ q.unit \in library[q.game]
  /\ q.cunit = {} \/ (q.comp # None /\ q.cunit \in library[q.comp])

\* What a step left to do will do to its card.
StepSound(q, s) ==
  /\ s.on \in CardsOf(q.game)
  /\ s.kind = "image" =>
       /\ {p \in call.read[s.on][1] : ~IsReplaced(q, p)} \subseteq call.final[s.on]
       /\ call.final[s.on] \subseteq call.read[s.on][1] \cup Incoming(q)
  /\ s.kind = "image" <=> s.on \notin Folders
  /\ s.kind = "put" => s.part \in call.final[s.on] \cap Incoming(q)
  /\ s.kind = "drop" =>
       IsReplaced(q, s.part) /\ \A o \in call.final[s.on] : o.name # s.part.name \/ o.file # s.part.file

\* The saves of game h a restore leaves on the cards of q's game.
FinalOf(q, h) == {p \in UNION {call.final[c] : c \in CardsOf(q.game)} : Owner[p.name] = h}

PlanSound(q) ==
  /\ AsksRestore(q)
  /\ \A c \in Cards : Whole(call.final[c])
  /\ \A s \in call.todo : StepSound(q, s)
  /\ \A c \in CardsOf(q.game) : \A p \in call.read[c][1] : IsReplaced(q, p) => p \in Passed \cup call.agreed
  /\ FinalOf(q, q.game) = call.blob.synced[q.game]
  /\ CompanionRestored(q) => FinalOf(q, q.comp) = call.blob.synced[q.comp]
  /\ \A n \in NamesIn(Incoming(q)), c \in CardsOf(q.game) :
       n \in NamesIn(call.read[c][1]) => n \in NamesIn(call.final[c])
  /\ q.mode = "managed" => Undisturbed

Planned == (call.op = "idle" => call = Idle) /\ (call.op = "restore" => PlanSound(call.req))

IInv == TypeOK /\ LibrarySound /\ FolderCards /\ OneEach /\ BlobPassed /\ Planned

(***************************************************************************)
(* Cards.                                                                  *)
(***************************************************************************)
LEMMA LeastSlot ==
  ASSUME NEW s, s \subseteq Cards, s # {}
  PROVE  \E c \in s : \A d \in s : Slot[c] <= Slot[d]
<1> DEFINE places == {Slot[c] : c \in s}
           less == {p \in Nat \X Nat : p[1] < p[2]}
<1>1. places \subseteq Nat /\ places # {}
  BY ConstantsTyped
<1>2. IsWellFoundedOn(less, Nat)
  BY NatLessThanWellFounded, Zenon DEF OpToRel
<1>3. PICK k \in places : \A j \in places : <<j, k>> \notin less
  <2> HIDE DEF places, less
  <2> QED
    BY <1>1, <1>2, WFMin
<1>4. \A j \in places : ~(j < k)
  BY <1>1, <1>3
<1>5. PICK c \in s : Slot[c] = k
  BY <1>3
<1>6. \A d \in s : Slot[d] \in Nat /\ ~(Slot[d] < Slot[c])
  BY <1>1, <1>4, <1>5
<1> QED
  BY <1>5, <1>6

\* sync_cards.c:94-95: a game has a primary card, one of those its calls read.
LEMMA PrimaryThere ==
  ASSUME NEW g \in Games
  PROVE  Primary(g) \in CardsOf(g) /\ CardsOf(g) \subseteq Cards
<1>1. CardsOf(g) \subseteq Cards
  BY ConstantsTyped DEF CardsOf, SharedCards
<1>2. CASE Own[g] # None
  BY <1>1, <1>2 DEF Primary, CardsOf
<1>3. CASE Own[g] = None
  <2> DEFINE there == {c \in SharedCards : slot[c] # "none"}
             from == IF there = {} THEN SharedCards ELSE there
  <2>1. SharedCards # {} /\ SharedCards \subseteq Cards
    BY <1>3, OwnAlike, ConstantsTyped DEF SharedCards
  <2>2. from # {} /\ from \subseteq SharedCards
    BY <2>1
  <2>3. Primary(g) = CHOOSE c \in from : \A d \in from : Slot[c] <= Slot[d]
    BY <1>3 DEF Primary
  <2>4. \E c \in from : \A d \in from : Slot[c] <= Slot[d]
    <3> HIDE DEF from
    <3> QED
      BY <2>1, <2>2, LeastSlot
  <2>5. Primary(g) \in from
    <3> HIDE DEF from
    <3> QED
      BY <2>3, <2>4
  <2> QED
    BY <1>1, <2>2, <2>5 DEF CardsOf
<1> QED
  BY <1>2, <1>3

LEMMA HoldersOne ==
  ASSUME TypeOK, OneEach, NEW g \in Games, NEW c \in CardsOf(g), NEW n \in NamesOn(c)
  PROVE  n \in Names /\ Holders(g, n) = {c}
<1>1. CardsOf(g) \subseteq Cards
  BY PrimaryThere
<1>2. n \in Names
  BY <1>1 DEF NamesOn, NamesIn, TypeOK, Part
<1>3. card[c] # {}
  BY DEF NamesOn, NamesIn
<1>4. slot[c] = "card"
  BY <1>1, <1>3 DEF TypeOK
<1>5. \A d \in CardsOf(g) : n \in NamesOn(d) => d = c
  BY <1>2 DEF OneEach, HeldOn
<1> QED
  BY <1>2, <1>4, <1>5 DEF Holders, Loaded

\* sync.md:55-56: with one copy of a save, a call sees every save there is.
LEMMA LocalAll ==
  ASSUME TypeOK, OneEach, NEW q, q.game \in Games, NEW h
  PROVE  LocalOf(q, h) = {p \in UNION {card[c] : c \in CardsOf(q.game)} : Owner[p.name] = h}
<1>1. ASSUME NEW c \in CardsOf(q.game), NEW p \in card[c]
      PROVE  c \in Loaded(q.game) /\ p \in card[FirstOf(Holders(q.game, p.name))]
  <2>1. p.name \in NamesOn(c)
    BY DEF NamesOn, NamesIn
  <2>2. Holders(q.game, p.name) = {c}
    BY <2>1, HoldersOne
  <2>3. FirstOf({c}) = c
    BY DEF FirstOf
  <2> QED
    BY <2>2, <2>3 DEF Holders
<1> QED
  BY <1>1 DEF LocalOf, Loaded

LEMMA PlaceThere ==
  ASSUME TypeOK, OneEach, NEW q, q.game \in Games, NEW n
  PROVE  /\ Place(q, n) \in CardsOf(q.game)
         /\ \A c \in CardsOf(q.game) : n \in NamesOn(c) => Place(q, n) = c
         /\ (\A c \in CardsOf(q.game) : n \notin NamesOn(c)) => Place(q, n) = Primary(q.game)
<1>1. CASE Holders(q.game, n) = {}
  <2>1. \A c \in CardsOf(q.game) : n \notin NamesOn(c)
    BY <1>1, HoldersOne
  <2> QED
    BY <1>1, <2>1, PrimaryThere DEF Place
<1>2. CASE Holders(q.game, n) # {}
  <2>1. PICK c \in CardsOf(q.game) : n \in NamesOn(c)
    BY <1>2 DEF Holders, Loaded
  <2>2. Holders(q.game, n) = {c}
    BY <2>1, HoldersOne
  <2>3. LastOf({c}) = c
    BY DEF LastOf
  <2> QED
    BY <1>2, <2>1, <2>2, <2>3, HoldersOne DEF Place
<1> QED
  BY <1>1, <1>2

(***************************************************************************)
(* What a restore that isn't refused plans.                                *)
(***************************************************************************)
LEMMA IncomingSound ==
  ASSUME TypeOK, LibrarySound, NEW q, AsksRestore(q)
  PROVE  /\ q.game \in Games /\ q.comp # q.game
         /\ CompanionRestored(q) => q.comp \in Games /\ q.comp # None
         /\ \A p \in q.unit : Owner[p.name] = q.game
         /\ \A p \in q.cunit : Owner[p.name] = q.comp
         /\ Incoming(q) \in SUBSET Part /\ Incoming(q) \subseteq Passed /\ Whole(Incoming(q))
         /\ \A p \in Incoming(q) : IsReplaced(q, p)
<1>1. q.game \in Games /\ q.comp \in Games \cup {None} /\ q.comp # q.game
  BY NoSelfCompanion, ConstantsTyped DEF AsksRestore, Asks
<1>2. q.unit \in library[q.game] /\ (q.cunit = {} \/ (q.comp \in Games /\ q.cunit \in library[q.comp]))
  BY <1>1 DEF AsksRestore
<1>3. CompanionRestored(q) => q.comp \in Games /\ q.comp # None
  BY <1>2, ConstantsTyped DEF CompanionRestored
<1>4. /\ \A p \in q.unit : Owner[p.name] = q.game
      /\ \A p \in q.cunit : Owner[p.name] = q.comp
      /\ Whole(q.unit) /\ Whole(q.cunit)
  BY <1>1, <1>2 DEF LibrarySound, Whole
<1>5. Incoming(q) \in SUBSET Part /\ Incoming(q) \subseteq Passed
  BY <1>1, <1>2 DEF TypeOK, Incoming, Passed
<1>6. Whole(Incoming(q))
  BY <1>1, <1>4 DEF Whole, Incoming
<1>7. \A p \in Incoming(q) : IsReplaced(q, p)
  BY <1>4 DEF Incoming, IsReplaced, Replaced, CompanionRestored
<1> QED
  BY <1>1, <1>3, <1>4, <1>5, <1>6, <1>7

LEMMA CardsFull ==
  ASSUME TypeOK, NEW g \in Games, NEW c \in CardsOf(g), card[c] # {}
  PROVE  c \in Loaded(g)
  BY PrimaryThere DEF TypeOK, Loaded

\* sync.c:220-251: a save a restore replaces is one it compared with the last
\* sync, or that the user gave up.
LEMMA ReplacedCovered ==
  ASSUME TypeOK, LibrarySound, OneEach, BlobPassed, NEW q, AsksRestore(q), ~Conflict(q),
         NEW c \in CardsOf(q.game), NEW p \in card[c], IsReplaced(q, p)
  PROVE  p \in Passed \cup Agreed(q)
<1>1. \A g \in Games : st.synced[g] \subseteq Passed
  BY DEF BlobPassed, Passed
<1>2. q.unit \subseteq Passed /\ q.cunit \subseteq Passed /\ q.game \in Games
  BY IncomingSound DEF Incoming
<1>3. CASE q.overwrite
  <2>1. c \in Loaded(q.game)
    BY <1>2, CardsFull
  <2> QED
    BY <1>3, <2>1 DEF Agreed
<1>4. CASE ~q.overwrite /\ Owner[p.name] = q.game
  <2>1. p \in Mine(q)
    BY <1>2, <1>4, LocalAll DEF Mine
  <2> QED
    BY <1>1, <1>2, <1>4, <2>1 DEF Conflict, BlocksRestore
<1>5. CASE ~q.overwrite /\ CompanionRestored(q) /\ Owner[p.name] = q.comp
  <2>1. q.comp \in Games /\ q.comp # None
    BY <1>5, IncomingSound
  <2>2. p \in Theirs(q)
    BY <1>2, <1>5, <2>1, LocalAll DEF Theirs
  <2> QED
    BY <1>1, <1>2, <1>5, <2>1, <2>2 DEF Conflict, BlocksRestore
<1> QED
  BY <1>3, <1>4, <1>5 DEF IsReplaced, Replaced

LEMMA FinalSound ==
  ASSUME TypeOK, LibrarySound, NEW q, AsksRestore(q), NEW c \in Cards
  PROVE  Final(q, c) \in SUBSET Part /\ Whole(Final(q, c))
<1>1. card[c] \in SUBSET Part /\ Whole(card[c])
  BY DEF TypeOK
<1>2. \A p \in Kept(q, c), r \in Incoming(q) : p.name # r.name
  BY IncomingSound DEF Kept, IsReplaced
<1> QED
  BY <1>1, <1>2, IncomingSound DEF Final, Kept, Whole

\* On a card that doesn't change, what it would be is what it is.
LEMMA ChangedThere ==
  ASSUME TypeOK, OneEach, NEW q, q.game \in Games
  PROVE  /\ Changed(q) \subseteq CardsOf(q.game)
         /\ \A c \in CardsOf(q.game) : c \notin Changed(q) => Final(q, c) = card[c]
<1>1. \A n : Place(q, n) \in CardsOf(q.game)
  BY PlaceThere
<1>2. Loaded(q.game) \subseteq CardsOf(q.game) /\ Primary(q.game) \in CardsOf(q.game)
  BY PrimaryThere DEF Loaded
<1>3. Changed(q) \subseteq CardsOf(q.game)
  BY <1>1, <1>2 DEF Changed
<1>4. ASSUME NEW c \in CardsOf(q.game), c \notin Changed(q)
      PROVE  Final(q, c) = card[c]
  <2>1. \A p \in Incoming(q) : Place(q, p.name) # c
    BY <1>4 DEF Changed, NamesIn
  <2>2. \A p \in card[c] : c \in Loaded(q.game)
    BY CardsFull
  <2>3. \A p \in card[c] : ~IsReplaced(q, p)
    BY <1>4, <2>2 DEF Changed
  <2> QED
    BY <2>1, <2>3 DEF Final, Kept
<1> QED
  BY <1>3, <1>4

\* What a card will hold, as RestoreBegin records it.
Planning(q) == [c \in Cards |-> IF MustPlace(q) /\ c \in Changed(q) THEN Final(q, c) ELSE card[c]]

LEMMA PlanningIs ==
  ASSUME TypeOK, OneEach, NEW q, q.game \in Games, NEW c \in CardsOf(q.game)
  PROVE  Planning(q)[c] = IF MustPlace(q) THEN Final(q, c) ELSE card[c]
  BY ChangedThere, PrimaryThere DEF Planning

LEMMA PlanningOf ==
  ASSUME TypeOK, LibrarySound, OneEach, NEW q, AsksRestore(q)
  PROVE  /\ {p \in UNION {Planning(q)[c] : c \in CardsOf(q.game)} : Owner[p.name] = q.game} = q.unit
         /\ CompanionRestored(q) =>
              {p \in UNION {Planning(q)[c] : c \in CardsOf(q.game)} : Owner[p.name] = q.comp} = q.cunit
<1>1. q.game \in Games /\ q.comp # q.game
  BY IncomingSound
<1>2. CASE MustPlace(q)
  <2>1. \A c \in CardsOf(q.game) : Planning(q)[c] = Kept(q, c) \cup {p \in Incoming(q) : Place(q, p.name) = c}
    BY <1>1, <1>2, PlanningIs DEF Final
  <2>2. \A p \in Incoming(q) : Place(q, p.name) \in CardsOf(q.game)
    BY <1>1, PlaceThere
  <2>3. \A c \in CardsOf(q.game) : \A p \in Kept(q, c) :
          Owner[p.name] # q.game /\ (CompanionRestored(q) => Owner[p.name] # q.comp)
    BY DEF Kept, IsReplaced, Replaced
  <2>4. ASSUME NEW h, h = q.game \/ (CompanionRestored(q) /\ h = q.comp)
        PROVE  {p \in UNION {Planning(q)[c] : c \in CardsOf(q.game)} : Owner[p.name] = h}
                 = {p \in Incoming(q) : Owner[p.name] = h}
    BY <2>1, <2>2, <2>3, <2>4
  <2>5. {p \in Incoming(q) : Owner[p.name] = q.game} = q.unit
    BY <1>1, IncomingSound DEF Incoming
  <2>6. {p \in Incoming(q) : Owner[p.name] = q.comp} = q.cunit
    BY <1>1, IncomingSound DEF Incoming
  <2> QED
    BY <2>4, <2>5, <2>6
<1>3. CASE ~MustPlace(q)
  <2>1. Mine(q) = q.unit /\ (CompanionRestored(q) => Theirs(q) = q.cunit)
    BY <1>3 DEF MustPlace, AlreadyThere
  <2>2. \A c \in CardsOf(q.game) : Planning(q)[c] = card[c]
    BY <1>1, <1>3, PlanningIs
  <2>3. \A h : {p \in UNION {Planning(q)[c] : c \in CardsOf(q.game)} : Owner[p.name] = h} = LocalOf(q, h)
    BY <1>1, <2>2, LocalAll
  <2> QED
    BY <2>1, <2>3, IncomingSound DEF Mine, Theirs
<1> QED
  BY <1>2, <1>3

LEMMA LocalTyped ==
  ASSUME TypeOK, NEW q, q.game \in Games
  PROVE  (\A h : LocalOf(q, h) \in SUBSET Part) /\ Mine(q) \in SUBSET Part /\ Theirs(q) \in SUBSET Part
<1>1. Loaded(q.game) \subseteq Cards
  BY PrimaryThere DEF Loaded
<1>2. \A h : LocalOf(q, h) \in SUBSET Part
  BY <1>1 DEF LocalOf, TypeOK
<1> QED
  BY <1>2 DEF Mine, Theirs

LEMMA RestoreBlobTyped ==
  ASSUME TypeOK, LibrarySound, NEW q, AsksRestore(q)
  PROVE  RestoreBlob(q) \in Blob
<1> DEFINE synced == [g \in Games |-> IF g = q.game THEN q.unit
                                      ELSE IF g = q.comp /\ CompanionRestored(q) THEN q.cunit
                                      ELSE st.synced[g]]
           restored == IF q.mode = "managed" THEN st.restored
                       ELSE [st.restored EXCEPT ![q.game] = [new |-> q.unit, old |-> Mine(q)]]
<1>1. q.unit \in SUBSET Part /\ q.cunit \in SUBSET Part /\ q.game \in Games /\ Mine(q) \in SUBSET Part
  BY IncomingSound, LocalTyped DEF Incoming
<1>2. st.synced \in [Games -> SUBSET Part] /\ st.restored \in [Games -> {None} \cup [new : SUBSET Part, old : SUBSET Part]]
  BY DEF TypeOK, Blob
<1>3. synced \in [Games -> SUBSET Part]
  BY <1>1, <1>2
<1>4. restored \in [Games -> {None} \cup [new : SUBSET Part, old : SUBSET Part]]
  <2>1. [new |-> q.unit, old |-> Mine(q)] \in [new : SUBSET Part, old : SUBSET Part]
    BY <1>1
  <2> QED
    BY <1>2, <2>1
<1>5. RestoreBlob(q) = [synced |-> synced, restored |-> restored]
  BY DEF RestoreBlob
<1> HIDE DEF synced, restored
<1> QED
  BY <1>3, <1>4, <1>5 DEF Blob

LEMMA StepsTyped ==
  ASSUME TypeOK, LibrarySound, OneEach, NEW q, AsksRestore(q), NEW c \in Changed(q)
  PROVE  Steps(q, c) \subseteq Step
<1>1. c \in Cards /\ Final(q, c) \in SUBSET Part /\ card[c] \in SUBSET Part
  BY IncomingSound, ChangedThere, PrimaryThere, FinalSound DEF TypeOK
<1>2. Superblock(q, c) \subseteq Step /\ {[kind |-> "image", on |-> c]} \subseteq Step
  BY <1>1 DEF Superblock, Step
<1>3. Puts(q, c) \subseteq Step
  BY <1>1 DEF Puts, Step
<1>4. Drops(q, c) \subseteq Step
  BY <1>1 DEF Drops, Step
<1> QED
  BY <1>2, <1>3, <1>4 DEF Steps

LEMMA StepsSound ==
  ASSUME TypeOK, LibrarySound, OneEach, NEW q, AsksRestore(q), NEW c \in Changed(q), NEW s \in Steps(q, c)
  PROVE  /\ s.on = c
         /\ s.kind = "image" =>
              /\ {p \in card[c] : ~IsReplaced(q, p)} \subseteq Final(q, c)
              /\ Final(q, c) \subseteq card[c] \cup Incoming(q)
         /\ s.kind = "image" <=> c \notin Folders
         /\ s.kind = "put" => s.part \in Final(q, c) \cap Incoming(q)
         /\ s.kind = "drop" =>
              IsReplaced(q, s.part) /\ \A o \in Final(q, c) : o.name # s.part.name \/ o.file # s.part.file
<1>1. s.on = c /\ (s.kind = "image" <=> c \notin Folders)
  BY DEF Steps, Superblock, Puts, Drops
<1>2. /\ {p \in card[c] : ~IsReplaced(q, p)} \subseteq Final(q, c)
      /\ Final(q, c) \subseteq card[c] \cup Incoming(q)
      /\ \A p \in Final(q, c) : IsReplaced(q, p) => p \in Incoming(q)
  BY DEF Final, Kept
<1>3. s.kind = "put" => s.part \in Final(q, c) /\ IsReplaced(q, s.part)
  BY DEF Steps, Superblock, Puts, Drops
<1>4. s.kind = "drop" =>
        IsReplaced(q, s.part) /\ \A o \in Final(q, c) : o.name # s.part.name \/ o.file # s.part.file
  BY DEF Steps, Superblock, Puts, Drops
<1> QED
  BY <1>1, <1>2, <1>3, <1>4

LEMMA BeginTyped ==
  ASSUME TypeOK, LibrarySound, OneEach, NEW q, AsksRestore(q), RestoreBegin(q)
  PROVE  TypeOK'
<1>1. call' = [op |-> "restore", req |-> q, agreed |-> Agreed(q), blob |-> RestoreBlob(q), read |-> Disk,
               todo |-> IF MustPlace(q) THEN UNION {Steps(q, c) : c \in Changed(q)} ELSE {},
               made |-> IF MustPlace(q) THEN {Primary(q.game)} \ Loaded(q.game) ELSE {},
               final |-> Planning(q), since |-> edits]
  BY DEF RestoreBegin, Planning
<1>2. q \in RestoreRequests /\ q.game \in Games
  BY DEF AsksRestore, Asks
<1>3. Agreed(q) \in SUBSET Part
  BY <1>2, PrimaryThere DEF Agreed, Loaded, TypeOK
<1>4. RestoreBlob(q) \in Blob
  BY RestoreBlobTyped
<1>5. Disk \in [Cards -> (SUBSET Part) \X SUBSET Names]
  BY DEF Disk, TypeOK
<1>6. (IF MustPlace(q) THEN UNION {Steps(q, c) : c \in Changed(q)} ELSE {}) \in SUBSET Step
  BY StepsTyped
<1>7. (IF MustPlace(q) THEN {Primary(q.game)} \ Loaded(q.game) ELSE {}) \in SUBSET Cards
  BY <1>2, PrimaryThere
<1>8. Planning(q) \in [Cards -> SUBSET Part]
  BY FinalSound DEF Planning, TypeOK
<1>9. call' \in [op : {"idle", "restore"}, req : {None} \cup RestoreRequests, todo : SUBSET Step,
                 made : SUBSET Cards, agreed : SUBSET Part, blob : Blob,
                 read : [Cards -> (SUBSET Part) \X SUBSET Names], final : [Cards -> SUBSET Part], since : 0..MaxEdits]
  <2> HIDE DEF Planning, Disk
  <2>1. edits \in 0..MaxEdits
    BY DEF TypeOK
  <2> QED
    BY <1>1, <1>2, <1>3, <1>4, <1>5, <1>6, <1>7, <1>8, <2>1
<1>10. calls' \in 0..MaxCalls
  BY ConstantsTyped DEF RestoreBegin, MayCall, TypeOK
<1> QED
  BY <1>9, <1>10 DEF RestoreBegin, TypeOK

LEMMA BeginOneEach ==
  ASSUME TypeOK, LibrarySound, OneEach, call = Idle, NEW q, AsksRestore(q), RestoreBegin(q)
  PROVE  OneEach'
<1>1. card' = card /\ call'.final = Planning(q) /\ q.game \in Games
  BY IncomingSound DEF RestoreBegin, Planning
<1>2. ASSUME NEW c \in Cards, NEW n, n \in HeldOn(c)', n \notin NamesOn(c)
      PROVE  c = Place(q, n)
  <2>1. PICK p \in Planning(q)[c] : p.name = n
    BY <1>1, <1>2 DEF HeldOn, NamesOn, NamesIn
  <2>2. p \notin card[c]
    BY <1>2, <2>1 DEF NamesOn, NamesIn
  <2>3. p \in Final(q, c)
    BY <2>1, <2>2 DEF Planning
  <2> QED
    BY <2>1, <2>2, <2>3 DEF Final, Kept
<1>3. SUFFICES ASSUME NEW g \in Games, NEW n \in Names, NEW c \in CardsOf(g), NEW d \in CardsOf(g),
                      n \in HeldOn(c)', n \in HeldOn(d)'
               PROVE  c = d
  BY DEF OneEach
<1>4. c \in Cards /\ d \in Cards
  BY PrimaryThere
<1>5. ASSUME NEW e \in CardsOf(g), NEW f \in CardsOf(g), n \in NamesOn(e), n \notin NamesOn(f), f = Place(q, n)
      PROVE  FALSE
  <2>1. \A k \in CardsOf(q.game) : n \notin NamesOn(k)
    BY <1>1, <1>5, PlaceThere
  <2>2. f = Primary(q.game) /\ f \in CardsOf(q.game) /\ e \notin CardsOf(q.game)
    BY <1>1, <1>5, <2>1, PlaceThere
  <2>3. e = Own[g] /\ e # None
    BY <2>2 DEF CardsOf
  <2>4. Own[q.game] # None
    BY <1>1, <2>3, OwnAlike
  <2>5. f = Own[q.game]
    BY <2>2, <2>4 DEF Primary
  <2>6. f = Own[g]
    BY <1>1, <1>5, <2>5 DEF CardsOf, SharedCards
  <2> QED
    BY <2>2, <2>3, <2>6
<1>6. n \in NamesOn(c) /\ n \in NamesOn(d) => c = d
  BY DEF OneEach, HeldOn
<1> QED
  BY <1>2, <1>3, <1>4, <1>5, <1>6

LEMMA BeginPlans ==
  ASSUME TypeOK, LibrarySound, OneEach, BlobPassed, NEW q, AsksRestore(q), RestoreBegin(q)
  PROVE  PlanSound(q)' /\ BlobPassed'
<1>1. /\ UNCHANGED <<card, slot, flawed, corrupt, st, library, edits>>
      /\ call'.final = Planning(q) /\ call'.read = Disk /\ call'.agreed = Agreed(q) /\ call'.blob = RestoreBlob(q)
      /\ call'.todo = (IF MustPlace(q) THEN UNION {Steps(q, c) : c \in Changed(q)} ELSE {})
      /\ call'.since = edits
  BY DEF RestoreBegin, Planning
<1>2. q.game \in Games /\ ~Conflict(q) /\ CardsOf(q.game) \subseteq Cards
  BY IncomingSound, PrimaryThere DEF RestoreBegin, RestoreCode
<1>3. \A c \in Cards : call'.read[c][1] = card[c]
  BY <1>1 DEF Disk
<1>4. AsksRestore(q)'
  BY <1>1 DEF AsksRestore, Asks, RestoreRequests
<1>5. \A c \in Cards : Whole(call'.final[c])
  BY <1>1, FinalSound DEF Planning, TypeOK
<1>6. ASSUME NEW s \in call'.todo PROVE StepSound(q, s)'
  <2>1. PICK c \in Changed(q) : s \in Steps(q, c) /\ MustPlace(q)
    BY <1>1
  <2>2. c \in CardsOf(q.game) /\ c \in Cards
    BY <1>2, <2>1, ChangedThere
  <2>3. call'.final[c] = Final(q, c) /\ call'.read[c][1] = card[c]
    BY <1>1, <1>3, <2>1, <2>2 DEF Planning
  <2>4. s.on = c
    BY <2>1, StepsSound
  <2> QED
    BY <2>1, <2>2, <2>3, <2>4, StepsSound DEF StepSound
<1>7. \A c \in CardsOf(q.game) : \A p \in call'.read[c][1] : IsReplaced(q, p) => p \in Passed' \cup call'.agreed
  BY <1>1, <1>2, <1>3, ReplacedCovered DEF Passed
<1>8. /\ FinalOf(q, q.game)' = call'.blob.synced[q.game]
      /\ CompanionRestored(q) => FinalOf(q, q.comp)' = call'.blob.synced[q.comp]
  <2>1. /\ FinalOf(q, q.game)' = q.unit
        /\ CompanionRestored(q) => FinalOf(q, q.comp)' = q.cunit
    BY <1>1, PlanningOf DEF FinalOf
  <2>2. /\ RestoreBlob(q).synced[q.game] = q.unit
        /\ CompanionRestored(q) => RestoreBlob(q).synced[q.comp] = q.cunit
    BY <1>2, IncomingSound DEF RestoreBlob
  <2> QED
    BY <1>1, <2>1, <2>2
<1>9. ASSUME NEW n \in NamesIn(Incoming(q)), NEW c \in CardsOf(q.game), n \in NamesIn(call'.read[c][1])
      PROVE  n \in NamesIn(call'.final[c])
  <2>1. n \in NamesOn(c)
    BY <1>2, <1>3, <1>9 DEF NamesOn
  <2>2. CASE MustPlace(q)
    <3>1. Place(q, n) = c
      BY <1>2, <2>1, PlaceThere
    <3>2. n \in NamesIn(Final(q, c))
      BY <3>1 DEF Final, NamesIn
    <3> QED
      BY <1>1, <1>2, <2>2, <3>2, PlanningIs
  <2>3. CASE ~MustPlace(q)
    BY <1>1, <1>2, <2>1, <2>3, PlanningIs DEF NamesOn
  <2> QED
    BY <2>2, <2>3
<1>10. BlobPassed'
  <2>1. \A g \in Games : RestoreBlob(q).synced[g] \subseteq UNION library[g]
    BY IncomingSound DEF BlobPassed, RestoreBlob, AsksRestore, CompanionRestored
  <2> QED
    BY <1>1, <2>1 DEF BlobPassed
<1>11. PlanSound(q)'
  BY <1>1, <1>4, <1>5, <1>6, <1>7, <1>8, <1>9 DEF PlanSound, Undisturbed
<1> QED
  BY <1>10, <1>11

(***************************************************************************)
(* The invariant, one lemma per kind of step.                              *)
(***************************************************************************)
LEMMA IdleTyped ==
  Idle \in [op : {"idle", "restore"}, req : {None} \cup RestoreRequests, todo : SUBSET Step,
            made : SUBSET Cards, agreed : SUBSET Part, blob : Blob,
            read : [Cards -> (SUBSET Part) \X SUBSET Names], final : [Cards -> SUBSET Part], since : 0..MaxEdits]
<1>1. NewBlob \in Blob
  BY DEF NewBlob, Blob
<1>2. 0 \in 0..MaxEdits
  BY ConstantsTyped
<1>3. [c \in Cards |-> <<{}, {}>>] \in [Cards -> (SUBSET Part) \X SUBSET Names]
  OBVIOUS
<1> QED
  BY <1>1, <1>2, <1>3 DEF Idle

LEMMA InitSound == Init => IInv
<1> SUFFICES ASSUME Init PROVE IInv
  OBVIOUS
<1>1. TypeOK
  <2>1. slot \in [Cards -> {"none", "erased", "card"}] /\ library \in [Games -> SUBSET SUBSET Part]
    BY ConstantsTyped DEF Init
  <2>2. st \in Blob
    BY DEF Init, NewBlob, Blob
  <2>3. edits \in 0..MaxEdits /\ calls \in 0..MaxCalls
    BY ConstantsTyped DEF Init
  <2>4. card \in [Cards -> SUBSET Part] /\ (\A c \in Cards : Whole(card[c]) /\ card[c] = {})
    BY DEF Init, Whole
  <2> QED
    BY <2>1, <2>2, <2>3, <2>4, IdleTyped DEF Init, TypeOK
<1>2. LibrarySound
  BY UnitsSound DEF Init, LibrarySound
<1>3. FolderCards
  BY FoldersThere DEF Init, FolderCards
<1>4. \A c \in Cards : HeldOn(c) = {}
  BY DEF Init, Idle, HeldOn, NamesOn, NamesIn
<1>5. OneEach
  BY <1>4, PrimaryThere DEF OneEach
<1>6. BlobPassed /\ Planned
  BY DEF Init, Idle, NewBlob, BlobPassed, Planned
<1> QED
  BY <1>1, <1>2, <1>3, <1>5, <1>6 DEF IInv

LEMMA CollectSound ==
  ASSUME IInv, NEW q, Asks(q), Collect(q)
  PROVE  IInv'
<1> USE DEF IInv
<1>1. PICK uploaded \in BOOLEAN, stored \in BOOLEAN :
         /\ stored => uploaded
         /\ library' = IF uploaded THEN [g \in Games |-> library[g] \cup Uploads(q, g)] ELSE library
         /\ st' = IF stored THEN CollectBlob(q) ELSE st
  BY DEF Collect
<1>2. UNCHANGED <<card, slot, flawed, corrupt, call, edits>> /\ call.op = "idle" /\ call = Idle
  BY DEF Collect, MayCall, Planned
<1>3. q.game \in Games /\ q.comp \in Games \cup {None} /\ q.game # q.comp
  BY NoSelfCompanion, ConstantsTyped DEF Asks
<1>4. \A h : LocalOf(q, h) = {p \in UNION {card[c] : c \in CardsOf(q.game)} : Owner[p.name] = h}
  BY <1>3, LocalAll
<1>5. ASSUME NEW h PROVE Whole(LocalOf(q, h)) /\ \A p \in LocalOf(q, h) : Owner[p.name] = h
  <2>1. ASSUME NEW c \in CardsOf(q.game), NEW d \in CardsOf(q.game), NEW p \in card[c], NEW r \in card[d], p.name = r.name
        PROVE  c = d
    <3>1. p.name \in NamesOn(c) /\ p.name \in NamesOn(d)
      BY <2>1 DEF NamesOn, NamesIn
    <3>2. Holders(q.game, p.name) = {c} /\ Holders(q.game, p.name) = {d}
      BY <1>3, <3>1, HoldersOne
    <3> QED
      BY <3>2
  <2>2. \A c \in CardsOf(q.game) : Whole(card[c])
    BY <1>3, PrimaryThere DEF TypeOK
  <2> QED
    BY <1>4, <2>1, <2>2 DEF Whole
<1>6. \A g \in Games : Uploads(q, g) \subseteq {LocalOf(q, g)} /\ LocalOf(q, g) \in SUBSET Part
  BY <1>3, LocalTyped DEF Uploads
<1>7. library' \in [Games -> SUBSET SUBSET Part]
  BY <1>1, <1>6 DEF TypeOK
<1>8. \A g \in Games : UNION library[g] \subseteq UNION library'[g]
  BY <1>1 DEF TypeOK
<1>9. LibrarySound'
  <2>1. ASSUME NEW g \in Games, NEW u \in library'[g]
        PROVE  u \in library[g] \/ u = LocalOf(q, g)
    BY <1>1, <1>6
  <2> QED
    BY <1>5, <2>1 DEF LibrarySound
<1>10. CollectBlob(q) \in Blob
  <2>1. Mine(q) \in SUBSET Part /\ Theirs(q) \in SUBSET Part
    BY <1>3, LocalTyped
  <2>2. st.synced \in [Games -> SUBSET Part] /\ st.restored \in [Games -> {None} \cup [new : SUBSET Part, old : SUBSET Part]]
    BY DEF TypeOK, Blob
  <2>3. (IF RestoreAgain(q) THEN st.restored ELSE [st.restored EXCEPT ![q.game] = None])
          \in [Games -> {None} \cup [new : SUBSET Part, old : SUBSET Part]]
    BY <2>2
  <2>4. [g \in Games |-> IF g = q.game THEN IF RestoreAgain(q) THEN st.synced[g] ELSE Mine(q)
                         ELSE IF g = q.comp /\ Theirs(q) # {} THEN Theirs(q)
                         ELSE st.synced[g]] \in [Games -> SUBSET Part]
    BY <2>1, <2>2
  <2> QED
    BY <2>3, <2>4 DEF CollectBlob, Blob
<1>11. ASSUME stored, NEW g \in Games PROVE CollectBlob(q).synced[g] \subseteq UNION library'[g]
  <2>1. library'[g] = library[g] \cup Uploads(q, g) /\ st.synced[g] \subseteq UNION library[g]
    BY <1>1, <1>11 DEF BlobPassed
  <2>2. g \in Ours(q) /\ ~(g = q.game /\ RestoreAgain(q)) =>
          LocalOf(q, g) \in {{}, st.synced[g]} \/ LocalOf(q, g) \in Uploads(q, g)
    BY DEF Uploads
  <2>3. CASE g = q.game
    <3>1. g \in Ours(q) /\ Mine(q) = LocalOf(q, g)
      BY <2>3, ConstantsTyped DEF Ours, Mine
    <3> QED
      BY <2>1, <2>2, <2>3, <3>1 DEF CollectBlob
  <2>4. CASE g # q.game /\ g = q.comp
    <3>1. g \in Ours(q) /\ Theirs(q) = LocalOf(q, g)
      BY <2>4, ConstantsTyped DEF Ours, Theirs
    <3> QED
      BY <2>1, <2>2, <2>4, <3>1 DEF CollectBlob
  <2>5. CASE g # q.game /\ g # q.comp
    BY <2>1, <2>5 DEF CollectBlob
  <2> QED
    BY <2>3, <2>4, <2>5
<1>12. BlobPassed'
  <2>1. \A g \in Games : st'.synced[g] \subseteq UNION library'[g]
    BY <1>1, <1>8, <1>11 DEF BlobPassed
  <2> QED
    BY <1>2, <1>8, <2>1 DEF BlobPassed
<1>13. calls' \in 0..MaxCalls
  BY ConstantsTyped DEF Collect, MayCall, TypeOK
<1>14. st' \in Blob
  BY <1>1, <1>10 DEF TypeOK
<1>15. TypeOK'
  BY <1>2, <1>7, <1>13, <1>14 DEF TypeOK
<1>16. OneEach' /\ FolderCards'
  BY <1>2 DEF OneEach, HeldOn, NamesOn, FolderCards, CardsOf, SharedCards
<1>17. Planned'
  BY <1>2 DEF Planned, Idle
<1> QED
  BY <1>9, <1>12, <1>15, <1>16, <1>17

LEMMA BeginSound ==
  ASSUME IInv, NEW q, AsksRestore(q), RestoreBegin(q)
  PROVE  IInv'
<1>1. call = Idle
  BY DEF IInv, Planned, RestoreBegin, MayCall
<1>2. TypeOK' /\ OneEach' /\ BlobPassed' /\ PlanSound(q)'
  BY <1>1, BeginTyped, BeginOneEach, BeginPlans DEF IInv
<1>3. LibrarySound' /\ FolderCards' /\ call'.op = "restore" /\ call'.req = q
  BY DEF IInv, RestoreBegin, LibrarySound, FolderCards
<1> QED
  BY <1>2, <1>3 DEF IInv, Planned, PlanSound

Write(s) == WriteImage(s) \/ WriteSuperblock(s) \/ WriteFile(s) \/ RemoveFile(s)

\* One write changes one card, and leaves the plan as it is.
LEMMA WriteDoes ==
  ASSUME IInv, NEW s \in call.todo, Write(s)
  PROVE  /\ call.op = "restore" /\ s \in Step /\ s.on \in Cards
         /\ UNCHANGED <<st, library, edits, calls>>
         /\ call' = [call EXCEPT !.todo = @ \ {s}]
         /\ \/ /\ s.kind = "image" /\ slot' = [slot EXCEPT ![s.on] = "card"]
               /\ card' = [card EXCEPT ![s.on] = call.final[s.on]]
               /\ corrupt' = [corrupt EXCEPT ![s.on] = call.read[s.on][2]]
            \/ s.kind = "superblock" /\ UNCHANGED <<card, slot, corrupt>>
            \/ /\ s.kind = "put" /\ UNCHANGED <<slot, corrupt>>
               /\ card' = [card EXCEPT ![s.on] = PutPart(@, s.part)]
            \/ /\ s.kind = "drop" /\ UNCHANGED <<slot, corrupt>>
               /\ card' = [card EXCEPT ![s.on] = {p \in @ : p.name # s.part.name \/ p.file # s.part.file}]
         /\ flawed' = IF s.kind \in {"image", "superblock"} THEN flawed \ {s.on} ELSE flawed
<1>1. call.todo \in SUBSET Step /\ call.op \in {"idle", "restore"}
  BY DEF IInv, TypeOK
<1>2. s \in Step /\ s.on \in Cards
  BY <1>1 DEF Step
<1>3. call.op = "restore"
  BY <1>1 DEF IInv, Planned, Idle
<1>4. CASE WriteImage(s)
  BY <1>2, <1>3, <1>4 DEF WriteImage, Took
<1>5. CASE WriteSuperblock(s)
  BY <1>2, <1>3, <1>5 DEF WriteSuperblock, Took
<1>6. CASE WriteFile(s)
  BY <1>2, <1>3, <1>6 DEF WriteFile, Took
<1>7. CASE RemoveFile(s)
  BY <1>2, <1>3, <1>7 DEF RemoveFile, Took
<1> QED
  BY <1>4, <1>5, <1>6, <1>7 DEF Write

\* What a written card holds is what it held, or what the plan puts there.
LEMMA WriteCard ==
  ASSUME IInv, NEW s \in call.todo, Write(s)
  PROVE  /\ card' \in [Cards -> SUBSET Part]
         /\ \A c \in Cards : c # s.on => card'[c] = card[c]
         /\ Whole(card'[s.on])
         /\ s.kind = "image" => card'[s.on] = call.final[s.on]
         /\ s.kind = "superblock" => card'[s.on] = card[s.on]
         /\ s.kind = "put" => card'[s.on] = PutPart(card[s.on], s.part) /\ s.part \in call.final[s.on]
         /\ s.kind = "drop" =>
              card'[s.on] = {p \in card[s.on] : p.name # s.part.name \/ p.file # s.part.file}
<1>1. /\ s \in Step /\ s.on \in Cards /\ call.op = "restore" /\ card \in [Cards -> SUBSET Part]
      /\ call.final \in [Cards -> SUBSET Part] /\ Whole(card[s.on])
  BY WriteDoes DEF IInv, TypeOK
<1>2. StepSound(call.req, s) /\ Whole(call.final[s.on])
  BY <1>1 DEF IInv, Planned, PlanSound
<1>3. CASE s.kind = "image"
  BY <1>1, <1>2, <1>3, WriteDoes
<1>4. CASE s.kind = "superblock"
  BY <1>1, <1>4, WriteDoes
<1>5. CASE s.kind = "put"
  <2>1. card' = [card EXCEPT ![s.on] = PutPart(@, s.part)]
    BY <1>5, WriteDoes
  <2>2. s.part \in call.final[s.on] /\ s.part \in Part
    BY <1>1, <1>2, <1>5 DEF StepSound
  <2>3. PutPart(card[s.on], s.part) \in SUBSET Part /\ Whole(PutPart(card[s.on], s.part))
    BY <1>1, <2>2 DEF PutPart, Whole
  <2> QED
    BY <1>1, <1>5, <2>1, <2>2, <2>3
<1>6. CASE s.kind = "drop"
  <2>1. card' = [card EXCEPT ![s.on] = {p \in @ : p.name # s.part.name \/ p.file # s.part.file}]
    BY <1>6, WriteDoes
  <2> QED
    BY <1>1, <1>6, <2>1 DEF Whole
<1> QED
  BY <1>3, <1>4, <1>5, <1>6, WriteDoes

LEMMA WriteSound ==
  ASSUME IInv, NEW s \in call.todo, Write(s)
  PROVE  IInv'
<1>1. /\ call.op = "restore" /\ s.on \in Cards /\ UNCHANGED <<st, library, edits, calls>>
      /\ call' = [call EXCEPT !.todo = @ \ {s}]
  BY WriteDoes
<1>2. /\ card' \in [Cards -> SUBSET Part] /\ \A c \in Cards : Whole(card'[c])
      /\ \A c \in Cards : c # s.on => card'[c] = card[c]
  BY WriteCard DEF IInv, TypeOK
<1>3. PlanSound(call.req) /\ s.on \in CardsOf(call.req.game) /\ StepSound(call.req, s)
  BY <1>1 DEF IInv, Planned, PlanSound, StepSound
<1>4. /\ call'.op = "restore" /\ call'.req = call.req /\ call'.todo = call.todo \ {s} /\ call'.agreed = call.agreed
      /\ call'.blob = call.blob /\ call'.read = call.read /\ call'.final = call.final /\ call'.since = call.since
  BY <1>1 DEF IInv, TypeOK
<1>5. slot' \in [Cards -> {"none", "erased", "card"}] /\ \A c \in Cards : slot[c] = "card" => slot'[c] = "card"
  BY <1>1, WriteDoes DEF IInv, TypeOK
<1>6. slot'[s.on] = "card"
  <2>1. CASE s.kind = "image"
    BY <1>1, <2>1, WriteDoes DEF IInv, TypeOK
  <2>2. CASE s.kind # "image"
    BY <1>1, <1>3, <1>5, <2>2 DEF IInv, FolderCards, StepSound
  <2> QED
    BY <2>1, <2>2
<1>7. \A c \in Cards : slot'[c] # "card" => card'[c] = {}
  BY <1>2, <1>5, <1>6 DEF IInv, TypeOK
<1>8. flawed' \subseteq Cards /\ corrupt' \in [Cards -> SUBSET Names]
  <2>1. call.read[s.on][2] \in SUBSET Names
    BY <1>1 DEF IInv, TypeOK
  <2> QED
    BY <1>1, <2>1, WriteDoes DEF IInv, TypeOK
<1>9. call' \in [op : {"idle", "restore"}, req : {None} \cup RestoreRequests, todo : SUBSET Step,
                 made : SUBSET Cards, agreed : SUBSET Part, blob : Blob,
                 read : [Cards -> (SUBSET Part) \X SUBSET Names], final : [Cards -> SUBSET Part], since : 0..MaxEdits]
  BY <1>1 DEF IInv, TypeOK
<1>10. TypeOK'
  BY <1>1, <1>2, <1>5, <1>7, <1>8, <1>9 DEF IInv, TypeOK
<1>11. \A c \in Cards : HeldOn(c)' \subseteq HeldOn(c)
  <2>1. ASSUME NEW p \in card'[s.on] PROVE p.name \in HeldOn(s.on)
    BY <2>1, WriteCard, WriteDoes DEF HeldOn, NamesOn, NamesIn, PutPart
  <2> QED
    BY <1>2, <1>4, <2>1 DEF HeldOn, NamesOn, NamesIn
<1>12. OneEach'
  BY <1>11, PrimaryThere DEF IInv, OneEach, CardsOf, SharedCards
<1>13. FolderCards'
  BY <1>5, ConstantsTyped DEF IInv, FolderCards
<1>14. LibrarySound' /\ BlobPassed'
  BY <1>1, <1>4 DEF IInv, LibrarySound, BlobPassed
<1>15. PICK q : q = call.req
  OBVIOUS
<1>16. \A t \in call.todo : StepSound(q, t) => StepSound(q, t)'
  BY <1>4 DEF StepSound
<1>17. PlanSound(q)'
  BY <1>1, <1>3, <1>4, <1>15, <1>16 DEF PlanSound, AsksRestore, FinalOf, Passed, Undisturbed
<1>18. Planned'
  BY <1>4, <1>15, <1>17 DEF Planned
<1> QED
  BY <1>4, <1>10, <1>12, <1>13, <1>14, <1>18 DEF IInv

LEMMA EndSound ==
  ASSUME IInv, RestoreEnd \/ RestoreFails
  PROVE  IInv'
<1>1. /\ UNCHANGED <<card, slot, flawed, corrupt, library, edits, calls>> /\ call' = Idle
      /\ st' \in {st, call.blob}
  BY DEF RestoreEnd, RestoreFails
<1>2. st' \in Blob
  BY <1>1 DEF IInv, TypeOK
<1>3. TypeOK'
  BY <1>1, <1>2, IdleTyped DEF IInv, TypeOK
<1>4. \A c \in Cards : HeldOn(c)' \subseteq HeldOn(c)
  BY <1>1 DEF HeldOn, NamesOn, NamesIn, Idle
<1>5. OneEach'
  BY <1>4, PrimaryThere DEF IInv, OneEach, CardsOf, SharedCards
<1>6. BlobPassed'
  BY <1>1 DEF IInv, BlobPassed, Idle, NewBlob
<1>7. LibrarySound' /\ FolderCards' /\ Planned'
  BY <1>1 DEF IInv, LibrarySound, FolderCards, Planned, Idle
<1> QED
  BY <1>3, <1>5, <1>6, <1>7 DEF IInv

\* Emulators change one card, count the change, and touch nothing of sigil's.
LEMMA EmulatorDoes ==
  ASSUME TypeOK, ~Copied, Emulator
  PROVE  /\ UNCHANGED <<st, library, call, calls>> /\ MayEdit /\ edits' = edits + 1 /\ edits' \in 0..MaxEdits
         /\ card' \in [Cards -> SUBSET Part] /\ \A c \in Cards : Whole(card'[c])
         /\ slot' \in [Cards -> {"none", "erased", "card"}]
         /\ \A c \in Cards : (slot'[c] # "card" => card'[c] = {}) /\ (slot[c] = "card" => slot'[c] = "card")
         /\ flawed' \subseteq Cards /\ corrupt' \in [Cards -> SUBSET Names]
         /\ \E c \in Cards : \A d \in Cards : \A n \in NamesIn(card'[d]) :
              n \in NamesOn(d) \/ (d = c /\ \A e \in Cards \ {c} : n \notin HeldOn(e))
<1>1. edits \in 0..MaxEdits /\ MaxEdits \in Nat /\ (edits < MaxEdits => edits + 1 \in 0..MaxEdits)
  BY ConstantsTyped DEF TypeOK
<1>2. /\ card \in [Cards -> SUBSET Part] /\ slot \in [Cards -> {"none", "erased", "card"}]
      /\ \A c \in Cards : Whole(card[c]) /\ (slot[c] # "card" => card[c] = {})
      /\ flawed \subseteq Cards /\ corrupt \in [Cards -> SUBSET Names]
  BY DEF TypeOK
<1>3. ASSUME NEW c \in Cards, NEW s \in Writable, EmulatorSaves(c, s)
      PROVE  /\ UNCHANGED <<st, library, call, calls>> /\ MayEdit /\ edits' = edits + 1 /\ edits' \in 0..MaxEdits
             /\ card' \in [Cards -> SUBSET Part] /\ \A d \in Cards : Whole(card'[d])
             /\ slot' \in [Cards -> {"none", "erased", "card"}]
             /\ \A d \in Cards : (slot'[d] # "card" => card'[d] = {}) /\ (slot[d] = "card" => slot'[d] = "card")
             /\ flawed' \subseteq Cards /\ corrupt' \in [Cards -> SUBSET Names]
             /\ \A d \in Cards : \A n \in NamesIn(card'[d]) :
                  n \in NamesOn(d) \/ (d = c /\ \A e \in Cards \ {c} : n \notin HeldOn(e))
  <2>1. s \in SUBSET Part /\ Whole(s)
    BY ConstantsTyped, WritableSound
  <2>2. card' = [card EXCEPT ![c] = {p \in @ : p.name \notin NamesIn(s)} \cup s]
    BY <1>3 DEF EmulatorSaves
  <2>3. {p \in card[c] : p.name \notin NamesIn(s)} \cup s \in SUBSET Part
    BY <1>2, <2>1
  <2>4. Whole({p \in card[c] : p.name \notin NamesIn(s)} \cup s)
    BY <1>2, <2>1 DEF Whole, NamesIn
  <2>5. card' \in [Cards -> SUBSET Part] /\ \A d \in Cards : Whole(card'[d])
    BY <1>2, <2>2, <2>3, <2>4
  <2>6. \A d \in Cards : \A n \in NamesIn(card'[d]) : n \in NamesOn(d) \/ (d = c /\ n \in NamesIn(s))
    BY <1>2, <2>2 DEF NamesIn, NamesOn
  <2>7. \A n \in NamesIn(s) : \A e \in Cards \ {c} : n \notin HeldOn(e)
    BY <1>3 DEF EmulatorSaves, HeldOn
  <2>8. /\ slot' = [slot EXCEPT ![c] = "card"] /\ corrupt' = [corrupt EXCEPT ![c] = @ \ NamesIn(s)]
        /\ UNCHANGED <<flawed, st, library, call, calls>> /\ MayEdit /\ edits' = edits + 1
    BY <1>3 DEF EmulatorSaves
  <2>9. \A d \in Cards : slot'[d] # "card" => card'[d] = {}
    BY <1>2, <2>2, <2>8
  <2> QED
    BY <1>1, <1>2, <2>5, <2>6, <2>7, <2>8, <2>9 DEF MayEdit
<1>4. ASSUME NEW c \in Cards, NEW n \in Names, EmulatorDeletes(c, n) \/ EmulatorCorrupts(c, n)
      PROVE  /\ UNCHANGED <<st, library, call, calls>> /\ MayEdit /\ edits' = edits + 1 /\ edits' \in 0..MaxEdits
             /\ card' \in [Cards -> SUBSET Part] /\ \A d \in Cards : Whole(card'[d])
             /\ slot' = slot /\ \A d \in Cards : slot'[d] # "card" => card'[d] = {}
             /\ flawed' \subseteq Cards /\ corrupt' \in [Cards -> SUBSET Names]
             /\ \A d \in Cards : \A m \in NamesIn(card'[d]) : m \in NamesOn(d)
  <2>1. /\ card' = [card EXCEPT ![c] = {p \in @ : p.name # n}]
        /\ UNCHANGED <<slot, flawed, st, library, call, calls>> /\ MayEdit /\ edits' = edits + 1
        /\ corrupt' \in [Cards -> SUBSET Names]
    BY <1>2, <1>4 DEF EmulatorDeletes, EmulatorCorrupts
  <2>2. \A d \in Cards : card'[d] \subseteq card[d]
    BY <1>2, <2>1
  <2>3. card' \in [Cards -> SUBSET Part]
    BY <1>2, <2>1
  <2> QED
    BY <1>1, <1>2, <2>1, <2>2, <2>3 DEF MayEdit, Whole, NamesIn, NamesOn
<1>5. ASSUME NEW c \in Cards, EmulatorFlaws(c)
      PROVE  /\ UNCHANGED <<card, slot, corrupt, st, library, call, calls>> /\ MayEdit /\ edits' = edits + 1
             /\ edits' \in 0..MaxEdits /\ flawed' \subseteq Cards
  BY <1>1, <1>2, <1>5 DEF EmulatorFlaws, MayEdit
<1>6. PICK c \in Cards : \/ \E s \in Writable : EmulatorSaves(c, s)
                         \/ \E n \in Names : EmulatorDeletes(c, n) \/ EmulatorCorrupts(c, n)
                         \/ EmulatorFlaws(c)
  BY DEF Emulator
<1>7. CASE \E s \in Writable : EmulatorSaves(c, s)
  BY <1>3, <1>7
<1>8. CASE \E n \in Names : EmulatorDeletes(c, n) \/ EmulatorCorrupts(c, n)
  <2>1. PICK n \in Names : EmulatorDeletes(c, n) \/ EmulatorCorrupts(c, n)
    BY <1>8
  <2>2. /\ UNCHANGED <<st, library, call, calls>> /\ MayEdit /\ edits' = edits + 1 /\ edits' \in 0..MaxEdits
        /\ card' \in [Cards -> SUBSET Part] /\ \A d \in Cards : Whole(card'[d])
        /\ slot' = slot /\ \A d \in Cards : slot'[d] # "card" => card'[d] = {}
    BY <1>4, <2>1
  <2>3. /\ flawed' \subseteq Cards /\ corrupt' \in [Cards -> SUBSET Names]
        /\ \A d \in Cards : \A m \in NamesIn(card'[d]) : m \in NamesOn(d)
    BY <1>4, <2>1
  <2> QED
    BY <1>2, <2>2, <2>3
<1>9. CASE EmulatorFlaws(c)
  BY <1>2, <1>5, <1>9 DEF NamesOn
<1> QED
  BY <1>6, <1>7, <1>8, <1>9

LEMMA EmulatorSound ==
  ASSUME IInv, ~Copied, Emulator
  PROVE  IInv'
<1>1. TypeOK
  BY DEF IInv
<1>2. UNCHANGED <<st, library, call, calls>> /\ MayEdit /\ edits' \in 0..MaxEdits
  BY <1>1, EmulatorDoes
<1>3. TypeOK'
  BY <1>1, <1>2, EmulatorDoes DEF TypeOK
<1>4. PICK c \in Cards : \A d \in Cards : \A n \in NamesIn(card'[d]) :
        n \in NamesOn(d) \/ (d = c /\ \A e \in Cards \ {c} : n \notin HeldOn(e))
  BY <1>1, EmulatorDoes
<1>5. ASSUME NEW d \in Cards, NEW n \in HeldOn(d)'
      PROVE  n \in HeldOn(d) \/ (d = c /\ \A e \in Cards \ {c} : n \notin HeldOn(e) /\ n \notin HeldOn(e)')
  BY <1>2, <1>4 DEF HeldOn, NamesOn
<1>6. OneEach'
  <2>1. SUFFICES ASSUME NEW g \in Games, NEW n \in Names, NEW d \in CardsOf(g), NEW e \in CardsOf(g),
                        n \in HeldOn(d)', n \in HeldOn(e)'
                 PROVE  d = e
    BY DEF OneEach
  <2>2. d \in Cards /\ e \in Cards
    BY PrimaryThere
  <2>3. n \in HeldOn(d) /\ n \in HeldOn(e) => d = e
    BY DEF IInv, OneEach
  <2> QED
    BY <1>5, <2>1, <2>2, <2>3
<1>7. FolderCards'
  BY <1>1, EmulatorDoes, ConstantsTyped DEF IInv, FolderCards
<1>8. LibrarySound' /\ BlobPassed'
  BY <1>2 DEF IInv, LibrarySound, BlobPassed
<1>9. Planned'
  <2>1. CASE call.op = "restore"
    <3>1. PICK q : q = call.req
      OBVIOUS
    <3>2. PlanSound(q) /\ q.mode # "managed"
      BY <1>2, <2>1, <3>1 DEF IInv, Planned, MayEdit
    <3>3. PlanSound(q)'
      BY <1>2, <3>2 DEF PlanSound, AsksRestore, StepSound, FinalOf, Passed
    <3> QED
      BY <1>2, <2>1, <3>1, <3>3 DEF Planned
  <2>2. CASE call.op # "restore"
    BY <1>2, <2>2 DEF IInv, Planned, Idle
  <2> QED
    BY <2>1, <2>2
<1> QED
  BY <1>3, <1>6, <1>7, <1>8, <1>9 DEF IInv

LEMMA RestoresAsk ==
  ASSUME TypeOK, Restores
  PROVE  \E q : AsksRestore(q) /\ RestoreBegin(q)
<1>1. PICK g \in Games, m \in Modes, o \in BOOLEAN, r \in Repairs :
        \E k \in Companions[g] \cup {None}, u \in library[g] :
          \E w \in CompanionUnits(k) : RestoreBegin(RestoreRequest(g, m, k, u, w, o, r))
  BY DEF Restores
<1>2. PICK k \in Companions[g] \cup {None}, u \in library[g] :
        \E w \in CompanionUnits(k) : RestoreBegin(RestoreRequest(g, m, k, u, w, o, r))
  BY <1>1
<1>3. PICK w \in CompanionUnits(k) : RestoreBegin(RestoreRequest(g, m, k, u, w, o, r))
  BY <1>2
<1>4. PICK q : q = RestoreRequest(g, m, k, u, w, o, r)
  OBVIOUS
<1>5. k \in Games \cup {None} /\ (w = {} \/ (k # None /\ w \in library[k]))
  BY ConstantsTyped DEF CompanionUnits
<1>6. u \in SUBSET Part /\ w \in SUBSET Part
  BY <1>5 DEF TypeOK
<1>7. q \in RestoreRequests
  BY <1>4, <1>5, <1>6 DEF RestoreRequest, RestoreRequests
<1>8. q.game = g /\ q.comp = k /\ q.unit = u /\ q.cunit = w
  BY <1>4 DEF RestoreRequest
<1>9. AsksRestore(q)
  BY <1>5, <1>7, <1>8 DEF AsksRestore, Asks
<1> QED
  BY <1>3, <1>4, <1>9

LEMMA CollectsAsk ==
  ASSUME Collects
  PROVE  \E q : Asks(q) /\ Collect(q)
<1>1. PICK g \in Games, m \in Modes, r \in Repairs :
        \E k \in Companions[g] \cup {None} : Collect(CollectRequest(g, m, k, r))
  BY DEF Collects
<1>2. PICK k \in Companions[g] \cup {None} : Collect(CollectRequest(g, m, k, r))
  BY <1>1
<1>3. Asks(CollectRequest(g, m, k, r))
  BY DEF Asks, CollectRequest
<1> QED
  BY <1>2, <1>3

LEMMA StepSounds ==
  ASSUME IInv, ~Copied, [Next]_vars
  PROVE  IInv'
<1>1. CASE Collects
  BY <1>1, CollectsAsk, CollectSound
<1>2. CASE Restores
  BY <1>2, RestoresAsk, BeginSound DEF IInv
<1>3. CASE Writes
  BY <1>3, WriteSound DEF Writes, Write
<1>4. CASE RestoreEnd \/ RestoreFails
  BY <1>4, EndSound
<1>5. CASE Emulator
  BY <1>5, EmulatorSound
<1>6. CASE UNCHANGED vars
  <2>1. TypeOK' /\ LibrarySound' /\ FolderCards' /\ OneEach' /\ BlobPassed'
    BY <1>6 DEF vars, IInv, TypeOK, LibrarySound, FolderCards, OneEach, HeldOn, NamesOn, BlobPassed
  <2>2. PICK q : q = call.req
    OBVIOUS
  <2>3. PlanSound(q) => PlanSound(q)'
    BY <1>6 DEF vars, PlanSound, AsksRestore, StepSound, FinalOf, Passed, Undisturbed
  <2>4. Planned'
    BY <1>6, <2>2, <2>3 DEF vars, IInv, Planned, Idle
  <2> QED
    BY <2>1, <2>4 DEF IInv
<1> QED
  BY <1>1, <1>2, <1>3, <1>4, <1>5, <1>6 DEF Next

LEMMA Soundness == ~Copied => (Spec => []IInv)
<1> SUFFICES ASSUME ~Copied PROVE Spec => []IInv
  OBVIOUS
<1>1. IInv /\ [Next]_vars => IInv'
  BY StepSounds
<1> QED
  BY <1>1, InitSound, PTL DEF Spec

\* docs/sync.md:55-56: as long as no save is copied, a save is on one of a
\* game's cards, whatever restores died between two files and whatever
\* emulators wrote meanwhile.
THEOREM OneCardEach == ~Copied => (Spec => []CardsSound)
<1>1. ASSUME IInv PROVE CardsSound
  <2>1. \A n \in Names : Owner[n] \in Games
    BY ConstantsTyped
  <2>2. OneCard
    BY <1>1, <2>1 DEF IInv, OneEach, HeldOn, OneCard
  <2> QED
    BY <1>1, <2>2 DEF IInv, CardsSound
<1> QED
  BY <1>1, Soundness, PTL

(***************************************************************************)
(* How far a restore nothing disturbed has come.                           *)
(***************************************************************************)
Imaged(c) == [kind |-> "image", on |-> c] \in call.todo

\* A file the plan has no use for is one the restore read, and is still to go.
Doomed(q, c, p) ==
  /\ p \in call.read[c][1] /\ IsReplaced(q, p) /\ c \in CardsOf(q.game)
  /\ \E s \in call.todo :
       s.kind \in {"drop", "put"} /\ s.on = c /\ s.part.name = p.name /\ s.part.file = p.file

\* A card is as read, or as planned, but for the files whose turn comes.
CardProgress(q, c) ==
  /\ Imaged(c) => card[c] = call.read[c][1]
  /\ \A p \in card[c] \ call.final[c] : Imaged(c) \/ Doomed(q, c, p)
  /\ \A p \in call.final[c] \ card[c] : Imaged(c) \/ [kind |-> "put", on |-> c, part |-> p] \in call.todo
  /\ call.final[c] # call.read[c][1] =>
       c \notin flawed \/ \E s \in call.todo : s.on = c /\ s.kind \in {"image", "superblock"}

Progress ==
  call.op = "restore" =>
    call.since <= edits /\ (Undisturbed => \A c \in Cards : CardProgress(call.req, c))

PInv == IInv /\ Progress

LEMMA BeginProgress ==
  ASSUME IInv, NEW q, AsksRestore(q), RestoreBegin(q), NEW c \in Cards
  PROVE  CardProgress(q, c)'
<1>1. /\ UNCHANGED <<card, flawed>>
      /\ call'.final = Planning(q) /\ call'.read = Disk
      /\ call'.todo = (IF MustPlace(q) THEN UNION {Steps(q, d) : d \in Changed(q)} ELSE {})
  BY DEF RestoreBegin, Planning
<1>2. q.game \in Games /\ call'.read[c][1] = card[c]
  BY <1>1, IncomingSound DEF Disk, IInv
<1>3. CASE ~MustPlace(q) \/ c \notin Changed(q)
  <2>1. call'.final[c] = card[c]
    BY <1>1, <1>3 DEF Planning
  <2> QED
    BY <1>1, <1>2, <2>1 DEF CardProgress
<1>4. CASE MustPlace(q) /\ c \in Changed(q)
  <2>1. call'.final[c] = Final(q, c) /\ c \in CardsOf(q.game)
    BY <1>1, <1>2, <1>4, ChangedThere DEF Planning, IInv
  <2>2. Steps(q, c) \subseteq call'.todo
    BY <1>1, <1>4
  <2>3. CASE c \notin Folders
    <3>1. [kind |-> "image", on |-> c] \in call'.todo
      BY <2>2, <2>3 DEF Steps
    <3>2. [kind |-> "image", on |-> c].on = c /\ [kind |-> "image", on |-> c].kind = "image"
      OBVIOUS
    <3> QED
      BY <1>1, <1>2, <3>1, <3>2 DEF CardProgress, Imaged
  <2>4. CASE c \in Folders
    <3>1. Superblock(q, c) \cup Puts(q, c) \cup Drops(q, c) \subseteq call'.todo
      BY <2>2, <2>4 DEF Steps
    <3>2. ASSUME NEW p \in card[c] \ Final(q, c)
          PROVE  IsReplaced(q, p) /\ \E s \in call'.todo :
                   s.kind \in {"drop", "put"} /\ s.on = c /\ s.part.name = p.name /\ s.part.file = p.file
      <4>1. IsReplaced(q, p)
        BY <3>2 DEF Final, Kept
      <4>2. CASE \A o \in Final(q, c) : o.name # p.name \/ o.file # p.file
        <5>1. [kind |-> "drop", on |-> c, part |-> p] \in Drops(q, c)
          BY <3>2, <4>1, <4>2 DEF Drops
        <5> QED
          BY <3>1, <4>1, <5>1
      <4>3. ASSUME NEW o \in Final(q, c), o.name = p.name, o.file = p.file
            PROVE  \E s \in call'.todo :
                     s.kind \in {"drop", "put"} /\ s.on = c /\ s.part.name = p.name /\ s.part.file = p.file
        <5>1. IsReplaced(q, o)
          BY <4>1, <4>3 DEF IsReplaced
        <5>2. [kind |-> "put", on |-> c, part |-> o] \in Puts(q, c)
          BY <4>3, <5>1 DEF Puts
        <5> QED
          BY <3>1, <4>3, <5>2
      <4> QED
        BY <4>1, <4>2, <4>3
    <3>3. ASSUME NEW p \in Final(q, c) \ card[c]
          PROVE  [kind |-> "put", on |-> c, part |-> p] \in call'.todo
      <4>1. IsReplaced(q, p)
        BY <3>3, IncomingSound DEF Final, Kept, IInv
      <4> QED
        BY <3>1, <3>3, <4>1 DEF Puts
    <3>4. \E s \in call'.todo : s.on = c /\ s.kind \in {"image", "superblock"}
      <4>1. [kind |-> "superblock", on |-> c] \in call'.todo
        BY <3>1 DEF Superblock
      <4> QED
        BY <4>1
    <3>5. \A p \in card[c] \ Final(q, c) : Doomed(q, c, p)'
      BY <1>2, <2>1, <3>2 DEF Doomed, CardsOf, SharedCards
    <3> QED
      BY <1>1, <1>2, <2>1, <3>3, <3>4, <3>5 DEF CardProgress
  <2> QED
    BY <2>3, <2>4
<1> QED
  BY <1>3, <1>4

LEMMA WriteProgress ==
  ASSUME IInv, NEW s \in call.todo, Write(s), NEW q, q = call.req, NEW c \in Cards, CardProgress(q, c)
  PROVE  CardProgress(q, c)'
<1>1. /\ s \in Step /\ call.op = "restore" /\ call' = [call EXCEPT !.todo = @ \ {s}]
      /\ flawed' = IF s.kind \in {"image", "superblock"} THEN flawed \ {s.on} ELSE flawed
  BY WriteDoes
<1>2. call'.todo = call.todo \ {s} /\ call'.read = call.read /\ call'.final = call.final
  BY <1>1 DEF IInv, TypeOK
<1>3. StepSound(q, s) /\ Whole(call.final[c]) /\ \A t \in call.todo : StepSound(q, t)
  BY <1>1 DEF IInv, Planned, PlanSound
<1>4. CASE c # s.on
  <2>1. card'[c] = card[c] /\ (c \in flawed' <=> c \in flawed)
    BY <1>1, <1>4, WriteCard
  <2>2. \A t \in call.todo : t.on = c => t \in call'.todo
    BY <1>2, <1>4
  <2>3. Imaged(c)' <=> Imaged(c)
    BY <1>2, <2>2 DEF Imaged
  <2>4. \A p : [kind |-> "put", on |-> c, part |-> p] \in call.todo => [kind |-> "put", on |-> c, part |-> p] \in call'.todo
    BY <2>2
  <2>5. \A p : Doomed(q, c, p) => Doomed(q, c, p)'
    BY <1>2, <2>2 DEF Doomed, CardsOf, SharedCards
  <2> QED
    BY <1>2, <2>1, <2>2, <2>3, <2>4, <2>5 DEF CardProgress
<1>5. CASE c = s.on /\ s.kind = "image"
  <2>1. s = [kind |-> "image", on |-> c]
    BY <1>1, <1>5 DEF Step
  <2>2. ~Imaged(c)' /\ card'[c] = call.final[c] /\ c \notin flawed'
    BY <1>1, <1>2, <1>5, <2>1, WriteCard DEF Imaged
  <2> QED
    BY <1>2, <2>2 DEF CardProgress
<1>6. CASE c = s.on /\ s.kind # "image"
  <2>1. s.kind \in {"superblock", "put", "drop"} /\ c \in Folders
    BY <1>1, <1>3, <1>6 DEF Step, StepSound
  <2>2. ~Imaged(c) /\ ~Imaged(c)'
    <3>1. [kind |-> "image", on |-> c].on = c /\ [kind |-> "image", on |-> c].kind = "image"
      OBVIOUS
    <3> QED
      BY <1>2, <1>3, <2>1, <3>1 DEF Imaged, StepSound
  <2>3. call.final[c] # call.read[c][1] =>
          c \notin flawed' \/ \E t \in call'.todo : t.on = c /\ t.kind \in {"image", "superblock"}
    BY <1>1, <1>2, <1>6 DEF CardProgress
  <2>4. ASSUME NEW p \in card'[c] \ call.final[c]
        PROVE  Doomed(q, c, p)'
    <3>1. p \in card[c] /\ (s.kind \in {"put", "drop"} => p.name # s.part.name \/ p.file # s.part.file)
      BY <1>6, <2>1, <2>4, WriteCard DEF PutPart
    <3>2. Doomed(q, c, p)
      BY <2>2, <2>4, <3>1 DEF CardProgress
    <3>3. PICK t \in call.todo :
            t.kind \in {"drop", "put"} /\ t.on = c /\ t.part.name = p.name /\ t.part.file = p.file
      BY <3>2 DEF Doomed
    <3>4. t # s
      BY <3>1, <3>3
    <3> QED
      BY <1>2, <3>2, <3>3, <3>4 DEF Doomed, CardsOf, SharedCards
  <2>5. ASSUME NEW p \in call.final[c] \ card'[c]
        PROVE  [kind |-> "put", on |-> c, part |-> p] \in call'.todo
    <3>1. p \notin card[c]
      <4>1. CASE s.kind = "superblock"
        BY <1>6, <2>5, <4>1, WriteCard
      <4>2. CASE s.kind = "put"
        BY <1>3, <1>6, <2>5, <4>2, WriteCard DEF PutPart, Whole
      <4>3. CASE s.kind = "drop"
        BY <1>3, <1>6, <2>5, <4>3, WriteCard DEF StepSound
      <4> QED
        BY <2>1, <4>1, <4>2, <4>3
    <3>2. [kind |-> "put", on |-> c, part |-> p] \in call.todo
      BY <2>2, <2>5, <3>1 DEF CardProgress
    <3>3. [kind |-> "put", on |-> c, part |-> p] # s
      BY <1>6, <2>5, WriteCard DEF PutPart
    <3> QED
      BY <1>2, <3>2, <3>3
  <2> QED
    BY <1>2, <2>2, <2>3, <2>4, <2>5 DEF CardProgress
<1> QED
  BY <1>4, <1>5, <1>6

\* Until it ends, a restore only writes what it has left to write.
LEMMA CallKeeps ==
  ASSUME IInv, ~Copied, [Next]_vars, call.op = "restore", call'.op = "restore"
  PROVE  \/ \E s \in call.todo : Write(s)
         \/ Emulator
         \/ UNCHANGED vars
<1>1. CASE Collects
  BY <1>1 DEF Collects, Collect, MayCall
<1>2. CASE Restores
  BY <1>2 DEF Restores, RestoreBegin, MayCall
<1>3. CASE Writes
  BY <1>3 DEF Writes, Write
<1>4. CASE RestoreEnd \/ RestoreFails
  BY <1>4 DEF RestoreEnd, RestoreFails, Idle
<1> QED
  BY <1>1, <1>2, <1>3, <1>4 DEF Next

\* A call that was not there a step ago has just begun.
LEMMA CallBegins ==
  ASSUME IInv, ~Copied, [Next]_vars, call.op # "restore", call'.op = "restore"
  PROVE  \E q : AsksRestore(q) /\ RestoreBegin(q)
<1>1. call = Idle
  BY DEF IInv, TypeOK, Planned
<1>2. CASE Collects
  BY <1>2 DEF Collects, Collect
<1>3. CASE Restores
  BY <1>3, RestoresAsk DEF IInv
<1>4. CASE Writes
  BY <1>1, <1>4 DEF Writes, Idle
<1>5. CASE RestoreEnd \/ RestoreFails
  BY <1>5 DEF RestoreEnd, RestoreFails, Idle
<1>6. CASE Emulator
  BY <1>6, EmulatorDoes DEF IInv
<1> QED
  BY <1>2, <1>3, <1>4, <1>5, <1>6 DEF Next, vars

LEMMA ProgressStays ==
  ASSUME PInv, ~Copied, [Next]_vars
  PROVE  PInv'
<1>1. IInv'
  BY StepSounds DEF PInv
<1>2. ASSUME call.op = "restore", call'.op = "restore" PROVE Progress'
  <2>1. PICK q : q = call.req
    OBVIOUS
  <2>2. call.since <= edits /\ (Undisturbed => \A c \in Cards : CardProgress(q, c))
    BY <1>2, <2>1 DEF PInv, Progress
  <2>3. ASSUME NEW s \in call.todo, Write(s) PROVE Progress'
    <3>1. UNCHANGED edits /\ call' = [call EXCEPT !.todo = @ \ {s}]
      BY <2>3, WriteDoes DEF PInv
    <3>2. call'.since = call.since /\ call'.req = q
      BY <2>1, <3>1 DEF PInv, IInv, TypeOK
    <3>3. Undisturbed => \A c \in Cards : CardProgress(q, c)'
      BY <2>1, <2>2, <2>3, WriteProgress DEF PInv
    <3> QED
      BY <2>2, <3>1, <3>2, <3>3 DEF Progress, Undisturbed
  <2>4. CASE Emulator
    <3>1. edits' = edits + 1 /\ UNCHANGED call
      BY <2>4, EmulatorDoes DEF PInv, IInv
    <3>2. call.since \in Nat /\ edits \in Nat
      BY DEF PInv, IInv, TypeOK
    <3>3. call'.since <= edits' /\ call'.since # edits'
      BY <2>2, <3>1, <3>2
    <3> QED
      BY <3>3 DEF Progress, Undisturbed
  <2>5. CASE UNCHANGED vars
    <3>1. \A c \in Cards : CardProgress(q, c) => CardProgress(q, c)'
      BY <2>5 DEF vars, CardProgress, Imaged, Doomed, CardsOf, SharedCards
    <3> QED
      BY <2>1, <2>2, <2>5, <3>1 DEF vars, Progress, Undisturbed
  <2> QED
    BY <1>2, <2>3, <2>4, <2>5, CallKeeps DEF PInv
<1>3. ASSUME call.op # "restore", call'.op = "restore" PROVE Progress'
  <2>1. PICK q : AsksRestore(q) /\ RestoreBegin(q)
    BY <1>3, CallBegins DEF PInv
  <2>2. call'.since = edits /\ edits' = edits /\ edits \in Nat /\ call'.req = q
    BY <2>1 DEF RestoreBegin, PInv, IInv, TypeOK
  <2>3. \A c \in Cards : CardProgress(q, c)'
    BY <2>1, BeginProgress DEF PInv
  <2> QED
    BY <2>2, <2>3 DEF Progress
<1> QED
  BY <1>1, <1>2, <1>3 DEF PInv, Progress

LEMMA Progressing == ~Copied => (Spec => []PInv)
<1> SUFFICES ASSUME ~Copied PROVE Spec => []PInv
  OBVIOUS
<1>1. Init => PInv
  BY InitSound DEF Init, PInv, Progress, Idle
<1>2. PInv /\ [Next]_vars => PInv'
  BY ProgressStays
<1> QED
  BY <1>1, <1>2, PTL DEF Spec

\* docs/sync.md:56-57: a write of a restore takes off a card only saves of its
\* game and of a companion it has a unit for, and corrupt saves stay (sync.c:
\* a card is the image read with the game's saves replaced).
THEOREM OthersAreLeft == ~Copied => (Spec => OthersStay)
<1> SUFFICES ASSUME ~Copied PROVE Spec => OthersStay
  OBVIOUS
<1> DEFINE Left ==
      call.op = "restore" /\ call'.op = "restore" /\ call.todo # call'.todo =>
        \A c \in Cards :
          /\ call.read[c] = <<card[c], corrupt[c]>> => corrupt'[c] = corrupt[c]
          /\ \A p \in card[c] \ card'[c] :
               \/ Owner[p.name] = call.req.game
               \/ Owner[p.name] = call.req.comp /\ CompanionRestored(call.req)
               \/ p \notin call.read[c][1]
          /\ \A p \in card'[c] \ card[c] : p \in Incoming(call.req) \cup call.read[c][1]
<1>1. ASSUME IInv, [Next]_vars PROVE Left
  <2>1. SUFFICES ASSUME call.op = "restore", call'.op = "restore", call.todo # call'.todo, NEW c \in Cards
                 PROVE  /\ call.read[c] = <<card[c], corrupt[c]>> => corrupt'[c] = corrupt[c]
                        /\ \A p \in card[c] \ card'[c] :
                             \/ Owner[p.name] = call.req.game
                             \/ Owner[p.name] = call.req.comp /\ CompanionRestored(call.req)
                             \/ p \notin call.read[c][1]
                        /\ \A p \in card'[c] \ card[c] : p \in Incoming(call.req) \cup call.read[c][1]
    OBVIOUS
  <2>2. PICK s \in call.todo : Write(s)
    BY <1>1, <2>1, CallKeeps, EmulatorDoes DEF IInv, vars
  <2>3. PICK q : q = call.req
    OBVIOUS
  <2>4. StepSound(q, s) /\ s \in Step /\ corrupt \in [Cards -> SUBSET Names] /\ Whole(call.final[s.on]) /\ Whole(card[s.on])
    BY <1>1, <2>1, <2>2, <2>3, WriteDoes DEF IInv, Planned, PlanSound, TypeOK
  <2>5. CASE c # s.on
    BY <1>1, <2>2, <2>4, <2>5, WriteCard, WriteDoes
  <2>6. CASE c = s.on /\ s.kind = "image"
    <3>1. card'[c] = call.final[c] /\ corrupt'[c] = call.read[c][2]
      BY <1>1, <2>2, <2>4, <2>6, WriteCard, WriteDoes
    <3>2. \A p \in card[c] \ card'[c] : IsReplaced(q, p) \/ p \notin call.read[c][1]
      BY <2>4, <2>6, <3>1 DEF StepSound
    <3>3. \A p \in card'[c] \ card[c] : p \in Incoming(q) \cup call.read[c][1]
      BY <2>4, <2>6, <3>1 DEF StepSound
    <3> QED
      BY <2>3, <3>1, <3>2, <3>3 DEF IsReplaced, Replaced
  <2>7. CASE c = s.on /\ s.kind = "superblock"
    BY <1>1, <2>2, <2>7, WriteCard, WriteDoes
  <2>8. CASE c = s.on /\ s.kind = "put"
    <3>1. card'[c] = PutPart(card[c], s.part) /\ s.part \in Incoming(q) /\ corrupt' = corrupt
      BY <1>1, <2>2, <2>4, <2>8, WriteCard, WriteDoes DEF StepSound
    <3>2. \A p \in card[c] \ card'[c] : p.name = s.part.name
      BY <3>1 DEF PutPart
    <3>3. \A p \in card'[c] \ card[c] : p = s.part
      BY <3>1 DEF PutPart
    <3>4. Owner[s.part.name] \in Replaced(q)
      BY <1>1, <2>1, <2>3, <3>1, IncomingSound DEF IInv, Planned, PlanSound, IsReplaced
    <3> QED
      BY <2>3, <3>1, <3>2, <3>3, <3>4 DEF Replaced
  <2>9. CASE c = s.on /\ s.kind = "drop"
    <3>1. /\ card'[c] = {p \in card[c] : p.name # s.part.name \/ p.file # s.part.file}
          /\ IsReplaced(q, s.part) /\ corrupt' = corrupt
      BY <1>1, <2>2, <2>4, <2>9, WriteCard, WriteDoes DEF StepSound
    <3>2. \A p \in card[c] \ card'[c] : p.name = s.part.name
      BY <3>1
    <3> QED
      BY <2>3, <3>1, <3>2 DEF IsReplaced, Replaced
  <2> QED
    BY <2>4, <2>5, <2>6, <2>7, <2>8, <2>9 DEF Step
<1>2. IInv /\ [Next]_vars => Left
  BY <1>1
<1>3. IInv /\ [Next]_vars => [Left]_vars
  BY <1>2
<1>4. Spec => [][Left]_vars
  BY <1>3, Soundness, PTL DEF Spec
<1> QED
  BY <1>4 DEF OthersStay

\* A restore that has written everything, and that nothing disturbed, left the
\* cards as planned.
LEMMA WrittenOut ==
  ASSUME PInv, call.op = "restore", call.todo = {}, Undisturbed, NEW c \in Cards
  PROVE  /\ card[c] = call.final[c]
         /\ call.final[c] # call.read[c][1] => c \notin flawed
<1>1. CardProgress(call.req, c)
  BY DEF PInv, Progress
<1> QED
  BY <1>1 DEF CardProgress, Imaged, Doomed

\* sync_state.c:8: the saves the next collect finds on the cards are those the
\* blob records as synced, the companion's too when it got a unit.
THEOREM RestoreLeavesTheUnit == ~Copied => (Spec => RestoreExact)
<1> SUFFICES ASSUME ~Copied PROVE Spec => RestoreExact
  OBVIOUS
<1> DEFINE Exact ==
      RestoreEnd /\ Undisturbed =>
        \A q \in {call.req} :
          /\ Mine(q)' = st'.synced[q.game]
          /\ CompanionRestored(q) => Theirs(q)' = st'.synced[q.comp]
<1>1. ASSUME PInv PROVE Exact
  <2>1. SUFFICES ASSUME RestoreEnd, Undisturbed, NEW q, q = call.req
                 PROVE  /\ Mine(q)' = st'.synced[q.game]
                        /\ CompanionRestored(q) => Theirs(q)' = st'.synced[q.comp]
    OBVIOUS
  <2>2. call.op = "restore" /\ call.todo = {} /\ UNCHANGED <<card, slot>> /\ st' = call.blob
    BY <2>1 DEF RestoreEnd
  <2>3. PlanSound(q) /\ TypeOK /\ LibrarySound /\ OneEach
    BY <1>1, <2>1, <2>2 DEF PInv, IInv, Planned
  <2>4. q.game \in Games /\ (CompanionRestored(q) => q.comp # None)
    BY <2>3, IncomingSound DEF PlanSound
  <2>5. \A c \in CardsOf(q.game) : card[c] = call.final[c]
    BY <1>1, <2>1, <2>2, <2>4, WrittenOut, PrimaryThere
  <2>6. ASSUME NEW h PROVE LocalOf(q, h) = FinalOf(q, h)
    <3>1. UNION {card[c] : c \in CardsOf(q.game)} = UNION {call.final[c] : c \in CardsOf(q.game)}
      BY <2>5
    <3> QED
      BY <2>3, <2>4, <3>1, LocalAll DEF FinalOf
  <2>7. Mine(q)' = Mine(q) /\ Theirs(q)' = Theirs(q)
    BY <2>2 DEF Mine, Theirs, LocalOf, Loaded, CardsOf, SharedCards, Holders, NamesOn
  <2> QED
    BY <2>2, <2>3, <2>4, <2>6, <2>7 DEF PlanSound, Mine, Theirs
<1>2. PInv /\ [Next]_vars => [Exact]_vars
  BY <1>1
<1>3. Spec => [][Exact]_vars
  BY <1>2, Progressing, PTL DEF Spec
<1> QED
  BY <1>3 DEF RestoreExact

\* docs/sync.md:55-56: a save the restore found on one of the game's cards is
\* on that card when it returns.
THEOREM SavesArePutBack == ~Copied => (Spec => PutBack)
<1> SUFFICES ASSUME ~Copied PROVE Spec => PutBack
  OBVIOUS
<1> DEFINE Back ==
      RestoreEnd /\ Undisturbed =>
        \A n \in NamesIn(Incoming(call.req)), c \in CardsOf(call.req.game) :
          n \in NamesIn(call.read[c][1]) => n \in NamesOn(c)
<1>1. ASSUME PInv PROVE Back
  <2>1. SUFFICES ASSUME RestoreEnd, Undisturbed, NEW n \in NamesIn(Incoming(call.req)),
                        NEW c \in CardsOf(call.req.game), n \in NamesIn(call.read[c][1])
                 PROVE  n \in NamesOn(c)
    OBVIOUS
  <2>2. call.op = "restore" /\ call.todo = {}
    BY <2>1 DEF RestoreEnd
  <2>3. PlanSound(call.req) /\ call.req.game \in Games
    BY <1>1, <2>2, IncomingSound DEF PInv, IInv, Planned, PlanSound
  <2>4. card[c] = call.final[c]
    BY <1>1, <2>1, <2>2, <2>3, WrittenOut, PrimaryThere
  <2> QED
    BY <2>1, <2>3, <2>4 DEF PlanSound, NamesOn
<1>2. PInv /\ [Next]_vars => [Back]_vars
  BY <1>1
<1>3. Spec => [][Back]_vars
  BY <1>2, Progressing, PTL DEF Spec
<1> QED
  BY <1>3 DEF PutBack

\* docs/platforms/ps2.md:63-66: each of the game's cards a restore changed
\* passes its check when it returns, and has a superblock if it is a folder.
THEOREM WrittenIsShown == ~Copied => (Spec => WrittenShows)
<1> SUFFICES ASSUME ~Copied PROVE Spec => WrittenShows
  OBVIOUS
<1> DEFINE Shown ==
      RestoreEnd /\ Undisturbed =>
        \A c \in CardsOf(call.req.game) : call.final[c] # call.read[c][1] => c \notin flawed
<1>1. ASSUME PInv PROVE Shown
  <2>1. SUFFICES ASSUME RestoreEnd, Undisturbed, NEW c \in CardsOf(call.req.game)
                 PROVE  call.final[c] # call.read[c][1] => c \notin flawed
    OBVIOUS
  <2>2. call.op = "restore" /\ call.todo = {}
    BY <2>1 DEF RestoreEnd
  <2>3. call.req.game \in Games
    BY <1>1, <2>2, IncomingSound DEF PInv, IInv, Planned, PlanSound
  <2> QED
    BY <1>1, <2>1, <2>2, <2>3, WrittenOut, PrimaryThere
<1>2. PInv /\ [Next]_vars => [Shown]_vars
  BY <1>1
<1>3. Spec => [][Shown]_vars
  BY <1>2, Progressing, PTL DEF Spec
<1> QED
  BY <1>3 DEF WrittenShows

(***************************************************************************)
(* The refinement of SaveCustody.                                          *)
(***************************************************************************)
OnDisk == {p \in Cards \X Part : p[2] \in card[p[1]]}
GivenUp == IF Managed THEN call.agreed ELSE {}

LEMMA DiskHolds ==
  ASSUME NEW c \in Cards, NEW p \in card[c], p \in Part
  PROVE  p \in Custody!SavesOn(OnDisk)
<1>1. <<c, p>> \in OnDisk
  BY DEF OnDisk
<1>2. <<c, p>>[2] = p
  OBVIOUS
<1> QED
  BY <1>1, <1>2 DEF Custody!SavesOn

\* sync.c: what a collect hands the client for RomM was found on the cards.
LEMMA CollectPassesOn ==
  ASSUME IInv, NEW q, Asks(q), Collect(q)
  PROVE  Custody!PassOn \/ UNCHANGED Custody!custodyVars
<1>1. call.op = "idle" /\ UNCHANGED <<card, call>> /\ ~Managed /\ ~Managed'
  BY DEF Collect, MayCall, Managed
<1>2. ASSUME NEW g \in Games, NEW u \in Uploads(q, g), NEW p \in u
      PROVE  p \in Custody!SavesOn(OnDisk)
  <2>1. PICK c \in Loaded(q.game) : p \in card[c]
    BY <1>2 DEF Uploads, LocalOf
  <2>2. c \in Cards
    BY <2>1, PrimaryThere DEF Loaded, Asks, IInv
  <2>3. p \in Part
    BY <2>1, <2>2 DEF IInv, TypeOK
  <2> QED
    BY <2>1, <2>2, <2>3, DiskHolds
<1>3. library' = library \/ library' = [g \in Games |-> library[g] \cup Uploads(q, g)]
  BY DEF Collect
<1>4. \A p \in Passed' \ Passed : p \in Custody!SavesOn(OnDisk)
  BY <1>2, <1>3 DEF Passed
<1>5. Passed \subseteq Passed'
  BY <1>3 DEF Passed
<1>6. \E s \in SUBSET Custody!SavesOn(OnDisk) : Passed' = Passed \cup s
  <2>1. Passed' \ Passed \in SUBSET Custody!SavesOn(OnDisk)
    BY <1>4
  <2>2. Passed' = Passed \cup (Passed' \ Passed)
    BY <1>5
  <2> QED
    BY <2>1, <2>2
<1>7. Managed' = Managed /\ GivenUp' = GivenUp /\ OnDisk' = OnDisk
  BY <1>1 DEF Managed, GivenUp, OnDisk
<1> QED
  BY <1>1, <1>6, <1>7 DEF Custody!PassOn, OnDisk, GivenUp

LEMMA BeginBegins ==
  ASSUME IInv, NEW q, AsksRestore(q), RestoreBegin(q)
  PROVE  Custody!Begin \/ UNCHANGED Custody!custodyVars
<1>1. /\ call.op = "idle" /\ call'.op = "restore" /\ call'.req = q /\ call'.agreed = Agreed(q)
      /\ UNCHANGED <<card, library>>
  BY DEF RestoreBegin, MayCall
<1>2. ASSUME NEW p \in Agreed(q) PROVE p \in Custody!SavesOn(OnDisk)
  <2>1. PICK c \in Loaded(q.game) : p \in card[c]
    BY <1>2 DEF Agreed
  <2>2. c \in Cards
    BY <2>1, PrimaryThere DEF Loaded, AsksRestore, Asks, IInv
  <2>3. p \in Part
    BY <2>1, <2>2 DEF IInv, TypeOK
  <2> QED
    BY <2>1, <2>2, <2>3, DiskHolds
<1>3. ~Managed /\ Passed' = Passed /\ OnDisk' = OnDisk
  BY <1>1 DEF Managed, Passed, OnDisk
<1>4. CASE q.mode = "managed"
  <2>1. Managed' /\ GivenUp' = Agreed(q) /\ GivenUp = {}
    BY <1>1, <1>3, <1>4 DEF Managed, GivenUp
  <2> QED
    BY <1>2, <1>3, <2>1 DEF Custody!Begin, OnDisk, GivenUp
<1>5. CASE q.mode # "managed"
  <2>1. ~Managed' /\ GivenUp' = {} /\ GivenUp = {}
    BY <1>1, <1>3, <1>5 DEF Managed, GivenUp
  <2> QED
    BY <1>3, <2>1 DEF Custody!custodyVars, OnDisk, GivenUp, Managed
<1> QED
  BY <1>4, <1>5

\* While nothing disturbs it, a write takes off a card only what was passed on
\* or given up: the image is over the card it was built from, and the file a
\* put or a drop is about is one the restore read.
LEMMA WriteCovered ==
  ASSUME PInv, NEW s \in call.todo, Write(s), Undisturbed, NEW c \in Cards
  PROVE  /\ \A p \in card[c] \ card'[c] : p \in Passed \cup call.agreed
         /\ \A p \in card'[c] \ card[c] : p \in Passed
<1>1. s \in Step /\ call.op = "restore" /\ IInv
  BY WriteDoes DEF PInv
<1>2. PICK q : q = call.req
  OBVIOUS
<1>3. PlanSound(q) /\ StepSound(q, s) /\ CardProgress(q, c) /\ Whole(call.final[c])
  BY <1>1, <1>2 DEF PInv, Progress, IInv, Planned, PlanSound
<1>4. \A p \in call.read[c][1] : c \in CardsOf(q.game) /\ IsReplaced(q, p) => p \in Passed \cup call.agreed
  BY <1>3 DEF PlanSound
<1>5. Incoming(q) \subseteq Passed
  BY <1>1, <1>3, IncomingSound DEF IInv, PlanSound
<1>6. CASE c # s.on
  BY <1>1, <1>6, WriteCard
<1>7. CASE c = s.on /\ s.kind = "image"
  <2>1. s = [kind |-> "image", on |-> c]
    BY <1>1, <1>7 DEF Step
  <2>2. card[c] = call.read[c][1] /\ card'[c] = call.final[c] /\ c \in CardsOf(q.game)
    BY <1>1, <1>3, <1>7, <2>1, WriteCard DEF CardProgress, Imaged, StepSound
  <2>3. \A p \in card[c] \ card'[c] : IsReplaced(q, p)
    BY <1>3, <1>7, <2>2 DEF StepSound
  <2>4. \A p \in card'[c] \ card[c] : p \in Incoming(q)
    BY <1>3, <1>7, <2>2 DEF StepSound
  <2> QED
    BY <1>4, <1>5, <2>2, <2>3, <2>4
<1>8. CASE c = s.on /\ s.kind = "superblock"
  BY <1>1, <1>8, WriteCard
<1>9. CASE c = s.on /\ s.kind \in {"put", "drop"}
  <2>1. ~Imaged(c)
    <3>1. [kind |-> "image", on |-> c].on = c /\ [kind |-> "image", on |-> c].kind = "image"
      OBVIOUS
    <3>2. c \in Folders
      BY <1>3, <1>9 DEF StepSound
    <3> QED
      BY <1>3, <3>1, <3>2 DEF Imaged, PlanSound, StepSound
  <2>2. ASSUME NEW p \in card[c] \ card'[c] PROVE p \notin call.final[c]
    <3>1. CASE s.kind = "put"
      <4>1. s.part \in call.final[c] /\ card'[c] = PutPart(card[c], s.part)
        BY <1>1, <1>9, <3>1, WriteCard
      <4>2. p.name = s.part.name /\ p.file = s.part.file /\ p # s.part
        BY <2>2, <4>1 DEF PutPart
      <4> QED
        BY <1>3, <4>1, <4>2 DEF Whole
    <3>2. CASE s.kind = "drop"
      <4>1. p.name = s.part.name /\ p.file = s.part.file
        BY <1>1, <1>9, <2>2, <3>2, WriteCard
      <4> QED
        BY <1>3, <1>9, <3>2, <4>1 DEF StepSound
    <3> QED
      BY <1>9, <3>1, <3>2
  <2>3. \A p \in card[c] \ card'[c] : Doomed(q, c, p)
    BY <1>3, <2>1, <2>2 DEF CardProgress
  <2>4. \A p \in card'[c] \ card[c] : p \in Incoming(q)
    BY <1>1, <1>3, <1>9, WriteCard DEF PutPart, StepSound
  <2> QED
    BY <1>4, <1>5, <2>3, <2>4 DEF Doomed
<1> QED
  BY <1>1, <1>6, <1>7, <1>8, <1>9 DEF Step

LEMMA WriteReplaces ==
  ASSUME PInv, NEW s \in call.todo, Write(s)
  PROVE  Custody!Replace \/ Custody!Play
<1>1. call.op = "restore" /\ UNCHANGED library /\ call' = [call EXCEPT !.todo = @ \ {s}]
  BY WriteDoes DEF PInv
<1>2. call'.op = call.op /\ call'.req = call.req /\ call'.agreed = call.agreed
  BY <1>1 DEF PInv, IInv, TypeOK
<1>3. Managed' = Managed /\ GivenUp' = GivenUp /\ Passed' = Passed
  BY <1>1, <1>2 DEF Managed, GivenUp, Passed
<1>4. OnDisk' \subseteq Cards \X Part
  BY DEF OnDisk
<1>5. CASE ~Managed
  BY <1>3, <1>4, <1>5 DEF Custody!Play, OnDisk, GivenUp
<1>6. CASE Managed
  <2>1. Undisturbed /\ GivenUp = call.agreed
    BY <1>6 DEF Managed, GivenUp, PInv, IInv, Planned, PlanSound
  <2>2. ASSUME NEW x \in OnDisk \ OnDisk' PROVE x[2] \in Passed \cup GivenUp
    <3>1. x[1] \in Cards /\ x[2] \in card[x[1]] \ card'[x[1]]
      BY <2>2 DEF OnDisk
    <3> QED
      BY <2>1, <3>1, WriteCovered
  <2>3. ASSUME NEW x \in OnDisk' \ OnDisk PROVE x[2] \in Passed
    <3>1. x[1] \in Cards /\ x[2] \in card'[x[1]] \ card[x[1]]
      BY <2>3 DEF OnDisk
    <3> QED
      BY <2>1, <3>1, WriteCovered
  <2>4. Custody!SavesOn(OnDisk \ OnDisk') \subseteq Passed \cup GivenUp
    BY <2>2 DEF Custody!SavesOn
  <2>5. Custody!SavesOn(OnDisk' \ OnDisk) \subseteq Passed
    BY <2>3 DEF Custody!SavesOn
  <2> QED
    BY <1>3, <1>4, <1>6, <2>4, <2>5 DEF Custody!Replace, OnDisk, GivenUp
<1> QED
  BY <1>5, <1>6

LEMMA StepKeepsCustody ==
  ASSUME PInv, ~Copied, [Next]_vars
  PROVE  [Custody!Next]_(Custody!custodyVars)
<1>1. IInv /\ TypeOK
  BY DEF PInv, IInv
<1>2. CASE Collects
  BY <1>1, <1>2, CollectsAsk, CollectPassesOn DEF Custody!Next
<1>3. CASE Restores
  BY <1>1, <1>3, RestoresAsk, BeginBegins DEF Custody!Next
<1>4. CASE Writes
  BY <1>4, WriteReplaces DEF Writes, Write, Custody!Next
<1>5. CASE RestoreEnd \/ RestoreFails
  <2>1. call' = Idle /\ UNCHANGED <<card, library>>
    BY <1>5 DEF RestoreEnd, RestoreFails
  <2>2. ~Managed' /\ GivenUp' = {} /\ Passed' = Passed /\ OnDisk' = OnDisk
    BY <2>1 DEF Managed, GivenUp, Passed, OnDisk, Idle
  <2>3. CASE Managed
    BY <2>2, <2>3 DEF Custody!Next, Custody!End, OnDisk, GivenUp
  <2>4. CASE ~Managed
    <3>1. GivenUp = {} /\ Managed' = Managed
      BY <2>2, <2>4 DEF GivenUp, Managed
    <3> QED
      BY <2>2, <3>1 DEF Custody!custodyVars, OnDisk, GivenUp
  <2> QED
    BY <2>3, <2>4
<1>6. CASE Emulator
  <2>1. UNCHANGED <<library, call>> /\ MayEdit
    BY <1>1, <1>6, EmulatorDoes
  <2>2. ~Managed /\ Managed' = Managed /\ Passed' = Passed /\ GivenUp' = GivenUp
    BY <2>1 DEF MayEdit, Managed, Passed, GivenUp
  <2>3. OnDisk' \subseteq Cards \X Part
    BY DEF OnDisk
  <2> QED
    BY <2>2, <2>3 DEF Custody!Next, Custody!Play, OnDisk, GivenUp
<1>7. CASE UNCHANGED vars
  BY <1>7 DEF vars, Custody!custodyVars, Passed, Managed
<1> QED
  BY <1>2, <1>3, <1>4, <1>5, <1>6, <1>7 DEF Next

\* sync.md "Refusals": on cards too no managed restore loses a save that was
\* not passed on, whichever file of a folder card it died before.
THEOREM CardsCustodyHolds == ~Copied => (Spec => CustodyKept)
<1> SUFFICES ASSUME ~Copied PROVE Spec => CustodyKept
  OBVIOUS
<1>1. Init => Custody!Init
  <2> SUFFICES ASSUME Init PROVE Custody!Init
    OBVIOUS
  <2>1. TypeOK
    BY InitSound DEF IInv
  <2> QED
    BY <2>1 DEF Init, Idle, Managed, Custody!Init, TypeOK, Passed
<1>2. PInv /\ [Next]_vars => [Custody!Next]_(Custody!custodyVars)
  BY StepKeepsCustody
<1> QED
  BY <1>1, <1>2, Progressing, PTL DEF Spec, CustodyKept, Custody!Spec
=============================================================================
