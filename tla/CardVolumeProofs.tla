--------------------------- MODULE CardVolumeProofs ---------------------------
(***************************************************************************)
(* Theorems about CardVolume, format by format, for cards of any size and  *)
(* any saves.                                                              *)
(***************************************************************************)
EXTENDS CardVolume, CardChains, Integers, TLAPS, FunctionTheorems, FiniteSetTheorems, SequenceTheorems

\* A set of natural numbers that is not empty has a least one.
LEMMA HasLeast ==
  ASSUME NEW S \in SUBSET Nat, S # {}
  PROVE  \E n \in S : \A m \in S : ~(m < n)
<1>1. PICK b \in S : TRUE
  OBVIOUS
<1> DEFINE U == {n \in S : n <= b}
           below(n) == 0..n
           T == {below(n) : n \in U}
           R == StrictSubsetOrdering(0..b)
<1>2. b \in Nat /\ b \in U
  BY <1>1
<1>3. T \subseteq SUBSET (0..b) /\ T # {}
  <2>1. \A n \in U : below(n) \in SUBSET (0..b)
    BY <1>2
  <2> HIDE DEF below, U
  <2> QED BY <1>2, <2>1
<1>4. IsWellFoundedOn(R, SUBSET (0..b))
  <2>1. IsFiniteSet(0..b)
    BY <1>2, FS_Interval
  <2>2. FiniteSubsetsOf(0..b) = SUBSET (0..b)
    BY <2>1, FS_FiniteSubsetsOfFinite
  <2>3. IsWellFoundedOn(R, FiniteSubsetsOf(0..b))
    BY <2>1, FS_StrictSubsetOrderingWellFounded
  <2> QED BY <2>2, <2>3
<1>5. \E x \in T : \A y \in T : ~(<<y, x>> \in R)
  <2> HIDE DEF T, R
  <2> QED BY <1>3, <1>4, WFMin
<1>6. PICK n \in U : \A m \in U : ~(<<below(m), below(n)>> \in R)
  <2> HIDE DEF R, below, U
  <2> QED BY <1>5
<1>7. ASSUME NEW m \in S, m < n PROVE FALSE
  <2>1. m \in U /\ below(m) \subseteq below(n) /\ n \in below(n) /\ n \notin below(m)
    BY <1>2, <1>7
  <2>2. below(m) \in SUBSET (0..b) /\ below(n) \in SUBSET (0..b)
    BY <2>1, <1>2
  <2>3. <<below(m), below(n)>> \in R
    <3> HIDE DEF below
    <3> QED BY <2>1, <2>2 DEF StrictSubsetOrdering
  <2> QED
    BY <2>1, <2>3, <1>6
<1> QED
  BY <1>7

\* No step changes a card's format.
LEMMA FormatStays ==
  ASSUME [Next]_vars
  PROVE  format' = format
<1>1. ASSUME NEW v, NEW list, Step(v, list) PROVE format' = format
  BY <1>1 DEF Step
<1>2. ASSUME NEW v, NEW list, Harm(v, list) PROVE format' = format
  BY <1>1, <1>2 DEF Harm
<1>3. CASE Restores
  BY <1>1, <1>3 DEF Restores, Place, TakeOff
<1>4. CASE WriteRepaired
  BY <1>1, <1>4 DEF WriteRepaired
<1>5. CASE ConsoleSaves
  BY <1>1, <1>5 DEF ConsoleSaves
<1>6. CASE Damages
  <2>1. \E v, list : Harm(v, list)
    <3>1. CASE Ps1Link
      BY <3>1 DEF Ps1Link
    <3>2. CASE VmuLink
      BY <3>2 DEF VmuLink
    <3>3. CASE VmuUnwritten
      BY <3>3 DEF VmuUnwritten
    <3>4. CASE GamecubeTorn
      BY <3>4 DEF GamecubeTorn
    <3>5. CASE SaturnDecay
      BY <3>5 DEF SaturnDecay
    <3>6. CASE SegacdDecay
      BY <3>6 DEF SegacdDecay
    <3>7. CASE Ps2Link
      BY <3>7 DEF Ps2Link
    <3> QED BY <1>6, <3>1, <3>2, <3>3, <3>4, <3>5, <3>6, <3>7 DEF Damages
  <2> QED BY <1>2, <2>1
<1>7. CASE UNCHANGED vars
  BY <1>7 DEF vars
<1> QED
  BY <1>3, <1>4, <1>5, <1>6, <1>7 DEF Next

\* Nothing listed shows nothing.
LEMMA ShowsNone == Showing({}) = <<>>
<1>1. Showing({}) = [n \in {} |-> (CHOOSE e \in {} : e.name = n).file]
  BY DEF Showing
<1> QED BY <1>1

----------------------------------------------------------------------------
(* Sega CD: saves back to back, in the order of the directory. *)

\* card_segacd.c:113: where the blocks of a save are counted, there is room
\* for its entry and the one after it.
LEMMA SegRoom ==
  ASSUME NEW files \in Nat, NEW next \in Nat, NEW n \in Nat \ {0},
         Segacd!BiosFree(files, next) >= n + (files % 2)
  PROVE  next + n + Segacd!Held(files + 1) <= Segacd!DataEnd(files + 1)
<1>1. SegacdBlocks \in Nat
  BY BoundsSound
<1>2. PICK k \in Nat : files = 2 * k \/ files = 2 * k + 1
  <2>1. files \div 2 \in Nat /\ (files = 2 * (files \div 2) \/ files = 2 * (files \div 2) + 1)
    OBVIOUS
  <2> QED BY <2>1
<1>3. CASE files = 2 * k
  <2>1. files % 2 = 0 /\ (files + 1) % 2 = 1 /\ (files + 1) \div 2 = k /\ (files + 2) \div 2 = k + 1
    BY <1>3
  <2> QED
    BY <1>1, <2>1 DEF Segacd!BiosFree, Segacd!Held, Segacd!DataEnd, Segacd!DirBlocks
<1>4. CASE files = 2 * k + 1
  <2>1. files % 2 = 1 /\ (files + 1) % 2 = 0 /\ (files + 1) \div 2 = k + 1 /\ (files + 2) \div 2 = k + 1
    BY <1>4
  <2> QED
    BY <1>1, <2>1 DEF Segacd!BiosFree, Segacd!Held, Segacd!DataEnd, Segacd!DirBlocks
<1> QED
  BY <1>2, <1>3, <1>4

LEMMA SegShrinks ==
  ASSUME NEW files \in Nat \ {0}, NEW next \in Nat, NEW gap \in Nat \ {0},
         next + Segacd!Held(files) <= Segacd!DataEnd(files)
  PROVE  next - gap + Segacd!Held(files - 1) <= Segacd!DataEnd(files - 1)
<1>1. SegacdBlocks \in Nat
  BY BoundsSound
<1>2. PICK k \in Nat : files = 2 * k + 1 \/ files = 2 * k + 2
  <2>1. (files - 1) \div 2 \in Nat /\ (files - 1 = 2 * ((files - 1) \div 2) \/ files - 1 = 2 * ((files - 1) \div 2) + 1)
    OBVIOUS
  <2> QED BY <2>1
<1>3. CASE files = 2 * k + 1
  <2>1. files % 2 = 1 /\ (files - 1) % 2 = 0 /\ (files + 1) \div 2 = k + 1 /\ (files - 1 + 1) \div 2 = k
    BY <1>3
  <2> QED
    BY <1>1, <2>1 DEF Segacd!Held, Segacd!DataEnd, Segacd!DirBlocks
<1>4. CASE files = 2 * k + 2
  <2>1. files % 2 = 0 /\ (files - 1) % 2 = 1 /\ (files + 1) \div 2 = k + 1 /\ (files - 1 + 1) \div 2 = k + 1
    BY <1>4
  <2> QED
    BY <1>1, <2>1 DEF Segacd!Held, Segacd!DataEnd, Segacd!DirBlocks
<1> QED
  BY <1>2, <1>3, <1>4

\* The directory lies past the data.
LEMMA SegSlotBlocks ==
  ASSUME NEW files \in Nat, Segacd!DataEnd(files) >= 1, NEW s \in 0..(files - 1)
  PROVE  /\ Segacd!SlotBlock(s) \in Segacd!Block
         /\ Segacd!SlotBlock(s) >= Segacd!DataEnd(files)
         /\ Segacd!SlotBlock(s) \in Nat
<1>1. SegacdBlocks \in Nat
  BY BoundsSound
<1>2. s \div 2 \in Nat /\ s \div 2 + 1 <= (files + 1) \div 2 /\ (files + 1) \div 2 \in Nat
  OBVIOUS
<1> QED
  BY <1>1, <1>2 DEF Segacd!SlotBlock, Segacd!Block, Segacd!DataEnd, Segacd!DirBlocks

\* Whatever it went through, a volume counts its saves; one the program may
\* change has a save to a name.
SegCard(v) ==
  /\ v.files \in Nat
  /\ \A s \in Segacd!SlotsUsed(v) : Segacd!SlotBlock(s) \in Segacd!Block
  /\ \A s \in Segacd!SlotsUsed(v) : Segacd!Readable(v, s) =>
       Segacd!Slot(v, s).start \in Nat /\ Segacd!Slot(v, s).blocks \in Nat
  /\ Segacd!InOrder(v) => \A s, t \in Segacd!SlotsUsed(v) : Segacd!Slot(v, s).name = Segacd!Slot(v, t).name => s = t

\* The blocks of slot s, and where they end.
SegStart(v, s) == Segacd!Slot(v, s).start
SegSize(v, s) == Segacd!Slot(v, s).blocks
SegEnd(v) == Segacd!NextBlock(v, v.files)

\* Saves lie in the order of their slots.
LEMMA SegOrdered ==
  ASSUME NEW v, SegCard(v), Segacd!InOrder(v)
  PROVE  /\ \A s \in Segacd!SlotsUsed(v) :
              /\ SegStart(v, s) \in Nat \ {0} /\ SegSize(v, s) \in Nat \ {0}
              /\ SegStart(v, s) + SegSize(v, s) <= SegEnd(v)
         /\ \A s, t \in Segacd!SlotsUsed(v) : s < t => SegStart(v, s) + SegSize(v, s) <= SegStart(v, t)
         /\ SegEnd(v) \in Nat \ {0}
         /\ SegEnd(v) + Segacd!Held(v.files) <= Segacd!DataEnd(v.files)
<1> DEFINE N == v.files
<1>1. /\ N \in Nat /\ Segacd!SlotsUsed(v) = 0..(N - 1)
      /\ SegacdBlocks \in Nat \ {0}
  BY BoundsSound DEF SegCard, Segacd!SlotsUsed
<1>2. \A s \in 0..(N - 1) :
        /\ SegStart(v, s) \in Nat \ {0} /\ SegSize(v, s) \in Nat \ {0}
        /\ SegStart(v, s) = Segacd!NextBlock(v, s)
        /\ SegStart(v, s) + SegSize(v, s) + Segacd!Held(N) <= Segacd!DataEnd(N)
  BY <1>1 DEF Segacd!InOrder, Segacd!Live, Segacd!Valid, SegCard, SegStart, SegSize
<1>3. \A s \in 0..(N - 1) : Segacd!NextBlock(v, s + 1) = SegStart(v, s) + SegSize(v, s)
  BY <1>1 DEF Segacd!NextBlock, SegStart, SegSize
<1>4. ASSUME NEW s \in 0..(N - 1), NEW t \in 0..(N - 1), s < t
      PROVE  SegStart(v, s) + SegSize(v, s) <= SegStart(v, t)
  <2> DEFINE S == {k \in 0..(N - 1) : s < k /\ ~(SegStart(v, s) + SegSize(v, s) <= SegStart(v, k))}
  <2> SUFFICES ASSUME S # {} PROVE FALSE
    BY <1>4
  <2>1. S \in SUBSET Nat
    BY <1>1
  <2>2. PICK k \in S : \A j \in S : ~(j < k)
    <3> HIDE DEF S
    <3> QED BY <2>1, HasLeast
  <2>3. k - 1 \in 0..(N - 1) /\ k - 1 < k /\ (k - 1) + 1 = k /\ k \in 0..(N - 1)
    BY <1>1, <2>2
  <2>4. SegStart(v, k) = SegStart(v, k - 1) + SegSize(v, k - 1)
    BY <1>2, <1>3, <2>3
  <2>5. CASE k - 1 = s
    BY <1>2, <2>2, <2>4, <2>5
  <2>6. CASE k - 1 # s
    <3>1. k - 1 \notin S /\ s < k - 1
      BY <1>1, <2>2, <2>3, <2>6
    <3>2. SegStart(v, s) + SegSize(v, s) <= SegStart(v, k - 1)
      BY <2>3, <3>1
    <3> QED BY <1>2, <2>2, <2>3, <2>4, <3>2
  <2> QED BY <2>5, <2>6
<1>5. CASE N = 0
  <2>1. SegEnd(v) = 1 /\ Segacd!Held(N) = 1 /\ Segacd!DataEnd(N) = SegacdBlocks + 1
    BY <1>1, <1>5 DEF SegEnd, Segacd!NextBlock, Segacd!Held, Segacd!DataEnd, Segacd!DirBlocks
  <2> QED BY <1>1, <1>5, <2>1
<1>6. CASE N # 0
  <2>1. N - 1 \in 0..(N - 1) /\ (N - 1) + 1 = N
    BY <1>1, <1>6
  <2>2. SegEnd(v) = SegStart(v, N - 1) + SegSize(v, N - 1)
    BY <1>3, <2>1 DEF SegEnd
  <2>3. \A s \in 0..(N - 1) : s = N - 1 \/ s < N - 1
    BY <1>1
  <2>4. \A s \in 0..(N - 1) : SegStart(v, s) + SegSize(v, s) <= SegEnd(v)
    BY <1>2, <1>4, <2>1, <2>2, <2>3
  <2> QED BY <1>1, <1>2, <1>4, <2>1, <2>2, <2>4
<1> QED
  BY <1>5, <1>6

\* The content of slot s.
SegFile(v, s) == Segacd!Contents(v, Segacd!Slot(v, s))

\* A save's file has a piece for every block.
LEMMA UnitsHaveFiles ==
  ASSUME NEW u \in Units
  PROVE  /\ Len(u.file) \in Nat \ {0} /\ u.name \in Names
         /\ u.file = [i \in 1..Len(u.file) |-> u.file[i]]
<1> DEFINE S == [of : {u.file[1].of}, at : 1..Blocks, len : {Len(u.file)}]
<1>1. u.name \in Names /\ u.file \in Seq(S) /\ u.file # <<>>
  BY UnitsAreSaves
<1> HIDE DEF S
<1> QED BY <1>1

\* card_segacd.c: an entry past the last one leaves the entries before it.
LEMMA SegInjects ==
  ASSUME NEW v, SegCard(v), Segacd!InOrder(v), NEW u \in Units, Segacd!InjectCode(v, u) = "OK"
  PROVE  LET w == Segacd!Inject(v, u)
         IN  /\ SegCard(w) /\ Segacd!InOrder(w)
             /\ w.files = v.files + 1
             /\ \A s \in Segacd!SlotsUsed(v) :
                  Segacd!Slot(w, s).name = Segacd!Slot(v, s).name /\ SegFile(w, s) = SegFile(v, s)
             /\ Segacd!Slot(w, v.files).name = u.name /\ SegFile(w, v.files) = u.file
<1> DEFINE N == v.files
           n == Len(u.file)
           start == SegEnd(v)
           e == [name |-> u.name, protect |-> u.file[1].of \in Summed, start |-> start, blocks |-> n]
           filled == [b \in Segacd!Block |->
                        IF b \in start..(start + n - 1) THEN Segacd!Data(u.file[b - start + 1]) ELSE v.block[b]]
           w == Segacd!Inject(v, u)
<1>1. /\ w.files = N + 1
      /\ w.block = Segacd!WithSlot(filled, N, e)
  BY DEF Segacd!Inject, SegEnd
<1>2. /\ N \in Nat /\ n \in Nat \ {0} /\ SegacdBlocks \in Nat \ {0}
      /\ Segacd!SlotsUsed(v) = 0..(N - 1) /\ Segacd!SlotsUsed(w) = 0..N
  <2>1. N \in Nat /\ n \in Nat \ {0} /\ SegacdBlocks \in Nat \ {0}
    <3> HIDE DEF w, e, filled, start
    <3> QED BY BoundsSound, UnitsHaveFiles DEF SegCard
  <2>2. w.files - 1 = N
    <3> HIDE DEF w
    <3> QED BY <1>1, <2>1
  <2> QED BY <2>1, <2>2 DEF Segacd!SlotsUsed
<1>3. /\ start \in Nat \ {0}
      /\ start + n + Segacd!Held(N + 1) <= Segacd!DataEnd(N + 1)
      /\ \A s \in 0..(N - 1) : Segacd!Slot(v, s).name # u.name
  <2>1. Segacd!FreeBlocks(v) = Segacd!BiosFree(N, start)
    BY DEF Segacd!FreeBlocks, SegEnd
  <2>2. start \in Nat \ {0}
    BY SegOrdered
  <2>3. Segacd!BiosFree(N, start) \in Int /\ ~(Segacd!BiosFree(N, start) < n + (N % 2))
    <3>1. ~(Segacd!FreeBlocks(v) < Segacd!Cost(v, u)) /\ \A s \in 0..(N - 1) : Segacd!Slot(v, s).name # u.name
      BY <1>2 DEF Segacd!InjectCode
    <3>2. Segacd!Cost(v, u) = n + (N % 2)
      BY DEF Segacd!Cost
    <3> HIDE DEF start, n, N
    <3>3. Segacd!BiosFree(N, start) \in Int
      BY <1>2, <2>2 DEF Segacd!BiosFree, Segacd!DataEnd, Segacd!DirBlocks, Segacd!Held
    <3> QED BY <2>1, <3>1, <3>2, <3>3
  <2>4. Segacd!BiosFree(N, start) >= n + (N % 2)
    BY <1>2, <2>3
  <2>5. start + n + Segacd!Held(N + 1) <= Segacd!DataEnd(N + 1)
    <3> HIDE DEF start, n, N
    <3> QED BY <1>2, <2>2, <2>4, SegRoom
  <2> QED BY <1>2, <2>2, <2>5 DEF Segacd!InjectCode
<1>4. /\ Segacd!DataEnd(N + 1) \in Int /\ Segacd!Held(N + 1) \in Nat /\ Segacd!DataEnd(N + 1) <= SegacdBlocks + 1
      /\ \A s \in 0..N : /\ Segacd!SlotBlock(s) \in Segacd!Block
                         /\ Segacd!SlotBlock(s) >= Segacd!DataEnd(N + 1)
                         /\ Segacd!SlotBlock(s) \in Nat
  <2>1. /\ Segacd!DataEnd(N + 1) \in Int /\ Segacd!Held(N + 1) \in Nat /\ Segacd!DataEnd(N + 1) <= SegacdBlocks + 1
    BY <1>2 DEF Segacd!DataEnd, Segacd!DirBlocks, Segacd!Held
  <2>2. Segacd!DataEnd(N + 1) >= 1 /\ N + 1 \in Nat /\ (N + 1) - 1 = N
    BY <1>2, <1>3, <2>1
  <2> DEFINE M == N + 1
  <2>3. \A s \in 0..(M - 1) : /\ Segacd!SlotBlock(s) \in Segacd!Block
                              /\ Segacd!SlotBlock(s) >= Segacd!DataEnd(M)
                              /\ Segacd!SlotBlock(s) \in Nat
    <3> HIDE DEF M
    <3> QED BY <2>2, SegSlotBlocks DEF M
  <2>4. M - 1 = N
    BY <2>2
  <2> QED BY <2>1, <2>3, <2>4
<1> HIDE DEF w, e
<1>5. /\ \A b \in 1..(start - 1) : w.block[b] = v.block[b]
      /\ \A i \in 1..n : w.block[start + i - 1] = Segacd!Data(u.file[i])
  <2>1. \A b \in 1..(start + n - 1) : b \in Segacd!Block /\ b # Segacd!SlotBlock(N)
    <3> HIDE DEF start, n, N, filled
    <3>1. Segacd!SlotBlock(N) \in Nat /\ Segacd!SlotBlock(N) >= Segacd!DataEnd(N + 1)
      BY <1>2, <1>4
    <3>2. start + n <= Segacd!DataEnd(N + 1)
      BY <1>2, <1>3, <1>4
    <3> QED BY <1>2, <1>3, <1>4, <3>1, <3>2 DEF Segacd!Block
  <2>2. \A b \in 1..(start + n - 1) : w.block[b] = filled[b]
    <3> HIDE DEF filled
    <3> QED BY <1>1, <2>1 DEF Segacd!WithSlot
  <2>3. \A b \in 1..(start - 1) : b \in Segacd!Block /\ filled[b] = v.block[b] /\ b \in 1..(start + n - 1)
    BY <1>2, <1>3, <2>1
  <2>4. \A i \in 1..n : /\ start + i - 1 \in start..(start + n - 1) /\ start + i - 1 \in 1..(start + n - 1)
                        /\ (start + i - 1) - start + 1 = i
    BY <1>2, <1>3
  <2>5. \A i \in 1..n : filled[start + i - 1] = Segacd!Data(u.file[i])
    BY <2>1, <2>4
  <2> QED BY <2>2, <2>3, <2>4, <2>5
<1>6. \A s \in 0..(N - 1) : Segacd!Readable(w, s) /\ Segacd!Slot(w, s) = Segacd!Slot(v, s)
  <2> SUFFICES ASSUME NEW s \in 0..(N - 1)
               PROVE  Segacd!Readable(w, s) /\ Segacd!Slot(w, s) = Segacd!Slot(v, s)
    OBVIOUS
  <2>1. v.block[Segacd!SlotBlock(s)].kind = "entries"
    BY <1>2 DEF Segacd!InOrder, Segacd!Live, Segacd!Readable
  <2>2. filled[Segacd!SlotBlock(s)] = v.block[Segacd!SlotBlock(s)] /\ Segacd!SlotBlock(s) \in Segacd!Block
    <3> DEFINE b == Segacd!SlotBlock(s)
    <3>1. b \in Segacd!Block /\ b \in Nat /\ b >= Segacd!DataEnd(N + 1)
      BY <1>2, <1>4
    <3> HIDE DEF b, start, n, N
    <3>2. b \notin start..(start + n - 1)
      BY <1>2, <1>3, <1>4, <3>1
    <3> QED BY <3>1, <3>2 DEF b
  <2> HIDE DEF filled
  <2>3. CASE Segacd!SlotBlock(s) # Segacd!SlotBlock(N)
    <3>1. w.block[Segacd!SlotBlock(s)] = v.block[Segacd!SlotBlock(s)]
      BY <1>1, <2>2, <2>3 DEF Segacd!WithSlot
    <3> QED BY <2>1, <3>1 DEF Segacd!Readable, Segacd!Slot
  <2>4. CASE Segacd!SlotBlock(s) = Segacd!SlotBlock(N)
    <3>1. s % 2 = 0 /\ N % 2 # 0
      BY <1>2, <2>4 DEF Segacd!SlotBlock
    <3>2. w.block[Segacd!SlotBlock(s)] = Segacd!Entries(v.block[Segacd!SlotBlock(s)].half[1], e)
      BY <1>1, <2>1, <2>2, <2>4, <3>1 DEF Segacd!WithSlot
    <3> QED BY <3>1, <3>2 DEF Segacd!Readable, Segacd!Slot, Segacd!Entries
  <2> QED BY <2>3, <2>4
<1>7. Segacd!Readable(w, N) /\ Segacd!Slot(w, N) = e
  <2>1. N % 2 = 0 \/ N % 2 = 1
    BY <1>2
  <2>2. Segacd!SlotBlock(N) \in Segacd!Block
    BY <1>2, <1>4
  <2> HIDE DEF filled
  <2> QED BY <1>1, <2>1, <2>2 DEF Segacd!WithSlot, Segacd!Entries, Segacd!Readable, Segacd!Slot
<1>8. \A s \in 0..(N - 1) : /\ SegStart(v, s) \in Nat \ {0} /\ SegSize(v, s) \in Nat \ {0}
                           /\ SegStart(v, s) + SegSize(v, s) <= start
  BY <1>2, SegOrdered
<1> HIDE DEF start, n, filled
<1>9. \A s \in 0..(N - 1) : SegFile(w, s) = SegFile(v, s)
  <2> SUFFICES ASSUME NEW s \in 0..(N - 1) PROVE SegFile(w, s) = SegFile(v, s)
    OBVIOUS
  <2>1. \A i \in 1..SegSize(v, s) : SegStart(v, s) + i - 1 \in 1..(start - 1)
    BY <1>3, <1>8
  <2>2. \A i \in 1..SegSize(v, s) : w.block[SegStart(v, s) + i - 1] = v.block[SegStart(v, s) + i - 1]
    BY <1>5, <2>1
  <2> QED BY <1>6, <2>2 DEF SegFile, Segacd!Contents, SegStart, SegSize
<1>10. SegFile(w, N) = u.file
  <2>1. SegFile(w, N) = [i \in 1..n |-> Segacd!Piece(w.block[start + i - 1])]
    BY <1>7 DEF SegFile, Segacd!Contents, e
  <2>2. \A i \in 1..n : Segacd!Piece(w.block[start + i - 1]) = u.file[i]
    <3>1. \A p : Segacd!Piece(Segacd!Data(p)) = p
      BY DEF Segacd!Piece, Segacd!Data
    <3> QED BY <1>5, <3>1
  <2>3. u.file = [i \in 1..n |-> u.file[i]]
    BY UnitsHaveFiles DEF n
  <2> QED BY <2>1, <2>2, <2>3
<1>11. \A s \in 0..N : Segacd!NextBlock(w, s) = Segacd!NextBlock(v, s)
  <2> SUFFICES ASSUME NEW s \in 0..N PROVE Segacd!NextBlock(w, s) = Segacd!NextBlock(v, s)
    OBVIOUS
  <2>1. s = 0 \/ s - 1 \in 0..(N - 1)
    BY <1>2
  <2> QED BY <1>6, <2>1 DEF Segacd!NextBlock
<1>12. ASSUME NEW s \in 0..N
       PROVE  s \in Segacd!Live(w) /\ Segacd!Slot(w, s).start = Segacd!NextBlock(w, s)
  <2>1. CASE s = N
    <3>1. Segacd!Slot(w, s).start = Segacd!NextBlock(w, s)
      BY <1>2, <1>7, <1>11, <2>1 DEF e, start, SegEnd
    <3>2. Segacd!Valid(w, e)
      <4>1. \A b \in start..(start + n - 1) : w.block[b].kind # "bad"
        <5> SUFFICES ASSUME NEW b \in start..(start + n - 1) PROVE w.block[b].kind # "bad"
          OBVIOUS
        <5>1. b - start + 1 \in 1..n /\ start + (b - start + 1) - 1 = b
          BY <1>2, <1>3
        <5>2. w.block[b] = Segacd!Data(u.file[b - start + 1])
          BY <1>5, <5>1
        <5> QED BY <5>2 DEF Segacd!Data
      <4>2. e.start = start /\ e.blocks = n
        BY DEF e
      <4> QED BY <1>1, <1>2, <1>3, <4>1, <4>2 DEF Segacd!Valid
    <3> QED BY <1>1, <1>2, <1>7, <2>1, <3>1, <3>2 DEF Segacd!Live
  <2>2. CASE s # N
    <3>1. s \in 0..(N - 1)
      BY <1>2, <2>2
    <3>2. s \in Segacd!Live(v) /\ Segacd!Slot(v, s).start = Segacd!NextBlock(v, s)
      BY <1>2, <3>1 DEF Segacd!InOrder
    <3>3. Segacd!Valid(v, Segacd!Slot(v, s))
      BY <3>2 DEF Segacd!Live
    <3>4. Segacd!Valid(w, Segacd!Slot(v, s))
      <4>1. \A b \in SegStart(v, s)..(SegStart(v, s) + SegSize(v, s) - 1) : w.block[b] = v.block[b]
        <5>1. \A b \in SegStart(v, s)..(SegStart(v, s) + SegSize(v, s) - 1) : b \in 1..(start - 1)
          BY <1>3, <1>8, <3>1
        <5> QED BY <1>5, <5>1
      <4>2. SegStart(v, s) + SegSize(v, s) + Segacd!Held(w.files) <= Segacd!DataEnd(w.files)
        BY <1>1, <1>2, <1>3, <1>4, <1>8, <3>1
      <4> QED BY <3>3, <4>1, <4>2 DEF Segacd!Valid, SegStart, SegSize
    <3> QED BY <1>2, <1>6, <1>11, <3>1, <3>2, <3>4 DEF Segacd!Live
  <2> QED BY <2>1, <2>2
<1>13. Segacd!InOrder(w)
  BY <1>2, <1>12 DEF Segacd!InOrder
<1>14. SegCard(w)
  <2>1. w.files \in Nat
    BY <1>1, <1>2
  <2>2. ASSUME NEW s \in 0..N PROVE Segacd!Slot(w, s).start \in Nat /\ Segacd!Slot(w, s).blocks \in Nat
    <3>1. CASE s = N
      BY <1>2, <1>3, <1>7, <3>1 DEF e
    <3>2. CASE s # N
      BY <1>2, <1>6, <1>8, <3>2 DEF SegStart, SegSize
    <3> QED BY <3>1, <3>2
  <2>3. ASSUME NEW s \in 0..N, NEW t \in 0..N, Segacd!Slot(w, s).name = Segacd!Slot(w, t).name PROVE s = t
    <3>1. \A r \in 0..N : r = N \/ r \in 0..(N - 1)
      BY <1>2
    <3>2. Segacd!Slot(w, N).name = u.name
      BY <1>7 DEF e
    <3>3. \A r \in 0..(N - 1) : Segacd!Slot(w, r).name = Segacd!Slot(v, r).name
      BY <1>6
    <3>4. \A r, q \in 0..(N - 1) : Segacd!Slot(v, r).name = Segacd!Slot(v, q).name => r = q
      BY <1>2 DEF SegCard
    <3> QED BY <1>3, <2>3, <3>1, <3>2, <3>3, <3>4
  <2> QED BY <1>2, <1>4, <2>1, <2>2, <2>3 DEF SegCard
<1>15. Segacd!Slot(w, N).name = u.name
  BY <1>7 DEF e
<1> QED
  BY <1>1, <1>2, <1>6, <1>9, <1>10, <1>13, <1>14, <1>15 DEF w

\* The slot an entry after a deleted one comes from.
SegFrom(k, s) == IF s < k THEN s ELSE s + 1

\* card_segacd.c:605: a deletion takes one save and moves those after it down.
LEMMA SegDeletes ==
  ASSUME NEW v, SegCard(v), Segacd!InOrder(v), NEW k \in Segacd!SlotsUsed(v)
  PROVE  LET w == Segacd!Delete(v, SegStart(v, k))
         IN  /\ SegCard(w) /\ Segacd!InOrder(w)
             /\ w.files = v.files - 1
             /\ \A s \in Segacd!SlotsUsed(w) :
                  /\ Segacd!Slot(w, s).name = Segacd!Slot(v, SegFrom(k, s)).name
                  /\ SegFile(w, s) = SegFile(v, SegFrom(k, s))
<1> DEFINE N == v.files
           first == SegStart(v, k)
           gap == SegSize(v, k)
           end == SegEnd(v)
           entry(s) == IF s < k THEN Segacd!Slot(v, s)
                       ELSE IF s < N - 1 THEN Segacd!Moved(Segacd!Slot(v, s + 1), gap) ELSE Segacd!NoEntry
           moved(b) == IF b \in first..(end - gap - 1) THEN v.block[b + gap]
                       ELSE IF b \in (end - gap)..(end - 1) THEN Segacd!Clear
                       ELSE IF b <= SegacdBlocks - Segacd!DirBlocks(N) THEN v.block[b]
                       ELSE IF 2 * (SegacdBlocks - b) = N - 1 THEN Segacd!Clear
                       ELSE Segacd!Entries(entry(2 * (SegacdBlocks - b)), entry(2 * (SegacdBlocks - b) + 1))
           w == Segacd!Delete(v, first)
<1>1. /\ N \in Nat \ {0} /\ SegacdBlocks \in Nat \ {0}
      /\ Segacd!SlotsUsed(v) = 0..(N - 1) /\ k \in 0..(N - 1)
  <2>1. N \in Nat /\ Segacd!SlotsUsed(v) = 0..(N - 1) /\ SegacdBlocks \in Nat \ {0}
    BY BoundsSound DEF SegCard, Segacd!SlotsUsed
  <2> QED BY <2>1
<1>2. /\ \A s \in 0..(N - 1) : /\ SegStart(v, s) \in Nat \ {0} /\ SegSize(v, s) \in Nat \ {0}
                              /\ SegStart(v, s) + SegSize(v, s) <= end
      /\ \A s, t \in 0..(N - 1) : s < t => SegStart(v, s) + SegSize(v, s) <= SegStart(v, t)
      /\ end \in Nat \ {0}
      /\ end + Segacd!Held(N) <= Segacd!DataEnd(N)
  BY <1>1, SegOrdered
<1>3. (CHOOSE s \in Segacd!SlotsUsed(v) : Segacd!Slot(v, s).start = first) = k
  <2>1. \A s \in 0..(N - 1) : SegStart(v, s) = SegStart(v, k) => s = k
    BY <1>1, <1>2
  <2>2. \A s \in Segacd!SlotsUsed(v) : Segacd!Slot(v, s).start = first => s = k
    BY <1>1, <2>1 DEF SegStart
  <2>3. Segacd!Slot(v, k).start = first
    BY DEF SegStart
  <2> HIDE DEF first
  <2> QED BY <2>2, <2>3
<1>4. w.files = N - 1 /\ w.block = [b \in Segacd!Block |-> moved(b)]
  <2>1. ~(\A s \in Segacd!SlotsUsed(v) : Segacd!Slot(v, s).start # first)
    BY DEF SegStart
  <2>2. w = [files |-> N - 1, free |-> Segacd!BiosFree(N - 1, end - gap), block |-> [b \in Segacd!Block |-> moved(b)]]
    BY <1>3, <2>1 DEF Segacd!Delete, SegSize, SegEnd
  <2> HIDE DEF w, moved
  <2> QED BY <2>2
<1>5. Segacd!DataEnd(N) \in Int /\ Segacd!Held(N) \in Nat /\ first + gap <= end /\ first \in Nat \ {0} /\ gap \in Nat \ {0}
  <2>1. Segacd!DataEnd(N) \in Int /\ Segacd!Held(N) \in Nat
    BY <1>1 DEF Segacd!DataEnd, Segacd!DirBlocks, Segacd!Held
  <2> QED BY <1>1, <1>2, <2>1
<1>6. \A s \in 0..(N - 1) : /\ Segacd!SlotBlock(s) \in Segacd!Block /\ Segacd!SlotBlock(s) \in Nat
                            /\ Segacd!SlotBlock(s) >= Segacd!DataEnd(N)
  <2>1. Segacd!DataEnd(N) >= 1
    BY <1>2, <1>5
  <2> QED BY <1>1, <2>1, SegSlotBlocks
<1> HIDE DEF first, gap, end, w
<1>7. ASSUME NEW s \in 0..(N - 2)
      PROVE  Segacd!Readable(w, s) /\ Segacd!Slot(w, s) = entry(s)
  <2> DEFINE b == Segacd!SlotBlock(s)
             low == 2 * (SegacdBlocks - b)
  <2>1. /\ b \in Segacd!Block /\ b \in Nat /\ b >= Segacd!DataEnd(N) /\ s \in Nat
        /\ s \in 0..(N - 1)
    BY <1>1, <1>6
  <2>2. low = 2 * (s \div 2) /\ s \div 2 \in Nat /\ s <= N - 2
    BY <1>1, <2>1 DEF Segacd!SlotBlock
  <2>3. ~(b \in first..(end - gap - 1)) /\ ~(b \in (end - gap)..(end - 1))
    BY <1>2, <1>5, <2>1
  <2>4. ~(b <= SegacdBlocks - Segacd!DirBlocks(N))
    BY <1>1, <2>1 DEF Segacd!DataEnd, Segacd!DirBlocks
  <2>5. low # N - 1 /\ (s % 2 = 0 => low = s) /\ (s % 2 = 1 => low + 1 = s) /\ (s % 2 = 0 \/ s % 2 = 1)
    BY <1>1, <2>1, <2>2
  <2> HIDE DEF b, low, entry
  <2>6. moved(b) = Segacd!Entries(entry(low), entry(low + 1))
    BY <2>3, <2>4, <2>5 DEF low
  <2> HIDE DEF moved
  <2>7. w.block[b] = Segacd!Entries(entry(low), entry(low + 1))
    BY <1>4, <2>1, <2>6
  <2> QED BY <2>5, <2>7 DEF b, Segacd!Readable, Segacd!Slot, Segacd!Entries
<1>8. /\ \A b \in 1..(first - 1) : w.block[b] = v.block[b]
      /\ \A b \in first..(end - gap - 1) : w.block[b] = v.block[b + gap]
  <2>1. \A b \in 1..(end - gap - 1) : b \in Segacd!Block /\ b <= SegacdBlocks - Segacd!DirBlocks(N)
    <3>1. end <= SegacdBlocks + 1 - Segacd!DirBlocks(N) /\ Segacd!DirBlocks(N) \in Nat
      BY <1>1, <1>2, <1>5 DEF Segacd!DataEnd, Segacd!DirBlocks
    <3> QED BY <1>1, <1>2, <1>5, <3>1 DEF Segacd!Block
  <2>2. \A b \in 1..(first - 1) : b \in 1..(end - gap - 1) /\ ~(b \in first..(end - gap - 1)) /\ ~(b \in (end - gap)..(end - 1))
    BY <1>2, <1>5
  <2>3. \A b \in first..(end - gap - 1) : b \in 1..(end - gap - 1)
    BY <1>2, <1>5
  <2> HIDE DEF entry
  <2>4. /\ \A b \in 1..(first - 1) : moved(b) = v.block[b]
        /\ \A b \in first..(end - gap - 1) : moved(b) = v.block[b + gap]
    BY <2>1, <2>2
  <2> HIDE DEF moved
  <2> QED BY <1>4, <2>1, <2>2, <2>3, <2>4
<1> HIDE DEF moved
<1> DEFINE From(s) == SegFrom(k, s)
           delta(s) == IF s < k THEN 0 ELSE gap
<1>9. ASSUME NEW s \in 0..(N - 2)
      PROVE  /\ From(s) \in 0..(N - 1)
             /\ Segacd!Slot(w, s).name = Segacd!Slot(v, From(s)).name
             /\ Segacd!Slot(w, s).protect = Segacd!Slot(v, From(s)).protect
             /\ SegSize(w, s) = SegSize(v, From(s))
             /\ SegStart(w, s) = SegStart(v, From(s)) - delta(s)
             /\ SegStart(w, s) + SegSize(w, s) <= end - gap
             /\ SegStart(w, s) \in Nat \ {0}
             /\ \A b \in SegStart(w, s)..(SegStart(w, s) + SegSize(w, s) - 1) :
                  w.block[b] = v.block[b + delta(s)]
  <2>1. From(s) \in 0..(N - 1)
    BY <1>1 DEF SegFrom
  <2>2. CASE s < k
    <3>1. Segacd!Slot(w, s) = Segacd!Slot(v, s) /\ From(s) = s /\ delta(s) = 0
      BY <1>7, <2>2 DEF SegFrom
    <3>2. SegStart(v, s) + SegSize(v, s) <= first
      <4>1. s \in 0..(N - 1)
        BY <1>1
      <4>2. SegStart(v, s) + SegSize(v, s) <= SegStart(v, k)
        BY <1>1, <1>2, <2>2, <4>1
      <4> QED BY <4>2 DEF first
    <3>3. SegStart(v, s) \in Nat \ {0} /\ SegSize(v, s) \in Nat \ {0}
      BY <1>1, <1>2
    <3>4. SegStart(w, s) = SegStart(v, s) /\ SegSize(w, s) = SegSize(v, s)
      BY <3>1 DEF SegStart, SegSize
    <3>5. \A b \in SegStart(v, s)..(SegStart(v, s) + SegSize(v, s) - 1) : b \in 1..(first - 1) /\ b + 0 = b
      BY <1>5, <3>2, <3>3
    <3> QED BY <1>2, <1>5, <1>8, <2>1, <3>1, <3>2, <3>3, <3>4, <3>5
  <2>3. CASE ~(s < k)
    <3>1. From(s) = s + 1 /\ delta(s) = gap /\ k < s + 1 /\ s + 1 \in 0..(N - 1)
      BY <1>1, <2>3 DEF SegFrom
    <3>2. Segacd!Slot(w, s) = Segacd!Moved(Segacd!Slot(v, s + 1), gap)
      BY <1>1, <1>7, <2>3
    <3>3. first + gap <= SegStart(v, s + 1)
      BY <1>1, <1>2, <3>1 DEF first, gap
    <3>4. SegStart(v, s + 1) \in Nat \ {0} /\ SegSize(v, s + 1) \in Nat \ {0} /\ SegStart(v, s + 1) + SegSize(v, s + 1) <= end
      BY <1>1, <1>2, <3>1
    <3>5. SegStart(w, s) = SegStart(v, s + 1) - gap /\ SegSize(w, s) = SegSize(v, s + 1)
      BY <3>2 DEF SegStart, SegSize, Segacd!Moved
    <3>6. \A b \in SegStart(w, s)..(SegStart(w, s) + SegSize(w, s) - 1) : b \in first..(end - gap - 1)
      BY <1>2, <1>5, <3>3, <3>4, <3>5
    <3>7. /\ Segacd!Slot(w, s).name = Segacd!Slot(v, s + 1).name
          /\ Segacd!Slot(w, s).protect = Segacd!Slot(v, s + 1).protect
      BY <3>2 DEF Segacd!Moved
    <3> QED BY <1>2, <1>5, <1>8, <2>1, <3>1, <3>3, <3>4, <3>5, <3>6, <3>7
  <2> QED BY <2>2, <2>3
<1> HIDE DEF delta, entry
<1>10. /\ Segacd!SlotsUsed(w) = 0..(N - 2) /\ w.files = N - 1 /\ w.files \in Nat
       /\ \A s \in 0..(N - 2) : Segacd!Readable(w, s)
  BY <1>1, <1>4, <1>7 DEF Segacd!SlotsUsed
<1>11. ASSUME NEW s \in 0..(N - 2)
       PROVE  SegFile(w, s) = SegFile(v, From(s))
  <2>1. delta(s) \in Nat /\ SegStart(w, s) \in Nat /\ SegSize(w, s) \in Nat /\ SegStart(v, From(s)) \in Nat
    BY <1>2, <1>5, <1>9 DEF delta
  <2>2. \A i \in 1..SegSize(w, s) : /\ SegStart(w, s) + i - 1 \in SegStart(w, s)..(SegStart(w, s) + SegSize(w, s) - 1)
                                    /\ SegStart(w, s) + i - 1 + delta(s) = SegStart(v, From(s)) + i - 1
    BY <1>9, <2>1
  <2>3. \A i \in 1..SegSize(w, s) : w.block[SegStart(w, s) + i - 1] = v.block[SegStart(v, From(s)) + i - 1]
    BY <1>9, <2>2
  <2>4. SegSize(w, s) = SegSize(v, From(s))
    BY <1>9
  <2> HIDE DEF From
  <2> QED BY <2>3, <2>4 DEF SegFile, Segacd!Contents, SegStart, SegSize
<1>12. ASSUME NEW s \in 0..(N - 2)
       PROVE  Segacd!Slot(w, s).start = Segacd!NextBlock(w, s)
  <2>1. \A t \in 0..(N - 1) : SegStart(v, t) = Segacd!NextBlock(v, t)
    BY <1>1 DEF Segacd!InOrder, SegStart
  <2>2. \A t \in 1..(N - 1) : SegStart(v, t) = SegStart(v, t - 1) + SegSize(v, t - 1)
    BY <1>1, <2>1 DEF Segacd!NextBlock, SegStart, SegSize
  <2>3. SegStart(v, 0) = 1
    BY <1>1, <2>1 DEF Segacd!NextBlock
  <2>4. CASE s = 0
    <3>1. Segacd!NextBlock(w, s) = 1
      BY <2>4 DEF Segacd!NextBlock
    <3>2. CASE k = 0
      <4>1. From(s) = 1 /\ delta(s) = SegSize(v, 0) /\ 1 \in 1..(N - 1)
        BY <1>1, <2>4, <3>2 DEF SegFrom, delta, gap
      <4>2. SegStart(v, 1) = SegStart(v, 0) + SegSize(v, 0) /\ SegSize(v, 0) \in Nat
        <5>1. 1 \in 1..(N - 1) /\ 1 - 1 = 0 /\ 0 \in 0..(N - 1)
          BY <1>1, <4>1
        <5> QED BY <1>2, <2>2, <5>1
      <4>3. SegStart(w, s) = SegStart(v, From(s)) - delta(s)
        BY <1>9
      <4> QED BY <2>3, <3>1, <4>1, <4>2, <4>3 DEF SegStart
    <3>3. CASE k # 0
      <4>1. From(s) = 0 /\ delta(s) = 0
        BY <1>1, <2>4, <3>3 DEF SegFrom, delta
      <4> QED BY <1>9, <2>3, <3>1, <4>1 DEF SegStart
    <3> QED BY <3>2, <3>3
  <2>5. CASE s # 0
    <3>1. s - 1 \in 0..(N - 2)
      BY <1>1, <2>5
    <3>2. Segacd!NextBlock(w, s) = SegStart(w, s - 1) + SegSize(w, s - 1)
      BY <2>5 DEF Segacd!NextBlock, SegStart, SegSize
    <3>3. /\ SegStart(w, s) = SegStart(v, From(s)) - delta(s)
          /\ SegStart(w, s - 1) = SegStart(v, From(s - 1)) - delta(s - 1)
          /\ SegSize(w, s - 1) = SegSize(v, From(s - 1))
      BY <1>9, <3>1
    <3>4. SegStart(v, From(s)) - delta(s) = SegStart(v, From(s - 1)) - delta(s - 1) + SegSize(v, From(s - 1))
      <4>1. CASE s < k
        <5>1. From(s) = s /\ From(s - 1) = s - 1 /\ delta(s) = 0 /\ delta(s - 1) = 0 /\ s \in 1..(N - 1) /\ s - 1 \in 0..(N - 1)
          BY <1>1, <2>5, <4>1 DEF SegFrom, delta
        <5>2. SegStart(v, s) = SegStart(v, s - 1) + SegSize(v, s - 1)
          BY <2>2, <5>1
        <5>3. s \in 0..(N - 1)
          BY <1>1
        <5> QED BY <1>2, <5>1, <5>2, <5>3
      <4>2. CASE s = k
        <5>1. From(s) = s + 1 /\ From(s - 1) = s - 1 /\ delta(s) = SegSize(v, s) /\ delta(s - 1) = 0
          BY <1>1, <2>5, <4>2 DEF SegFrom, delta, gap
        <5>2. s \in 1..(N - 1) /\ s + 1 \in 1..(N - 1) /\ s - 1 \in 0..(N - 1) /\ s \in 0..(N - 1) /\ (s + 1) - 1 = s
          BY <1>1, <2>5
        <5>3. SegStart(v, s + 1) = SegStart(v, s) + SegSize(v, s) /\ SegStart(v, s) = SegStart(v, s - 1) + SegSize(v, s - 1)
          BY <2>2, <5>2
        <5> QED BY <1>2, <5>1, <5>2, <5>3
      <4>3. CASE s > k
        <5>1. From(s) = s + 1 /\ From(s - 1) = s /\ delta(s) = gap /\ delta(s - 1) = gap
          BY <1>1, <2>5, <4>3 DEF SegFrom, delta
        <5>2. s + 1 \in 1..(N - 1) /\ s \in 0..(N - 1) /\ (s + 1) - 1 = s /\ s + 1 \in 0..(N - 1)
          BY <1>1, <2>5
        <5>3. SegStart(v, s + 1) = SegStart(v, s) + SegSize(v, s)
          BY <2>2, <5>2
        <5> QED BY <1>2, <1>5, <5>1, <5>2, <5>3
      <4> QED BY <1>1, <4>1, <4>2, <4>3
    <3> QED BY <3>2, <3>3, <3>4 DEF SegStart
  <2> QED BY <2>4, <2>5
<1>13. ASSUME NEW s \in 0..(N - 2)
       PROVE  s \in Segacd!Live(w)
  <2>1. From(s) \in Segacd!Live(v)
    BY <1>1, <1>9 DEF Segacd!InOrder
  <2>2. Segacd!Valid(v, Segacd!Slot(v, From(s)))
    BY <2>1 DEF Segacd!Live
  <2>3. SegStart(w, s) + SegSize(w, s) + Segacd!Held(w.files) <= Segacd!DataEnd(w.files)
    <3>1. end - gap + Segacd!Held(N - 1) <= Segacd!DataEnd(N - 1)
      BY <1>1, <1>2, <1>5, SegShrinks
    <3>2. Segacd!Held(N - 1) \in Nat /\ Segacd!DataEnd(N - 1) \in Int
      BY <1>1 DEF Segacd!DataEnd, Segacd!DirBlocks, Segacd!Held
    <3>3. SegSize(w, s) \in Nat
      BY <1>2, <1>9
    <3> QED BY <1>2, <1>5, <1>9, <1>10, <3>1, <3>2, <3>3, SMTT(20)
  <2>4. Segacd!Slot(w, s).protect => \A b \in SegStart(w, s)..(SegStart(w, s) + SegSize(w, s) - 1) : w.block[b].kind # "bad"
    <3> SUFFICES ASSUME Segacd!Slot(w, s).protect,
                        NEW b \in SegStart(w, s)..(SegStart(w, s) + SegSize(w, s) - 1)
                 PROVE  w.block[b].kind # "bad"
      OBVIOUS
    <3>1. w.block[b] = v.block[b + delta(s)]
      BY <1>9
    <3>2. b + delta(s) \in SegStart(v, From(s))..(SegStart(v, From(s)) + SegSize(v, From(s)) - 1)
      <4>1. delta(s) \in Nat /\ SegSize(v, From(s)) \in Nat /\ SegStart(v, From(s)) \in Nat
        BY <1>2, <1>5, <1>9 DEF delta
      <4> QED BY <1>9, <4>1
    <3>3. Segacd!Slot(v, From(s)).protect
      BY <1>9
    <3> HIDE DEF From
    <3> QED BY <2>2, <3>1, <3>2, <3>3 DEF Segacd!Valid, SegStart, SegSize
  <2>5. SegStart(w, s) >= 1 /\ SegSize(w, s) >= 1
    BY <1>2, <1>9
  <2> HIDE DEF From
  <2> QED BY <1>10, <2>3, <2>4, <2>5 DEF Segacd!Live, Segacd!Valid, SegStart, SegSize
<1>14. Segacd!InOrder(w)
  BY <1>10, <1>12, <1>13 DEF Segacd!InOrder
<1>15. SegCard(w)
  <2>1. \A s \in 0..(N - 2) : SegStart(w, s) \in Nat /\ SegSize(w, s) \in Nat
    BY <1>2, <1>9
  <2>2. ASSUME NEW s \in 0..(N - 2), NEW t \in 0..(N - 2), Segacd!Slot(w, s).name = Segacd!Slot(w, t).name PROVE s = t
    <3>1. From(s) = From(t)
      BY <1>1, <1>9, <2>2 DEF SegCard
    <3> QED BY <1>1, <3>1 DEF SegFrom
  <2>3. \A s \in 0..(N - 2) : Segacd!SlotBlock(s) \in Segacd!Block
    BY <1>1, <1>6
  <2> QED BY <1>10, <2>1, <2>2, <2>3 DEF SegCard, SegStart, SegSize
<1> QED
  BY <1>9, <1>10, <1>11, <1>14, <1>15 DEF w, first

\* Slots whose names tell them apart show each its file.
LEMMA ShowsEach ==
  ASSUME NEW list, NEW e \in list, \A x, y \in list : x.name = y.name => x.file = y.file
  PROVE  e.name \in DOMAIN Showing(list) /\ Showing(list)[e.name] = e.file
<1>1. (CHOOSE x \in list : x.name = e.name) \in list /\ (CHOOSE x \in list : x.name = e.name).name = e.name
  OBVIOUS
<1>2. Showing(list)[e.name] = (CHOOSE x \in list : x.name = e.name).file /\ e.name \in DOMAIN Showing(list)
  BY DEF Showing
<1> QED BY <1>1, <1>2

LEMMA ShowsNames ==
  ASSUME NEW list
  PROVE  /\ DOMAIN Showing(list) = {e.name : e \in list}
         /\ Showing(list) = [n \in {e.name : e \in list} |-> Showing(list)[n]]
  BY DEF Showing

LEMMA SegIs ==
  ASSUME format = "segacd", NEW v, NEW u, NEW b
  PROVE  /\ List(v) = Segacd!List(v)
         /\ Remove(v, b) = Segacd!Delete(v, b)
         /\ Inject(v, u) = Segacd!Inject(v, u)
         /\ InjectCode(v, u) = Segacd!InjectCode(v, u)
         /\ Corrupt(v) = Segacd!Corrupt(v)
         /\ FreeBlocks(v) = Segacd!FreeBlocks(v)
         /\ Verify(v, u) = Segacd!Verify(v, u)
         /\ Cost(v, u) = Segacd!Cost(v, u)
         /\ Repair(v) = v
<1>1. List(v) = Segacd!List(v) /\ Remove(v, b) = Segacd!Delete(v, b) /\ Inject(v, u) = Segacd!Inject(v, u)
  BY DEF List, Remove, Inject
<1>2. InjectCode(v, u) = Segacd!InjectCode(v, u)
  BY DEF InjectCode
<1>3. Corrupt(v) = Segacd!Corrupt(v) /\ Verify(v, u) = Segacd!Verify(v, u) /\ Repair(v) = v
  BY DEF Corrupt, Verify, Repair
<1>4. FreeBlocks(v) = Segacd!FreeBlocks(v) /\ Cost(v, u) = Segacd!Cost(v, u)
  BY DEF FreeBlocks, Cost
<1> QED BY <1>1, <1>2, <1>3, <1>4

SegShown(v, s) == [name |-> Segacd!Slot(v, s).name, first |-> SegStart(v, s), file |-> SegFile(v, s)]

\* A volume in order shows every slot.
LEMMA SegLists ==
  ASSUME NEW v, SegCard(v), Segacd!InOrder(v)
  PROVE  /\ Segacd!List(v) = {SegShown(v, s) : s \in Segacd!SlotsUsed(v)}
         /\ Segacd!Corrupt(v) = {}
         /\ DOMAIN Showing(Segacd!List(v)) = {Segacd!Slot(v, s).name : s \in Segacd!SlotsUsed(v)}
         /\ \A s \in Segacd!SlotsUsed(v) : Showing(Segacd!List(v))[Segacd!Slot(v, s).name] = SegFile(v, s)
<1>1. Segacd!Live(v) = Segacd!SlotsUsed(v)
  BY DEF Segacd!InOrder, Segacd!Live
<1>2. Segacd!List(v) = {SegShown(v, s) : s \in Segacd!SlotsUsed(v)}
  BY <1>1 DEF Segacd!List, SegShown, SegStart, SegFile
<1>3. Segacd!Corrupt(v) = {}
  BY <1>1 DEF Segacd!Corrupt
<1>4. \A s : SegShown(v, s).name = Segacd!Slot(v, s).name /\ SegShown(v, s).file = SegFile(v, s)
  BY DEF SegShown
<1> DEFINE list == Segacd!List(v)
<1>5. \A x, y \in list : x.name = y.name => x.file = y.file
  <2> SUFFICES ASSUME NEW x \in list, NEW y \in list, x.name = y.name PROVE x.file = y.file
    OBVIOUS
  <2>1. PICK s \in Segacd!SlotsUsed(v) : x = SegShown(v, s)
    BY <1>2
  <2>2. PICK t \in Segacd!SlotsUsed(v) : y = SegShown(v, t)
    BY <1>2
  <2>3. s = t
    BY <1>4, <2>1, <2>2 DEF SegCard
  <2> QED BY <2>1, <2>2, <2>3
<1>6. \A s \in Segacd!SlotsUsed(v) : SegShown(v, s) \in list
  BY <1>2
<1> HIDE DEF list
<1>7. \A s \in Segacd!SlotsUsed(v) : Showing(list)[Segacd!Slot(v, s).name] = SegFile(v, s)
  BY <1>4, <1>5, <1>6, ShowsEach
<1>8. DOMAIN Showing(list) = {Segacd!Slot(v, s).name : s \in Segacd!SlotsUsed(v)}
  <2>1. list = {SegShown(v, s) : s \in Segacd!SlotsUsed(v)}
    BY <1>2 DEF list
  <2>2. DOMAIN Showing(list) = {e.name : e \in list}
    BY ShowsNames
  <2>3. {e.name : e \in list} = {SegShown(v, s).name : s \in Segacd!SlotsUsed(v)}
    BY <2>1
  <2>4. {SegShown(v, s).name : s \in Segacd!SlotsUsed(v)} = {Segacd!Slot(v, s).name : s \in Segacd!SlotsUsed(v)}
    BY <1>4
  <2> QED BY <2>2, <2>3, <2>4
<1> QED
  BY <1>2, <1>3, <1>7, <1>8 DEF list

\* What shows without one name, and with one more.
Without(show, n) == [m \in DOMAIN show \ {n} |-> show[m]]
With(show, n, c) == [m \in DOMAIN show \cup {n} |-> IF m = n THEN c ELSE show[m]]

\* Taking a game's save off leaves the others, and none of its name.
LEMMA SegClears ==
  ASSUME format = "segacd", NEW v, SegCard(v), Segacd!InOrder(v), NEW n
  PROVE  LET w == Cleared(v, n)
         IN  /\ SegCard(w) /\ Segacd!InOrder(w)
             /\ Showing(Segacd!List(w)) = Without(Showing(Segacd!List(v)), n)
             /\ \A s \in Segacd!SlotsUsed(w) : Segacd!Slot(w, s).name # n
             /\ w # v => n \in DOMAIN Showing(Segacd!List(v))
<1> DEFINE w == Cleared(v, n)
           show == Showing(Segacd!List(v))
<1>1. /\ Segacd!List(v) = {SegShown(v, s) : s \in Segacd!SlotsUsed(v)}
      /\ DOMAIN show = {Segacd!Slot(v, s).name : s \in Segacd!SlotsUsed(v)}
      /\ \A s \in Segacd!SlotsUsed(v) : show[Segacd!Slot(v, s).name] = SegFile(v, s)
  BY SegLists
<1>2. Named(v, n) = {e \in Segacd!List(v) : e.name = n}
  BY SegIs DEF Named
<1>3. \A s : SegShown(v, s).name = Segacd!Slot(v, s).name /\ SegShown(v, s).first = SegStart(v, s)
  BY DEF SegShown
<1>4. show = [m \in DOMAIN show |-> show[m]]
  BY DEF Showing
<1> HIDE DEF show
<1>5. CASE Named(v, n) = {}
  <2>1. w = v
    BY <1>5 DEF Cleared
  <2>2. \A s \in Segacd!SlotsUsed(v) : Segacd!Slot(v, s).name # n
    BY <1>1, <1>2, <1>3, <1>5
  <2>3. n \notin DOMAIN show
    BY <1>1, <2>2
  <2>4. show = Without(show, n)
    <3>1. DOMAIN show \ {n} = DOMAIN show
      BY <2>3
    <3> QED BY <1>4, <3>1 DEF Without
  <2> QED BY <2>1, <2>2, <2>4 DEF show
<1>6. CASE Named(v, n) # {}
  <2> DEFINE e == CHOOSE x \in Named(v, n) : TRUE
  <2>1. e \in Named(v, n) /\ w = Segacd!Delete(v, e.first)
    BY <1>6, SegIs DEF Cleared
  <2> HIDE DEF e
  <2>2. PICK k \in Segacd!SlotsUsed(v) : e = SegShown(v, k)
    BY <1>1, <1>2, <2>1
  <2>3. Segacd!Slot(v, k).name = n /\ w = Segacd!Delete(v, SegStart(v, k))
    BY <1>2, <1>3, <2>1, <2>2
  <2> HIDE DEF w
  <2>4. /\ SegCard(w) /\ Segacd!InOrder(w)
        /\ w.files = v.files - 1
        /\ \A s \in Segacd!SlotsUsed(w) :
             /\ Segacd!Slot(w, s).name = Segacd!Slot(v, SegFrom(k, s)).name
             /\ SegFile(w, s) = SegFile(v, SegFrom(k, s))
    BY <2>3, SegDeletes
  <2>5. /\ DOMAIN Showing(Segacd!List(w)) = {Segacd!Slot(w, s).name : s \in Segacd!SlotsUsed(w)}
        /\ \A s \in Segacd!SlotsUsed(w) : Showing(Segacd!List(w))[Segacd!Slot(w, s).name] = SegFile(w, s)
    BY <2>4, SegLists
  <2>6. /\ v.files \in Nat /\ Segacd!SlotsUsed(v) = 0..(v.files - 1) /\ Segacd!SlotsUsed(w) = 0..(v.files - 2)
        /\ k \in 0..(v.files - 1)
    <3>1. v.files \in Nat /\ Segacd!SlotsUsed(v) = 0..(v.files - 1) /\ Segacd!SlotsUsed(w) = 0..(w.files - 1)
      BY DEF SegCard, Segacd!SlotsUsed
    <3> QED BY <2>4, <3>1
  <2>7. /\ \A s \in 0..(v.files - 2) : SegFrom(k, s) \in 0..(v.files - 1) /\ SegFrom(k, s) # k
        /\ \A t \in 0..(v.files - 1) : t # k => \E s \in 0..(v.files - 2) : t = SegFrom(k, s)
    <3>1. \A s \in 0..(v.files - 2) : SegFrom(k, s) \in 0..(v.files - 1) /\ SegFrom(k, s) # k
      BY <2>6 DEF SegFrom
    <3>2. ASSUME NEW t \in 0..(v.files - 1), t # k PROVE \E s \in 0..(v.files - 2) : t = SegFrom(k, s)
      <4>1. CASE t < k
        BY <2>6, <4>1 DEF SegFrom
      <4>2. CASE ~(t < k)
        <5>1. t - 1 \in 0..(v.files - 2) /\ ~(t - 1 < k) /\ (t - 1) + 1 = t
          BY <2>6, <3>2, <4>2
        <5> QED BY <5>1 DEF SegFrom
      <4> QED BY <4>1, <4>2
    <3> QED BY <3>1, <3>2
  <2>8. \A s, t \in 0..(v.files - 1) : Segacd!Slot(v, s).name = Segacd!Slot(v, t).name => s = t
    BY <2>6 DEF SegCard
  <2> DEFINE name(s) == Segacd!Slot(v, s).name
  <2>9. DOMAIN Showing(Segacd!List(w)) = DOMAIN show \ {n}
    <3>1. DOMAIN show = {name(s) : s \in 0..(v.files - 1)}
      BY <1>1, <2>6
    <3>2. DOMAIN Showing(Segacd!List(w)) = {Segacd!Slot(w, s).name : s \in 0..(v.files - 2)}
      BY <2>5, <2>6
    <3>3. \A s \in 0..(v.files - 2) : Segacd!Slot(w, s).name = name(SegFrom(k, s))
      BY <2>4, <2>6
    <3>4. name(k) = n /\ \A s, t \in 0..(v.files - 1) : name(s) = name(t) => s = t
      BY <2>3, <2>8
    <3> HIDE DEF name
    <3>5. ASSUME NEW m \in DOMAIN Showing(Segacd!List(w)) PROVE m \in DOMAIN show \ {n}
      <4>1. PICK s \in 0..(v.files - 2) : m = name(SegFrom(k, s))
        BY <3>2, <3>3, <3>5
      <4> QED BY <2>6, <2>7, <3>1, <3>4, <4>1
    <3>6. ASSUME NEW m \in DOMAIN show \ {n} PROVE m \in DOMAIN Showing(Segacd!List(w))
      <4>1. PICK t \in 0..(v.files - 1) : m = name(t) /\ t # k
        BY <3>1, <3>4, <3>6
      <4>2. PICK s \in 0..(v.files - 2) : t = SegFrom(k, s)
        BY <2>7, <4>1
      <4> QED BY <3>2, <3>3, <4>1, <4>2
    <3> QED BY <3>5, <3>6
  <2>10. ASSUME NEW m \in DOMAIN show \ {n} PROVE Showing(Segacd!List(w))[m] = show[m]
    <3>1. PICK s \in 0..(v.files - 2) : m = Segacd!Slot(w, s).name
      BY <2>5, <2>6, <2>9, <2>10
    <3> QED BY <1>1, <2>4, <2>5, <2>6, <2>7, <3>1
  <2>11. Showing(Segacd!List(w)) = [m \in DOMAIN Showing(Segacd!List(w)) |-> Showing(Segacd!List(w))[m]]
    BY DEF Showing
  <2>12. Showing(Segacd!List(w)) = Without(show, n)
    BY <2>9, <2>10, <2>11 DEF Without
  <2>13. n \in DOMAIN show /\ \A s \in Segacd!SlotsUsed(w) : Segacd!Slot(w, s).name # n
    BY <1>1, <2>3, <2>5, <2>9
  <2> QED BY <2>4, <2>12, <2>13 DEF w, show
<1> QED
  BY <1>5, <1>6

\* A save that goes on shows as it was given; the others as they did.
LEMMA SegPuts ==
  ASSUME NEW v, SegCard(v), Segacd!InOrder(v), NEW u \in Units, Segacd!InjectCode(v, u) = "OK"
  PROVE  LET w == Segacd!Inject(v, u)
         IN  /\ SegCard(w) /\ Segacd!InOrder(w)
             /\ Showing(Segacd!List(w)) = With(Showing(Segacd!List(v)), u.name, u.file)
<1> DEFINE w == Segacd!Inject(v, u)
           N == v.files
           show == Showing(Segacd!List(v))
           next == Showing(Segacd!List(w))
<1>1. /\ SegCard(w) /\ Segacd!InOrder(w)
      /\ w.files = N + 1
      /\ \A s \in Segacd!SlotsUsed(v) :
           Segacd!Slot(w, s).name = Segacd!Slot(v, s).name /\ SegFile(w, s) = SegFile(v, s)
      /\ Segacd!Slot(w, N).name = u.name /\ SegFile(w, N) = u.file
  BY SegInjects
<1> HIDE DEF w
<1>2. /\ DOMAIN show = {Segacd!Slot(v, s).name : s \in Segacd!SlotsUsed(v)}
      /\ \A s \in Segacd!SlotsUsed(v) : show[Segacd!Slot(v, s).name] = SegFile(v, s)
  BY SegLists
<1>3. /\ DOMAIN next = {Segacd!Slot(w, s).name : s \in Segacd!SlotsUsed(w)}
      /\ \A s \in Segacd!SlotsUsed(w) : next[Segacd!Slot(w, s).name] = SegFile(w, s)
      /\ next = [m \in DOMAIN next |-> next[m]]
  <2>1. next = [m \in DOMAIN next |-> next[m]]
    BY DEF Showing
  <2> QED BY <1>1, <2>1, SegLists
<1>4. N \in Nat /\ Segacd!SlotsUsed(v) = 0..(N - 1) /\ Segacd!SlotsUsed(w) = 0..N
  <2>1. N \in Nat /\ Segacd!SlotsUsed(v) = 0..(N - 1) /\ Segacd!SlotsUsed(w) = 0..(w.files - 1)
    BY DEF SegCard, Segacd!SlotsUsed
  <2> QED BY <1>1, <2>1
<1>5. \A s \in 0..(N - 1) : Segacd!Slot(v, s).name # u.name
  BY <1>4 DEF Segacd!InjectCode
<1> HIDE DEF show, next
<1>6. \A s \in 0..N : s = N \/ s \in 0..(N - 1)
  BY <1>4
<1>7. DOMAIN next = DOMAIN show \cup {u.name}
  <2>1. ASSUME NEW m \in DOMAIN next PROVE m \in DOMAIN show \cup {u.name}
    <3>1. PICK s \in 0..N : m = Segacd!Slot(w, s).name
      BY <1>3, <1>4, <2>1
    <3> QED BY <1>1, <1>2, <1>4, <1>6, <3>1
  <2>2. u.name \in DOMAIN next
    BY <1>1, <1>3, <1>4
  <2>3. ASSUME NEW m \in DOMAIN show PROVE m \in DOMAIN next
    <3>1. PICK s \in 0..(N - 1) : m = Segacd!Slot(v, s).name
      BY <1>2, <1>4, <2>3
    <3> QED BY <1>1, <1>3, <1>4, <3>1
  <2> QED BY <2>1, <2>2, <2>3
<1>8. ASSUME NEW m \in DOMAIN next PROVE next[m] = IF m = u.name THEN u.file ELSE show[m]
  <2>1. PICK s \in 0..N : m = Segacd!Slot(w, s).name
    BY <1>3, <1>4, <1>8
  <2>2. next[m] = SegFile(w, s)
    BY <1>3, <1>4, <2>1
  <2> QED BY <1>1, <1>2, <1>4, <1>5, <1>6, <2>1, <2>2
<1> QED
  BY <1>1, <1>3, <1>7, <1>8 DEF w, show, next, With

\* Whatever block is lost, the rest of the volume stays, and what was out of
\* order is so for good.
LEMMA SegDecays ==
  ASSUME NEW v, SegCard(v), NEW b \in Segacd!Block
  PROVE  LET w == Segacd!Decayed(v, b)
         IN  SegCard(w) /\ (Segacd!InOrder(w) => Segacd!InOrder(v))
<1> DEFINE w == Segacd!Decayed(v, b)
<1>1. w.files = v.files /\ w.block = [d \in Segacd!Block |-> IF d = b THEN Segacd!Bad ELSE v.block[d]]
  BY DEF Segacd!Decayed
<1> HIDE DEF w
<1>2. Segacd!SlotsUsed(w) = Segacd!SlotsUsed(v)
  BY <1>1 DEF Segacd!SlotsUsed
<1>3. ASSUME NEW s \in Segacd!SlotsUsed(v), Segacd!Readable(w, s)
      PROVE  Segacd!Readable(v, s) /\ Segacd!Slot(w, s) = Segacd!Slot(v, s)
  <2>1. Segacd!SlotBlock(s) \in Segacd!Block /\ Segacd!SlotBlock(s) # b
    BY <1>1, <1>3 DEF SegCard, Segacd!Readable, Segacd!Bad
  <2>2. w.block[Segacd!SlotBlock(s)] = v.block[Segacd!SlotBlock(s)]
    BY <1>1, <2>1
  <2> QED BY <1>3, <2>2 DEF Segacd!Readable, Segacd!Slot
<1>4. SegacdBlocks \in Nat /\ v.files \in Nat
  BY BoundsSound DEF SegCard
<1>5. ASSUME Segacd!InOrder(w) PROVE Segacd!InOrder(v)
  <2>1. \A s \in Segacd!SlotsUsed(v) : /\ Segacd!Readable(w, s) /\ Segacd!Valid(w, Segacd!Slot(w, s))
                                       /\ Segacd!Slot(w, s).start = Segacd!NextBlock(w, s)
    BY <1>2, <1>5 DEF Segacd!InOrder, Segacd!Live
  <2>2. \A s \in Segacd!SlotsUsed(v) : Segacd!Readable(v, s) /\ Segacd!Slot(w, s) = Segacd!Slot(v, s)
    BY <1>3, <2>1
  <2>3. ASSUME NEW s \in Segacd!SlotsUsed(v) PROVE Segacd!Slot(v, s).start = Segacd!NextBlock(v, s)
    <3>1. s = 0 \/ s - 1 \in Segacd!SlotsUsed(v)
      BY <1>4 DEF Segacd!SlotsUsed
    <3> QED BY <2>1, <2>2, <3>1 DEF Segacd!NextBlock
  <2>4. ASSUME NEW s \in Segacd!SlotsUsed(v) PROVE Segacd!Valid(v, Segacd!Slot(v, s))
    <3> DEFINE e == Segacd!Slot(v, s)
    <3>1. Segacd!Valid(w, e) /\ e.start \in Nat /\ e.blocks \in Nat
      BY <2>1, <2>2 DEF SegCard
    <3>2. Segacd!DataEnd(v.files) \in Int /\ Segacd!DataEnd(v.files) <= SegacdBlocks + 1 /\ Segacd!Held(v.files) \in Nat
      BY <1>4 DEF Segacd!DataEnd, Segacd!DirBlocks, Segacd!Held
    <3> HIDE DEF e
    <3>3. \A d \in e.start..(e.start + e.blocks - 1) : d \in Segacd!Block
      BY <1>1, <1>4, <3>1, <3>2 DEF Segacd!Valid, Segacd!Block
    <3>4. \A d \in Segacd!Block : w.block[d].kind # "bad" => w.block[d] = v.block[d]
      BY <1>1 DEF Segacd!Bad
    <3>5. Segacd!Valid(v, e)
      BY <1>1, <3>1, <3>3, <3>4 DEF Segacd!Valid
    <3> QED BY <3>5 DEF e
  <2> QED BY <2>2, <2>3, <2>4 DEF Segacd!InOrder, Segacd!Live
<1>6. SegCard(w)
  <2>1. \A s \in Segacd!SlotsUsed(v) : Segacd!Readable(w, s) =>
          Segacd!Slot(w, s).start \in Nat /\ Segacd!Slot(w, s).blocks \in Nat
    BY <1>3 DEF SegCard
  <2>2. Segacd!InOrder(w) => \A s \in Segacd!SlotsUsed(v) : Segacd!Slot(w, s) = Segacd!Slot(v, s)
    BY <1>2, <1>3 DEF Segacd!InOrder, Segacd!Live
  <2> QED BY <1>1, <1>2, <1>4, <1>5, <2>1, <2>2 DEF SegCard
<1> QED
  BY <1>5, <1>6 DEF w

\* The volume counts its saves, shows what is on it, and is in order unless
\* it was damaged.
SegInv ==
  format = "segacd" =>
    /\ damage \in Nat
    /\ SegCard(card)
    /\ damage = 0 => Segacd!InOrder(card)
    /\ shown = Showing(Segacd!List(card))

\* A volume that is out of order takes no save and gives none.
LEMMA SegIdle ==
  ASSUME format = "segacd", NEW v, ~Segacd!InOrder(v), NEW n, NEW u
  PROVE  Cleared(v, n) = v /\ InjectCode(v, u) # "OK"
<1>1. InjectCode(v, u) = "UNSUPPORTED"
  BY SegIs DEF Segacd!InjectCode
<1>2. \A b : Remove(v, b) = v
  BY SegIs DEF Segacd!Delete
<1> QED
  BY <1>1, <1>2 DEF Cleared

LEMMA SegPlaces ==
  ASSUME SegInv, format = "segacd", Place
  PROVE  \E u \in Units :
           /\ SegCard(card') /\ Segacd!InOrder(card')
           /\ shown' = Showing(Segacd!List(card'))
           /\ shown' = With(shown, u.name, u.file)
           /\ UNCHANGED damage
<1>1. PICK u \in Units : \E empty \in {Cleared(card, u.name)} :
        /\ PlaceCode(card, empty, u) = "OK"
        /\ Step(Inject(empty, u), List(Inject(empty, u)))
  BY DEF Place
<1> DEFINE empty == Cleared(card, u.name)
<1>2. InjectCode(empty, u) = "OK"
  BY <1>1 DEF PlaceCode
<1>3. Segacd!InOrder(card)
  BY <1>2, SegIdle
<1>4. /\ SegCard(empty) /\ Segacd!InOrder(empty)
      /\ Showing(Segacd!List(empty)) = Without(Showing(Segacd!List(card)), u.name)
  BY <1>2, <1>3, SegClears DEF SegInv
<1>5. Segacd!InjectCode(empty, u) = "OK" /\ Inject(empty, u) = Segacd!Inject(empty, u)
  BY <1>2, SegIs
<1>6. /\ SegCard(Segacd!Inject(empty, u)) /\ Segacd!InOrder(Segacd!Inject(empty, u))
      /\ Showing(Segacd!List(Segacd!Inject(empty, u))) = With(Showing(Segacd!List(empty)), u.name, u.file)
  BY <1>4, <1>5, SegPuts
<1>7. card' = Segacd!Inject(empty, u) /\ shown' = Showing(Segacd!List(Segacd!Inject(empty, u)))
  BY <1>1, <1>5, SegIs DEF Step
<1>8. With(Without(shown, u.name), u.name, u.file) = With(shown, u.name, u.file)
  <2> DEFINE less == Without(shown, u.name)
  <2>1. DOMAIN less = DOMAIN shown \ {u.name} /\ \A m \in DOMAIN less : less[m] = shown[m]
    BY DEF Without
  <2> HIDE DEF less
  <2>2. DOMAIN less \cup {u.name} = DOMAIN shown \cup {u.name}
    BY <2>1
  <2>3. \A m \in DOMAIN shown \cup {u.name} : m # u.name => m \in DOMAIN less
    BY <2>1
  <2>4. With(less, u.name, u.file) = With(shown, u.name, u.file)
    BY <2>1, <2>2, <2>3 DEF With
  <2> QED BY <2>4 DEF less
<1>9. UNCHANGED damage
  BY DEF Place
<1> QED
  BY <1>4, <1>6, <1>7, <1>8, <1>9 DEF SegInv

LEMMA SegTakes ==
  ASSUME SegInv, format = "segacd", TakeOff
  PROVE  \E n \in Names :
           /\ SegCard(card') /\ Segacd!InOrder(card')
           /\ shown' = Showing(Segacd!List(card'))
           /\ n \in DOMAIN shown /\ shown' = Without(shown, n)
           /\ UNCHANGED damage
<1>1. PICK n \in Names : Cleared(card, n) # card /\ Step(Cleared(card, n), List(Cleared(card, n)))
  BY DEF TakeOff
<1>2. Segacd!InOrder(card)
  BY <1>1, SegIdle
<1> DEFINE w == Cleared(card, n)
<1>3. /\ SegCard(w) /\ Segacd!InOrder(w)
      /\ Showing(Segacd!List(w)) = Without(Showing(Segacd!List(card)), n)
      /\ n \in DOMAIN Showing(Segacd!List(card))
  BY <1>1, <1>2, SegClears DEF SegInv
<1>4. card' = w /\ shown' = Showing(Segacd!List(w))
  BY <1>1, SegIs DEF Step
<1>5. UNCHANGED damage
  BY DEF TakeOff
<1> QED
  BY <1>3, <1>4, <1>5 DEF SegInv

LEMMA SegLoses ==
  ASSUME SegInv, format = "segacd", SegacdDecay
  PROVE  /\ SegCard(card')
         /\ shown' = Showing(Segacd!List(card'))
         /\ damage' = damage + 1
<1>1. PICK b \in Segacd!Block : Harm(Segacd!Decayed(card, b), Segacd!List(Segacd!Decayed(card, b)))
  BY DEF SegacdDecay
<1>2. SegCard(Segacd!Decayed(card, b))
  BY SegDecays DEF SegInv
<1> QED
  BY <1>1, <1>2 DEF Harm, Step

LEMMA SegStep ==
  ASSUME SegInv, [Next]_vars
  PROVE  SegInv'
<1> SUFFICES ASSUME format = "segacd", format' = "segacd"
             PROVE  /\ damage' \in Nat
                    /\ SegCard(card')
                    /\ damage' = 0 => Segacd!InOrder(card')
                    /\ shown' = Showing(Segacd!List(card'))
  BY FormatStays DEF SegInv
<1>1. CASE Place
  BY <1>1, SegPlaces DEF SegInv
<1>2. CASE TakeOff
  BY <1>2, SegTakes DEF SegInv
<1>3. CASE SegacdDecay
  BY <1>3, SegLoses DEF SegInv
<1>4. CASE UNCHANGED vars
  BY <1>4 DEF vars, SegInv
<1>5. ~WriteRepaired
  BY SegIs DEF WriteRepaired
<1> QED
  BY <1>1, <1>2, <1>3, <1>4, <1>5
     DEF Next, Restores, Damages, Ps1Link, VmuLink, VmuUnwritten, GamecubeTorn, SaturnDecay, Ps2Link, ConsoleSaves

LEMMA SegHolds == Spec => []SegInv
<1>1. Init => SegInv
  <2> SUFFICES ASSUME Init, format = "segacd"
               PROVE  /\ damage \in Nat
                      /\ SegCard(card)
                      /\ damage = 0 => Segacd!InOrder(card)
                      /\ shown = Showing(Segacd!List(card))
    BY DEF SegInv
  <2>1. card = Segacd!Format /\ shown = <<>> /\ damage = 0
    BY DEF Init, Formatted
  <2>2. card.files = 0
    BY <2>1 DEF Segacd!Format
  <2>3. Segacd!SlotsUsed(card) = {}
    BY <2>2 DEF Segacd!SlotsUsed
  <2>4. Segacd!List(card) = {}
    BY <2>3 DEF Segacd!List, Segacd!Live
  <2> QED BY <2>1, <2>2, <2>3, <2>4, ShowsNone DEF SegCard, Segacd!InOrder
<1> QED
  BY <1>1, SegStep, PTL DEF Spec

\* Whatever a Sega CD volume went through, a restore changes only the save
\* it is for.
THEOREM SegacdKeepsSaves == format = "segacd" /\ Spec => SavesKept
<1>1. format = "segacd" /\ Init => CardIsSaves!Init
  BY DEF Init, CardIsSaves!Init
<1>2. ASSUME format = "segacd", SegInv, [Next]_vars
      PROVE  [CardIsSaves!Next]_<<shown, damage>>
  <2>1. CASE Place
    <3>1. PICK u \in Units : shown' = With(shown, u.name, u.file) /\ UNCHANGED damage
      BY <1>2, <2>1, SegPlaces
    <3>2. CardIsSaves!Put(u.name, u.file)
      BY <3>1 DEF CardIsSaves!Put, With
    <3>3. u.name \in Names /\ u.file \in {w.file : w \in Units}
      BY UnitsHaveFiles
    <3> QED BY <3>2, <3>3 DEF CardIsSaves!Next
  <2>2. CASE TakeOff
    <3>1. PICK n \in Names : n \in DOMAIN shown /\ shown' = Without(shown, n) /\ UNCHANGED damage
      BY <1>2, <2>2, SegTakes
    <3>2. CardIsSaves!TakeOff(n)
      BY <3>1 DEF CardIsSaves!TakeOff, CardIsSaves!Restrict, Without
    <3> QED BY <3>2 DEF CardIsSaves!Next
  <2>3. CASE SegacdDecay
    BY <1>2, <2>3, SegLoses DEF CardIsSaves!Next, CardIsSaves!Damage
  <2>4. CASE UNCHANGED vars
    BY <2>4 DEF vars
  <2>5. ~WriteRepaired
    BY <1>2, SegIs DEF WriteRepaired
  <2> QED
    BY <1>2, <2>1, <2>2, <2>3, <2>4, <2>5
       DEF Next, Restores, Damages, Ps1Link, VmuLink, VmuUnwritten, GamecubeTorn, SaturnDecay, Ps2Link, ConsoleSaves
<1>3. format = "segacd" /\ [Next]_vars => (format = "segacd")'
  BY FormatStays
<1> QED
  BY <1>1, <1>2, <1>3, SegHolds, PTL DEF Spec, SavesKept, CardIsSaves!Spec

\* sync_units.c:672: on a volume without damage a restore that has the blocks
\* goes through, verifies, and reads back as it was.
THEOREM SegacdPlacesServe == Spec => [](format = "segacd" => PlacesServe)
<1>1. SegInv => (format = "segacd" => PlacesServe)
  <2> SUFFICES ASSUME SegInv, format = "segacd", damage = 0, NEW u \in Units, Fitting(u)
               PROVE  Serves(Cleared(card, u.name), PlaceCode(card, Cleared(card, u.name), u),
                             Inject(Cleared(card, u.name), u), u)
    BY DEF PlacesServe, Sound
  <2> DEFINE empty == Cleared(card, u.name)
             code == PlaceCode(card, empty, u)
             w == Segacd!Inject(empty, u)
  <2>1. SegCard(card) /\ Segacd!InOrder(card)
    BY DEF SegInv
  <2>2. /\ SegCard(empty) /\ Segacd!InOrder(empty)
        /\ \A s \in Segacd!SlotsUsed(empty) : Segacd!Slot(empty, s).name # u.name
    BY <2>1, SegClears
  <2>3. Corrupt(card) = {}
    BY <2>1, SegLists, SegIs
  <2> HIDE DEF empty
  <2>4. Named(empty, u.name) = {}
    <3>1. Segacd!List(empty) = {SegShown(empty, s) : s \in Segacd!SlotsUsed(empty)}
      BY <2>2, SegLists
    <3>2. \A s : SegShown(empty, s).name = Segacd!Slot(empty, s).name
      BY DEF SegShown
    <3> QED BY <2>2, <3>1, <3>2, SegIs DEF Named
  <2>5. code = Segacd!InjectCode(empty, u)
    BY <2>3, <2>4, SegIs DEF PlaceCode
  <2>6. code = IF Segacd!FreeBlocks(empty) < Segacd!Cost(empty, u) THEN "NO_SPACE" ELSE "OK"
    BY <2>2, <2>5 DEF Segacd!InjectCode
  <2>7. code = "NO_SPACE" => FreeBlocks(empty) < Cost(empty, u)
    <3> HIDE DEF code
    <3> QED BY <2>6, SegIs
  <2>8. ASSUME code = "OK"
        PROVE  Verify(w, u) /\ \E e \in Named(w, u.name) : e.file = u.file
    <3>1. /\ SegCard(w) /\ Segacd!InOrder(w)
          /\ w.files = empty.files + 1
          /\ Segacd!Slot(w, empty.files).name = u.name /\ SegFile(w, empty.files) = u.file
      BY <2>2, <2>5, <2>8, SegInjects
    <3> HIDE DEF w
    <3> DEFINE n == empty.files
    <3>2. n \in Segacd!SlotsUsed(w) /\ Segacd!SlotsUsed(w) = 0..n /\ n \in Nat
      <4>1. n \in Nat
        BY <2>2 DEF SegCard
      <4> QED BY <3>1, <4>1 DEF Segacd!SlotsUsed
    <3>3. Segacd!List(w) = {SegShown(w, s) : s \in Segacd!SlotsUsed(w)}
      BY <3>1, SegLists
    <3>4. SegShown(w, n) \in Named(w, u.name) /\ SegShown(w, n).file = u.file
      BY <3>1, <3>2, <3>3, SegIs DEF Named, SegShown
    <3>5. Segacd!Verify(w, u)
      <4>1. Segacd!Live(w) = Segacd!SlotsUsed(w)
        BY <3>1 DEF Segacd!InOrder, Segacd!Live
      <4>2. ASSUME NEW r \in Segacd!Live(w), Segacd!Slot(w, r).start = Segacd!Slot(w, n).start PROVE r >= n
        <5>1. r \in 0..n /\ SegStart(w, r) = SegStart(w, n)
          BY <3>2, <4>1, <4>2 DEF SegStart
        <5>2. r < n => SegStart(w, r) + SegSize(w, r) <= SegStart(w, n) /\ SegStart(w, r) \in Nat /\ SegSize(w, r) \in Nat \ {0}
          BY <3>1, <3>2, <5>1, SegOrdered
        <5> QED BY <3>2, <5>1, <5>2
      <4> QED BY <3>1, <3>2, <4>1, <4>2 DEF Segacd!Verify, SegFile
    <3> QED BY <3>4, <3>5, SegIs
  <2>9. Inject(empty, u) = w
    BY SegIs
  <2> HIDE DEF code, w
  <2>10. code \in {"OK", "NO_SPACE"}
    BY <2>6
  <2>11. Serves(empty, code, w, u)
    BY <2>7, <2>8, <2>10 DEF Serves
  <2> QED BY <2>9, <2>11 DEF empty, code
<1> QED
  BY <1>1, SegHolds, PTL

\* The blocks between the first and the end of the saves are one save's each.
LEMMA SegHolding ==
  ASSUME SegInv, format = "segacd", Segacd!InOrder(card)
  PROVE  Cardinality(Holding) = SegEnd(card) - 1
<1> DEFINE N == card.files
           name(s) == Segacd!Slot(card, s).name
           end == SegEnd(card)
<1>1. /\ N \in Nat /\ Segacd!SlotsUsed(card) = 0..(N - 1)
      /\ SegCard(card) /\ shown = Showing(Segacd!List(card))
  BY DEF SegInv, SegCard, Segacd!SlotsUsed
<1>2. /\ \A s \in 0..(N - 1) : /\ SegStart(card, s) \in Nat \ {0} /\ SegSize(card, s) \in Nat \ {0}
                              /\ SegStart(card, s) + SegSize(card, s) <= end
      /\ \A s, t \in 0..(N - 1) : s < t => SegStart(card, s) + SegSize(card, s) <= SegStart(card, t)
      /\ end \in Nat \ {0}
  BY <1>1, SegOrdered
<1>3. /\ DOMAIN shown = {name(s) : s \in 0..(N - 1)}
      /\ \A s \in 0..(N - 1) : shown[name(s)] = SegFile(card, s)
      /\ \A s, t \in 0..(N - 1) : name(s) = name(t) => s = t
  <2>1. /\ DOMAIN shown = {name(s) : s \in 0..(N - 1)}
        /\ \A s \in 0..(N - 1) : shown[name(s)] = SegFile(card, s)
    BY <1>1, SegLists
  <2>2. \A s, t \in 0..(N - 1) : name(s) = name(t) => s = t
    BY <1>1 DEF SegCard
  <2> QED BY <2>1, <2>2
<1>4. \A file : Held(file) = Len(file)
  BY DEF Held
<1>5. \A s \in 0..(N - 1) : Held(shown[name(s)]) = SegSize(card, s)
  <2> SUFFICES ASSUME NEW s \in 0..(N - 1) PROVE Len(SegFile(card, s)) = SegSize(card, s)
    BY <1>3, <1>4
  <2>1. SegSize(card, s) \in Nat
    BY <1>2
  <2>2. SegFile(card, s) = [i \in 1..SegSize(card, s) |-> Segacd!Piece(card.block[Segacd!Slot(card, s).start + i - 1])]
    BY DEF SegFile, Segacd!Contents, SegSize
  <2> QED BY <2>1, <2>2
<1> HIDE DEF name
<1>6. \A p : p \in Holding <=> \E s \in 0..(N - 1) : \E i \in 1..SegSize(card, s) : p = <<name(s), i>>
  <2>1. \A p : p \in Holding <=> \E n \in DOMAIN shown : \E i \in 1..Held(shown[n]) : p = <<n, i>>
    BY DEF Holding
  <2>2. \A s \in 0..(N - 1) : name(s) \in DOMAIN shown
    BY <1>3
  <2>3. \A n \in DOMAIN shown : \E s \in 0..(N - 1) : n = name(s)
    BY <1>3
  <2> QED BY <1>5, <2>1, <2>2, <2>3
<1> DEFINE In(b, s) == SegStart(card, s) <= b /\ b < SegStart(card, s) + SegSize(card, s)
           At(b) == CHOOSE s \in 0..(N - 1) : In(b, s)
           f == [b \in 1..(end - 1) |-> <<name(At(b)), b - SegStart(card, At(b)) + 1>>]
<1>7. ASSUME NEW b \in 1..(end - 1)
      PROVE  \E s \in 0..(N - 1) : In(b, s)
  <2>1. \A t \in 0..(N - 1) : SegStart(card, t) = Segacd!NextBlock(card, t)
    BY <1>1 DEF Segacd!InOrder, SegStart
  <2>2. \A t \in 1..(N - 1) : SegStart(card, t) = SegStart(card, t - 1) + SegSize(card, t - 1)
    BY <1>1, <2>1 DEF Segacd!NextBlock, SegStart, SegSize
  <2>3. 0 \in 0..(N - 1) => SegStart(card, 0) = 1
    BY <1>1, <2>1 DEF Segacd!NextBlock
  <2>4. N # 0 /\ end = SegStart(card, N - 1) + SegSize(card, N - 1)
    <3>1. N # 0
      BY <1>2 DEF SegEnd, Segacd!NextBlock
    <3> QED BY <3>1 DEF SegEnd, Segacd!NextBlock, SegStart, SegSize
  <2> DEFINE S == {s \in 0..(N - 1) : b < SegStart(card, s) + SegSize(card, s)}
  <2>5. S \in SUBSET Nat /\ N - 1 \in S
    BY <1>1, <1>2, <2>4
  <2>6. PICK s \in S : \A t \in S : ~(t < s)
    <3> HIDE DEF S
    <3> QED BY <2>5, HasLeast
  <2>7. SegStart(card, s) <= b
    <3>1. CASE s = 0
      BY <1>1, <2>3, <2>6, <3>1
    <3>2. CASE s # 0
      <4>1. s \in 1..(N - 1) /\ s - 1 \in 0..(N - 1) /\ s - 1 < s
        BY <1>1, <2>6, <3>2
      <4>2. ~(b < SegStart(card, s - 1) + SegSize(card, s - 1))
        BY <2>6, <4>1
      <4>3. SegStart(card, s) = SegStart(card, s - 1) + SegSize(card, s - 1)
        BY <2>2, <4>1
      <4>4. SegStart(card, s) \in Nat
        BY <1>2, <2>6
      <4> QED BY <1>2, <4>1, <4>2, <4>3, <4>4
    <3> QED BY <3>1, <3>2
  <2> QED BY <2>6, <2>7
<1>8. ASSUME NEW s \in 0..(N - 1), NEW t \in 0..(N - 1), NEW b \in Nat, In(b, s), In(b, t)
      PROVE  s = t
  BY <1>2, <1>8
<1>9. \A b \in 1..(end - 1) : At(b) \in 0..(N - 1) /\ In(b, At(b))
  <2> HIDE DEF In
  <2> QED BY <1>7
<1>10. ASSUME NEW s \in 0..(N - 1), NEW i \in 1..SegSize(card, s)
       PROVE  /\ SegStart(card, s) + i - 1 \in 1..(end - 1)
              /\ f[SegStart(card, s) + i - 1] = <<name(s), i>>
  <2> DEFINE b == SegStart(card, s) + i - 1
  <2>1. b \in 1..(end - 1) /\ b \in Nat /\ In(b, s) /\ b - SegStart(card, s) + 1 = i
    BY <1>2
  <2> HIDE DEF In, b, At
  <2>2. At(b) = s
    BY <1>8, <1>9, <2>1
  <2>3. f[b] = <<name(s), i>>
    BY <2>1, <2>2
  <2> QED BY <2>1, <2>3 DEF b
<1> HIDE DEF f
<1>11. f \in Bijection(1..(end - 1), Holding)
  <2>1. DOMAIN f = 1..(end - 1) /\ f = [b \in 1..(end - 1) |-> f[b]]
    <3> DEFINE value(b) == <<name(At(b)), b - SegStart(card, At(b)) + 1>>
    <3>1. f = [b \in 1..(end - 1) |-> value(b)]
      BY DEF f
    <3> HIDE DEF value, f
    <3> QED BY <3>1
  <2>2. \A b \in 1..(end - 1) : \E s \in 0..(N - 1) : \E i \in 1..SegSize(card, s) :
          b = SegStart(card, s) + i - 1 /\ f[b] = <<name(s), i>>
    <3> SUFFICES ASSUME NEW b \in 1..(end - 1)
                 PROVE  \E s \in 0..(N - 1) : \E i \in 1..SegSize(card, s) :
                          b = SegStart(card, s) + i - 1 /\ f[b] = <<name(s), i>>
      OBVIOUS
    <3>1. PICK s \in 0..(N - 1) : In(b, s)
      BY <1>7
    <3>2. b - SegStart(card, s) + 1 \in 1..SegSize(card, s) /\ b = SegStart(card, s) + (b - SegStart(card, s) + 1) - 1
      BY <1>2, <3>1
    <3> QED BY <1>10, <3>2
  <2>3. f \in [1..(end - 1) -> Holding]
    BY <1>6, <2>1, <2>2
  <2>4. ASSUME NEW b \in 1..(end - 1), NEW d \in 1..(end - 1), f[b] = f[d] PROVE b = d
    <3>1. PICK s \in 0..(N - 1) : \E i \in 1..SegSize(card, s) : b = SegStart(card, s) + i - 1 /\ f[b] = <<name(s), i>>
      BY <2>2
    <3>2. PICK i \in 1..SegSize(card, s) : b = SegStart(card, s) + i - 1 /\ f[b] = <<name(s), i>>
      BY <3>1
    <3>3. PICK t \in 0..(N - 1) : \E j \in 1..SegSize(card, t) : d = SegStart(card, t) + j - 1 /\ f[d] = <<name(t), j>>
      BY <2>2
    <3>4. PICK j \in 1..SegSize(card, t) : d = SegStart(card, t) + j - 1 /\ f[d] = <<name(t), j>>
      BY <3>3
    <3>5. name(s) = name(t) /\ i = j
      BY <2>4, <3>2, <3>4
    <3>6. s = t
      BY <1>3, <3>5
    <3> QED BY <3>2, <3>4, <3>5, <3>6
  <2>5. \A p \in Holding : \E b \in 1..(end - 1) : f[b] = p
    BY <1>6, <1>10
  <2> HIDE DEF end
  <2> QED BY <2>3, <2>4, <2>5, Fun_IsBij
<1>12. IsFiniteSet(1..(end - 1)) /\ Cardinality(1..(end - 1)) = end - 1
  <2>1. end - 1 \in Int /\ 1 \in Int /\ (1 > end - 1 => end - 1 = 0)
    BY <1>2
  <2>2. /\ IsFiniteSet(1..(end - 1))
        /\ Cardinality(1..(end - 1)) = IF 1 > end - 1 THEN 0 ELSE (end - 1) - 1 + 1
    BY <2>1, FS_Interval
  <2> QED BY <1>2, <2>1, <2>2
<1>13. ExistsBijection(1..(end - 1), Holding)
  BY <1>11 DEF ExistsBijection
<1> HIDE DEF end
<1> QED
  BY <1>12, <1>13, FS_Bijection DEF end

\* sync_units.c:641: on a volume without damage every block is free, one
\* save's or the directory's.
THEOREM SegacdAccounts == Spec => [](format = "segacd" => BlocksAccounted)
<1>1. SegInv => (format = "segacd" => BlocksAccounted)
  <2> SUFFICES ASSUME SegInv, format = "segacd", damage = 0
               PROVE  Corrupt(card) = {} /\ Cardinality(Holding) + DirectoryBlocks + FreeBlocks(card) = AllBlocks
    BY DEF BlocksAccounted, Sound
  <2>1. SegCard(card) /\ Segacd!InOrder(card)
    BY DEF SegInv
  <2>2. Corrupt(card) = {}
    BY <2>1, SegLists, SegIs
  <2> DEFINE files == card.files
             end == SegEnd(card)
  <2>3. /\ files \in Nat /\ end \in Nat \ {0} /\ end + Segacd!Held(files) <= Segacd!DataEnd(files)
        /\ SegacdBlocks \in Nat
    BY <2>1, SegOrdered, BoundsSound DEF SegCard
  <2>4. DirectoryBlocks = 1 + (files \div 2) /\ AllBlocks = SegacdBlocks
    BY DEF DirectoryBlocks, AllBlocks
  <2>5. FreeBlocks(card) = Segacd!BiosFree(files, end)
    BY <2>1, SegIs DEF Segacd!FreeBlocks, SegEnd
  <2>6. Segacd!BiosFree(files, end) + end + (files \div 2) = SegacdBlocks
    <3>1. PICK k \in Nat : files = 2 * k \/ files = 2 * k + 1
      <4>1. files \div 2 \in Nat /\ (files = 2 * (files \div 2) \/ files = 2 * (files \div 2) + 1)
        BY <2>3
      <4> QED BY <4>1
    <3> HIDE DEF files, end
    <3>2. CASE files = 2 * k
      <4>1. files % 2 = 0 /\ files \div 2 = k /\ (files + 1) \div 2 = k
        BY <3>2
      <4> QED BY <2>3, <4>1 DEF Segacd!BiosFree, Segacd!Held, Segacd!DataEnd, Segacd!DirBlocks
    <3>3. CASE files = 2 * k + 1
      <4>1. files % 2 = 1 /\ files \div 2 = k /\ (files + 1) \div 2 = k + 1
        BY <3>3
      <4> QED BY <2>3, <4>1 DEF Segacd!BiosFree, Segacd!Held, Segacd!DataEnd, Segacd!DirBlocks
    <3> QED BY <3>1, <3>2, <3>3
  <2>7. Cardinality(Holding) = end - 1
    BY <2>1, SegHolding
  <2>8. Segacd!BiosFree(files, end) \in Int /\ files \div 2 \in Nat
    BY <2>3 DEF Segacd!BiosFree, Segacd!Held, Segacd!DataEnd, Segacd!DirBlocks
  <2> HIDE DEF files, end
  <2> QED BY <2>2, <2>3, <2>4, <2>5, <2>6, <2>7, <2>8
<1> QED
  BY <1>1, SegHolds, PTL

----------------------------------------------------------------------------
(* Chains of blocks, on the cards that link them in a table. *)

\* Where the n-th link leads.
HopsTo(link, first, n, hop) ==
  hop = [i \in 0..n |-> IF i = 0 THEN first ELSE IF hop[i - 1] \in DOMAIN link THEN link[hop[i - 1]] ELSE hop[i - 1]]

LEMMA HopsExist ==
  ASSUME NEW link, NEW first, NEW n \in Nat
  PROVE  \E hop : HopsTo(link, first, n, hop)
<1> DEFINE S == {k \in Nat : ~\E hop : HopsTo(link, first, k, hop)}
<1> SUFFICES ASSUME S # {} PROVE FALSE
  OBVIOUS
<1>1. PICK k \in S : \A m \in S : ~(m < k)
  <2>1. S \in SUBSET Nat
    OBVIOUS
  <2> HIDE DEF S
  <2> QED BY <2>1, HasLeast
<1>2. CASE k = 0
  <2> DEFINE hop == [i \in 0..0 |-> first]
  <2>1. \A i \in 0..0 : i = 0 /\ hop[i] = first
    OBVIOUS
  <2>2. HopsTo(link, first, 0, hop)
    BY <2>1 DEF HopsTo
  <2> QED BY <1>1, <1>2, <2>2
<1>3. CASE k # 0
  <2>1. k - 1 \in Nat /\ k - 1 < k /\ k \in Nat
    BY <1>1, <1>3
  <2>2. PICK hop : HopsTo(link, first, k - 1, hop)
    BY <1>1, <2>1
  <2> DEFINE next == IF hop[k - 1] \in DOMAIN link THEN link[hop[k - 1]] ELSE hop[k - 1]
             more == [i \in 0..k |-> IF i = k THEN next ELSE hop[i]]
  <2>3. \A i \in 0..(k - 1) : more[i] = hop[i] /\ i \in 0..k /\ i # k
    BY <2>1
  <2>4. \A i \in 0..k : i # 0 => i - 1 \in 0..(k - 1)
    BY <2>1
  <2>5. \A i \in 0..k : i # k => i \in 0..(k - 1)
    BY <2>1
  <2>6. \A i \in 0..(k - 1) :
          hop[i] = IF i = 0 THEN first ELSE IF hop[i - 1] \in DOMAIN link THEN link[hop[i - 1]] ELSE hop[i - 1]
    BY <2>2 DEF HopsTo
  <2>7. \A i \in 0..k :
          more[i] = IF i = 0 THEN first ELSE IF more[i - 1] \in DOMAIN link THEN link[more[i - 1]] ELSE more[i - 1]
    <3> SUFFICES ASSUME NEW i \in 0..k
                 PROVE  more[i] = IF i = 0 THEN first
                                  ELSE IF more[i - 1] \in DOMAIN link THEN link[more[i - 1]] ELSE more[i - 1]
      OBVIOUS
    <3>1. CASE i = k
      <4>1. more[i] = next /\ i # 0 /\ more[i - 1] = hop[k - 1]
        BY <1>3, <2>1, <2>3, <2>4, <3>1
      <4> HIDE DEF more
      <4> QED BY <4>1
    <3>2. CASE i # k
      <4>1. i \in 0..(k - 1) /\ more[i] = hop[i]
        BY <2>3, <2>5, <3>2
      <4>2. i # 0 => more[i - 1] = hop[i - 1]
        BY <2>3, <2>4
      <4> HIDE DEF more
      <4> QED BY <2>6, <4>1, <4>2
    <3> QED BY <3>1, <3>2
  <2>8. more = [i \in 0..k |-> more[i]]
    OBVIOUS
  <2>9. HopsTo(link, first, k, more)
    <3> HIDE DEF more
    <3> QED BY <2>7, <2>8 DEF HopsTo
  <2> QED BY <1>1, <2>9
<1> QED
  BY <1>2, <1>3

LEMMA HopsDefined ==
  ASSUME NEW link, NEW first, IsFiniteSet(DOMAIN link)
  PROVE  HopsTo(link, first, Cardinality(DOMAIN link), Hops(link, first))
<1>1. Cardinality(DOMAIN link) \in Nat
  BY FS_CardinalityType
<1>2. \E hop : HopsTo(link, first, Cardinality(DOMAIN link), hop)
  BY <1>1, HopsExist
<1>3. Hops(link, first) = CHOOSE hop : HopsTo(link, first, Cardinality(DOMAIN link), hop)
  BY DEF Hops, HopsTo
<1> QED
  BY <1>2, <1>3

\* The blocks of a chain in order: each links to the next, the last to end.
Path(link, end, order) ==
  /\ order \in Seq(DOMAIN link) /\ order # <<>>
  /\ \A i \in 1..(Len(order) - 1) : link[order[i]] = order[i + 1]
  /\ link[order[Len(order)]] = end

LEMMA PathIs ==
  ASSUME NEW link, NEW end, NEW order, Path(link, end, order)
  PROVE  /\ Len(order) \in Nat \ {0}
         /\ \A i \in 1..Len(order) : order[i] \in DOMAIN link
         /\ order = [i \in 1..Len(order) |-> order[i]]
         /\ order[1] \in DOMAIN link
  BY DEF Path

\* A chain comes to no block twice.
LEMMA PathInjective ==
  ASSUME NEW link, NEW end, NEW order, Path(link, end, order), end \notin DOMAIN link
  PROVE  \A i, j \in 1..Len(order) : order[i] = order[j] => i = j
<1> DEFINE n == Len(order)
<1>1. n \in Nat \ {0} /\ \A i \in 1..n : order[i] \in DOMAIN link
  BY PathIs
<1>2. \A i \in 1..n : i # n => link[order[i]] = order[i + 1] /\ i + 1 \in 1..n
  BY <1>1 DEF Path
<1>3. link[order[n]] = end
  BY DEF Path
<1> HIDE DEF n
<1>4. ASSUME NEW i \in 1..n, NEW j \in 1..n, order[i] = order[j], i < j PROVE FALSE
  <2> DEFINE S == {d \in 0..(n - j) : order[i + d] # order[j + d]}
  <2>1. ASSUME S # {} PROVE FALSE
    <3>1. PICK d \in S : \A m \in S : ~(m < d)
      <4>1. S \in SUBSET Nat
        BY <1>1
      <4> HIDE DEF S
      <4> QED BY <2>1, <4>1, HasLeast
    <3>2. d # 0
      BY <1>4, <3>1
    <3>3. d - 1 \in 0..(n - j) /\ d - 1 < d
      BY <1>1, <3>1, <3>2
    <3>4. order[i + (d - 1)] = order[j + (d - 1)]
      BY <3>1, <3>3
    <3>5. i + (d - 1) \in 1..n /\ j + (d - 1) \in 1..n /\ i + (d - 1) # n /\ j + (d - 1) # n
          /\ (i + (d - 1)) + 1 = i + d /\ (j + (d - 1)) + 1 = j + d
      BY <1>1, <1>4, <3>1, <3>3
    <3>6. link[order[i + (d - 1)]] = order[i + d] /\ link[order[j + (d - 1)]] = order[j + d]
      BY <1>2, <3>5
    <3> QED BY <3>1, <3>4, <3>6
  <2>2. n - j \in 0..(n - j) /\ j + (n - j) = n /\ i + (n - j) \in 1..n /\ i + (n - j) # n
    BY <1>1, <1>4
  <2>3. order[i + (n - j)] = order[n]
    BY <2>1, <2>2
  <2>4. link[order[i + (n - j)]] \in DOMAIN link
    BY <1>1, <1>2, <2>2
  <2> QED BY <1>3, <2>3, <2>4
<1> QED
  BY <1>1, <1>4 DEF n

\* A chain from a block is the one path from it, if there is one.
LEMMA ChainIsPath ==
  ASSUME NEW link, NEW end, NEW first, IsFiniteSet(DOMAIN link), end \notin DOMAIN link,
         Chain(link, end, first) # <<>>
  PROVE  Path(link, end, Chain(link, end, first)) /\ Chain(link, end, first)[1] = first
<1> DEFINE K == Cardinality(DOMAIN link)
           hop == Hops(link, first)
           Stops(i) == hop[i] = end /\ (i = 0 \/ hop[i - 1] # end)
           n == CHOOSE i \in DOMAIN hop : Stops(i)
           order == Chain(link, end, first)
<1>1. K \in Nat
  BY FS_CardinalityType
<1>2. /\ DOMAIN hop = 0..K /\ hop[0] = first
      /\ \A i \in 0..K : i # 0 => hop[i] = IF hop[i - 1] \in DOMAIN link THEN link[hop[i - 1]] ELSE hop[i - 1]
  <2>1. HopsTo(link, first, K, hop)
    BY HopsDefined
  <2> HIDE DEF hop, K
  <2> QED BY <1>1, <2>1 DEF HopsTo
<1>3. order = IF \E i \in DOMAIN hop : Stops(i) THEN [i \in 1..n |-> hop[i - 1]] ELSE <<>>
  BY DEF Chain, Until, Ends
<1> HIDE DEF hop, K, order
<1>4. n \in 0..K /\ Stops(n) /\ order = [i \in 1..n |-> hop[i - 1]]
  <2>1. \E i \in DOMAIN hop : Stops(i)
    BY <1>3 DEF order
  <2> QED BY <1>2, <1>3, <2>1
<1>5. n # 0
  <2> SUFFICES ASSUME n = 0 PROVE order = <<>>
    BY DEF order
  <2> HIDE DEF n
  <2>1. order = [i \in 1..0 |-> hop[i - 1]]
    BY <1>4
  <2> QED BY <2>1
<1> HIDE DEF n
<1>6. ASSUME NEW k \in 0..(n - 1) PROVE hop[k] \in DOMAIN link
  <2> SUFFICES ASSUME hop[k] \notin DOMAIN link PROVE FALSE
    OBVIOUS
  <2> DEFINE S == {m \in 0..K : k <= m /\ hop[m] # hop[k]}
  <2>1. ASSUME S # {} PROVE FALSE
    <3>1. PICK m \in S : \A l \in S : ~(l < m)
      <4>1. S \in SUBSET Nat
        BY <1>1
      <4> HIDE DEF S
      <4> QED BY <2>1, <4>1, HasLeast
    <3>2. m # k /\ m \in 0..K /\ m # 0 /\ m - 1 \in 0..K /\ k <= m - 1 /\ m - 1 < m
      BY <1>1, <1>4, <3>1
    <3>3. hop[m - 1] = hop[k]
      BY <3>1, <3>2
    <3> QED BY <1>2, <3>1, <3>2, <3>3
  <2>2. n - 1 \in 0..K /\ k <= n - 1 /\ k <= n
    BY <1>1, <1>4, <1>5
  <2>3. hop[n - 1] = hop[k] /\ hop[n] = hop[k]
    BY <1>4, <2>1, <2>2
  <2> QED BY <1>4, <1>5, <2>3
<1>7. Len(order) = n /\ n \in Nat \ {0} /\ \A i \in 1..n : order[i] = hop[i - 1] /\ i - 1 \in 0..(n - 1)
  BY <1>1, <1>4, <1>5
<1>8. order \in Seq(DOMAIN link) /\ order # <<>>
  <2>1. \A i \in 1..n : order[i] \in DOMAIN link
    BY <1>6, <1>7
  <2>2. order = [i \in 1..n |-> order[i]]
    BY <1>4
  <2>3. order \in Seq(DOMAIN link)
    BY <1>7, <2>1, <2>2
  <2>4. order # <<>>
    BY <1>7
  <2> QED BY <2>3, <2>4
<1>9. ASSUME NEW i \in 1..n PROVE link[order[i]] = hop[i]
  <2>1. hop[i - 1] \in DOMAIN link /\ order[i] = hop[i - 1] /\ i \in 0..K /\ i # 0
    BY <1>1, <1>4, <1>6, <1>7
  <2> QED BY <1>2, <2>1
<1>10. \A i \in 1..(Len(order) - 1) : link[order[i]] = order[i + 1]
  <2>1. \A i \in 1..(n - 1) : i \in 1..n /\ i + 1 \in 1..n /\ (i + 1) - 1 = i
    BY <1>7
  <2> QED BY <1>7, <1>9, <2>1
<1>11. link[order[Len(order)]] = end
  BY <1>4, <1>7, <1>9
<1>12. order[1] = first
  BY <1>2, <1>7
<1> QED
  BY <1>8, <1>10, <1>11, <1>12 DEF Path, order

LEMMA PathIsChain ==
  ASSUME NEW link, NEW end, NEW order, IsFiniteSet(DOMAIN link), end \notin DOMAIN link,
         Path(link, end, order)
  PROVE  Chain(link, end, order[1]) = order
<1> DEFINE K == Cardinality(DOMAIN link)
           first == order[1]
           hop == Hops(link, first)
           Stops(i) == hop[i] = end /\ (i = 0 \/ hop[i - 1] # end)
           n == Len(order)
<1>1. K \in Nat
  BY FS_CardinalityType
<1>2. /\ DOMAIN hop = 0..K /\ hop[0] = first
      /\ \A i \in 0..K : i # 0 => hop[i] = IF hop[i - 1] \in DOMAIN link THEN link[hop[i - 1]] ELSE hop[i - 1]
  <2>1. HopsTo(link, first, K, hop)
    BY HopsDefined
  <2> HIDE DEF hop, K
  <2> QED BY <1>1, <2>1 DEF HopsTo
<1>3. Chain(link, end, first) = IF \E i \in DOMAIN hop : Stops(i)
                                THEN [i \in 1..(CHOOSE i \in DOMAIN hop : Stops(i)) |-> hop[i - 1]] ELSE <<>>
  BY DEF Chain, Until, Ends
<1>4. /\ n \in Nat \ {0} /\ \A i \in 1..n : order[i] \in DOMAIN link
      /\ order = [i \in 1..n |-> order[i]]
  BY PathIs
<1>5. n <= K
  <2>1. order \in [1..n -> DOMAIN link]
    <3> HIDE DEF n
    <3> QED BY <1>4
  <2>2. \A i, j \in 1..n : order[i] = order[j] => i = j
    BY PathInjective
  <2>3. order \in Injection(1..n, DOMAIN link)
    BY <2>1, <2>2, Fun_IsInj
  <2>4. IsFiniteSet(1..n) /\ Cardinality(1..n) = n
    <3> HIDE DEF n
    <3>1. 1 \in Int /\ n \in Int /\ ~(1 > n) /\ n - 1 + 1 = n
      BY <1>4
    <3> QED BY <3>1, FS_Interval
  <2> QED BY <2>3, <2>4, FS_Injection
<1> HIDE DEF hop, K, first
<1>6. \A i \in 1..n : i # n => link[order[i]] = order[i + 1]
  BY <1>4 DEF Path
<1>7. link[order[n]] = end
  BY DEF Path
<1> HIDE DEF n
<1>8. \A i \in 1..n : hop[i - 1] = order[i]
  <2> DEFINE S == {i \in 1..n : hop[i - 1] # order[i]}
  <2> SUFFICES ASSUME S # {} PROVE FALSE
    OBVIOUS
  <2>1. PICK i \in S : \A m \in S : ~(m < i)
    <3>1. S \in SUBSET Nat
      BY <1>4
    <3> HIDE DEF S
    <3> QED BY <3>1, HasLeast
  <2>2. i # 1
    BY <1>2, <2>1 DEF first
  <2>3. i - 1 \in 1..n /\ i - 1 < i /\ i - 1 # n /\ (i - 1) + 1 = i /\ i - 1 \in 0..K /\ i - 1 # 0
    BY <1>1, <1>4, <1>5, <2>1, <2>2
  <2>4. hop[(i - 1) - 1] = order[i - 1]
    BY <2>1, <2>3
  <2>5. hop[i - 1] = link[order[i - 1]]
    BY <1>2, <1>4, <2>3, <2>4
  <2> QED BY <1>6, <2>1, <2>3, <2>5
<1>9. n \in 0..K /\ hop[n] = end /\ hop[n - 1] # end /\ n # 0
  <2>1. n \in 1..n /\ n \in 0..K /\ n # 0
    BY <1>1, <1>4, <1>5
  <2>2. hop[n - 1] = order[n] /\ order[n] \in DOMAIN link
    BY <1>4, <1>8, <2>1
  <2> QED BY <1>2, <1>7, <2>1, <2>2
<1>10. ASSUME NEW i \in 0..K, Stops(i) PROVE i = n
  <2>1. CASE i < n
    <3>1. i + 1 \in 1..n /\ (i + 1) - 1 = i
      BY <1>1, <1>4, <2>1
    <3> QED BY <1>4, <1>8, <1>10, <3>1
  <2>2. CASE n < i
    <3> DEFINE S == {m \in 0..K : n <= m /\ hop[m] # end}
    <3>1. ASSUME S # {} PROVE FALSE
      <4>1. PICK m \in S : \A l \in S : ~(l < m)
        <5>1. S \in SUBSET Nat
          BY <1>1
        <5> HIDE DEF S
        <5> QED BY <3>1, <5>1, HasLeast
      <4>2. m # n /\ m \in 0..K /\ m # 0 /\ m - 1 \in 0..K /\ n <= m - 1 /\ m - 1 < m
        BY <1>1, <1>4, <1>9, <4>1
      <4>3. hop[m - 1] = end
        BY <4>1, <4>2
      <4> QED BY <1>2, <4>1, <4>2, <4>3
    <3>2. i - 1 \in 0..K /\ n <= i - 1 /\ i # 0
      BY <1>1, <1>4, <2>2
    <3> QED BY <1>10, <3>1, <3>2
  <2> QED BY <1>1, <1>4, <2>1, <2>2
<1>11. Chain(link, end, first) = [i \in 1..n |-> hop[i - 1]]
  <2>1. Stops(n) /\ n \in DOMAIN hop
    BY <1>2, <1>9
  <2>2. (CHOOSE i \in DOMAIN hop : Stops(i)) = n
    BY <1>2, <1>10, <2>1
  <2> QED BY <1>3, <2>1, <2>2
<1> QED
  BY <1>4, <1>8, <1>11 DEF first

----------------------------------------------------------------------------
(* The lowest numbers of a set. *)

\* For each count below a set's size, one of its numbers has as many below.
LEMMA RankExists ==
  ASSUME NEW S \in SUBSET Nat, IsFiniteSet(S), NEW k \in Nat, k < Cardinality(S)
  PROVE  \E b \in S : Cardinality({c \in S : c < b}) = k
<1> DEFINE below(b) == {c \in S : c < b}
           M == {j \in Nat : j < Cardinality(S) /\ ~\E b \in S : Cardinality(below(b)) = j}
<1>1. Cardinality(S) \in Nat
  BY FS_CardinalityType
<1>2. \A b \in S : IsFiniteSet(below(b)) /\ Cardinality(below(b)) \in Nat
  <2> SUFFICES ASSUME NEW b \in S PROVE IsFiniteSet(below(b)) /\ Cardinality(below(b)) \in Nat
    OBVIOUS
  <2>1. below(b) \subseteq S
    OBVIOUS
  <2> HIDE DEF below
  <2> QED BY <2>1, FS_Subset, FS_CardinalityType
<1> SUFFICES ASSUME M # {} PROVE FALSE
  OBVIOUS
<1>3. PICK j \in M : \A m \in M : ~(m < j)
  <2>1. M \in SUBSET Nat
    OBVIOUS
  <2> HIDE DEF M
  <2> QED BY <2>1, HasLeast
<1>4. CASE j = 0
  <2>1. S # {}
    BY <1>3, <1>4, FS_EmptySet
  <2>2. PICK b \in S : \A m \in S : ~(m < b)
    BY <2>1, HasLeast
  <2>3. below(b) = {}
    BY <2>2
  <2>4. Cardinality(below(b)) = 0
    <3> HIDE DEF below
    <3> QED BY <2>3, FS_EmptySet
  <2> QED BY <1>3, <1>4, <2>4
<1>5. CASE j # 0
  <2>1. j - 1 \in Nat /\ j - 1 < j /\ j - 1 < Cardinality(S)
    BY <1>1, <1>3, <1>5
  <2>2. PICK a \in S : Cardinality(below(a)) = j - 1
    BY <1>3, <2>1
  <2> DEFINE low == below(a) \cup {a}
  <2>3. a \notin below(a) /\ IsFiniteSet(below(a))
    BY <1>2
  <2>4. IsFiniteSet(low) /\ Cardinality(low) = j
    <3> HIDE DEF below
    <3>1. IsFiniteSet(low) /\ Cardinality(low) = (j - 1) + 1
      BY <2>2, <2>3, FS_AddElement
    <3> QED BY <1>3, <3>1
  <2>5. low \subseteq S /\ low # S
    <3>1. Cardinality(low) # Cardinality(S)
      <4> HIDE DEF low
      <4> QED BY <1>1, <1>3, <2>4
    <3> QED BY <3>1
  <2>6. S \ low # {}
    BY <2>5
  <2>7. PICK b \in S \ low : \A m \in S \ low : ~(m < b)
    <3>1. S \ low \in SUBSET Nat
      OBVIOUS
    <3> HIDE DEF low
    <3> QED BY <2>6, <3>1, HasLeast
  <2>8. below(b) = low
    <3>1. a < b
      BY <2>7
    <3>2. \A c \in S : c < b => c \in low
      BY <2>7
    <3>3. \A c \in low : c \in S /\ c < b
      BY <3>1
    <3> QED BY <3>2, <3>3
  <2>9. Cardinality(below(b)) = j
    <3> HIDE DEF below, low
    <3> QED BY <2>4, <2>8
  <2> QED BY <1>3, <2>7, <2>9
<1> QED
  BY <1>4, <1>5

LEMMA LowestIs ==
  ASSUME NEW S \in SUBSET Nat, IsFiniteSet(S), NEW n \in Nat
  PROVE  /\ Lowest(S, n) \in Seq(S)
         /\ Len(Lowest(S, n)) = IF n < Cardinality(S) THEN n ELSE Cardinality(S)
         /\ \A i, j \in 1..Len(Lowest(S, n)) : Lowest(S, n)[i] = Lowest(S, n)[j] => i = j
         /\ \A i \in 1..Len(Lowest(S, n)) : Cardinality({c \in S : c < Lowest(S, n)[i]}) = i - 1
<1> DEFINE k == IF n < Cardinality(S) THEN n ELSE Cardinality(S)
           L == Lowest(S, n)
           rank(b) == Cardinality({c \in S : c < b})
<1>1. k \in Nat /\ k <= Cardinality(S) /\ Cardinality(S) \in Nat
  BY FS_CardinalityType
<1>2. L = [i \in 1..k |-> CHOOSE b \in S : rank(b) = i - 1]
  BY DEF Lowest
<1>3. \A i \in 1..k : L[i] \in S /\ rank(L[i]) = i - 1
  <2> SUFFICES ASSUME NEW i \in 1..k PROVE L[i] \in S /\ rank(L[i]) = i - 1
    OBVIOUS
  <2>1. i - 1 \in Nat /\ i - 1 < Cardinality(S)
    BY <1>1
  <2>2. \E b \in S : rank(b) = i - 1
    BY <2>1, RankExists
  <2> HIDE DEF L, rank, k
  <2> QED BY <1>2, <2>2
<1> HIDE DEF k, L, rank
<1>4. Len(L) = k /\ L \in Seq(S)
  <2>1. \A i \in 1..k : L[i] \in S
    BY <1>3
  <2>2. L = [i \in 1..k |-> L[i]]
    BY <1>2
  <2> QED BY <1>1, <2>1, <2>2
<1>5. \A i, j \in 1..k : L[i] = L[j] => i = j
  BY <1>3
<1> QED
  BY <1>3, <1>4, <1>5 DEF L, rank, k

\* What a path's links lead to stays: once in a set the links don't leave, a
\* path is in it to its end.
LEMMA PathStays ==
  ASSUME NEW link, NEW end, NEW order, Path(link, end, order),
         NEW S, \A b \in S : link[b] \in DOMAIN link => link[b] \in S,
         NEW i \in 1..Len(order), order[i] \in S
  PROVE  \A j \in 1..Len(order) : i <= j => order[j] \in S
<1> DEFINE n == Len(order)
           T == {j \in 1..n : i <= j /\ order[j] \notin S}
<1>1. n \in Nat \ {0} /\ \A j \in 1..n : order[j] \in DOMAIN link
  BY PathIs
<1>2. \A j \in 1..(n - 1) : link[order[j]] = order[j + 1]
  BY DEF Path
<1> HIDE DEF n
<1> SUFFICES ASSUME T # {} PROVE FALSE
  BY DEF n
<1>3. PICK j \in T : \A m \in T : ~(m < j)
  <2>1. T \in SUBSET Nat
    BY <1>1
  <2> HIDE DEF T
  <2> QED BY <2>1, HasLeast
<1>4. j # i /\ j \in 1..n /\ i \in 1..n
  BY <1>3 DEF n
<1>5. j - 1 \in 1..(n - 1) /\ j - 1 \in 1..n /\ i <= j - 1 /\ j - 1 < j /\ (j - 1) + 1 = j
  BY <1>1, <1>3, <1>4
<1>6. order[j - 1] \in S
  BY <1>3, <1>5
<1> QED
  BY <1>1, <1>2, <1>3, <1>4, <1>5, <1>6

\* A path stays one under links that agree on it.
LEMMA PathKept ==
  ASSUME NEW link, NEW end, NEW order, Path(link, end, order), NEW next, DOMAIN next = DOMAIN link,
         \A i \in 1..Len(order) : next[order[i]] = link[order[i]]
  PROVE  Path(next, end, order)
<1>1. Len(order) \in Nat \ {0} /\ \A i \in 1..(Len(order) - 1) : i \in 1..Len(order)
  BY PathIs
<1> QED
  BY <1>1 DEF Path

\* Taking one save out of a listing, or putting one in, does that to what
\* shows.
LEMMA ShowsLess ==
  ASSUME NEW list, NEW e \in list, \A x, y \in list : x.name = y.name => x = y
  PROVE  Showing(list \ {e}) = Without(Showing(list), e.name)
<1> DEFINE less == list \ {e}
<1>1. \A x \in list : x.name \in DOMAIN Showing(list) /\ Showing(list)[x.name] = x.file
  BY ShowsEach
<1>2. \A x \in less : x.name \in DOMAIN Showing(less) /\ Showing(less)[x.name] = x.file
  BY ShowsEach
<1>3. /\ DOMAIN Showing(less) = {x.name : x \in less} /\ DOMAIN Showing(list) = {x.name : x \in list}
      /\ Showing(less) = [n \in {x.name : x \in less} |-> Showing(less)[n]]
  BY ShowsNames
<1> DEFINE names == {x.name : x \in less}
<1>4. names = DOMAIN Showing(list) \ {e.name}
  BY <1>3
<1>5. \A n \in names : Showing(less)[n] = Showing(list)[n]
  BY <1>1, <1>2
<1> HIDE DEF names, less
<1>6. Showing(less) = [n \in names |-> Showing(less)[n]]
  BY <1>3 DEF names
<1>7. Without(Showing(list), e.name) = [n \in names |-> Showing(list)[n]]
  BY <1>4 DEF Without
<1> QED
  BY <1>5, <1>6, <1>7 DEF less

LEMMA ShowsMore ==
  ASSUME NEW list, NEW e, \A x, y \in list : x.name = y.name => x = y,
         \A x \in list : x.name # e.name
  PROVE  Showing(list \cup {e}) = With(Showing(list), e.name, e.file)
<1> DEFINE more == list \cup {e}
           names == {x.name : x \in more}
<1>1. \A x \in list : x.name \in DOMAIN Showing(list) /\ Showing(list)[x.name] = x.file
  BY ShowsEach
<1>2. \A x \in more : x.name \in DOMAIN Showing(more) /\ Showing(more)[x.name] = x.file
  BY ShowsEach
<1>3. /\ DOMAIN Showing(list) = {x.name : x \in list}
      /\ Showing(more) = [n \in names |-> Showing(more)[n]]
  BY ShowsNames
<1>4. names = DOMAIN Showing(list) \cup {e.name}
  BY <1>3
<1>5. \A n \in names : Showing(more)[n] = IF n = e.name THEN e.file ELSE Showing(list)[n]
  BY <1>1, <1>2
<1> HIDE DEF names, more
<1>6. With(Showing(list), e.name, e.file) = [n \in names |-> IF n = e.name THEN e.file ELSE Showing(list)[n]]
  BY <1>4 DEF With
<1> QED
  BY <1>3, <1>5, <1>6 DEF more

LEMMA ShowsSame ==
  ASSUME NEW show, NEW n, n \notin DOMAIN show, show = [m \in DOMAIN show |-> show[m]]
  PROVE  Without(show, n) = show
<1>1. DOMAIN show \ {n} = DOMAIN show
  OBVIOUS
<1> QED
  BY <1>1 DEF Without

LEMMA ShowsAnew ==
  ASSUME NEW show, NEW n, NEW c
  PROVE  With(Without(show, n), n, c) = With(show, n, c)
<1> DEFINE less == Without(show, n)
<1>1. DOMAIN less = DOMAIN show \ {n} /\ \A m \in DOMAIN less : less[m] = show[m]
  BY DEF Without
<1> HIDE DEF less
<1>2. DOMAIN less \cup {n} = DOMAIN show \cup {n}
  BY <1>1
<1>3. \A m \in DOMAIN show \cup {n} : m # n => m \in DOMAIN less
  BY <1>1
<1>4. With(less, n, c) = With(show, n, c)
  BY <1>1, <1>2, <1>3 DEF With
<1> QED
  BY <1>4 DEF less

----------------------------------------------------------------------------
(* Blocks and the places of saves they hold. *)

\* Blocks of B in saves F, each in one place of one save.
HeldOnce(B, F, name, walk) ==
  /\ IsFiniteSet(B)
  /\ \A c, d \in F : name[c] = name[d] => c = d
  /\ \A c \in F : \A i \in 1..Len(walk[c]) : walk[c][i] \in B
  /\ \A c, d \in F : \A i \in 1..Len(walk[c]), k \in 1..Len(walk[d]) : walk[c][i] = walk[d][k] => c = d /\ i = k
  /\ \A b \in B : \E c \in F : \E i \in 1..Len(walk[c]) : walk[c][i] = b

\* Then there are as many blocks as places.
LEMMA PlacesHeld ==
  ASSUME NEW B, NEW F, NEW name, NEW walk, HeldOnce(B, F, name, walk),
         NEW H, \A p : p \in H <=> \E c \in F : \E i \in 1..Len(walk[c]) : p = <<name[c], i>>
  PROVE  Cardinality(H) = Cardinality(B)
<1> DEFINE At(b) == CHOOSE c \in F : \E i \in 1..Len(walk[c]) : walk[c][i] = b
           Pos(b) == CHOOSE i \in 1..Len(walk[At(b)]) : walk[At(b)][i] = b
           f == [b \in B |-> <<name[At(b)], Pos(b)>>]
<1>1. \A b \in B : At(b) \in F /\ \E i \in 1..Len(walk[At(b)]) : walk[At(b)][i] = b
  BY DEF HeldOnce
<1>2. \A b \in B : Pos(b) \in 1..Len(walk[At(b)]) /\ walk[At(b)][Pos(b)] = b
  <2> HIDE DEF At
  <2> QED BY <1>1
<1> HIDE DEF At, Pos
<1>3. f \in [B -> H]
  BY <1>1, <1>2
<1>4. ASSUME NEW b \in B, NEW d \in B, f[b] = f[d] PROVE b = d
  <2>1. name[At(b)] = name[At(d)] /\ Pos(b) = Pos(d)
    BY <1>4
  <2>2. At(b) = At(d)
    BY <1>1, <2>1 DEF HeldOnce
  <2> QED BY <1>2, <2>1, <2>2
<1>5. ASSUME NEW p \in H PROVE \E b \in B : f[b] = p
  <2>1. PICK c \in F : \E i \in 1..Len(walk[c]) : p = <<name[c], i>>
    OBVIOUS
  <2>2. PICK i \in 1..Len(walk[c]) : p = <<name[c], i>>
    BY <2>1
  <2>3. walk[c][i] \in B
    BY DEF HeldOnce
  <2> DEFINE b == walk[c][i]
  <2>4. At(b) \in F /\ Pos(b) \in 1..Len(walk[At(b)]) /\ walk[At(b)][Pos(b)] = b
    BY <1>1, <1>2, <2>3
  <2>5. At(b) = c /\ Pos(b) = i
    BY <2>4 DEF HeldOnce
  <2> QED BY <2>2, <2>3, <2>5
<1>6. f \in Bijection(B, H)
  <2> HIDE DEF f
  <2> QED BY <1>3, <1>4, <1>5, Fun_IsBij
<1>7. ExistsBijection(B, H) /\ IsFiniteSet(B)
  BY <1>6 DEF ExistsBijection, HeldOnce
<1> QED
  BY <1>7, FS_Bijection

\* Blocks are free or not.
LEMMA Parted ==
  ASSUME NEW B, IsFiniteSet(B), NEW free, free \subseteq B
  PROVE  /\ Cardinality(B \ free) = Cardinality(B) - Cardinality(free)
         /\ Cardinality(free) \in Nat /\ Cardinality(B) \in Nat
<1>1. free = B \cap free
  OBVIOUS
<1>2. IsFiniteSet(free)
  BY FS_Subset
<1>3. Cardinality(B \ free) = Cardinality(B) - Cardinality(B \cap free)
  BY FS_Difference
<1>4. Cardinality(free) \in Nat /\ Cardinality(B) \in Nat
  BY <1>2, FS_CardinalityType
<1> QED
  BY <1>1, <1>3, <1>4

----------------------------------------------------------------------------
(* PS1 cards. *)

LEMMA Ps1Is ==
  ASSUME format = "ps1", NEW v, NEW u, NEW b
  PROVE  /\ List(v) = Ps1!List(v)
         /\ Remove(v, b) = Ps1!Delete(v, b)
         /\ Inject(v, u) = Ps1!Inject(v, u)
         /\ InjectCode(v, u) = Ps1!InjectCode(v, u)
         /\ Corrupt(v) = Ps1!Corrupt(v)
         /\ FreeBlocks(v) = Cardinality(Ps1!FreeBlocks(v))
         /\ Verify(v, u) = Ps1!Verify(v, u)
         /\ Cost(v, u) = Len(u.file)
         /\ Repair(v) = v
<1>1. List(v) = Ps1!List(v) /\ Remove(v, b) = Ps1!Delete(v, b) /\ Inject(v, u) = Ps1!Inject(v, u)
  BY DEF List, Remove, Inject
<1>2. InjectCode(v, u) = Ps1!InjectCode(v, u)
  BY DEF InjectCode
<1>3. Corrupt(v) = Ps1!Corrupt(v) /\ Verify(v, u) = Ps1!Verify(v, u) /\ Repair(v) = v
  BY DEF Corrupt, Verify, Repair
<1>4. FreeBlocks(v) = Cardinality(Ps1!FreeBlocks(v)) /\ Cost(v, u) = Len(u.file)
  BY DEF FreeBlocks, Cost
<1> QED BY <1>1, <1>2, <1>3, <1>4

\* The blocks of a chain.

Ps1Reach(v, c) == {Ps1!Walk(v, c)[i] : i \in 1..Len(Ps1!Walk(v, c))}

LEMMA Ps1Bounds == /\ Blocks \in Nat \ {0} /\ Ps1!Block = 1..Blocks /\ IsFiniteSet(Ps1!Block)
                   /\ Cardinality(Ps1!Block) = Blocks
                   /\ 0 \notin Ps1!Block /\ Ps1!Off \notin Ps1!Block /\ Ps1!Off # 0
<1>1. Blocks \in Nat \ {0} /\ Ps1!Block = 1..Blocks /\ Ps1!Off = Blocks + 1
  BY BoundsSound DEF Ps1!Block, Ps1!Off
<1>2. IsFiniteSet(1..Blocks) /\ Cardinality(1..Blocks) = Blocks
  <2>1. 1 \in Int /\ Blocks \in Int /\ ~(1 > Blocks) /\ Blocks - 1 + 1 = Blocks
    BY <1>1
  <2> QED BY <2>1, FS_Interval
<1> QED BY <1>1, <1>2

\* A link leads to the end, to part of a live save or off the card.
LEMMA Ps1Links ==
  ASSUME NEW v
  PROVE  /\ DOMAIN Ps1!Links(v) = Ps1!Block
         /\ \A b \in Ps1!Block :
              Ps1!Links(v)[b] = IF v.frame[b].link = 0 THEN 0
                                ELSE IF /\ v.frame[b].link \in Ps1!Block
                                        /\ v.frame[v.frame[b].link].state \in {"middle", "last"}
                                THEN v.frame[b].link ELSE Ps1!Off
  BY DEF Ps1!Links, Ps1!End

LEMMA Ps1Counts == \A S : Ps1!Cardinality(S) = Cardinality(S)
  BY DEF Ps1!Cardinality, Cardinality, Ps1!IsFiniteSet, IsFiniteSet

LEMMA Ps1Walks ==
  ASSUME NEW v, NEW c
  PROVE  /\ Ps1!Walk(v, c) # <<>> => Path(Ps1!Links(v), 0, Ps1!Walk(v, c)) /\ Ps1!Walk(v, c)[1] = c
         /\ \A order : Path(Ps1!Links(v), 0, order) /\ order[1] = c => Ps1!Walk(v, c) = order
<1>1. Ps1!Walk(v, c) = Chain(Ps1!Links(v), 0, c)
  <2>1. Ps1!Cardinality(DOMAIN Ps1!Links(v)) = Cardinality(DOMAIN Ps1!Links(v))
    BY Ps1Counts
  <2>2. Ps1!Hops(Ps1!Links(v), c) = Hops(Ps1!Links(v), c)
    BY <2>1 DEF Ps1!Hops, Hops
  <2> QED BY <2>2 DEF Ps1!Walk, Ps1!Chain, Chain, Ps1!Until, Until, Ps1!Ends, Ends, Ps1!End
<1>2. IsFiniteSet(DOMAIN Ps1!Links(v)) /\ 0 \notin DOMAIN Ps1!Links(v)
  BY Ps1Links, Ps1Bounds
<1> QED
  BY <1>1, <1>2, ChainIsPath, PathIsChain

\* What a chain is: distinct blocks, of a live save from the second on, each
\* linked to the next.
LEMMA Ps1Chains ==
  ASSUME NEW v, NEW c, Ps1!Walk(v, c) # <<>>
  PROVE  LET order == Ps1!Walk(v, c)
             n == Len(order)
         IN  /\ n \in Nat \ {0} /\ order[1] = c
             /\ order = [i \in 1..n |-> order[i]]
             /\ \A i \in 1..n : order[i] \in Ps1!Block
             /\ \A i, j \in 1..n : order[i] = order[j] => i = j
             /\ \A i \in 1..n : Ps1!Links(v)[order[i]] = IF i = n THEN 0 ELSE order[i + 1]
             /\ \A i \in 1..n : i # 1 => v.frame[order[i]].state \in {"middle", "last"}
<1> DEFINE order == Ps1!Walk(v, c)
           n == Len(order)
<1>1. Path(Ps1!Links(v), 0, order) /\ order[1] = c
  BY Ps1Walks
<1>2. DOMAIN Ps1!Links(v) = Ps1!Block /\ 0 \notin Ps1!Block /\ Ps1!Off \notin Ps1!Block
  BY Ps1Links, Ps1Bounds
<1> HIDE DEF order
<1>3. n \in Nat \ {0} /\ order = [i \in 1..n |-> order[i]] /\ \A i \in 1..n : order[i] \in Ps1!Block
  BY <1>1, <1>2, PathIs
<1>4. \A i, j \in 1..n : order[i] = order[j] => i = j
  BY <1>1, <1>2, PathInjective
<1>5. \A i \in 1..n : Ps1!Links(v)[order[i]] = IF i = n THEN 0 ELSE order[i + 1]
  <2>1. \A i \in 1..n : i # n => i \in 1..(n - 1)
    BY <1>3
  <2> QED BY <1>1, <2>1 DEF Path
<1>6. ASSUME NEW i \in 1..n, i # 1 PROVE v.frame[order[i]].state \in {"middle", "last"}
  <2>1. i - 1 \in 1..n /\ i - 1 # n /\ (i - 1) + 1 = i
    BY <1>3, <1>6
  <2>2. Ps1!Links(v)[order[i - 1]] = order[i] /\ order[i] \in Ps1!Block /\ order[i - 1] \in Ps1!Block
    BY <1>3, <1>5, <2>1
  <2> QED BY <1>2, <2>2, Ps1Links
<1> QED
  BY <1>1, <1>3, <1>4, <1>5, <1>6 DEF order

\* The same chain runs over a card whose links agree on it.
LEMMA Ps1Same ==
  ASSUME NEW v, NEW w, NEW c, Ps1!Walk(v, c) # <<>>,
         \A b \in Ps1Reach(v, c) : Ps1!Links(w)[b] = Ps1!Links(v)[b]
  PROVE  Ps1!Walk(w, c) = Ps1!Walk(v, c)
<1> DEFINE order == Ps1!Walk(v, c)
<1>1. Path(Ps1!Links(v), 0, order) /\ order[1] = c
  BY Ps1Walks
<1>2. \A i \in 1..Len(order) : Ps1!Links(w)[order[i]] = Ps1!Links(v)[order[i]]
  BY DEF Ps1Reach
<1>3. DOMAIN Ps1!Links(w) = DOMAIN Ps1!Links(v)
  BY Ps1Links
<1> HIDE DEF order
<1>4. Path(Ps1!Links(w), 0, order)
  BY <1>1, <1>2, <1>3, PathKept
<1>5. Ps1!Walk(w, c) = order
  BY <1>1, <1>4, Ps1Walks
<1> QED BY <1>5 DEF order

\* The blocks of a chain link to one another or to the end.
LEMMA Ps1Reaches ==
  ASSUME NEW v, NEW c
  PROVE  /\ Ps1!Walk(v, c) = <<>> => Ps1Reach(v, c) = {}
         /\ Ps1!Walk(v, c) # <<>> => c \in Ps1Reach(v, c)
         /\ Ps1Reach(v, c) \subseteq Ps1!Block
         /\ Ps1!Range(Ps1!Walk(v, c)) = Ps1Reach(v, c)
         /\ \A b \in Ps1Reach(v, c) : Ps1!Links(v)[b] \in Ps1Reach(v, c) \cup {0}
         /\ \A b \in Ps1Reach(v, c) : b # c => v.frame[b].state \in {"middle", "last"}
<1> DEFINE order == Ps1!Walk(v, c)
           n == Len(order)
<1>1. CASE order = <<>>
  <2>1. Ps1Reach(v, c) = {}
    BY <1>1 DEF Ps1Reach
  <2>2. Ps1!Range(order) = {}
    BY <1>1 DEF Ps1!Range
  <2> QED BY <1>1, <2>1, <2>2
<1>2. CASE order # <<>>
  <2>1. /\ n \in Nat \ {0} /\ order[1] = c
        /\ order = [i \in 1..n |-> order[i]]
        /\ \A i \in 1..n : order[i] \in Ps1!Block
        /\ \A i \in 1..n : Ps1!Links(v)[order[i]] = IF i = n THEN 0 ELSE order[i + 1]
        /\ \A i \in 1..n : i # 1 => v.frame[order[i]].state \in {"middle", "last"}
    BY <1>2, Ps1Chains
  <2>2. Ps1Reach(v, c) = {order[i] : i \in 1..n}
    BY DEF Ps1Reach
  <2> HIDE DEF order, n
  <2>3. Ps1!Range(order) = {order[i] : i \in 1..n}
    BY <2>1 DEF Ps1!Range
  <2>4. \A i \in 1..n : i # n => i + 1 \in 1..n
    BY <2>1
  <2>5. \A b \in Ps1Reach(v, c) : Ps1!Links(v)[b] \in Ps1Reach(v, c) \cup {0}
    BY <2>1, <2>2, <2>4
  <2>6. c \in Ps1Reach(v, c) /\ Ps1Reach(v, c) \subseteq Ps1!Block
    BY <2>1, <2>2
  <2>7. \A b \in Ps1Reach(v, c) : b # c => v.frame[b].state \in {"middle", "last"}
    BY <2>1, <2>2
  <2> QED BY <1>2, <2>2, <2>3, <2>5, <2>6, <2>7 DEF order
<1> QED BY <1>1, <1>2

\* Two chains that meet end at the same block.
LEMMA Ps1Meet ==
  ASSUME NEW v, NEW c, NEW S \in SUBSET Ps1!Block, \A b \in S : Ps1!Links(v)[b] \in S \cup {0},
         S \cap Ps1Reach(v, c) # {}
  PROVE  LET order == Ps1!Walk(v, c) IN order # <<>> /\ order[Len(order)] \in S
<1> DEFINE order == Ps1!Walk(v, c)
           n == Len(order)
<1>1. order # <<>>
  BY Ps1Reaches
<1>2. Path(Ps1!Links(v), 0, order) /\ n \in Nat \ {0}
  BY <1>1, Ps1Walks, Ps1Chains
<1>3. PICK i \in 1..n : order[i] \in S
  BY DEF Ps1Reach
<1>4. \A b \in S : Ps1!Links(v)[b] \in DOMAIN Ps1!Links(v) => Ps1!Links(v)[b] \in S
  BY Ps1Links, Ps1Bounds
<1> HIDE DEF order
<1>5. \A j \in 1..n : i <= j => order[j] \in S
  BY <1>2, <1>3, <1>4, PathStays
<1> QED BY <1>1, <1>2, <1>3, <1>5 DEF order

Ps1Entry(v, b) == [name |-> v.frame[b].name, first |-> b, file |-> Ps1!File(v, b)]

\* No two saves have the same name.
Ps1Card(v) == \A b, c \in Ps1!Firsts(v) : v.frame[b].name = v.frame[c].name => b = c

\* Every save is whole, and every block is free or one's.
Ps1Whole(v) ==
  /\ Ps1!Firsts(v) \subseteq Ps1!Listed(v)
  /\ \A b \in Ps1!Block \ Ps1!FreeBlocks(v) : \E c \in Ps1!Firsts(v) : b \in Ps1Reach(v, c)

LEMMA Ps1Shared ==
  ASSUME NEW v, NEW c
  PROVE  Ps1!Shared(v, c) <=> \E o \in Ps1!Firsts(v) \ {c} : Ps1Reach(v, c) \cap Ps1Reach(v, o) # {}
<1>1. \A o : Ps1!Range(Ps1!Walk(v, o)) = Ps1Reach(v, o)
  BY Ps1Reaches
<1> QED
  BY <1>1 DEF Ps1!Shared

LEMMA Ps1Lists ==
  ASSUME NEW v, Ps1Card(v)
  PROVE  /\ Ps1!List(v) = {Ps1Entry(v, b) : b \in Ps1!Listed(v)}
         /\ \A x, y \in Ps1!List(v) : x.name = y.name => x = y
         /\ \A b : Ps1Entry(v, b).name = v.frame[b].name /\ Ps1Entry(v, b).first = b
                   /\ Ps1Entry(v, b).file = Ps1!File(v, b)
<1>1. Ps1!List(v) = {Ps1Entry(v, b) : b \in Ps1!Listed(v)}
  BY DEF Ps1!List, Ps1Entry
<1>2. \A b : Ps1Entry(v, b).name = v.frame[b].name /\ Ps1Entry(v, b).first = b
             /\ Ps1Entry(v, b).file = Ps1!File(v, b)
  BY DEF Ps1Entry
<1>3. Ps1!Listed(v) \subseteq Ps1!Firsts(v)
  BY DEF Ps1!Listed
<1>4. ASSUME NEW x \in Ps1!List(v), NEW y \in Ps1!List(v), x.name = y.name PROVE x = y
  <2>1. PICK b \in Ps1!Listed(v) : x = Ps1Entry(v, b)
    BY <1>1
  <2>2. PICK c \in Ps1!Listed(v) : y = Ps1Entry(v, c)
    BY <1>1
  <2>3. b = c
    BY <1>2, <1>3, <1>4, <2>1, <2>2 DEF Ps1Card
  <2> QED BY <2>1, <2>2, <2>3
<1> QED
  BY <1>1, <1>2, <1>4

\* A listed save comes off, and the listing is otherwise the same.
LEMMA Ps1Deletes ==
  ASSUME NEW v, Ps1Card(v), NEW f \in Ps1!Listed(v)
  PROVE  LET w == Ps1!Delete(v, f)
         IN  /\ Ps1Card(w)
             /\ Ps1!List(w) = Ps1!List(v) \ {Ps1Entry(v, f)}
             /\ Ps1!Firsts(w) = Ps1!Firsts(v) \ {f}
             /\ Ps1Whole(v) => Ps1Whole(w)
<1> DEFINE w == Ps1!Delete(v, f)
           D == Ps1Reach(v, f)
<1>1. /\ f \in Ps1!Firsts(v) /\ f \in Ps1!Block /\ v.frame[f].state = "first"
      /\ Ps1!Walk(v, f) # <<>> /\ ~Ps1!Shared(v, f)
  BY DEF Ps1!Listed, Ps1!Intact, Ps1!Firsts
<1>2. /\ D \subseteq Ps1!Block /\ f \in D /\ Ps1!Range(Ps1!Walk(v, f)) = D
      /\ \A b \in D : b # f => v.frame[b].state \in {"middle", "last"}
  BY <1>1, Ps1Reaches
<1>3. /\ w.data = v.data
      /\ \A b \in Ps1!Block : w.frame[b] = IF b \in D THEN Ps1!Frame("deleted", v.frame[b].link, v.frame[b].name)
                                           ELSE v.frame[b]
  BY <1>1, <1>2 DEF Ps1!Delete, Ps1!Marked
<1> HIDE DEF w
<1>4. \A b \in Ps1!Block : /\ w.frame[b].state = IF b \in D THEN "deleted" ELSE v.frame[b].state
                           /\ w.frame[b].link = v.frame[b].link /\ w.frame[b].name = v.frame[b].name
  <2>1. \A s, l, n : Ps1!Frame(s, l, n).state = s /\ Ps1!Frame(s, l, n).link = l /\ Ps1!Frame(s, l, n).name = n
    BY DEF Ps1!Frame
  <2> HIDE DEF D
  <2> SUFFICES ASSUME NEW b \in Ps1!Block
               PROVE  /\ w.frame[b].state = IF b \in D THEN "deleted" ELSE v.frame[b].state
                      /\ w.frame[b].link = v.frame[b].link /\ w.frame[b].name = v.frame[b].name
    OBVIOUS
  <2>2. CASE b \in D
    BY <1>3, <2>1, <2>2
  <2>3. CASE b \notin D
    BY <1>3, <2>3
  <2> QED BY <2>2, <2>3
<1>5. Ps1!Firsts(w) = Ps1!Firsts(v) \ {f}
  <2>1. \A b \in Ps1!Block : w.frame[b].state = "first" <=> v.frame[b].state = "first" /\ b # f
    BY <1>1, <1>2, <1>4
  <2> QED BY <2>1 DEF Ps1!Firsts
<1> HIDE DEF D
<1>6. \A b \in Ps1!Block : Ps1!Links(w)[b] = IF Ps1!Links(v)[b] \in D THEN Ps1!Off ELSE Ps1!Links(v)[b]
  <2> SUFFICES ASSUME NEW b \in Ps1!Block
               PROVE  Ps1!Links(w)[b] = IF Ps1!Links(v)[b] \in D THEN Ps1!Off ELSE Ps1!Links(v)[b]
    OBVIOUS
  <2> DEFINE l == v.frame[b].link
             Live(x) == x.frame[l].state \in {"middle", "last"}
  <2>1. /\ Ps1!Links(v)[b] = IF l = 0 THEN 0 ELSE IF l \in Ps1!Block /\ Live(v) THEN l ELSE Ps1!Off
        /\ Ps1!Links(w)[b] = IF l = 0 THEN 0 ELSE IF l \in Ps1!Block /\ Live(w) THEN l ELSE Ps1!Off
    <3>1. w.frame[b].link = l
      BY <1>4
    <3>2. Ps1!Links(v)[b] = IF l = 0 THEN 0 ELSE IF l \in Ps1!Block /\ Live(v) THEN l ELSE Ps1!Off
      BY Ps1Links
    <3>3. Ps1!Links(w)[b] = IF w.frame[b].link = 0 THEN 0
                            ELSE IF /\ w.frame[b].link \in Ps1!Block
                                    /\ w.frame[w.frame[b].link].state \in {"middle", "last"}
                            THEN w.frame[b].link ELSE Ps1!Off
      BY Ps1Links
    <3> QED BY <3>1, <3>2, <3>3
  <2>2. l \in Ps1!Block => (Live(w) <=> l \notin D /\ Live(v))
    <3> SUFFICES ASSUME l \in Ps1!Block PROVE Live(w) <=> l \notin D /\ Live(v)
      OBVIOUS
    <3>1. w.frame[l].state = IF l \in D THEN "deleted" ELSE v.frame[l].state
      BY <1>4
    <3> HIDE DEF l
    <3> QED BY <3>1
  <2> HIDE DEF Live, l
  <2> QED BY <1>2, <2>1, <2>2, Ps1Bounds
<1>7. ASSUME NEW o \in Ps1!Firsts(v) \ {f} PROVE Ps1!Walk(w, o) = Ps1!Walk(v, o)
  <2>1. CASE Ps1!Walk(v, o) # <<>>
    <3>1. Ps1Reach(v, o) \cap D = {}
      BY <1>1, Ps1Shared DEF D
    <3>2. \A b \in Ps1Reach(v, o) : b \in Ps1!Block /\ Ps1!Links(v)[b] \notin D
      BY <1>2, <3>1, Ps1Reaches, Ps1Bounds
    <3>3. \A b \in Ps1Reach(v, o) : Ps1!Links(w)[b] = Ps1!Links(v)[b]
      BY <1>6, <3>2
    <3> QED BY <2>1, <3>3, Ps1Same
  <2>2. CASE Ps1!Walk(w, o) # <<>>
    <3>1. \A b \in Ps1Reach(w, o) : b \in Ps1!Block /\ Ps1!Links(w)[b] \in Ps1!Block \cup {0}
      BY Ps1Reaches
    <3>2. \A b \in Ps1Reach(w, o) : Ps1!Links(v)[b] = Ps1!Links(w)[b]
      BY <1>6, <3>1, Ps1Bounds
    <3> QED BY <2>2, <3>2, Ps1Same
  <2> QED BY <2>1, <2>2
<1>8. \A o \in Ps1!Firsts(v) \ {f} : Ps1Reach(w, o) = Ps1Reach(v, o)
  BY <1>7 DEF Ps1Reach
<1>9. ASSUME NEW c \in Ps1!Firsts(v) \ {f} PROVE Ps1!Shared(w, c) <=> Ps1!Shared(v, c)
  <2>1. Ps1Reach(v, c) \cap Ps1Reach(v, f) = {}
    BY <1>1, Ps1Shared
  <2> QED BY <1>5, <1>8, <2>1, Ps1Shared
<1>10. Ps1!Listed(w) = Ps1!Listed(v) \ {f}
  BY <1>5, <1>7, <1>9 DEF Ps1!Listed, Ps1!Intact
<1>11. Ps1Card(w)
  <2>1. \A b \in Ps1!Firsts(w) : b \in Ps1!Firsts(v) /\ w.frame[b].name = v.frame[b].name
    BY <1>4, <1>5 DEF Ps1!Firsts
  <2> QED BY <2>1 DEF Ps1Card
<1>12. Ps1!List(w) = Ps1!List(v) \ {Ps1Entry(v, f)}
  <2>1. \A b \in Ps1!Listed(w) : Ps1Entry(w, b) = Ps1Entry(v, b)
    <3> SUFFICES ASSUME NEW b \in Ps1!Listed(w) PROVE Ps1Entry(w, b) = Ps1Entry(v, b)
      OBVIOUS
    <3>1. b \in Ps1!Firsts(v) \ {f} /\ b \in Ps1!Block
      BY <1>5, <1>10 DEF Ps1!Listed, Ps1!Firsts
    <3>2. Ps1!File(w, b) = Ps1!File(v, b)
      BY <1>3, <1>7, <3>1 DEF Ps1!File
    <3> QED BY <1>4, <3>1, <3>2 DEF Ps1Entry
  <2>2. Ps1!List(w) = {Ps1Entry(w, b) : b \in Ps1!Listed(w)} /\ Ps1!List(v) = {Ps1Entry(v, b) : b \in Ps1!Listed(v)}
    BY <1>11, Ps1Lists
  <2>3. \A b, c : Ps1Entry(v, b) = Ps1Entry(v, c) => b = c
    BY DEF Ps1Entry
  <2> QED BY <1>10, <2>1, <2>2, <2>3
<1>13. ASSUME Ps1Whole(v) PROVE Ps1Whole(w)
  <2>1. Ps1!Firsts(w) \subseteq Ps1!Listed(w)
    BY <1>5, <1>10, <1>13 DEF Ps1Whole
  <2>2. ASSUME NEW b \in Ps1!Block \ Ps1!FreeBlocks(w) PROVE \E c \in Ps1!Firsts(w) : b \in Ps1Reach(w, c)
    <3>1. b \notin D /\ b \notin Ps1!FreeBlocks(v)
      BY <1>4, <2>2 DEF Ps1!FreeBlocks
    <3>2. PICK c \in Ps1!Firsts(v) : b \in Ps1Reach(v, c)
      BY <1>13, <3>1 DEF Ps1Whole
    <3>3. c # f
      BY <3>1, <3>2 DEF D
    <3> QED BY <1>5, <1>8, <3>2, <3>3
  <2> QED BY <2>1, <2>2 DEF Ps1Whole
<1> QED
  BY <1>5, <1>11, <1>12, <1>13 DEF w

\* The blocks chosen are free, distinct and as many as the file has.
LEMMA Ps1Chooses ==
  ASSUME NEW v, NEW u \in Units, Cardinality(Ps1!FreeBlocks(v)) >= Len(u.file)
  PROVE  LET order == Ps1!Chosen(v, u)
             n == Len(u.file)
         IN  /\ n \in Nat \ {0} /\ Len(order) = n
             /\ order = [i \in 1..n |-> order[i]]
             /\ \A i \in 1..n : order[i] \in Ps1!FreeBlocks(v)
             /\ \A i, j \in 1..n : order[i] = order[j] => i = j
<1> DEFINE S == Ps1!FreeBlocks(v)
           n == Len(u.file)
           order == Ps1!Chosen(v, u)
<1>1. n \in Nat \ {0}
  BY UnitsHaveFiles
<1>2. S \in SUBSET Nat /\ IsFiniteSet(S) /\ Cardinality(S) \in Nat
  <2>1. S \subseteq Ps1!Block /\ Ps1!Block = 1..Blocks /\ IsFiniteSet(Ps1!Block) /\ Blocks \in Nat
    BY Ps1Bounds DEF Ps1!FreeBlocks
  <2> HIDE DEF S
  <2>2. IsFiniteSet(S) /\ Cardinality(S) \in Nat
    BY <2>1, FS_Subset, FS_CardinalityType
  <2>3. S \subseteq Nat
    BY <2>1
  <2> QED BY <2>2, <2>3
<1>3. order = Lowest(S, n)
  <2>1. order = Ps1!Lowest(S, n)
    BY DEF Ps1!Chosen
  <2> HIDE DEF S, n, order
  <2> DEFINE rank(b) == Cardinality({c \in S : c < b})
             k == IF n < Cardinality(S) THEN n ELSE Cardinality(S)
  <2>2. Ps1!Cardinality(S) = Cardinality(S) /\ \A b : Ps1!Cardinality({c \in S : c < b}) = rank(b)
    BY Ps1Counts
  <2>3. Ps1!Lowest(S, n) = [i \in 1..(IF n < Ps1!Cardinality(S) THEN n ELSE Ps1!Cardinality(S)) |->
                              CHOOSE b \in S : Ps1!Cardinality({c \in S : c < b}) = i - 1]
    BY DEF Ps1!Lowest
  <2>4. Lowest(S, n) = [i \in 1..k |-> CHOOSE b \in S : rank(b) = i - 1]
    BY DEF Lowest
  <2> HIDE DEF rank
  <2>5. Ps1!Lowest(S, n) = Lowest(S, n)
    BY <2>2, <2>3, <2>4
  <2> QED BY <2>1, <2>5
<1> HIDE DEF S, n, order
<1>4. n <= Cardinality(S)
  BY <1>1, <1>2 DEF S, n
<1>5. /\ order \in Seq(S) /\ Len(order) = IF n < Cardinality(S) THEN n ELSE Cardinality(S)
      /\ \A i, j \in 1..Len(order) : order[i] = order[j] => i = j
  BY <1>1, <1>2, <1>3, LowestIs
<1>6. Len(order) = n
  BY <1>1, <1>2, <1>4, <1>5
<1>7. order = [i \in 1..n |-> order[i]] /\ \A i \in 1..n : order[i] \in S
  BY <1>5, <1>6
<1> QED
  BY <1>1, <1>5, <1>6, <1>7 DEF S, n, order

\* What a card is once a file is written on free blocks.
LEMMA Ps1Writes ==
  ASSUME NEW v, NEW u, NEW order, NEW n \in Nat \ {0}, Len(order) = n,
         order = [i \in 1..n |-> order[i]],
         \A i \in 1..n : order[i] \in Ps1!FreeBlocks(v),
         \A i, j \in 1..n : order[i] = order[j] => i = j
  PROVE  LET w == Ps1!Written(v, u, order)
             D == {order[i] : i \in 1..n}
         IN  /\ D \subseteq Ps1!Block
             /\ \A b \in Ps1!Block \ D : w.frame[b] = v.frame[b] /\ w.data[b] = v.data[b]
             /\ \A i \in 1..n :
                  /\ w.frame[order[i]].state = IF i = 1 THEN "first" ELSE IF i = n THEN "last" ELSE "middle"
                  /\ w.frame[order[i]].link = IF i = n THEN 0 ELSE order[i + 1]
                  /\ w.frame[order[i]].name = IF i = 1 THEN u.name ELSE None
                  /\ w.data[order[i]] = u.file[i]
<1> DEFINE w == Ps1!Written(v, u, order)
           D == {order[i] : i \in 1..n}
           At(b) == CHOOSE i \in 1..n : order[i] = b
           State(i) == IF i = 1 THEN "first" ELSE IF i = n THEN "last" ELSE "middle"
           Linked(i) == IF i = n THEN 0 ELSE order[i + 1]
           Sealed(i) == Ps1!Frame(State(i), Linked(i), IF i = 1 THEN u.name ELSE None)
<1>1. D \subseteq Ps1!Block
  BY DEF Ps1!FreeBlocks
<1>2. Ps1!Range(order) = D
  <2>1. DOMAIN order = 1..n
    OBVIOUS
  <2> QED BY <2>1 DEF Ps1!Range
<1>3. /\ w.frame = [b \in Ps1!Block |-> IF b \in D THEN Sealed(At(b)) ELSE v.frame[b]]
      /\ w.data = [b \in Ps1!Block |-> IF b \in D THEN u.file[At(b)] ELSE v.data[b]]
  <2>1. w = [frame |-> [b \in Ps1!Block |-> IF b \in Ps1!Range(order) THEN Sealed(At(b)) ELSE v.frame[b]],
             data |-> [b \in Ps1!Block |-> IF b \in Ps1!Range(order) THEN u.file[At(b)] ELSE v.data[b]]]
    BY DEF Ps1!Written, Ps1!End
  <2> HIDE DEF w, Sealed, At, D
  <2> QED BY <1>2, <2>1
<1>4. \A i \in 1..n : order[i] \in D /\ order[i] \in Ps1!Block /\ At(order[i]) = i
  <2> SUFFICES ASSUME NEW i \in 1..n PROVE order[i] \in D /\ order[i] \in Ps1!Block /\ At(order[i]) = i
    OBVIOUS
  <2>1. At(order[i]) \in 1..n /\ order[At(order[i])] = order[i]
    OBVIOUS
  <2> HIDE DEF At
  <2> QED BY <1>1, <2>1
<1> HIDE DEF w, D, At, Sealed
<1>5. \A b \in Ps1!Block \ D : w.frame[b] = v.frame[b] /\ w.data[b] = v.data[b]
  BY <1>3
<1>6. \A i \in 1..n : w.frame[order[i]] = Sealed(i) /\ w.data[order[i]] = u.file[i]
  BY <1>3, <1>4
<1>7. \A i : Sealed(i).state = State(i) /\ Sealed(i).link = Linked(i)
             /\ Sealed(i).name = IF i = 1 THEN u.name ELSE None
  <2>1. \A s, l, m : Ps1!Frame(s, l, m).state = s /\ Ps1!Frame(s, l, m).link = l /\ Ps1!Frame(s, l, m).name = m
    BY DEF Ps1!Frame
  <2> HIDE DEF State, Linked
  <2> QED BY <2>1 DEF Sealed
<1>8. \A i \in 1..n :
        /\ w.frame[order[i]].state = State(i) /\ w.frame[order[i]].link = Linked(i)
        /\ w.frame[order[i]].name = IF i = 1 THEN u.name ELSE None
        /\ w.data[order[i]] = u.file[i]
  <2> HIDE DEF State, Linked
  <2> QED BY <1>6, <1>7
<1> QED
  BY <1>1, <1>5, <1>8 DEF w, D

\* A save goes on, and what the listing shows stays: the new one shows too
\* unless a damaged chain leads into its blocks.
LEMMA Ps1Injects ==
  ASSUME NEW v, Ps1Card(v), NEW u \in Units, Ps1!InjectCode(v, u) = "OK"
  PROVE  LET w == Ps1!Inject(v, u)
             first == Ps1!Chosen(v, u)[1]
         IN  /\ Ps1Card(w)
             /\ first \in Ps1!Firsts(w) /\ first \notin Ps1!Listed(v)
             /\ Ps1Entry(w, first) = [name |-> u.name, first |-> first, file |-> u.file]
             /\ Ps1!List(w) \in {Ps1!List(v), Ps1!List(v) \cup {Ps1Entry(w, first)}}
             /\ Ps1Whole(v) => Ps1Whole(w) /\ Ps1Entry(w, first) \in Ps1!List(w)
<1> DEFINE w == Ps1!Inject(v, u)
           order == Ps1!Chosen(v, u)
           first == order[1]
           n == Len(u.file)
           D == {order[i] : i \in 1..n}
<1>1. /\ ~Ps1!NameTaken(v, u) /\ ~(Cardinality(Ps1!FreeBlocks(v)) < n)
      /\ w = Ps1!Written(v, u, order)
  <2>1. /\ ~Ps1!NameTaken(v, u) /\ ~(Ps1!Cardinality(Ps1!FreeBlocks(v)) < n)
        /\ w = Ps1!Written(v, u, order)
    BY DEF Ps1!InjectCode, Ps1!Inject
  <2> QED BY <2>1, Ps1Counts
<1>2. /\ n \in Nat \ {0} /\ Len(order) = n
      /\ order = [i \in 1..n |-> order[i]]
      /\ \A i \in 1..n : order[i] \in Ps1!FreeBlocks(v)
      /\ \A i, j \in 1..n : order[i] = order[j] => i = j
  <2>1. Cardinality(Ps1!FreeBlocks(v)) \in Nat
    <3>1. Ps1!FreeBlocks(v) \subseteq Ps1!Block
      BY DEF Ps1!FreeBlocks
    <3>2. IsFiniteSet(Ps1!FreeBlocks(v))
      BY <3>1, Ps1Bounds, FS_Subset
    <3> QED BY <3>2, FS_CardinalityType
  <2>2. n \in Nat
    BY UnitsHaveFiles
  <2>3. Cardinality(Ps1!FreeBlocks(v)) >= n
    BY <1>1, <2>1, <2>2
  <2> QED BY <2>3, Ps1Chooses
<1> HIDE DEF w, order
<1>3. /\ D \subseteq Ps1!Block
      /\ \A b \in Ps1!Block \ D : w.frame[b] = v.frame[b] /\ w.data[b] = v.data[b]
      /\ \A i \in 1..n :
           /\ w.frame[order[i]].state = IF i = 1 THEN "first" ELSE IF i = n THEN "last" ELSE "middle"
           /\ w.frame[order[i]].link = IF i = n THEN 0 ELSE order[i + 1]
           /\ w.frame[order[i]].name = IF i = 1 THEN u.name ELSE None
           /\ w.data[order[i]] = u.file[i]
  <2> HIDE DEF n
  <2> QED BY <1>1, <1>2, Ps1Writes
<1> HIDE DEF n
<1>4. D \subseteq Ps1!FreeBlocks(v) /\ first \in D /\ 1 \in 1..n
  BY <1>2
<1>5. \A i \in 1..n : order[i] \in D
  OBVIOUS
<1>6. \A b \in D : \E i \in 1..n : b = order[i]
  OBVIOUS
<1> HIDE DEF D
<1>7. \A b \in D : v.frame[b].state \in {"free", "deleted"}
  BY <1>4 DEF Ps1!FreeBlocks
<1>8. Ps1!Firsts(w) = Ps1!Firsts(v) \cup {first} /\ Ps1!Firsts(v) \cap D = {}
  <2>1. w.frame[first].state = "first"
    BY <1>3, <1>4
  <2>2. \A b \in D : b # first => w.frame[b].state # "first"
    <3> SUFFICES ASSUME NEW i \in 1..n, order[i] # first PROVE w.frame[order[i]].state # "first"
      BY <1>6
    <3>1. i # 1
      OBVIOUS
    <3> QED BY <1>3, <3>1
  <2>3. \A b \in Ps1!Block : w.frame[b].state = "first" <=> v.frame[b].state = "first" \/ b = first
    BY <1>3, <1>4, <1>7, <2>1, <2>2
  <2> QED BY <1>3, <1>4, <1>7, <2>3 DEF Ps1!Firsts
\* The new save's links.
<1>9. \A i \in 1..n : Ps1!Links(w)[order[i]] = IF i = n THEN 0 ELSE order[i + 1]
  <2> SUFFICES ASSUME NEW i \in 1..n PROVE Ps1!Links(w)[order[i]] = IF i = n THEN 0 ELSE order[i + 1]
    OBVIOUS
  <2> DEFINE b == order[i]
  <2>1. b \in Ps1!Block /\ w.frame[b].link = IF i = n THEN 0 ELSE order[i + 1]
    BY <1>3, <1>5
  <2>2. Ps1!Links(w)[b] = IF w.frame[b].link = 0 THEN 0
                          ELSE IF /\ w.frame[b].link \in Ps1!Block
                                  /\ w.frame[w.frame[b].link].state \in {"middle", "last"}
                          THEN w.frame[b].link ELSE Ps1!Off
    BY <2>1, Ps1Links
  <2>3. CASE i = n
    BY <2>1, <2>2, <2>3
  <2>4. CASE i # n
    <3>1. i + 1 \in 1..n /\ i + 1 # 1
      BY <1>2, <2>4
    <3>2. order[i + 1] \in Ps1!Block /\ order[i + 1] # 0
      BY <1>3, <1>5, <3>1, Ps1Bounds
    <3>3. w.frame[order[i + 1]].state \in {"middle", "last"}
      BY <1>3, <3>1
    <3> QED BY <2>1, <2>2, <2>4, <3>2, <3>3
  <2> QED BY <2>3, <2>4
\* The links of the others: only one that led nowhere may lead into it.
<1>10. ASSUME NEW b \in Ps1!Block \ D
       PROVE  /\ Ps1!Links(v)[b] \notin D
              /\ Ps1!Links(w)[b] # Ps1!Links(v)[b] => Ps1!Links(v)[b] = Ps1!Off /\ Ps1!Links(w)[b] \in D
  <2> DEFINE l == v.frame[b].link
             Live(x) == x.frame[l].state \in {"middle", "last"}
  <2>1. Ps1!Links(v)[b] = IF l = 0 THEN 0 ELSE IF l \in Ps1!Block /\ Live(v) THEN l ELSE Ps1!Off
    BY Ps1Links
  <2>2. Ps1!Links(w)[b] = IF l = 0 THEN 0 ELSE IF l \in Ps1!Block /\ Live(w) THEN l ELSE Ps1!Off
    <3>1. w.frame[b].link = l
      BY <1>3
    <3>2. Ps1!Links(w)[b] = IF w.frame[b].link = 0 THEN 0
                            ELSE IF /\ w.frame[b].link \in Ps1!Block
                                    /\ w.frame[w.frame[b].link].state \in {"middle", "last"}
                            THEN w.frame[b].link ELSE Ps1!Off
      BY Ps1Links
    <3> QED BY <3>1, <3>2
  <2>3. l \in D => ~Live(v)
    <3> HIDE DEF l
    <3> QED BY <1>7
  <2>4. l \in Ps1!Block \ D => (Live(w) <=> Live(v))
    <3> HIDE DEF l
    <3> QED BY <1>3
  <2> HIDE DEF l, Live
  <2> QED BY <1>3, <2>1, <2>2, <2>3, <2>4, Ps1Bounds
\* The new save's chain.
<1>11. Ps1!Walk(w, first) = order /\ Ps1Reach(w, first) = D
  <2>1. order \in Seq(Ps1!Block) /\ order # <<>>
    <3>1. \A i \in 1..n : order[i] \in Ps1!Block
      BY <1>3, <1>5
    <3> QED BY <1>2, <3>1
  <2>2. \A i \in 1..(n - 1) : i \in 1..n /\ i # n
    BY <1>2
  <2>3. Path(Ps1!Links(w), 0, order)
    <3>1. DOMAIN Ps1!Links(w) = Ps1!Block
      BY Ps1Links
    <3>2. n \in 1..n
      BY <1>2
    <3> QED BY <1>2, <1>9, <2>1, <2>2, <3>1, <3>2 DEF Path
  <2>4. Ps1!Walk(w, first) = order
    BY <2>3, Ps1Walks
  <2> QED BY <1>2, <2>4 DEF Ps1Reach, D
\* The chains of the saves that are whole.
<1>12. ASSUME NEW o \in Ps1!Firsts(v), Ps1!Walk(v, o) # <<>>
       PROVE  Ps1!Walk(w, o) = Ps1!Walk(v, o) /\ Ps1Reach(w, o) = Ps1Reach(v, o) /\ Ps1Reach(v, o) \cap D = {}
  <2>1. o \notin D
    BY <1>8
  <2>2. Ps1Reach(v, o) \cap D = {}
    <3>1. \A b \in Ps1Reach(v, o) : b # o => v.frame[b].state \in {"middle", "last"}
      BY Ps1Reaches
    <3> QED BY <1>7, <2>1, <3>1
  <2>3. \A b \in Ps1Reach(v, o) : b \in Ps1!Block \ D /\ Ps1!Links(v)[b] # Ps1!Off
    BY <2>2, Ps1Reaches, Ps1Bounds
  <2>4. \A b \in Ps1Reach(v, o) : Ps1!Links(w)[b] = Ps1!Links(v)[b]
    BY <1>10, <2>3
  <2>5. Ps1!Walk(w, o) = Ps1!Walk(v, o)
    BY <1>12, <2>4, Ps1Same
  <2> QED BY <2>2, <2>5 DEF Ps1Reach
\* A broken chain that comes to an end now does so in the new save.
<1>13. ASSUME NEW o \in Ps1!Firsts(v), Ps1!Walk(v, o) = <<>>, Ps1!Walk(w, o) # <<>>
       PROVE  Ps1Reach(w, o) \cap D # {}
  <2> SUFFICES ASSUME Ps1Reach(w, o) \cap D = {} PROVE FALSE
    OBVIOUS
  <2>1. \A b \in Ps1Reach(w, o) : b \in Ps1!Block \ D /\ Ps1!Links(w)[b] \notin D
    BY <1>3, Ps1Reaches, Ps1Bounds
  <2>2. \A b \in Ps1Reach(w, o) : Ps1!Links(v)[b] = Ps1!Links(w)[b]
    BY <1>10, <2>1
  <2>3. Ps1!Walk(v, o) = Ps1!Walk(w, o)
    BY <1>13, <2>2, Ps1Same
  <2> QED BY <1>13, <2>3
<1>14. \A b \in D : Ps1!Links(w)[b] \in D \cup {0}
  BY <1>11, Ps1Reaches
<1>15. ASSUME NEW c \in Ps1!Listed(v)
       PROVE  c \in Ps1!Listed(w)
  <2>1. c \in Ps1!Firsts(v) /\ Ps1!Walk(v, c) # <<>> /\ ~Ps1!Shared(v, c)
    BY DEF Ps1!Listed, Ps1!Intact
  <2>2. Ps1!Walk(w, c) = Ps1!Walk(v, c) /\ Ps1Reach(w, c) = Ps1Reach(v, c) /\ Ps1Reach(v, c) \cap D = {}
    BY <1>12, <2>1
  <2>3. ASSUME NEW o \in Ps1!Firsts(w) \ {c} PROVE Ps1Reach(w, c) \cap Ps1Reach(w, o) = {}
    <3>1. CASE o = first
      BY <1>11, <2>2, <3>1
    <3>2. CASE o \in Ps1!Firsts(v) /\ Ps1!Walk(v, o) # <<>>
      <4>1. Ps1Reach(w, o) = Ps1Reach(v, o)
        BY <1>12, <3>2
      <4>2. Ps1Reach(v, c) \cap Ps1Reach(v, o) = {}
        BY <2>1, <2>3, <3>2, Ps1Shared
      <4> QED BY <2>2, <4>1, <4>2
    <3>3. CASE o \in Ps1!Firsts(v) /\ Ps1!Walk(v, o) = <<>>
      <4> SUFFICES ASSUME Ps1Reach(w, c) \cap Ps1Reach(w, o) # {} PROVE FALSE
        OBVIOUS
      <4>1. Ps1!Walk(w, o) # <<>>
        BY Ps1Reaches
      <4>2. D \cap Ps1Reach(w, o) # {}
        BY <1>13, <3>3, <4>1
      <4> DEFINE last == Ps1!Walk(w, o)[Len(Ps1!Walk(w, o))]
      <4>3. last \in D
        BY <1>3, <1>14, <4>2, Ps1Meet
      <4>4. last \in Ps1Reach(w, c)
        <5>1. /\ Ps1Reach(w, c) \in SUBSET Ps1!Block
              /\ \A b \in Ps1Reach(w, c) : Ps1!Links(w)[b] \in Ps1Reach(w, c) \cup {0}
          BY Ps1Reaches
        <5> QED BY <5>1, Ps1Meet
      <4> QED BY <2>2, <4>3, <4>4
    <3> QED BY <1>8, <3>1, <3>2, <3>3
  <2>4. ~Ps1!Shared(w, c)
    BY <2>3, Ps1Shared
  <2> QED BY <1>8, <2>1, <2>2, <2>4 DEF Ps1!Listed, Ps1!Intact
<1>16. ASSUME NEW c \in Ps1!Listed(w), c # first
       PROVE  c \in Ps1!Listed(v)
  <2>1. c \in Ps1!Firsts(w) /\ Ps1!Walk(w, c) # <<>> /\ ~Ps1!Shared(w, c)
    BY DEF Ps1!Listed, Ps1!Intact
  <2>2. c \in Ps1!Firsts(v)
    BY <1>8, <1>16, <2>1
  <2>3. Ps1!Walk(v, c) # <<>>
    <3> SUFFICES ASSUME Ps1!Walk(v, c) = <<>> PROVE FALSE
      OBVIOUS
    <3>1. Ps1Reach(w, c) \cap Ps1Reach(w, first) # {}
      BY <1>11, <1>13, <2>1, <2>2
    <3>2. first \in Ps1!Firsts(w) \ {c}
      BY <1>8, <1>16
    <3> QED BY <2>1, <3>1, <3>2, Ps1Shared
  <2>4. ASSUME NEW o \in Ps1!Firsts(v) \ {c} PROVE Ps1Reach(v, c) \cap Ps1Reach(v, o) = {}
    <3>1. CASE Ps1!Walk(v, o) = <<>>
      BY <3>1, Ps1Reaches
    <3>2. CASE Ps1!Walk(v, o) # <<>>
      <4>1. Ps1Reach(w, o) = Ps1Reach(v, o) /\ Ps1Reach(w, c) = Ps1Reach(v, c)
        BY <1>12, <2>2, <2>3, <3>2
      <4>2. Ps1Reach(w, c) \cap Ps1Reach(w, o) = {}
        BY <1>8, <2>1, Ps1Shared
      <4> QED BY <4>1, <4>2
    <3> QED BY <3>1, <3>2
  <2>5. ~Ps1!Shared(v, c)
    BY <2>4, Ps1Shared
  <2> QED BY <2>2, <2>3, <2>5 DEF Ps1!Listed, Ps1!Intact
<1>17. first \notin Ps1!Listed(v) /\ first \in Ps1!Firsts(w)
  BY <1>4, <1>8 DEF Ps1!Listed
<1>18. Ps1!Listed(w) \in {Ps1!Listed(v), Ps1!Listed(v) \cup {first}}
  BY <1>15, <1>16
<1>19. Ps1Card(w)
  <2>1. w.frame[first].name = u.name
    BY <1>3, <1>4
  <2>2. \A b \in Ps1!Firsts(v) : w.frame[b] = v.frame[b] /\ v.frame[b].name # u.name
    BY <1>1, <1>3, <1>8 DEF Ps1!NameTaken, Ps1!Firsts
  <2> QED BY <1>8, <2>1, <2>2 DEF Ps1Card
<1>20. ASSUME NEW b \in Ps1!Listed(v) PROVE Ps1Entry(w, b) = Ps1Entry(v, b)
  <2>1. b \in Ps1!Firsts(v) /\ b \in Ps1!Block /\ Ps1!Walk(v, b) # <<>>
    BY DEF Ps1!Listed, Ps1!Intact, Ps1!Firsts
  <2>2. Ps1!Walk(w, b) = Ps1!Walk(v, b) /\ Ps1Reach(v, b) \cap D = {}
    BY <1>12, <2>1
  <2> DEFINE walk == Ps1!Walk(v, b)
  <2>3. \A i \in DOMAIN walk : walk[i] \in Ps1!Block \ D
    <3>1. DOMAIN walk = 1..Len(walk)
      BY <2>1, Ps1Chains
    <3>2. \A i \in 1..Len(walk) : walk[i] \in Ps1Reach(v, b)
      BY DEF Ps1Reach
    <3> QED BY <2>2, <3>1, <3>2, Ps1Reaches
  <2>4. Ps1!File(w, b) = Ps1!File(v, b)
    BY <1>3, <2>2, <2>3 DEF Ps1!File
  <2>5. w.frame[b] = v.frame[b]
    BY <1>3, <1>8, <2>1
  <2> QED BY <2>4, <2>5 DEF Ps1Entry
<1>21. Ps1Entry(w, first) = [name |-> u.name, first |-> first, file |-> u.file]
  <2>1. w.frame[first].name = u.name
    BY <1>3, <1>4
  <2>2. Ps1!File(w, first) = [i \in 1..n |-> w.data[order[i]]]
    <3>1. DOMAIN order = 1..n
      BY <1>2
    <3> QED BY <1>11, <3>1 DEF Ps1!File
  <2>3. u.file = [i \in 1..n |-> u.file[i]]
    BY UnitsHaveFiles DEF n
  <2>4. Ps1!File(w, first) = u.file
    BY <1>3, <2>2, <2>3
  <2> QED BY <2>1, <2>4 DEF Ps1Entry
<1>22. /\ Ps1!List(w) = {Ps1Entry(w, b) : b \in Ps1!Listed(w)}
       /\ Ps1!List(v) = {Ps1Entry(v, b) : b \in Ps1!Listed(v)}
  BY <1>19, Ps1Lists
<1>23. Ps1!List(w) \in {Ps1!List(v), Ps1!List(v) \cup {Ps1Entry(w, first)}}
  BY <1>18, <1>20, <1>22
<1>24. ASSUME Ps1Whole(v) PROVE Ps1Whole(w) /\ first \in Ps1!Listed(w)
  <2>1. \A o \in Ps1!Firsts(v) : Ps1!Walk(v, o) # <<>> /\ o \in Ps1!Listed(v)
    BY <1>24 DEF Ps1Whole, Ps1!Listed, Ps1!Intact
  <2>2. ~Ps1!Shared(w, first)
    <3>1. \A o \in Ps1!Firsts(w) \ {first} : Ps1Reach(w, first) \cap Ps1Reach(w, o) = {}
      BY <1>8, <1>11, <1>12, <2>1
    <3> QED BY <3>1, Ps1Shared
  <2>3. first \in Ps1!Listed(w)
    <3>1. order # <<>>
      BY <1>2
    <3> QED BY <1>8, <1>11, <2>2, <3>1 DEF Ps1!Listed, Ps1!Intact
  <2>4. Ps1!Firsts(w) \subseteq Ps1!Listed(w)
    BY <1>8, <1>15, <2>1, <2>3
  <2>5. ASSUME NEW b \in Ps1!Block \ Ps1!FreeBlocks(w) PROVE \E c \in Ps1!Firsts(w) : b \in Ps1Reach(w, c)
    <3>1. CASE b \in D
      BY <1>8, <1>11, <3>1
    <3>2. CASE b \notin D
      <4>1. b \notin Ps1!FreeBlocks(v)
        BY <1>3, <2>5, <3>2 DEF Ps1!FreeBlocks
      <4>2. PICK c \in Ps1!Firsts(v) : b \in Ps1Reach(v, c)
        BY <1>24, <4>1 DEF Ps1Whole
      <4> QED BY <1>8, <1>12, <2>1, <4>2
    <3> QED BY <3>1, <3>2
  <2> QED BY <2>3, <2>4, <2>5 DEF Ps1Whole
<1> QED
  BY <1>17, <1>19, <1>21, <1>22, <1>23, <1>24 DEF w, order

\* Taking a game's save off leaves the others, and none of its name.
LEMMA Ps1Clears ==
  ASSUME format = "ps1", NEW v, Ps1Card(v), NEW n
  PROVE  LET w == Cleared(v, n)
         IN  /\ Ps1Card(w) /\ (Ps1Whole(v) => Ps1Whole(w))
             /\ Showing(Ps1!List(w)) = Without(Showing(Ps1!List(v)), n)
             /\ \A x \in Ps1!List(w) : x.name # n
             /\ w # v => n \in DOMAIN Showing(Ps1!List(v))
<1> DEFINE w == Cleared(v, n)
           list == Ps1!List(v)
<1>1. /\ list = {Ps1Entry(v, b) : b \in Ps1!Listed(v)}
      /\ \A x, y \in list : x.name = y.name => x = y
      /\ \A b : Ps1Entry(v, b).name = v.frame[b].name /\ Ps1Entry(v, b).first = b
  BY Ps1Lists
<1>2. Named(v, n) = {x \in list : x.name = n}
  BY Ps1Is DEF Named
<1>3. DOMAIN Showing(list) = {x.name : x \in list} /\ Showing(list) = [m \in DOMAIN Showing(list) |-> Showing(list)[m]]
  BY ShowsNames
<1>4. CASE Named(v, n) = {}
  <2>1. w = v
    BY <1>4 DEF Cleared
  <2>2. n \notin DOMAIN Showing(list) /\ \A x \in list : x.name # n
    BY <1>2, <1>3, <1>4
  <2>3. Without(Showing(list), n) = Showing(list)
    BY <1>3, <2>2, ShowsSame
  <2> QED BY <2>1, <2>2, <2>3
<1>5. CASE Named(v, n) # {}
  <2> DEFINE e == CHOOSE x \in Named(v, n) : TRUE
  <2>1. e \in Named(v, n)
    BY <1>5
  <2>2. e \in list /\ e.name = n
    BY <1>2, <2>1
  <2>3. PICK f \in Ps1!Listed(v) : e = Ps1Entry(v, f)
    BY <1>1, <2>2
  <2>4. w = Ps1!Delete(v, f)
    <3>1. w = Remove(v, e.first)
      BY <1>5 DEF Cleared
    <3>2. e.first = f
      BY <1>1, <2>3
    <3> QED BY <3>1, <3>2, Ps1Is
  <2>5. /\ Ps1Card(w) /\ (Ps1Whole(v) => Ps1Whole(w))
        /\ Ps1!List(w) = list \ {e}
    <3>1. /\ Ps1Card(Ps1!Delete(v, f)) /\ (Ps1Whole(v) => Ps1Whole(Ps1!Delete(v, f)))
          /\ Ps1!List(Ps1!Delete(v, f)) = list \ {Ps1Entry(v, f)}
      BY Ps1Deletes
    <3> HIDE DEF list, e, w
    <3> QED BY <2>3, <2>4, <3>1
  <2> HIDE DEF list, e, w
  <2>6. Showing(list \ {e}) = Without(Showing(list), n)
    <3>1. Showing(list \ {e}) = Without(Showing(list), e.name)
      BY <1>1, <2>2, ShowsLess
    <3> QED BY <2>2, <3>1
  <2>7. \A x \in list \ {e} : x.name # n
    BY <1>1, <2>2
  <2>8. n \in DOMAIN Showing(list)
    BY <1>3, <2>2
  <2> QED BY <2>5, <2>6, <2>7, <2>8 DEF list, w
<1> QED
  BY <1>4, <1>5

\* A save that goes on shows as it was given, unless a damaged chain leads
\* into it: then it doesn't.  The others show as they did.
LEMMA Ps1Puts ==
  ASSUME format = "ps1", NEW v, Ps1Card(v), NEW u \in Units, Ps1!InjectCode(v, u) = "OK"
  PROVE  LET w == Ps1!Inject(v, u)
             show == Showing(Ps1!List(v))
         IN  /\ Ps1Card(w)
             /\ Showing(Ps1!List(w)) \in {show, With(show, u.name, u.file)}
             /\ Ps1Whole(v) => Ps1Whole(w) /\ Showing(Ps1!List(w)) = With(show, u.name, u.file)
<1> DEFINE w == Ps1!Inject(v, u)
           list == Ps1!List(v)
           first == Ps1!Chosen(v, u)[1]
           e == Ps1Entry(w, first)
<1>1. /\ Ps1Card(w)
      /\ e = [name |-> u.name, first |-> first, file |-> u.file]
      /\ Ps1!List(w) \in {list, list \cup {e}}
      /\ Ps1Whole(v) => Ps1Whole(w) /\ e \in Ps1!List(w)
      /\ first \notin Ps1!Listed(v)
  BY Ps1Injects
<1>2. /\ list = {Ps1Entry(v, b) : b \in Ps1!Listed(v)}
      /\ \A x, y \in list : x.name = y.name => x = y
      /\ \A b : Ps1Entry(v, b).name = v.frame[b].name /\ Ps1Entry(v, b).first = b
  BY Ps1Lists
<1>3. \A x \in list : x.name # u.name
  <2>1. ~Ps1!NameTaken(v, u)
    BY DEF Ps1!InjectCode
  <2>2. \A b \in Ps1!Listed(v) : v.frame[b].name # u.name
    BY <2>1 DEF Ps1!NameTaken, Ps1!Listed
  <2> QED BY <1>2, <2>2
<1>4. e.name = u.name /\ e.file = u.file
  BY <1>1
<1>5. e \notin list
  BY <1>3, <1>4
<1> HIDE DEF w, list, e
<1>6. Showing(list \cup {e}) = With(Showing(list), u.name, u.file)
  BY <1>2, <1>3, <1>4, ShowsMore
<1> QED
  BY <1>1, <1>5, <1>6 DEF w, list

\* A card's saves have names of their own, are whole unless it was damaged,
\* and the listing is what shows.
Ps1Inv ==
  format = "ps1" =>
    /\ damage \in Nat
    /\ Ps1Card(card)
    /\ damage = 0 => Ps1Whole(card)
    /\ shown = Showing(Ps1!List(card))

LEMMA Ps1Places ==
  ASSUME Ps1Inv, format = "ps1", Place
  PROVE  \E u \in Units :
           /\ Ps1Card(card') /\ (damage = 0 => Ps1Whole(card'))
           /\ shown' = Showing(Ps1!List(card'))
           /\ shown' \in {Without(shown, u.name), With(shown, u.name, u.file)}
           /\ UNCHANGED damage
<1>1. PICK u \in Units : \E empty \in {Cleared(card, u.name)} :
        /\ PlaceCode(card, empty, u) = "OK"
        /\ Step(Inject(empty, u), List(Inject(empty, u)))
  BY DEF Place
<1> DEFINE empty == Cleared(card, u.name)
           w == Ps1!Inject(empty, u)
<1>2. Ps1!InjectCode(empty, u) = "OK"
  BY <1>1, Ps1Is DEF PlaceCode
<1>3. /\ Ps1Card(empty) /\ (damage = 0 => Ps1Whole(empty))
      /\ Showing(Ps1!List(empty)) = Without(shown, u.name)
  BY Ps1Clears DEF Ps1Inv
<1>4. card' = w /\ shown' = Showing(Ps1!List(w))
  BY <1>1, Ps1Is DEF Step
<1> HIDE DEF empty
<1>5. /\ Ps1Card(w) /\ (Ps1Whole(empty) => Ps1Whole(w))
      /\ Showing(Ps1!List(w)) \in {Without(shown, u.name), With(Without(shown, u.name), u.name, u.file)}
  BY <1>2, <1>3, Ps1Puts
<1>6. UNCHANGED damage
  BY DEF Place
<1> QED
  BY <1>3, <1>4, <1>5, <1>6, ShowsAnew

LEMMA Ps1Takes ==
  ASSUME Ps1Inv, format = "ps1", TakeOff
  PROVE  \E n \in Names :
           /\ Ps1Card(card') /\ (damage = 0 => Ps1Whole(card'))
           /\ shown' = Showing(Ps1!List(card'))
           /\ n \in DOMAIN shown /\ shown' = Without(shown, n)
           /\ UNCHANGED damage
<1>1. PICK n \in Names : Cleared(card, n) # card /\ Step(Cleared(card, n), List(Cleared(card, n)))
  BY DEF TakeOff
<1> DEFINE w == Cleared(card, n)
<1>2. /\ Ps1Card(w) /\ (damage = 0 => Ps1Whole(w))
      /\ Showing(Ps1!List(w)) = Without(shown, n)
      /\ n \in DOMAIN shown
  BY <1>1, Ps1Clears DEF Ps1Inv
<1>3. card' = w /\ shown' = Showing(Ps1!List(w))
  BY <1>1, Ps1Is DEF Step
<1>4. UNCHANGED damage
  BY DEF TakeOff
<1> QED
  BY <1>2, <1>3, <1>4

LEMMA Ps1Loses ==
  ASSUME Ps1Inv, format = "ps1", Ps1Link
  PROVE  /\ Ps1Card(card')
         /\ shown' = Showing(Ps1!List(card'))
         /\ damage' = damage + 1
<1>1. PICK b \in Ps1!Block, l \in 0..Ps1!Off : Harm(Ps1!Relinked(card, b, l), Ps1!List(Ps1!Relinked(card, b, l)))
  BY DEF Ps1Link
<1> DEFINE w == Ps1!Relinked(card, b, l)
<1>2. \A c \in Ps1!Block : w.frame[c] = IF c = b THEN Ps1!Frame(card.frame[b].state, l, card.frame[b].name) ELSE card.frame[c]
  BY DEF Ps1!Relinked
<1>3. \A s, k, n : Ps1!Frame(s, k, n).state = s /\ Ps1!Frame(s, k, n).name = n
  BY DEF Ps1!Frame
<1> HIDE DEF w
<1>4. \A c \in Ps1!Block : w.frame[c].state = card.frame[c].state /\ w.frame[c].name = card.frame[c].name
  BY <1>2, <1>3
<1>5. Ps1Card(w)
  BY <1>4 DEF Ps1Card, Ps1!Firsts, Ps1Inv
<1>6. card' = w /\ shown' = Showing(Ps1!List(w)) /\ damage' = damage + 1
  BY <1>1 DEF Harm, Step, w
<1> QED
  BY <1>5, <1>6

LEMMA Ps1Step ==
  ASSUME Ps1Inv, [Next]_vars
  PROVE  Ps1Inv'
<1> SUFFICES ASSUME format = "ps1", format' = "ps1"
             PROVE  /\ damage' \in Nat
                    /\ Ps1Card(card')
                    /\ damage' = 0 => Ps1Whole(card')
                    /\ shown' = Showing(Ps1!List(card'))
  BY FormatStays DEF Ps1Inv
<1>1. CASE Place
  BY <1>1, Ps1Places DEF Ps1Inv
<1>2. CASE TakeOff
  BY <1>2, Ps1Takes DEF Ps1Inv
<1>3. CASE Ps1Link
  BY <1>3, Ps1Loses DEF Ps1Inv
<1>4. CASE UNCHANGED vars
  BY <1>4 DEF vars, Ps1Inv
<1>5. ~WriteRepaired
  BY Ps1Is DEF WriteRepaired
<1> QED
  BY <1>1, <1>2, <1>3, <1>4, <1>5
     DEF Next, Restores, Damages, VmuLink, VmuUnwritten, GamecubeTorn, SaturnDecay, SegacdDecay, Ps2Link, ConsoleSaves

LEMMA Ps1Holds == Spec => []Ps1Inv
<1>1. Init => Ps1Inv
  <2> SUFFICES ASSUME Init, format = "ps1"
               PROVE  /\ damage \in Nat
                      /\ Ps1Card(card) /\ Ps1Whole(card)
                      /\ shown = Showing(Ps1!List(card))
    BY DEF Ps1Inv
  <2>1. card = Ps1!Format /\ shown = <<>> /\ damage = 0
    BY DEF Init, Formatted
  <2>2. \A b \in Ps1!Block : card.frame[b].state = "free"
    BY <2>1 DEF Ps1!Format, Ps1!Frame
  <2>3. Ps1!Firsts(card) = {} /\ Ps1!FreeBlocks(card) = Ps1!Block
    BY <2>2 DEF Ps1!Firsts, Ps1!FreeBlocks
  <2>4. Ps1!List(card) = {}
    BY <2>3 DEF Ps1!List, Ps1!Listed
  <2> QED BY <2>1, <2>3, <2>4, ShowsNone DEF Ps1Card, Ps1Whole
<1> QED
  BY <1>1, Ps1Step, PTL DEF Spec

\* Whatever a PS1 card went through, a restore changes only the save it is
\* for: the frames' links may be any, and no two saves shown share a block.
THEOREM Ps1KeepsSaves == format = "ps1" /\ Spec => SavesKept
<1>1. format = "ps1" /\ Init => CardIsSaves!Init
  BY DEF Init, CardIsSaves!Init
<1>2. ASSUME format = "ps1", Ps1Inv, [Next]_vars
      PROVE  [CardIsSaves!Next]_<<shown, damage>>
  <2>1. CASE Place
    <3>1. PICK u \in Units : /\ shown' \in {Without(shown, u.name), With(shown, u.name, u.file)}
                             /\ UNCHANGED damage
      BY <1>2, <2>1, Ps1Places
    <3>2. u.name \in Names /\ u.file \in {w.file : w \in Units}
      BY UnitsHaveFiles
    <3>3. CASE shown' = With(shown, u.name, u.file)
      <4>1. CardIsSaves!Put(u.name, u.file)
        BY <3>1, <3>3 DEF CardIsSaves!Put, With
      <4> QED BY <3>2, <4>1 DEF CardIsSaves!Next
    <3>4. CASE shown' = Without(shown, u.name) /\ u.name \in DOMAIN shown
      <4>1. CardIsSaves!TakeOff(u.name)
        BY <3>1, <3>4 DEF CardIsSaves!TakeOff, CardIsSaves!Restrict, Without
      <4> QED BY <3>2, <4>1 DEF CardIsSaves!Next
    <3>5. CASE shown' = Without(shown, u.name) /\ u.name \notin DOMAIN shown
      <4>1. shown = [m \in DOMAIN shown |-> shown[m]]
        BY <1>2, ShowsNames DEF Ps1Inv
      <4> QED BY <3>1, <3>5, <4>1, ShowsSame
    <3> QED BY <3>1, <3>3, <3>4, <3>5
  <2>2. CASE TakeOff
    <3>1. PICK n \in Names : n \in DOMAIN shown /\ shown' = Without(shown, n) /\ UNCHANGED damage
      BY <1>2, <2>2, Ps1Takes
    <3>2. CardIsSaves!TakeOff(n)
      BY <3>1 DEF CardIsSaves!TakeOff, CardIsSaves!Restrict, Without
    <3> QED BY <3>2 DEF CardIsSaves!Next
  <2>3. CASE Ps1Link
    BY <1>2, <2>3, Ps1Loses DEF CardIsSaves!Next, CardIsSaves!Damage
  <2>4. CASE UNCHANGED vars
    BY <2>4 DEF vars
  <2>5. ~WriteRepaired
    BY <1>2, Ps1Is DEF WriteRepaired
  <2> QED
    BY <1>2, <2>1, <2>2, <2>3, <2>4, <2>5
       DEF Next, Restores, Damages, VmuLink, VmuUnwritten, GamecubeTorn, SaturnDecay, SegacdDecay, Ps2Link, ConsoleSaves
<1>3. format = "ps1" /\ [Next]_vars => (format = "ps1")'
  BY FormatStays
<1> QED
  BY <1>1, <1>2, <1>3, Ps1Holds, PTL DEF Spec, SavesKept, CardIsSaves!Spec

\* sync_units.c:672: on a PS1 card without damage a restore that has the
\* blocks goes through, verifies, and reads back as it was.
THEOREM Ps1PlacesServe == Spec => [](format = "ps1" => PlacesServe)
<1>1. Ps1Inv => (format = "ps1" => PlacesServe)
  <2> SUFFICES ASSUME Ps1Inv, format = "ps1", damage = 0, NEW u \in Units, Fitting(u)
               PROVE  Serves(Cleared(card, u.name), PlaceCode(card, Cleared(card, u.name), u),
                             Inject(Cleared(card, u.name), u), u)
    BY DEF PlacesServe, Sound
  <2> DEFINE empty == Cleared(card, u.name)
             code == PlaceCode(card, empty, u)
             w == Ps1!Inject(empty, u)
             first == Ps1!Chosen(empty, u)[1]
  <2>1. Ps1Card(card) /\ Ps1Whole(card)
    BY DEF Ps1Inv
  <2>2. Ps1Card(empty) /\ Ps1Whole(empty) /\ \A x \in Ps1!List(empty) : x.name # u.name
    BY <2>1, Ps1Clears
  <2>3. Corrupt(card) = {}
    BY <2>1, Ps1Is DEF Ps1Whole, Ps1!Corrupt
  <2> HIDE DEF empty
  <2>4. Named(empty, u.name) = {}
    BY <2>2, Ps1Is DEF Named
  <2>5. code = Ps1!InjectCode(empty, u)
    BY <2>3, <2>4, Ps1Is DEF PlaceCode
  <2>6. ~Ps1!NameTaken(empty, u)
    <3>1. /\ Ps1!List(empty) = {Ps1Entry(empty, b) : b \in Ps1!Listed(empty)}
          /\ \A b : Ps1Entry(empty, b).name = empty.frame[b].name
      BY <2>2, Ps1Lists
    <3>2. \A b \in Ps1!Firsts(empty) : empty.frame[b].name # u.name
      BY <2>2, <3>1 DEF Ps1Whole
    <3> QED BY <3>2 DEF Ps1!NameTaken
  <2>7. code = IF Cardinality(Ps1!FreeBlocks(empty)) < Len(u.file) THEN "NO_SPACE" ELSE "OK"
    <3>1. code = IF Ps1!Cardinality(Ps1!FreeBlocks(empty)) < Len(u.file) THEN "NO_SPACE" ELSE "OK"
      BY <2>5, <2>6 DEF Ps1!InjectCode
    <3> QED BY <3>1, Ps1Counts
  <2>8. code = "NO_SPACE" => FreeBlocks(empty) < Cost(empty, u)
    <3> HIDE DEF code
    <3> QED BY <2>7, Ps1Is
  <2>9. ASSUME code = "OK"
        PROVE  Verify(w, u) /\ \E e \in Named(w, u.name) : e.file = u.file
    <3>1. Ps1!InjectCode(empty, u) = "OK"
      BY <2>5, <2>9
    <3>2. /\ first \in Ps1!Firsts(w)
          /\ Ps1Entry(w, first) = [name |-> u.name, first |-> first, file |-> u.file]
          /\ Ps1Entry(w, first) \in Ps1!List(w)
      BY <2>2, <3>1, Ps1Injects
    <3> HIDE DEF w, first
    <3>3. w.frame[first].name = u.name /\ Ps1!File(w, first) = u.file
      BY <3>2 DEF Ps1Entry
    <3>4. Ps1!Verify(w, u)
      BY <3>2, <3>3 DEF Ps1!Verify
    <3>5. Ps1Entry(w, first) \in Named(w, u.name) /\ Ps1Entry(w, first).file = u.file
      BY <3>2, Ps1Is DEF Named
    <3> QED BY <3>4, <3>5, Ps1Is
  <2>10. Inject(empty, u) = w
    BY Ps1Is
  <2> HIDE DEF code, w
  <2>11. code \in {"OK", "NO_SPACE"}
    BY <2>7
  <2>12. Serves(empty, code, w, u)
    BY <2>8, <2>9, <2>11 DEF Serves
  <2> QED BY <2>10, <2>12 DEF empty, code
<1> QED
  BY <1>1, Ps1Holds, PTL

\* The blocks that aren't free are one save's each.
LEMMA Ps1Holding ==
  ASSUME Ps1Inv, format = "ps1", Ps1Whole(card)
  PROVE  Cardinality(Holding) = Cardinality(Ps1!Block \ Ps1!FreeBlocks(card))
<1> DEFINE F == Ps1!Firsts(card)
           B == Ps1!Block \ Ps1!FreeBlocks(card)
           name(c) == card.frame[c].name
           walk(c) == Ps1!Walk(card, c)
           names == [c \in F |-> name(c)]
           walks == [c \in F |-> walk(c)]
<1>1. Ps1Card(card) /\ shown = Showing(Ps1!List(card))
  BY DEF Ps1Inv
<1>2. \A c \in F : c \in Ps1!Listed(card) /\ walk(c) # <<>> /\ ~Ps1!Shared(card, c)
  BY DEF Ps1Whole, Ps1!Listed, Ps1!Intact
<1>3. /\ Ps1!List(card) = {Ps1Entry(card, c) : c \in F}
      /\ \A x, y \in Ps1!List(card) : x.name = y.name => x = y
      /\ \A c : Ps1Entry(card, c).name = name(c) /\ Ps1Entry(card, c).file = Ps1!File(card, c)
  <2>1. Ps1!Listed(card) = F
    BY <1>2 DEF Ps1!Listed
  <2> QED BY <1>1, <2>1, Ps1Lists
<1>4. /\ DOMAIN shown = {name(c) : c \in F}
      /\ \A c \in F : shown[name(c)] = Ps1!File(card, c)
      /\ \A c, d \in F : name(c) = name(d) => c = d
  <2> DEFINE list == Ps1!List(card)
  <2>1. \A c \in F : Ps1Entry(card, c) \in list
    BY <1>3
  <2>2. \A c \in F : \E e \in list : e.name = name(c) /\ e.file = Ps1!File(card, c)
    BY <1>3, <2>1
  <2>3. {e.name : e \in list} = {name(c) : c \in F}
    BY <1>3
  <2> HIDE DEF list, F, name
  <2>4. DOMAIN Showing(list) = {e.name : e \in list}
    BY ShowsNames
  <2>5. \A e \in list : Showing(list)[e.name] = e.file
    BY <1>3, ShowsEach DEF list
  <2>6. \A c, d \in F : name(c) = name(d) => c = d
    BY <1>1 DEF Ps1Card, F, name
  <2> QED BY <1>1, <2>2, <2>3, <2>4, <2>5, <2>6 DEF list
<1>5. ASSUME NEW c \in F
      PROVE  /\ Len(walk(c)) \in Nat \ {0}
             /\ \A i \in 1..Len(walk(c)) : walk(c)[i] \in B /\ walk(c)[i] \in Ps1Reach(card, c)
             /\ \A i, j \in 1..Len(walk(c)) : walk(c)[i] = walk(c)[j] => i = j
             /\ \A b \in Ps1Reach(card, c) : \E i \in 1..Len(walk(c)) : walk(c)[i] = b
             /\ Held(shown[name(c)]) = Len(walk(c))
  <2>1. walk(c) # <<>>
    BY <1>2
  <2>2. /\ Len(walk(c)) \in Nat \ {0} /\ walk(c)[1] = c
        /\ walk(c) = [i \in 1..Len(walk(c)) |-> walk(c)[i]]
        /\ \A i \in 1..Len(walk(c)) : walk(c)[i] \in Ps1!Block
        /\ \A i, j \in 1..Len(walk(c)) : walk(c)[i] = walk(c)[j] => i = j
        /\ \A i \in 1..Len(walk(c)) : i # 1 => card.frame[walk(c)[i]].state \in {"middle", "last"}
    BY <2>1, Ps1Chains
  <2>3. card.frame[c].state = "first"
    BY DEF Ps1!Firsts
  <2>4. \A i \in 1..Len(walk(c)) : walk(c)[i] \notin Ps1!FreeBlocks(card)
    <3> SUFFICES ASSUME NEW i \in 1..Len(walk(c)) PROVE card.frame[walk(c)[i]].state \in {"first", "middle", "last"}
      BY DEF Ps1!FreeBlocks
    <3> QED BY <2>2, <2>3
  <2>5. Held(shown[name(c)]) = Len(walk(c))
    <3>1. Held(shown[name(c)]) = Len(Ps1!File(card, c))
      BY <1>4 DEF Held
    <3>2. Ps1!File(card, c) = [i \in 1..Len(walk(c)) |-> card.data[walk(c)[i]]]
      <4>1. DOMAIN walk(c) = 1..Len(walk(c))
        BY <2>2
      <4> QED BY <4>1 DEF Ps1!File
    <3> HIDE DEF walk
    <3>3. Len(Ps1!File(card, c)) = Len(walk(c))
      BY <2>2, <3>2
    <3> QED BY <3>1, <3>3
  <2> QED BY <2>2, <2>4, <2>5 DEF Ps1Reach
<1>6. ASSUME NEW c \in F, NEW d \in F, NEW b \in Ps1Reach(card, c), b \in Ps1Reach(card, d) PROVE c = d
  BY <1>2, <1>6, Ps1Shared
<1>7. \A b \in B : \E c \in F : b \in Ps1Reach(card, c)
  BY DEF Ps1Whole
<1>8. IsFiniteSet(B)
  <2>1. B \subseteq Ps1!Block
    OBVIOUS
  <2> HIDE DEF B
  <2> QED BY <2>1, Ps1Bounds, FS_Subset
<1>9. \A c \in F : names[c] = name(c) /\ walks[c] = walk(c)
  OBVIOUS
<1> HIDE DEF F, name, walk, B, names, walks
<1>10. HeldOnce(B, F, names, walks)
  <2>1. \A c, d \in F : names[c] = names[d] => c = d
    BY <1>4, <1>9
  <2>2. \A c \in F : \A i \in 1..Len(walks[c]) : walks[c][i] \in B
    BY <1>5, <1>9
  <2>3. ASSUME NEW c \in F, NEW d \in F, NEW i \in 1..Len(walk(c)), NEW k \in 1..Len(walk(d)), walk(c)[i] = walk(d)[k]
        PROVE  c = d /\ i = k
    <3>1. walk(c)[i] \in Ps1Reach(card, c) /\ walk(d)[k] \in Ps1Reach(card, d)
      BY <1>5
    <3>2. c = d
      BY <1>6, <2>3, <3>1
    <3> QED BY <1>5, <2>3, <3>2
  <2>4. \A c, d \in F : \A i \in 1..Len(walks[c]), k \in 1..Len(walks[d]) : walks[c][i] = walks[d][k] => c = d /\ i = k
    BY <1>9, <2>3
  <2>5. \A b \in B : \E c \in F : \E i \in 1..Len(walks[c]) : walks[c][i] = b
    BY <1>5, <1>7, <1>9
  <2> QED BY <1>8, <2>1, <2>2, <2>4, <2>5 DEF HeldOnce
<1>11. \A p : p \in Holding <=> \E c \in F : \E i \in 1..Len(walks[c]) : p = <<names[c], i>>
  <2>1. \A p : p \in Holding <=> \E n \in DOMAIN shown : \E i \in 1..Held(shown[n]) : p = <<n, i>>
    BY DEF Holding
  <2>2. \A c \in F : name(c) \in DOMAIN shown
    BY <1>4
  <2>3. \A n \in DOMAIN shown : \E c \in F : n = name(c)
    BY <1>4
  <2> QED BY <1>5, <1>9, <2>1, <2>2, <2>3
<1>12. Cardinality(Holding) = Cardinality(B)
  BY <1>10, <1>11, PlacesHeld
<1> QED
  BY <1>12 DEF B

\* sync_units.c:641: on a PS1 card without damage every block is free or one
\* save's.
THEOREM Ps1Accounts == Spec => [](format = "ps1" => BlocksAccounted)
<1>1. Ps1Inv => (format = "ps1" => BlocksAccounted)
  <2> SUFFICES ASSUME Ps1Inv, format = "ps1", damage = 0
               PROVE  Corrupt(card) = {} /\ Cardinality(Holding) + DirectoryBlocks + FreeBlocks(card) = AllBlocks
    BY DEF BlocksAccounted, Sound
  <2>1. Ps1Whole(card)
    BY DEF Ps1Inv
  <2>2. Corrupt(card) = {}
    BY <2>1, Ps1Is DEF Ps1Whole, Ps1!Corrupt
  <2> DEFINE free == Ps1!FreeBlocks(card)
  <2>3. DirectoryBlocks = 0 /\ AllBlocks = Blocks
    BY DEF DirectoryBlocks, AllBlocks
  <2>4. FreeBlocks(card) = Cardinality(free)
    BY Ps1Is
  <2>5. Cardinality(Holding) = Cardinality(Ps1!Block \ free)
    BY <2>1, Ps1Holding
  <2>6. free \subseteq Ps1!Block
    BY DEF Ps1!FreeBlocks
  <2>7. /\ Cardinality(Ps1!Block \ free) = Cardinality(Ps1!Block) - Cardinality(free)
        /\ Cardinality(free) \in Nat /\ Cardinality(Ps1!Block) \in Nat
    <3> HIDE DEF free
    <3> QED BY <2>6, Ps1Bounds, Parted
  <2> HIDE DEF free
  <2> QED BY <2>2, <2>3, <2>4, <2>5, <2>7, Ps1Bounds
<1> QED
  BY <1>1, Ps1Holds, PTL
===============================================================================
