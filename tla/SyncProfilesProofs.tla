------------------------- MODULE SyncProfilesProofs -------------------------
(***************************************************************************)
(* Theorems about SyncProfiles for any titles, profiles, folders and       *)
(* bounds.  The argument: a restore takes ids past everything in use       *)
(* (HighestIdSound), writes a counter past them before anything else and   *)
(* the index after everything else, so the index never names a folder the  *)
(* emulator may hand out again (IndexSound).                               *)
(***************************************************************************)
EXTENDS SyncProfiles, Integers, TLAPS, FiniteSetTheorems

IInv == TypeOK /\ IndexSound

\* A bounded set of naturals has a greatest member.
LEMMA HasMax ==
  ASSUME NEW b \in Nat, NEW S \in SUBSET (0..b), S # {}
  PROVE  \E n \in S : \A m \in S : m <= n
<1> DEFINE above(n) == (n + 1)..b
           T == {above(n) : n \in S}
           R == StrictSubsetOrdering(0..b)
<1>1. \A n \in S : above(n) \in SUBSET (0..b)
  OBVIOUS
<1>2. T \subseteq SUBSET (0..b) /\ T # {}
  <2> HIDE DEF above
  <2> QED BY <1>1
<1>3. IsWellFoundedOn(R, SUBSET (0..b))
  <2>1. IsFiniteSet(0..b)
    BY FS_Interval
  <2>2. FiniteSubsetsOf(0..b) = SUBSET (0..b)
    BY <2>1, FS_FiniteSubsetsOfFinite
  <2>3. IsWellFoundedOn(R, FiniteSubsetsOf(0..b))
    BY FS_StrictSubsetOrderingWellFounded
  <2> QED BY <2>2, <2>3
<1>4. \E x \in T : \A y \in T : ~(<<y, x>> \in R)
  <2> HIDE DEF T, R
  <2> QED BY <1>2, <1>3, WFMin
<1>5. PICK n \in S : \A m \in S : ~(<<above(m), above(n)>> \in R)
  <2> HIDE DEF R, above
  <2> QED BY <1>4
<1>6. ASSUME NEW m \in S, m > n PROVE FALSE
  <2>1. above(m) \subseteq above(n) /\ m \in above(n) /\ m \notin above(m)
    BY <1>6
  <2>2. <<above(m), above(n)>> \in R
    <3> HIDE DEF above
    <3> QED BY <2>1, <1>1 DEF StrictSubsetOrdering
  <2> QED
    BY <2>2, <1>5
<1> QED
  BY <1>6

\* save_profiles.c:758: the highest id is past the counter, the index and the
\* folders.
LEMMA HighestIdSound ==
  ASSUME TypeOK
  PROVE  /\ HighestId \in 0..MaxId
         /\ counter <= HighestId
         /\ \A k \in Keys : index[k] # None => index[k] <= HighestId
         /\ \A i \in Ids : folder[i] # {} => i <= HighestId
<1>1. Used \in SUBSET (0..MaxId) /\ counter \in Used
  BY ConstantsTyped DEF TypeOK, Used, Ids
<1>2. \E n \in Used : \A m \in Used : m <= n
  BY <1>1, HasMax, ConstantsTyped
<1>3. HighestId \in Used /\ \A m \in Used : m <= HighestId
  BY <1>2 DEF HighestId
<1> QED
  BY <1>1, <1>3 DEF Used

\* What every request says.
Asks(q) == q.title \in Titles /\ q.profile \in Asked

LEMMA KeyTyped ==
  ASSUME NEW q, Asks(q), NEW a \in Areas, HasKey(q, a)
  PROVE  KeyOf(q, a) \in Keys
  BY DEF Asks, Asked, KeyOf, Key, HasKey, Keys, Slots

LEMMA AreaKeysDiffer ==
  ASSUME NEW q, Asks(q), HasKey(q, "account")
  PROVE  KeyOf(q, "account") # KeyOf(q, "device")
  BY ConstantsTyped DEF Asks, Asked, KeyOf, Key, HasKey, Slots

LEMMA UnpublishedCount ==
  ASSUME NEW q
  PROVE  /\ Unpublished(q) \subseteq Areas
         /\ Unpublished(q) = {} => Cardinality(Unpublished(q)) = 0
         /\ \A a \in Unpublished(q) : Unpublished(q) = {a} => Cardinality(Unpublished(q)) = 1
         /\ "account" \in Unpublished(q) /\ "device" \in Unpublished(q) => Cardinality(Unpublished(q)) = 2
<1>1. Unpublished(q) \subseteq {"account", "device"}
  BY DEF Unpublished, Areas
<1>2. Cardinality({}) = 0 /\ \A a : IsFiniteSet({a}) /\ Cardinality({a}) = 1
  BY FS_EmptySet, FS_Singleton
<1>3. Cardinality({"account"} \cup {"device"}) = 2
  <2>1. "device" \notin {"account"} /\ IsFiniteSet({"account"}) /\ Cardinality({"account"}) = 1
    BY <1>2
  <2>2. Cardinality({"account"} \cup {"device"}) = Cardinality({"account"}) + 1
    BY <2>1, FS_AddElement
  <2> QED
    BY <2>1, <2>2
<1>4. "account" \in Unpublished(q) /\ "device" \in Unpublished(q) => Unpublished(q) = {"account"} \cup {"device"}
  BY <1>1
<1> QED
  BY <1>1, <1>2, <1>3, <1>4 DEF Areas

\* save_profiles.c:875-883: each new folder is past every id in use and no
\* further than the new counter, and the two are not the same.
LEMMA NewIdsFresh ==
  ASSUME NEW q, TypeOK
  PROVE  /\ CounterWith(q) \in Nat /\ HighestId <= CounterWith(q)
         /\ \A a \in Unpublished(q) : /\ Target(q, a) \in Nat
                                      /\ HighestId < Target(q, a) /\ Target(q, a) <= CounterWith(q)
         /\ "account" \in Unpublished(q) /\ "device" \in Unpublished(q) =>
              Target(q, "account") # Target(q, "device")
<1> DEFINE U == Unpublished(q)
<1>1. HighestId \in Nat
  BY HighestIdSound
<1>2. U \subseteq {"account", "device"}
  BY UnpublishedCount DEF Areas
<1>3. CASE U = {}
  BY <1>1, <1>3, UnpublishedCount DEF CounterWith
<1>4. CASE "account" \in U /\ "device" \in U
  BY <1>1, <1>2, <1>4, UnpublishedCount DEF CounterWith, Target, NewId
<1>5. CASE \E a \in U : U = {a}
  <2>1. PICK a \in U : U = {a}
    BY <1>5
  <2>2. Cardinality(U) = 1
    BY <2>1, UnpublishedCount
  <2>3. Target(q, a) = HighestId + 1
    BY <1>2, <2>1 DEF Target, NewId
  <2> QED
    BY <1>1, <2>1, <2>2, <2>3 DEF CounterWith
<1> QED
  BY <1>2, <1>3, <1>4, <1>5

\* The index restore writes keeps every entry, and gives each save that has
\* none a folder of its own.
LEMMA IndexWithSound ==
  ASSUME NEW q, IInv, Asks(q), RestoreCode(q) = "OK", CounterWith(q) <= MaxId
  PROVE  /\ IndexWith(q) \in [Keys -> Ids \cup {None}]
         /\ \A k \in Keys : index[k] # None => IndexWith(q)[k] = index[k]
         /\ Indexed => Sound(IndexWith(q), CounterWith(q))
         /\ \A a \in Unpublished(q) : index[KeyOf(q, a)] = None /\ IndexWith(q)[KeyOf(q, a)] = Target(q, a)
         /\ \A k \in Keys : (\A a \in Unpublished(q) : KeyOf(q, a) # k) => IndexWith(q)[k] = index[k]
<1> DEFINE U == Unpublished(q)
<1>1. /\ U \subseteq {"account", "device"}
      /\ \A a \in U : HasKey(q, a) /\ a \in Areas
      /\ \A a \in U : KeyOf(q, a) \in Keys
  BY UnpublishedCount, KeyTyped DEF Unpublished, Areas
<1>2. \A a \in U : index[KeyOf(q, a)] = None
  BY DEF RestoreCode
<1>3. \A a, b \in U : KeyOf(q, a) = KeyOf(q, b) => a = b
  BY <1>1, AreaKeysDiffer
<1>4. \A a \in U : IndexWith(q)[KeyOf(q, a)] = Target(q, a)
  <2> TAKE a \in U
  <2>1. (CHOOSE b \in U : KeyOf(q, a) = KeyOf(q, b)) = a
    BY <1>3
  <2> QED
    BY <1>1, <2>1 DEF IndexWith
<1>5. \A k \in Keys : (\A a \in U : KeyOf(q, a) # k) => IndexWith(q)[k] = index[k]
  BY DEF IndexWith
<1>6. \A a \in U : Target(q, a) \in Ids /\ HighestId < Target(q, a) /\ Target(q, a) <= CounterWith(q)
  BY NewIdsFresh, HighestIdSound, ConstantsTyped DEF IInv, Ids
<1>7. \A k \in Keys : index[k] # None => index[k] \in Ids /\ index[k] <= HighestId
  BY HighestIdSound DEF IInv, TypeOK
<1>8. \A k \in Keys : IndexWith(q)[k] \in Ids \cup {None}
  BY <1>4, <1>5, <1>6 DEF IInv, TypeOK
<1>9. IndexWith(q) \in [Keys -> Ids \cup {None}]
  BY <1>8 DEF IndexWith
<1>10. ASSUME Indexed PROVE Sound(IndexWith(q), CounterWith(q))
  <2>1. HighestId \in Nat /\ CounterWith(q) \in Nat /\ HighestId <= CounterWith(q)
    BY HighestIdSound, NewIdsFresh DEF IInv
  <2>2. \A k \in Keys : IndexWith(q)[k] # None => IndexWith(q)[k] <= CounterWith(q)
    BY <1>4, <1>5, <1>6, <1>7, <2>1 DEF Ids
  <2>3. \A a, b \in U : Target(q, a) = Target(q, b) => a = b
    BY <1>1, NewIdsFresh DEF IInv
  <2>4. \A k, h \in Keys : index[k] # None /\ index[k] = index[h] => k = h
    BY <1>10 DEF IInv, IndexSound, Sound
  <2>5. ASSUME NEW k \in Keys, NEW h \in Keys, IndexWith(q)[k] # None, IndexWith(q)[k] = IndexWith(q)[h]
        PROVE  k = h
    <3>1. CASE \E a \in U : KeyOf(q, a) = k
      <4>1. PICK a \in U : KeyOf(q, a) = k
        BY <3>1
      <4>2. PICK b \in U : KeyOf(q, b) = h
        BY <1>4, <1>5, <1>6, <1>7, <2>1, <2>5, <4>1 DEF Ids
      <4> QED
        BY <1>4, <2>3, <2>5, <4>1, <4>2
    <3>2. CASE \A a \in U : KeyOf(q, a) # k
      <4>1. \A b \in U : KeyOf(q, b) # h
        BY <1>4, <1>5, <1>6, <1>7, <2>1, <2>5, <3>2 DEF Ids
      <4> QED
        BY <1>5, <2>4, <2>5, <3>2, <4>1
    <3> QED
      BY <3>1, <3>2
  <2> QED
    BY <2>2, <2>5 DEF Sound
<1>11. \A k \in Keys : index[k] # None => IndexWith(q)[k] = index[k]
  BY <1>2, <1>5
<1> QED
  BY <1>2, <1>4, <1>5, <1>9, <1>10, <1>11

LEMMA LocalTyped ==
  ASSUME NEW q, TypeOK
  PROVE  /\ \A k : SaveOf(k) \in SUBSET File
         /\ \A a \in Areas : LocalArea(q, a) \in SUBSET Part /\ FoundArea(q, a) \in SUBSET Part
         /\ Local(q) \in SUBSET Part /\ Found(q) \in SUBSET Part
         /\ \A a \in Areas : \A r \in FoundArea(q, a) : r.area = a /\ AsFile(r) \in FilesIn(Target(q, a))
<1>1. \A id : FilesIn(id) \in SUBSET File
  BY DEF FilesIn, TypeOK
<1>2. \A a \in Areas, f \in File : AsPart(a, f) \in Part /\ AsPart(a, f).area = a /\ AsFile(AsPart(a, f)) = f
  BY DEF AsPart, AsFile, Part, File
<1>3. \A a \in Areas : LocalArea(q, a) \in SUBSET Part /\ FoundArea(q, a) \in SUBSET Part
  BY <1>1, <1>2 DEF LocalArea, FoundArea, SaveOf
<1>4. \A a \in Areas : \A r \in FoundArea(q, a) : r.area = a /\ AsFile(r) \in FilesIn(Target(q, a))
  <2> TAKE a \in Areas
  <2> TAKE r \in FoundArea(q, a)
  <2>1. PICK f \in FilesIn(Target(q, a)) : r = AsPart(a, f)
    BY DEF FoundArea
  <2> QED
    BY <1>1, <1>2, <2>1
<1> QED
  BY <1>1, <1>3, <1>4 DEF Local, Found, Areas, SaveOf

LEMMA NewBlobTyped == NewBlob \in Blob
  BY DEF NewBlob, Blob

LEMMA CollectBlobTyped ==
  ASSUME NEW q, Asks(q), TypeOK
  PROVE  CollectBlob(q) \in Blob
<1>1. /\ Local(q) \in SUBSET Part
      /\ LocalArea(q, "account") \in SUBSET Part
      /\ LocalArea(q, "device") \in SUBSET Part
  BY LocalTyped DEF Areas
<1>2. st \in Blob /\ q.title \in Titles /\ q.profile \in Asked
  BY DEF TypeOK, Asks
<1> HIDE DEF Part, Asked
<1>3. [st.synced EXCEPT ![q.title][q.profile] = Local(q)] \in [Titles -> [Asked -> SUBSET Part]]
  BY <1>1, <1>2 DEF Blob
<1>4. [st.restored EXCEPT ![q.title][q.profile] = None]
        \in [Titles -> [Asked -> {None} \cup [new : SUBSET Part, old : SUBSET Part]]]
  BY <1>1, <1>2 DEF Blob
<1>5. [st.account EXCEPT ![q.title][q.profile] = LocalArea(q, "account")] \in [Titles -> [Asked -> SUBSET Part]]
  BY <1>1, <1>2 DEF Blob
<1>6. [st.device EXCEPT ![q.title] = LocalArea(q, "device")] \in [Titles -> SUBSET Part]
  BY <1>1, <1>2 DEF Blob
<1> QED
  BY <1>2, <1>3, <1>4, <1>5, <1>6 DEF CollectBlob, Blob

LEMMA RestoreBlobTyped ==
  ASSUME NEW q, Asks(q), q.unit \in SUBSET Part, TypeOK
  PROVE  RestoreBlob(q) \in Blob
<1>1. Found(q) \in SUBSET Part
  BY LocalTyped
<1>2. st \in Blob /\ q.title \in Titles /\ q.profile \in Asked
  BY DEF TypeOK, Asks
<1>3. \A a : UnitArea(q, a) \in SUBSET Part
  BY DEF UnitArea
<1> HIDE DEF Part, Asked
<1>4. [st.synced EXCEPT ![q.title][q.profile] = q.unit] \in [Titles -> [Asked -> SUBSET Part]]
  BY <1>1, <1>2 DEF Blob
<1>5. [st.restored EXCEPT ![q.title][q.profile] = [new |-> q.unit, old |-> Found(q)]]
        \in [Titles -> [Asked -> {None} \cup [new : SUBSET Part, old : SUBSET Part]]]
  BY <1>1, <1>2 DEF Blob
<1>6. [st.account EXCEPT ![q.title][q.profile] = UnitArea(q, "account")] \in [Titles -> [Asked -> SUBSET Part]]
  BY <1>2, <1>3 DEF Blob
<1>7. [st.device EXCEPT ![q.title] = UnitArea(q, "device")] \in [Titles -> SUBSET Part]
  BY <1>2, <1>3 DEF Blob
<1> QED
  BY <1>2, <1>4, <1>5, <1>6, <1>7 DEF RestoreBlob, Blob

\* sync_profiles.c:226-245: every member of a unit that is not refused has a
\* folder.
LEMMA TargetsThere ==
  ASSUME NEW q \in Requests, IInv, RestoreCode(q) = "OK", CounterWith(q) <= MaxId
  PROVE  \A a \in Areas : Carries(q, a) => Target(q, a) \in Ids
<1> SUFFICES ASSUME NEW a \in Areas, Carries(q, a) PROVE Target(q, a) \in Ids
  OBVIOUS
<1>1. HasKey(q, a)
  BY DEF HasKey, RestoreCode, Areas
<1>2. KeyOf(q, a) \in Keys
  BY <1>1, KeyTyped DEF Asks, Requests
<1>3. CASE a \in Unpublished(q)
  BY <1>3, NewIdsFresh, HighestIdSound, ConstantsTyped DEF IInv, Ids
<1>4. CASE a \notin Unpublished(q)
  <2>1. Named(KeyOf(q, a)) # None
    BY <1>1, <1>2, <1>4 DEF Unpublished, IInv, IndexSound, Named
  <2> QED
    BY <1>2, <1>4, <2>1 DEF Target, Named, IInv, TypeOK
<1> QED
  BY <1>3, <1>4

LEMMA WritesTyped ==
  ASSUME NEW q \in Requests, IInv, RestoreCode(q) = "OK", CounterWith(q) <= MaxId
  PROVE  Puts(q) \in SUBSET Write /\ Drops(q) \in SUBSET Write
<1>1. \A p \in Part : AsFile(p) \in File /\ p.area \in Areas
  BY DEF AsFile, File, Part
<1>2. \A p \in q.unit : p \in Part /\ Carries(q, p.area)
  BY DEF Requests, Carries, UnitArea
<1>3. \A p \in q.unit : [id |-> Target(q, p.area), file |-> AsFile(p)] \in Write
  BY <1>1, <1>2, TargetsThere DEF Write
<1>4. \A r \in Found(q) : r \in Part /\ Target(q, r.area) \in Ids
  <2> TAKE r \in Found(q)
  <2>1. r \in Part
    BY LocalTyped DEF IInv
  <2>2. PICK a \in Areas : r \in FoundArea(q, a)
    BY DEF Found, Areas
  <2>3. r.area = a /\ FilesIn(Target(q, a)) # {}
    BY <2>2, LocalTyped DEF IInv
  <2> QED
    BY <2>1, <2>3 DEF FilesIn
<1>5. \A r \in Found(q) : [id |-> Target(q, r.area), file |-> AsFile(r)] \in Write
  BY <1>1, <1>4 DEF Write
<1> QED
  BY <1>3, <1>5 DEF Puts, Drops

(***************************************************************************)
(* The invariant is inductive.                                             *)
(***************************************************************************)
LEMMA InitSound == Init => IInv
<1> SUFFICES ASSUME Init PROVE IInv
  OBVIOUS
<1>1. /\ folder \in [Ids -> SUBSET File] /\ index \in [Keys -> Ids \cup {None}] /\ counter \in 0..MaxId
      /\ library \in [Titles -> SUBSET SUBSET Part]
  BY ConstantsTyped DEF Init
<1>2. call = Idle /\ call \in [op : {"idle", "restore"}, req : {None} \cup Requests, counter : {None} \cup 0..MaxId,
                puts : SUBSET Write, drops : SUBSET Write, index : {None} \cup [Keys -> Ids \cup {None}],
                agreed : SUBSET Part, blob : Blob]
  BY NewBlobTyped DEF Init, Idle
<1>3. TypeOK
  BY <1>1, <1>2, NewBlobTyped DEF Init, TypeOK
<1>4. IndexSound
  <2>1. IF Indexed THEN Sound(index, counter) ELSE \A k \in Keys : index[k] # None
    <3>1. \A k \in Keys : Indexed /\ index[k] # None => index[k] <= counter
      BY InitAllocated DEF Init
    <3>2. \A k, h \in Keys : index[k] = index[h] /\ index[k] # None => k = h
      BY InitAllocated DEF Init
    <3>3. \A k \in Keys : ~Indexed => index[k] # None
      BY InitAllocated DEF Init
    <3> QED
      BY <3>1, <3>2, <3>3 DEF Sound
  <2> QED
    BY <2>1, <1>2 DEF Init, Idle, IndexSound
<1> QED
  BY <1>3, <1>4 DEF IInv

LEMMA CollectSound ==
  ASSUME IInv, NEW q, Asks(q), Collect(q)
  PROVE  IInv'
<1>1. CollectBlob(q) \in Blob /\ Local(q) \in SUBSET Part
  BY CollectBlobTyped, LocalTyped DEF IInv
<1>2. Uploads(q) \in SUBSET SUBSET Part
  BY <1>1 DEF Uploads
<1>3. library' \in [Titles -> SUBSET SUBSET Part]
  <2> HIDE DEF Part
  <2>1. library' = library \/ library' = [library EXCEPT ![q.title] = @ \cup Uploads(q)]
    BY DEF Collect
  <2>2. library \in [Titles -> SUBSET SUBSET Part] /\ q.title \in Titles
    BY DEF IInv, TypeOK, Asks
  <2>3. library[q.title] \cup Uploads(q) \in SUBSET SUBSET Part
    BY <1>2, <2>2
  <2> QED
    BY <2>1, <2>2, <2>3
<1>4. LeftNow(q, Areas) \in [Keys -> {None} \cup SUBSET File]
  BY LocalTyped DEF LeftNow, IInv, TypeOK
<1>5. st' \in Blob /\ left' \in [Keys -> {None} \cup SUBSET File] /\ calls' \in Nat
  BY <1>1, <1>4 DEF Collect, IInv, TypeOK
<1>6. UNCHANGED <<folder, index, doomed, counter, call, edits>>
  BY DEF Collect
<1> QED
  BY <1>3, <1>5, <1>6 DEF IInv, TypeOK, IndexSound

LEMMA BeginSound ==
  ASSUME IInv, NEW q \in Requests, RestoreBegin(q)
  PROVE  IInv'
<1>1. RestoreCode(q) = "OK" /\ CounterWith(q) <= MaxId /\ MayCall
  BY DEF RestoreBegin
<1>2. Asks(q) /\ q.unit \in SUBSET Part
  BY DEF Requests, Asks
<1>3. Puts(q) \in SUBSET Write /\ Drops(q) \in SUBSET Write /\ RestoreBlob(q) \in Blob
  BY <1>1, <1>2, WritesTyped, RestoreBlobTyped DEF IInv
<1>4. Agreed(q) \in SUBSET Part
  BY LocalTyped DEF Agreed, Compared, IInv
<1>5. CounterWith(q) \in 0..MaxId /\ counter <= CounterWith(q)
  BY <1>1, NewIdsFresh, HighestIdSound, ConstantsTyped DEF IInv, TypeOK
<1>6. /\ IndexWith(q) \in [Keys -> Ids \cup {None}]
      /\ \A k \in Keys : index[k] # None => IndexWith(q)[k] = index[k]
      /\ Indexed => Sound(IndexWith(q), CounterWith(q))
  BY <1>1, <1>2, IndexWithSound
<1>7. call' = [op |-> "restore", req |-> q,
               counter |-> IF Unpublished(q) = {} THEN None ELSE CounterWith(q),
               puts |-> Puts(q), drops |-> Drops(q),
               index |-> IF Unpublished(q) = {} THEN None ELSE IndexWith(q),
               agreed |-> Agreed(q), blob |-> RestoreBlob(q)]
  BY DEF RestoreBegin
<1>8. UNCHANGED <<folder, index, doomed, counter, st, library, left, edits>> /\ calls' \in Nat
  BY DEF RestoreBegin, IInv, TypeOK
<1>9. TypeOK'
  BY <1>3, <1>4, <1>5, <1>6, <1>7, <1>8 DEF IInv, TypeOK
<1>10. Unpublished(q) # {} => Indexed
  BY DEF Unpublished
<1>11. None \notin Nat
  BY ConstantsTyped
<1>12. call'.index # None =>
         /\ Indexed /\ call'.counter = CounterWith(q) /\ call'.index = IndexWith(q)
  BY <1>7, <1>10
<1>13. IndexSound'
  BY <1>5, <1>6, <1>7, <1>8, <1>11, <1>12 DEF IInv, IndexSound
<1> QED
  BY <1>9, <1>13 DEF IInv

\* sync_profiles.c:339: the counter is past the index that is to come.
LEMMA CounterSound ==
  ASSUME IInv, WriteCounter
  PROVE  IInv'
<1>1. /\ call.counter # None /\ counter' = call.counter /\ call' = [call EXCEPT !.counter = None]
      /\ UNCHANGED <<folder, index, doomed, st, library, left, edits, calls>>
  BY DEF WriteCounter
<1>2. call.counter \in 0..MaxId /\ counter \in 0..MaxId /\ counter <= call.counter
  BY <1>1 DEF IInv, TypeOK, IndexSound
<1>3. TypeOK'
  BY <1>1, <1>2 DEF IInv, TypeOK
<1>4. /\ call'.counter = None /\ call'.index = call.index /\ call'.op = call.op
  BY <1>1 DEF IInv, TypeOK
<1>5. Indexed => Sound(index, counter')
  <2>1. \A k \in Keys : index[k] # None => index[k] \in Nat
    BY DEF IInv, TypeOK, Ids
  <2> QED
    BY <1>2, <1>1, <2>1 DEF Sound, IInv, IndexSound
<1>6. IndexSound'
  BY <1>1, <1>4, <1>5 DEF IInv, IndexSound, Sound
<1> QED
  BY <1>3, <1>6 DEF IInv

LEMMA FileSound ==
  ASSUME IInv, NEW w, WriteFile(w) \/ RemoveFile(w)
  PROVE  IInv'
<1>1. /\ w \in Write
      /\ folder' = [folder EXCEPT ![w.id] = PutFile(@, w.file)] \/ folder' = [folder EXCEPT ![w.id] = @ \ {w.file}]
      /\ call' = [call EXCEPT !.puts = @ \ {w}] \/ call' = [call EXCEPT !.drops = @ \ {w}]
      /\ UNCHANGED <<index, doomed, counter, st, library, left, edits, calls>>
  BY DEF WriteFile, RemoveFile, IInv, TypeOK
<1>2. folder' \in [Ids -> SUBSET File]
  BY <1>1 DEF IInv, TypeOK, Write, PutFile
<1>3. TypeOK'
  BY <1>1, <1>2 DEF IInv, TypeOK
<1>4. call'.counter = call.counter /\ call'.index = call.index /\ call'.op = call.op
  BY <1>1 DEF IInv, TypeOK
<1> QED
  BY <1>1, <1>3, <1>4 DEF IInv, IndexSound, Sound

\* The index goes last, when the counter has passed its ids.
LEMMA IndexLastSound ==
  ASSUME IInv, WriteIndex
  PROVE  IInv'
<1>1. /\ call.index # None /\ call.counter = None /\ index' = call.index /\ call' = [call EXCEPT !.index = None]
      /\ UNCHANGED <<folder, doomed, counter, st, library, left, edits, calls>>
  BY DEF WriteIndex, IndexTurn
<1>2. /\ call.index \in [Keys -> Ids \cup {None}] /\ Indexed /\ Sound(call.index, counter)
      /\ \A k \in Keys : index[k] # None => call.index[k] = index[k]
  BY <1>1 DEF IInv, TypeOK, IndexSound
<1>3. TypeOK'
  BY <1>1, <1>2 DEF IInv, TypeOK
<1>4. call'.index = None /\ call'.counter = None /\ call'.op = call.op
  BY <1>1 DEF IInv, TypeOK
<1> QED
  BY <1>1, <1>2, <1>3, <1>4 DEF IInv, IndexSound

LEMMA EndSound ==
  ASSUME IInv, RestoreEnd \/ RestoreFails
  PROVE  IInv'
<1>1. /\ call' = Idle /\ st' \in Blob
      /\ UNCHANGED <<folder, index, doomed, counter, library, edits, calls>>
  BY DEF RestoreEnd, RestoreFails, IInv, TypeOK
<1>2. left' \in [Keys -> {None} \cup SUBSET File]
  BY LocalTyped DEF RestoreEnd, RestoreFails, LeftNow, IInv, TypeOK
<1>3. TypeOK'
  BY <1>1, <1>2, NewBlobTyped DEF IInv, TypeOK, Idle
<1> QED
  BY <1>1, <1>3 DEF IInv, IndexSound, Idle, Sound

LEMMA EmulatorSound ==
  ASSUME IInv, Emulator
  PROVE  IInv'
<1>1. call.op = "idle" /\ call.index = None /\ call.counter = None
  BY DEF Emulator, EmulatorPublishes, EmulatorSaves, EmulatorDeletes, EmulatorMarks, EmulatorPurges, MayEdit, IInv, IndexSound
<1>2. PICK k \in Keys :
        \/ EmulatorPublishes(k)
        \/ \E f \in File : EmulatorSaves(k, f) \/ EmulatorDeletes(k, f)
        \/ EmulatorMarks(k)
        \/ EmulatorPurges(k)
  BY DEF Emulator
<1>3. CASE EmulatorPublishes(k)
  <2>1. /\ index[k] = None /\ counter + 1 \in Ids /\ counter + 1 \in 0..MaxId /\ Indexed
        /\ counter' = counter + 1 /\ index' = [index EXCEPT ![k] = counter + 1]
        /\ folder' = [folder EXCEPT ![counter + 1] = {}] /\ edits' \in Nat
        /\ UNCHANGED <<doomed, st, library, call, left, calls>>
    BY <1>3, ConstantsTyped DEF EmulatorPublishes, IInv, TypeOK, Ids
  <2>2. TypeOK'
    BY <2>1 DEF IInv, TypeOK
  <2>3. \A h \in Keys : index[h] # None => index[h] \in Nat /\ index[h] <= counter
    BY <2>1 DEF IInv, TypeOK, IndexSound, Sound, Ids
  <2>4. counter \in Nat /\ index \in [Keys -> Ids \cup {None}]
    BY DEF IInv, TypeOK
  <2>5. Sound(index', counter')
    <3>1. \A h \in Keys : index'[h] # None => index'[h] <= counter'
      BY <2>1, <2>3, <2>4
    <3>2. ASSUME NEW g \in Keys, NEW h \in Keys, index'[g] # None, index'[g] = index'[h] PROVE g = h
      <4>1. g # k /\ h # k => g = h
        BY <2>1, <2>4, <3>2 DEF IInv, IndexSound, Sound
      <4>2. g = k /\ h # k => FALSE
        BY <2>1, <2>3, <2>4, <3>2
      <4>3. g # k /\ h = k => FALSE
        BY <2>1, <2>3, <2>4, <3>2
      <4> QED
        BY <4>1, <4>2, <4>3
    <3> QED
      BY <3>1, <3>2 DEF Sound
  <2> QED
    BY <1>1, <2>1, <2>2, <2>5 DEF IInv, IndexSound
<1>4. CASE \E f \in File : EmulatorSaves(k, f) \/ EmulatorDeletes(k, f)
  <2>1. PICK f \in File : EmulatorSaves(k, f) \/ EmulatorDeletes(k, f)
    BY <1>4
  <2>2. index[k] \in Ids
    BY <2>1 DEF EmulatorSaves, EmulatorDeletes, Named, IInv, TypeOK
  <2>3. /\ folder' \in [Ids -> SUBSET File] /\ edits' \in Nat
        /\ UNCHANGED <<index, doomed, counter, st, library, call, left, calls>>
    BY <2>1, <2>2 DEF EmulatorSaves, EmulatorDeletes, PutFile, IInv, TypeOK
  <2> QED
    BY <2>3 DEF IInv, TypeOK, IndexSound
<1>5. CASE EmulatorMarks(k)
  <2>1. /\ doomed' = doomed \cup {k} /\ index[k] # None /\ Indexed /\ edits' \in Nat
        /\ UNCHANGED <<folder, index, counter, st, library, call, left, calls>>
    BY <1>5 DEF EmulatorMarks, Named, IInv, TypeOK
  <2> QED
    BY <2>1 DEF IInv, TypeOK, IndexSound
<1>6. CASE EmulatorPurges(k)
  <2>1. /\ k \in doomed /\ index[k] \in Ids /\ Indexed
    BY <1>6 DEF EmulatorPurges, IInv, TypeOK, IndexSound
  <2>2. /\ index' = [index EXCEPT ![k] = None] /\ folder' = [folder EXCEPT ![index[k]] = {}]
        /\ doomed' = doomed \ {k}
        /\ UNCHANGED <<counter, st, library, call, left, edits, calls>>
    BY <1>6 DEF EmulatorPurges
  <2>3. TypeOK'
    BY <2>1, <2>2 DEF IInv, TypeOK
  <2>4. Sound(index', counter')
    BY <2>1, <2>2 DEF IInv, TypeOK, IndexSound, Sound
  <2> QED
    BY <1>1, <2>1, <2>2, <2>3, <2>4 DEF IInv, IndexSound
<1> QED
  BY <1>2, <1>3, <1>4, <1>5, <1>6

LEMMA RequestTyped ==
  ASSUME TypeOK, NEW t \in Titles, NEW p \in Asked, NEW m \in Modes, NEW o \in BOOLEAN, NEW u \in library[t]
  PROVE  RestoreRequest(t, p, m, u, o) \in Requests
  BY DEF RestoreRequest, Requests, TypeOK

LEMMA StepSound ==
  ASSUME IInv, [Next]_vars
  PROVE  IInv'
<1>1. CASE Collects
  BY <1>1, CollectSound DEF Collects, CollectRequest, Asks
<1>2. CASE Restores
  <2>1. PICK t \in Titles, p \in Asked, m \in Modes, o \in BOOLEAN :
          \E u \in library[t] : RestoreBegin(RestoreRequest(t, p, m, u, o))
    BY <1>2 DEF Restores
  <2>2. PICK u \in library[t] : RestoreBegin(RestoreRequest(t, p, m, u, o))
    BY <2>1
  <2> QED
    BY <2>2, RequestTyped, BeginSound DEF IInv
<1>3. CASE Writes
  BY <1>3, CounterSound, FileSound, IndexLastSound DEF Writes
<1>4. CASE RestoreEnd \/ RestoreFails
  BY <1>4, EndSound
<1>5. CASE Emulator
  BY <1>5, EmulatorSound
<1>6. CASE UNCHANGED vars
  BY <1>6 DEF vars, IInv, TypeOK, IndexSound, Sound
<1> QED
  BY <1>1, <1>2, <1>3, <1>4, <1>5, <1>6 DEF Next

\* The invariant behind the theorems below holds for any titles, profiles,
\* folders and bounds.
THEOREM ProfilesSound == Spec => []IInv
<1>1. IInv /\ [Next]_vars => IInv'
  BY StepSound
<1> QED
  BY <1>1, InitSound, PTL DEF Spec

\* sync_profiles.c:339-341: whatever restore wrote, left half written or
\* found, no save lies past the counter and no two share a folder.
THEOREM IndexStaysSound == Spec => []IndexSound
<1>1. IInv => IndexSound
  BY DEF IInv
<1> QED
  BY <1>1, ProfilesSound, PTL

\* Every variable keeps to its type.
THEOREM ProfilesTyped == Spec => []TypeOK
<1>1. IInv => TypeOK
  BY DEF IInv
<1> QED
  BY <1>1, ProfilesSound, PTL

\* save_profiles.c:759: the folder the emulator wipes for a new save is never
\* one the index gives another save.
THEOREM NoSaveWiped == Spec => NeverWiped
<1> DEFINE A == \A k, h \in Keys :
                  EmulatorPublishes(k) /\ h # k /\ index[h] # None => folder'[index[h]] = folder[index[h]]
<1>1. ASSUME IInv, NEW k \in Keys, NEW h \in Keys, EmulatorPublishes(k), h # k, index[h] # None
      PROVE  folder'[index[h]] = folder[index[h]]
  <2>1. index[h] \in Nat /\ index[h] <= counter /\ counter \in Nat
    BY <1>1 DEF IInv, TypeOK, IndexSound, Sound, EmulatorPublishes, Ids
  <2>2. index[h] \in Ids /\ index[h] # counter + 1
    BY <1>1, <2>1 DEF IInv, TypeOK
  <2> QED
    BY <1>1, <2>2 DEF EmulatorPublishes, IInv, TypeOK
<1>2. IInv /\ [Next]_vars => [A]_vars
  BY <1>1
<1> QED
  BY <1>2, ProfilesSound, PTL DEF Spec, NeverWiped

----------------------------------------------------------------------------
(***************************************************************************)
(* What a restore of a profile layout does to the saves, for any titles,   *)
(* profiles, folders and bounds: it writes its areas and nothing else, it  *)
(* leaves them as the unit has them, the hashes it records are of what is  *)
(* there, and no save is lost.  The argument is CallPlaced: between the    *)
(* checks and the last write, every file in the folder of an area is the   *)
(* unit's, or is to be kept, or is still to be replaced or removed.        *)
(***************************************************************************)


(***************************************************************************)
(* The invariant.                                                          *)
(***************************************************************************)

\* Files, folders and units are told apart by name.
DiskSound ==
  /\ \A i \in Ids : \A f, g \in folder[i] : f.name = g.name => f = g
  /\ \A k, h \in Keys : index[k] # None /\ index[k] = index[h] => k = h
  /\ \A t \in Titles : \A u \in library[t] :
       \A p, r \in u : p.area = r.area /\ p.name = r.name => p = r

\* The index as it is once the restore under way wrote it.
Coming == IF call.index = None THEN index ELSE call.index
Home(q, a) == Coming[KeyOf(q, a)]

Touches(w, id, f) == w.id = id /\ w.file.name = f.name

\* The files of an area's folder, against what is still to write.
Settles(q, a) ==
  /\ HasKey(q, a) /\ KeyOf(q, a) \notin doomed /\ Home(q, a) \in Ids
  /\ \A f \in folder[Home(q, a)] :
       \/ AsPart(a, f) \in q.unit
       \/ Kept(q, AsPart(a, f))
       \/ \E w \in call.puts : Touches(w, Home(q, a), f)
       \/ [id |-> Home(q, a), file |-> f] \in call.drops
  /\ \A p \in UnitArea(q, a) :
       \/ AsFile(p) \in folder[Home(q, a)]
       \/ [id |-> Home(q, a), file |-> AsFile(p)] \in call.puts

\* A write is of an area the unit carries, and a removal of what it lacks.
Placed(q, w) ==
  \E a \in Areas : Carries(q, a) /\ w.id = Home(q, a) /\ AsPart(a, w.file) \in q.unit
Dropped(q, w) ==
  \E a \in Areas : Carries(q, a) /\ w.id = Home(q, a) /\ Goes(q, AsPart(a, w.file))

CallPlaced ==
  IF call.op = "idle" THEN call = Idle
  ELSE LET q == call.req IN
       /\ q \in Requests /\ q.unit \in library[q.title]
       /\ \A a \in Areas : Carries(q, a) => Settles(q, a)
       /\ \A w \in call.puts : Placed(q, w)
       /\ \A w \in call.drops : Dropped(q, w)
       /\ \A k \in Keys : Coming[k] # index[k] => \E a \in Areas : Carries(q, a) /\ KeyOf(q, a) = k

RInv == IInv /\ DiskSound /\ CallPlaced

(***************************************************************************)
(* Keys, parts and folders.                                                *)
(***************************************************************************)

LEMMA PartsAreFiles ==
  /\ \A p \in Part : AsFile(p) \in File /\ AsPart(p.area, AsFile(p)) = p /\ p.area \in Areas
  /\ \A a \in Areas, f \in File :
       AsPart(a, f) \in Part /\ AsPart(a, f).area = a /\ AsPart(a, f).name = f.name /\ AsFile(AsPart(a, f)) = f
  BY DEF AsPart, AsFile, Part, File

\* The two areas of one request have keys of their own.
LEMMA KeysApart ==
  ASSUME NEW q \in Requests, NEW a \in Areas, NEW b \in Areas, HasKey(q, a), HasKey(q, b),
         KeyOf(q, a) = KeyOf(q, b)
  PROVE  a = b
  BY AreaKeysDiffer DEF Asks, Requests, Areas

LEMMA KeyThere ==
  ASSUME NEW q, Asks(q), NEW a \in Areas, HasKey(q, a)
  PROVE  KeyOf(q, a) \in Keys /\ KeyOf(q, a).title = q.title /\ AreaOf(KeyOf(q, a)) = a
<1>1. KeyOf(q, a) \in Keys
  BY KeyTyped
<1> QED
  BY <1>1, ConstantsTyped DEF KeyOf, Key, AreaOf, Areas, HasKey, Asks, Asked

LEMMA UnitTyped ==
  ASSUME NEW q \in Requests
  PROVE  /\ q.unit \in SUBSET Part
         /\ \A a : UnitArea(q, a) \subseteq q.unit
         /\ \A p \in q.unit : p.area \in Areas /\ Carries(q, p.area) /\ p \in UnitArea(q, p.area)
  BY DEF Requests, UnitArea, Carries, Part

LEMMA ComingSound ==
  ASSUME IInv, DiskSound
  PROVE  /\ Coming \in [Keys -> Ids \cup {None}]
         /\ None \notin Ids
         /\ \A k \in Keys : index[k] # None => Coming[k] = index[k]
         /\ \A k, h \in Keys : Coming[k] # None /\ Coming[k] = Coming[h] => k = h
<1>1. None \notin Ids
  BY ConstantsTyped DEF Ids
<1>2. CASE call.index = None
  BY <1>1, <1>2 DEF IInv, TypeOK, DiskSound, Coming
<1>3. CASE call.index # None
  BY <1>1, <1>3 DEF IInv, TypeOK, IndexSound, Sound, Coming
<1> QED
  BY <1>2, <1>3

\* Two areas a restore carries never go in one folder, nor in one that
\* another save has.
LEMMA HomesApart ==
  ASSUME RInv, call.op = "restore", NEW a \in Areas, Carries(call.req, a)
  PROVE  /\ Settles(call.req, a) /\ call.req \in Requests
         /\ KeyOf(call.req, a) \in Keys
         /\ \A b \in Areas : Carries(call.req, b) /\ Home(call.req, b) = Home(call.req, a) => b = a
         /\ \A k \in Keys : index[k] = Home(call.req, a) => k = KeyOf(call.req, a)
<1> DEFINE q == call.req
<1>1. q \in Requests /\ \A b \in Areas : Carries(q, b) => Settles(q, b)
  BY DEF RInv, CallPlaced
<1>2. \A b \in Areas : Carries(q, b) => HasKey(q, b) /\ KeyOf(q, b) \in Keys /\ Home(q, b) \in Ids
  BY <1>1, KeyThere DEF Settles, Asks, Requests
<1>3. \A b \in Areas : Carries(q, b) /\ Home(q, b) = Home(q, a) => b = a
  BY <1>1, <1>2, ComingSound, KeysApart DEF RInv, Home
<1>4. \A k \in Keys : index[k] = Home(q, a) => k = KeyOf(q, a)
  BY <1>2, ComingSound DEF RInv, Home
<1> QED
  BY <1>1, <1>2, <1>3, <1>4

(***************************************************************************)
(* The start of a restore.                                                 *)
(***************************************************************************)

\* The index a restore is to write, or the one there is.
NewIndex(q) == IF Unpublished(q) = {} THEN index ELSE IndexWith(q)

\* A new folder is empty, and an old one is the save's.
LEMMA TargetIsHome ==
  ASSUME NEW q \in Requests, IInv, RestoreCode(q) = "OK", CounterWith(q) <= MaxId,
         NEW a \in Areas, Carries(q, a)
  PROVE  /\ HasKey(q, a) /\ KeyOf(q, a) \in Keys /\ KeyOf(q, a) \notin doomed
         /\ Target(q, a) \in Ids /\ NewIndex(q)[KeyOf(q, a)] = Target(q, a)
         /\ a \in Unpublished(q) => index[KeyOf(q, a)] = None /\ folder[Target(q, a)] = {}
         /\ a \notin Unpublished(q) => Named(KeyOf(q, a)) = Target(q, a)
<1>1. HasKey(q, a)
  BY DEF HasKey, RestoreCode, Areas
<1>2. KeyOf(q, a) \in Keys /\ Target(q, a) \in Ids
  BY <1>1, KeyTyped, TargetsThere DEF Asks, Requests
<1>3. CASE a \in Unpublished(q)
  <2>1. index[KeyOf(q, a)] = None /\ IndexWith(q)[KeyOf(q, a)] = Target(q, a)
    BY <1>3, IndexWithSound DEF Asks, Requests
  <2>2. HighestId < Target(q, a) /\ HighestId \in Nat /\ Target(q, a) \in Nat
    BY <1>3, NewIdsFresh, HighestIdSound DEF IInv
  <2>3. folder[Target(q, a)] = {}
    BY <1>2, <2>2, HighestIdSound DEF IInv
  <2>4. KeyOf(q, a) \notin doomed
    BY <2>1 DEF IInv, TypeOK
  <2> QED
    BY <1>1, <1>2, <1>3, <2>1, <2>3, <2>4 DEF NewIndex
<1>4. CASE a \notin Unpublished(q)
  <2>1. Named(KeyOf(q, a)) # None
    BY <1>1, <1>2, <1>4 DEF Unpublished, IInv, IndexSound, Named
  <2>2. KeyOf(q, a) \notin doomed /\ index[KeyOf(q, a)] # None
    BY <2>1 DEF Named
  <2>3. Target(q, a) = index[KeyOf(q, a)] /\ Named(KeyOf(q, a)) = Target(q, a)
    BY <1>4, <2>2 DEF Target, Named
  <2>4. NewIndex(q)[KeyOf(q, a)] = index[KeyOf(q, a)]
    BY <1>2, <2>2, IndexWithSound DEF NewIndex, Asks, Requests
  <2> QED
    BY <1>1, <1>2, <1>4, <2>2, <2>3, <2>4
<1> QED
  BY <1>3, <1>4

\* A file's folder is of one of the areas a restore carries.
LEMMA TargetsApart ==
  ASSUME RInv, NEW q \in Requests, RestoreCode(q) = "OK", CounterWith(q) <= MaxId,
         NEW a \in Areas, NEW b \in Areas, Carries(q, a), Carries(q, b),
         Target(q, a) = Target(q, b), folder[Target(q, a)] # {}
  PROVE  a = b
<1>1. \A c \in {a, b} : /\ HasKey(q, c) /\ KeyOf(q, c) \in Keys
                        /\ Target(q, c) \in Ids /\ Named(KeyOf(q, c)) = Target(q, a)
  BY TargetIsHome DEF RInv
<1>2. index[KeyOf(q, a)] # None /\ index[KeyOf(q, a)] = index[KeyOf(q, b)]
  BY <1>1, ConstantsTyped DEF Named, Ids
<1> QED
  BY <1>1, <1>2, KeysApart DEF RInv, DiskSound

LEMMA FoundIn ==
  ASSUME NEW q \in Requests, IInv, NEW a \in Areas, HasKey(q, a), Target(q, a) \in Ids
  PROVE  /\ FoundArea(q, a) = {AsPart(a, f) : f \in folder[Target(q, a)]}
         /\ \A r \in Found(q) : r.area = a => r \in FoundArea(q, a)
<1>1. FoundArea(q, a) = {AsPart(a, f) : f \in folder[Target(q, a)]}
  BY DEF FoundArea, FilesIn
<1>2. \A b \in Areas : \A r \in FoundArea(q, b) : r.area = b
  BY LocalTyped DEF IInv
<1>3. \A r \in Found(q) : \E b \in Areas : r \in FoundArea(q, b)
  BY DEF Found, Areas
<1> QED
  BY <1>1, <1>2, <1>3

\* sync_profiles.c:326-356: each file of an area's folder is in the unit, is to
\* be kept, or is written over or removed.
LEMMA BeginSettles ==
  ASSUME NEW q \in Requests, IInv, DiskSound, RestoreCode(q) = "OK", CounterWith(q) <= MaxId,
         NEW a \in Areas, Carries(q, a), NEW f \in folder[Target(q, a)]
  PROVE  \/ AsPart(a, f) \in q.unit
         \/ Kept(q, AsPart(a, f))
         \/ \E w \in Puts(q) : Touches(w, Target(q, a), f)
         \/ [id |-> Target(q, a), file |-> f] \in Drops(q)
<1> DEFINE p == AsPart(a, f)
<1>1. HasKey(q, a) /\ Target(q, a) \in Ids
  BY TargetIsHome
<1>2. f \in File /\ p \in FoundArea(q, a)
  BY <1>1, FoundIn DEF IInv, TypeOK
<1>3. p \in Found(q) /\ p.area = a /\ p.name = f.name /\ AsFile(p) = f
  BY <1>2, PartsAreFiles DEF Found, Areas
<1> HIDE DEF p
<1>4. CASE AlreadyThere(q)
  BY <1>2, <1>4 DEF AlreadyThere, Compared, UnitArea, p
<1>5. CASE ~AlreadyThere(q) /\ \E r \in UnitArea(q, a) : r.name = p.name
  <2>1. PICK r \in UnitArea(q, a) : r.name = p.name
    BY <1>5
  <2>2. r \in q.unit /\ r \in Part /\ r.area = a
    BY <2>1, UnitTyped DEF UnitArea
  <2>3. CASE r \in Found(q)
    <3>1. r \in FoundArea(q, a)
      BY <1>1, <2>2, <2>3, FoundIn
    <3>2. PICK g \in folder[Target(q, a)] : r = AsPart(a, g)
      BY <1>1, <3>1, FoundIn
    <3>3. g \in File /\ g.name = r.name
      BY <1>1, <3>2, PartsAreFiles DEF IInv, TypeOK
    <3>4. g = f
      BY <1>1, <1>3, <2>1, <3>3 DEF DiskSound
    <3> QED
      BY <2>2, <3>2, <3>4
  <2>4. CASE r \notin Found(q)
    <3>1. [id |-> Target(q, r.area), file |-> AsFile(r)] \in Puts(q)
      BY <1>5, <2>2, <2>4 DEF Puts
    <3>2. Touches([id |-> Target(q, r.area), file |-> AsFile(r)], Target(q, a), f)
      BY <1>3, <2>1, <2>2 DEF Touches, AsFile
    <3> QED
      BY <3>1, <3>2
  <2> QED
    BY <2>3, <2>4
<1>6. CASE ~AlreadyThere(q) /\ ~Kept(q, p) /\ \A r \in UnitArea(q, a) : r.name # p.name
  <2>1. Goes(q, p)
    BY <1>3, <1>6 DEF Goes
  <2> QED
    BY <1>3, <1>6, <2>1 DEF Drops
<1> QED
  BY <1>4, <1>5, <1>6 DEF p

LEMMA BeginWrites ==
  ASSUME NEW q \in Requests, IInv, RestoreCode(q) = "OK", CounterWith(q) <= MaxId
  PROVE  /\ \A p \in q.unit : \/ AsFile(p) \in folder[Target(q, p.area)]
                              \/ [id |-> Target(q, p.area), file |-> AsFile(p)] \in Puts(q)
         /\ \A w \in Puts(q) : \E a \in Areas :
              Carries(q, a) /\ w.id = Target(q, a) /\ AsPart(a, w.file) \in q.unit
         /\ \A w \in Drops(q) : \E a \in Areas :
              Carries(q, a) /\ w.id = Target(q, a) /\ Goes(q, AsPart(a, w.file))
<1>1. ASSUME NEW p \in q.unit
      PROVE  \/ AsFile(p) \in folder[Target(q, p.area)]
             \/ [id |-> Target(q, p.area), file |-> AsFile(p)] \in Puts(q)
  <2>1. p \in Part /\ p.area \in Areas /\ Carries(q, p.area) /\ p \in UnitArea(q, p.area)
    BY UnitTyped
  <2>2. HasKey(q, p.area) /\ Target(q, p.area) \in Ids
    BY <2>1, TargetIsHome
  <2>3. p \in FoundArea(q, p.area) => AsFile(p) \in folder[Target(q, p.area)]
    BY <2>1, <2>2, LocalTyped DEF IInv, FilesIn
  <2>4. CASE AlreadyThere(q)
    BY <2>1, <2>3, <2>4 DEF AlreadyThere, Compared
  <2>5. CASE p \in Found(q)
    BY <2>1, <2>2, <2>3, <2>5, FoundIn
  <2>6. CASE ~AlreadyThere(q) /\ p \notin Found(q)
    BY <2>6 DEF Puts
  <2> QED
    BY <2>4, <2>5, <2>6
<1>2. ASSUME NEW w \in Puts(q)
      PROVE  \E a \in Areas : Carries(q, a) /\ w.id = Target(q, a) /\ AsPart(a, w.file) \in q.unit
  <2>1. PICK p \in q.unit : w = [id |-> Target(q, p.area), file |-> AsFile(p)]
    BY DEF Puts
  <2>2. p.area \in Areas /\ Carries(q, p.area) /\ AsPart(p.area, AsFile(p)) = p
    BY UnitTyped, PartsAreFiles
  <2> QED
    BY <2>1, <2>2
<1>3. ASSUME NEW w \in Drops(q)
      PROVE  \E a \in Areas : Carries(q, a) /\ w.id = Target(q, a) /\ Goes(q, AsPart(a, w.file))
  <2>1. PICK r \in Found(q) : Goes(q, r) /\ w = [id |-> Target(q, r.area), file |-> AsFile(r)]
    BY DEF Drops
  <2>2. r \in Part /\ r.area \in Areas /\ AsPart(r.area, AsFile(r)) = r
    BY LocalTyped, PartsAreFiles DEF IInv
  <2> QED
    BY <2>1, <2>2 DEF Goes
<1> QED
  BY <1>1, <1>2, <1>3

LEMMA BeginPlaced ==
  ASSUME RInv, NEW q \in Requests, q.unit \in library[q.title], RestoreBegin(q)
  PROVE  CallPlaced' /\ DiskSound'
<1>1. RestoreCode(q) = "OK" /\ CounterWith(q) <= MaxId
  BY DEF RestoreBegin
<1>2. /\ call'.op = "restore" /\ call'.req = q /\ call'.puts = Puts(q) /\ call'.drops = Drops(q)
      /\ call'.index = IF Unpublished(q) = {} THEN None ELSE IndexWith(q)
      /\ UNCHANGED <<folder, index, doomed, library>>
  BY DEF RestoreBegin
<1>3. IndexWith(q) # None
  BY <1>1, IndexWithSound, NoneApart DEF RInv, Asks, Requests
<1>4. Coming' = NewIndex(q)
  BY <1>2, <1>3 DEF Coming, NewIndex
<1>5. \A a \in Areas : Carries(q, a) => Home(q, a)' = Target(q, a)
  BY <1>1, <1>4, TargetIsHome DEF RInv, Home
<1>6. ASSUME NEW a \in Areas, Carries(q, a) PROVE Settles(q, a)'
  <2>1. /\ HasKey(q, a) /\ KeyOf(q, a) \notin doomed /\ Target(q, a) \in Ids
    BY <1>1, <1>6, TargetIsHome DEF RInv
  <2>2. \A f \in folder[Target(q, a)] :
          \/ AsPart(a, f) \in q.unit
          \/ Kept(q, AsPart(a, f))
          \/ \E w \in Puts(q) : Touches(w, Target(q, a), f)
          \/ [id |-> Target(q, a), file |-> f] \in Drops(q)
    BY <1>1, <1>6, BeginSettles DEF RInv
  <2>3. \A p \in UnitArea(q, a) :
          \/ AsFile(p) \in folder[Target(q, a)]
          \/ [id |-> Target(q, a), file |-> AsFile(p)] \in Puts(q)
    BY <1>1, BeginWrites DEF RInv, UnitArea
  <2> QED
    BY <1>2, <1>5, <1>6, <2>1, <2>2, <2>3 DEF Settles
<1>7. \A w \in Puts(q) : Placed(q, w)'
  BY <1>1, <1>5, BeginWrites DEF RInv, Placed
<1>8. \A w \in Drops(q) : Dropped(q, w)'
  BY <1>1, <1>5, BeginWrites DEF RInv, Dropped
<1>9. ASSUME NEW k \in Keys, NewIndex(q)[k] # index[k]
      PROVE  \E a \in Areas : Carries(q, a) /\ KeyOf(q, a) = k
  <2>1. \E a \in Unpublished(q) : KeyOf(q, a) = k
    BY <1>1, <1>9, IndexWithSound DEF NewIndex, RInv, Asks, Requests
  <2> QED
    BY <2>1 DEF Unpublished
<1>10. CallPlaced'
  BY <1>2, <1>4, <1>6, <1>7, <1>8, <1>9 DEF CallPlaced
<1> QED
  BY <1>2, <1>10 DEF RInv, DiskSound

(***************************************************************************)
(* The writes.                                                             *)
(***************************************************************************)

\* A write in progress is one of a restore's, in the folder of an area.
LEMMA WritesAreCalls ==
  ASSUME RInv
  PROVE  /\ \A w \in call.puts : call.op = "restore" /\ Placed(call.req, w) /\ w \in Write
         /\ \A w \in call.drops : call.op = "restore" /\ Dropped(call.req, w) /\ w \in Write
         /\ call.index # None => call.op = "restore"
         /\ call.op \in {"idle", "restore"}
<1>1. call.op = "idle" => call.puts = {} /\ call.drops = {} /\ call.index = None
  BY DEF RInv, CallPlaced, Idle
<1>2. call.op \in {"idle", "restore"} /\ call.puts \in SUBSET Write /\ call.drops \in SUBSET Write
  BY DEF RInv, IInv, TypeOK
<1> QED
  BY <1>1, <1>2 DEF RInv, CallPlaced

LEMMA PutPlaced ==
  ASSUME RInv, NEW w \in call.puts, WriteFile(w)
  PROVE  CallPlaced' /\ DiskSound'
<1>0. PICK q : q = call.req
  OBVIOUS
<1>1. call.op = "restore" /\ Placed(q, w) /\ w \in Write /\ w.id \in Ids /\ w.file \in File
  BY <1>0, WritesAreCalls DEF Write
<1>2. /\ folder' = [folder EXCEPT ![w.id] = PutFile(@, w.file)]
      /\ call' = [call EXCEPT !.puts = @ \ {w}]
      /\ UNCHANGED <<index, doomed, library>>
  BY DEF WriteFile
<1>3. /\ call'.op = call.op /\ call'.req = call.req /\ call'.puts = call.puts \ {w}
      /\ call'.drops = call.drops /\ call'.index = call.index
  BY <1>2 DEF RInv, IInv, TypeOK
<1>4. /\ folder'[w.id] = PutFile(folder[w.id], w.file)
      /\ \A i \in Ids : i # w.id => folder'[i] = folder[i]
  BY <1>1, <1>2 DEF RInv, IInv, TypeOK
<1>5. DiskSound'
  BY <1>1, <1>2, <1>4 DEF RInv, DiskSound, PutFile
<1>6. Coming' = Coming /\ \A a \in Areas : Home(q, a)' = Home(q, a)
  BY <1>2, <1>3 DEF Coming, Home
<1>7. PICK b \in Areas : Carries(q, b) /\ w.id = Home(q, b) /\ AsPart(b, w.file) \in q.unit
  BY <1>1 DEF Placed
<1>8. /\ q \in Requests /\ q.unit \in library[q.title]
      /\ \A k \in Keys : Coming[k] # index[k] => \E a \in Areas : Carries(q, a) /\ KeyOf(q, a) = k
  BY <1>0, <1>1 DEF RInv, CallPlaced
<1>9. ASSUME NEW a \in Areas, Carries(q, a) PROVE Settles(q, a)'
  <2>1. Settles(q, a) /\ Home(q, a) \in Ids /\ (Home(q, a) = w.id => a = b)
    BY <1>1, <1>7, <1>9, HomesApart, <1>0 DEF Settles
  <2>2. ASSUME NEW f \in folder'[Home(q, a)]
        PROVE  \/ AsPart(a, f) \in q.unit
               \/ Kept(q, AsPart(a, f))
               \/ \E v \in call'.puts : Touches(v, Home(q, a), f)
               \/ [id |-> Home(q, a), file |-> f] \in call'.drops
    <3>1. CASE Home(q, a) = w.id /\ f = w.file
      BY <1>7, <2>1, <3>1
    <3>2. CASE f \in folder[Home(q, a)] /\ ~Touches(w, Home(q, a), f)
      BY <1>3, <2>1, <3>2 DEF Settles
    <3> QED
      BY <1>4, <2>1, <2>2, <3>1, <3>2 DEF PutFile, Touches
  <2>3. ASSUME NEW p \in UnitArea(q, a)
        PROVE  \/ AsFile(p) \in folder'[Home(q, a)]
               \/ [id |-> Home(q, a), file |-> AsFile(p)] \in call'.puts
    <3>1. p \in q.unit /\ p.area = a /\ p \in Part
      BY <1>8, UnitTyped DEF UnitArea
    <3>2. CASE Home(q, a) = w.id /\ w.file.name = p.name
      <4>1. AsPart(b, w.file) = p
        <5>1. AsPart(b, w.file).area = b /\ AsPart(b, w.file).name = w.file.name
          BY <1>1, PartsAreFiles
        <5> QED
          BY <1>7, <1>8, <2>1, <3>1, <3>2, <5>1 DEF RInv, DiskSound, Requests
      <4>2. AsFile(p) = w.file
        BY <1>1, <4>1, PartsAreFiles
      <4> QED
        BY <1>4, <3>2, <4>2 DEF PutFile
    <3>3. CASE ~(Home(q, a) = w.id /\ w.file.name = p.name)
      <4>1. AsFile(p).name = p.name
        BY DEF AsFile
      <4>2. [id |-> Home(q, a), file |-> AsFile(p)] # w
        BY <3>3, <4>1
      <4>3. AsFile(p) \in folder[Home(q, a)] => AsFile(p) \in folder'[Home(q, a)]
        BY <1>4, <2>1, <3>3, <4>1 DEF PutFile
      <4> QED
        BY <1>3, <2>1, <4>2, <4>3 DEF Settles
    <3> QED
      BY <3>2, <3>3
  <2> QED
    BY <1>2, <1>6, <2>1, <2>2, <2>3 DEF Settles
<1>10. (\A v \in call'.puts : Placed(q, v)') /\ (\A v \in call'.drops : Dropped(q, v)')
  <2>1. (\A v \in call.puts : Placed(q, v)) /\ (\A v \in call.drops : Dropped(q, v))
    BY <1>0, WritesAreCalls
  <2> QED
    BY <1>3, <1>6, <2>1 DEF Placed, Dropped
<1>11. CallPlaced'
  BY <1>0, <1>1, <1>2, <1>3, <1>6, <1>8, <1>9, <1>10 DEF CallPlaced
<1> QED
  BY <1>5, <1>11

LEMMA DropPlaced ==
  ASSUME RInv, NEW w \in call.drops, RemoveFile(w)
  PROVE  CallPlaced' /\ DiskSound'
<1>0. PICK q : q = call.req
  OBVIOUS
<1>1. call.op = "restore" /\ Dropped(q, w) /\ w \in Write /\ w.id \in Ids /\ w.file \in File
  BY <1>0, WritesAreCalls DEF Write
<1>2. /\ folder' = [folder EXCEPT ![w.id] = @ \ {w.file}]
      /\ call' = [call EXCEPT !.drops = @ \ {w}]
      /\ UNCHANGED <<index, doomed, library>>
  BY DEF RemoveFile
<1>3. /\ call'.op = call.op /\ call'.req = call.req /\ call'.drops = call.drops \ {w}
      /\ call'.puts = call.puts /\ call'.index = call.index
  BY <1>2 DEF RInv, IInv, TypeOK
<1>4. /\ folder'[w.id] = folder[w.id] \ {w.file}
      /\ \A i \in Ids : i # w.id => folder'[i] = folder[i]
  BY <1>1, <1>2 DEF RInv, IInv, TypeOK
<1>5. DiskSound'
  BY <1>1, <1>2, <1>4 DEF RInv, DiskSound
<1>6. Coming' = Coming /\ \A a \in Areas : Home(q, a)' = Home(q, a)
  BY <1>2, <1>3 DEF Coming, Home
<1>7. PICK b \in Areas : Carries(q, b) /\ w.id = Home(q, b) /\ Goes(q, AsPart(b, w.file))
  BY <1>1 DEF Dropped
<1>8. /\ q \in Requests /\ q.unit \in library[q.title]
      /\ \A k \in Keys : Coming[k] # index[k] => \E a \in Areas : Carries(q, a) /\ KeyOf(q, a) = k
  BY <1>0, <1>1 DEF RInv, CallPlaced
<1>9. ASSUME NEW a \in Areas, Carries(q, a) PROVE Settles(q, a)'
  <2>1. Settles(q, a) /\ Home(q, a) \in Ids /\ (Home(q, a) = w.id => a = b)
    BY <1>1, <1>7, <1>9, HomesApart, <1>0 DEF Settles
  <2>2. ASSUME NEW f \in folder'[Home(q, a)]
        PROVE  \/ AsPart(a, f) \in q.unit
               \/ Kept(q, AsPart(a, f))
               \/ \E v \in call'.puts : Touches(v, Home(q, a), f)
               \/ [id |-> Home(q, a), file |-> f] \in call'.drops
    <3>1. f \in folder[Home(q, a)] /\ [id |-> Home(q, a), file |-> f] # w
      BY <1>4, <2>1, <2>2
    <3> QED
      BY <1>3, <2>1, <3>1 DEF Settles
  <2>3. ASSUME NEW p \in UnitArea(q, a)
        PROVE  \/ AsFile(p) \in folder'[Home(q, a)]
               \/ [id |-> Home(q, a), file |-> AsFile(p)] \in call'.puts
    <3>1. ~(Home(q, a) = w.id /\ AsFile(p) = w.file)
      <4>1. SUFFICES ASSUME Home(q, a) = w.id, AsFile(p) = w.file PROVE FALSE
        OBVIOUS
      <4>2. AsPart(b, w.file).area = b /\ AsPart(b, w.file).name = w.file.name /\ w.file.name = p.name
        BY <1>1, <4>1, PartsAreFiles DEF AsFile
      <4> QED
        BY <1>7, <2>1, <2>3, <4>1, <4>2 DEF Goes
    <3>2. AsFile(p) \in folder[Home(q, a)] => AsFile(p) \in folder'[Home(q, a)]
      BY <1>4, <2>1, <3>1
    <3> QED
      BY <1>3, <2>1, <3>2 DEF Settles
  <2> QED
    BY <1>2, <1>6, <2>1, <2>2, <2>3 DEF Settles
<1>10. (\A v \in call'.puts : Placed(q, v)') /\ (\A v \in call'.drops : Dropped(q, v)')
  <2>1. (\A v \in call.puts : Placed(q, v)) /\ (\A v \in call.drops : Dropped(q, v))
    BY <1>0, WritesAreCalls
  <2> QED
    BY <1>3, <1>6, <2>1 DEF Placed, Dropped
<1>11. CallPlaced'
  BY <1>0, <1>1, <1>2, <1>3, <1>6, <1>8, <1>9, <1>10 DEF CallPlaced
<1> QED
  BY <1>5, <1>11

\* Steps that write no file leave the files and the targets as they are.
LEMMA StillPlaced ==
  ASSUME RInv, call.op = "restore", call'.op = "restore", call'.req = call.req,
         call'.puts = call.puts, call'.drops = call.drops, Coming' = Coming,
         \A k \in Keys : index'[k] = index[k] \/ index'[k] = Coming[k],
         UNCHANGED <<folder, doomed, library>>
  PROVE  CallPlaced'
<1>0. PICK q : q = call.req
  OBVIOUS
<1>1. /\ q \in Requests /\ q.unit \in library[q.title]
      /\ \A a \in Areas : Carries(q, a) => Settles(q, a)
      /\ \A w \in call.puts : Placed(q, w)
      /\ \A w \in call.drops : Dropped(q, w)
      /\ \A k \in Keys : Coming[k] # index[k] => \E a \in Areas : Carries(q, a) /\ KeyOf(q, a) = k
  BY <1>0 DEF RInv, CallPlaced
<1>2. \A a \in Areas : Home(q, a)' = Home(q, a)
  BY DEF Home
<1>3. \A a \in Areas : Carries(q, a) => Settles(q, a)'
  BY <1>1, <1>2 DEF Settles
<1>4. (\A w \in call.puts : Placed(q, w)') /\ (\A w \in call.drops : Dropped(q, w)')
  BY <1>1, <1>2 DEF Placed, Dropped
<1>5. \A k \in Keys : Coming'[k] # index'[k] => \E a \in Areas : Carries(q, a) /\ KeyOf(q, a) = k
  BY <1>1
<1> QED
  BY <1>0, <1>1, <1>3, <1>4, <1>5 DEF CallPlaced

LEMMA CounterPlaced ==
  ASSUME RInv, WriteCounter
  PROVE  CallPlaced' /\ DiskSound'
<1>1. /\ call.counter # None /\ call' = [call EXCEPT !.counter = None]
      /\ UNCHANGED <<folder, index, doomed, library>>
  BY DEF WriteCounter
<1>2. /\ call'.op = call.op /\ call'.req = call.req /\ call'.puts = call.puts
      /\ call'.drops = call.drops /\ call'.index = call.index
  BY <1>1 DEF RInv, IInv, TypeOK
<1>3. call.op = "restore"
  BY <1>1, WritesAreCalls DEF RInv, IInv, IndexSound
<1>4. Coming' = Coming
  BY <1>1, <1>2 DEF Coming
<1> QED
  BY <1>1, <1>2, <1>3, <1>4, StillPlaced DEF RInv, DiskSound

LEMMA IndexPlaced ==
  ASSUME RInv, WriteIndex
  PROVE  CallPlaced' /\ DiskSound'
<1>1. /\ call.index # None /\ index' = call.index /\ call' = [call EXCEPT !.index = None]
      /\ UNCHANGED <<folder, doomed, library>>
  BY DEF WriteIndex
<1>2. /\ call'.op = call.op /\ call'.req = call.req /\ call'.puts = call.puts
      /\ call'.drops = call.drops /\ call'.index = None
  BY <1>1 DEF RInv, IInv, TypeOK
<1>3. call.op = "restore"
  BY <1>1, WritesAreCalls
<1>4. Coming' = Coming /\ index' = Coming
  BY <1>1, <1>2 DEF Coming
<1>5. \A k, h \in Keys : index'[k] # None /\ index'[k] = index'[h] => k = h
  BY <1>4, ComingSound DEF RInv
<1> QED
  BY <1>1, <1>2, <1>3, <1>4, <1>5, StillPlaced DEF RInv, DiskSound

(***************************************************************************)
(* Every other step.                                                       *)
(***************************************************************************)

\* The unit a collect uploads tells its files apart by name.
LEMMA LocalApart ==
  ASSUME NEW q, Asks(q), IInv, DiskSound
  PROVE  \A p, r \in Local(q) : p.area = r.area /\ p.name = r.name => p = r
<1>1. \A a \in Areas : \A p \in LocalArea(q, a) : p.area = a
  <2> TAKE a \in Areas
  <2> TAKE p \in LocalArea(q, a)
  <2>1. PICK f \in SaveOf(KeyOf(q, a)) : p = AsPart(a, f)
    BY DEF LocalArea
  <2> QED
    BY <2>1 DEF AsPart
<1>2. \A a \in Areas : \A p, r \in LocalArea(q, a) : p.name = r.name => p = r
  <2> TAKE a \in Areas
  <2> TAKE p, r \in LocalArea(q, a)
  <2>1. PICK f \in SaveOf(KeyOf(q, a)) : p = AsPart(a, f)
    BY DEF LocalArea
  <2>2. PICK g \in SaveOf(KeyOf(q, a)) : r = AsPart(a, g)
    BY DEF LocalArea
  <2>3. f.name = g.name => f = g
    BY DEF SaveOf, FilesIn, DiskSound
  <2> QED
    BY <2>1, <2>2, <2>3 DEF AsPart
<1> QED
  BY <1>1, <1>2 DEF Local, Areas

LEMMA CollectPlaced ==
  ASSUME RInv, NEW q, Asks(q), Collect(q)
  PROVE  CallPlaced' /\ DiskSound'
<1>1. call.op = "idle" /\ call' = call /\ UNCHANGED <<folder, index, doomed>>
  BY DEF Collect, MayCall
<1>2. library' = library \/ library' = [library EXCEPT ![q.title] = @ \cup Uploads(q)]
  BY DEF Collect
<1>3. \A u \in Uploads(q) : \A p, r \in u : p.area = r.area /\ p.name = r.name => p = r
  BY LocalApart DEF RInv, Uploads
<1>4. \A t \in Titles : \A u \in library'[t] : u \in library[t] \/ u \in Uploads(q)
  BY <1>2 DEF RInv, IInv, TypeOK, Asks
<1>5. DiskSound'
  BY <1>1, <1>3, <1>4 DEF RInv, DiskSound
<1> QED
  BY <1>1, <1>5 DEF RInv, CallPlaced

LEMMA EmulatorPlaced ==
  ASSUME RInv, Emulator
  PROVE  CallPlaced' /\ DiskSound'
<1>1. call.op = "idle" /\ call' = call /\ library' = library
  BY DEF Emulator, EmulatorPublishes, EmulatorSaves, EmulatorDeletes, EmulatorMarks, EmulatorPurges, MayEdit
<1>2. CallPlaced'
  BY <1>1 DEF RInv, CallPlaced
<1>3. /\ folder \in [Ids -> SUBSET File] /\ index \in [Keys -> Ids \cup {None}] /\ None \notin Ids
      /\ \A i \in Ids : \A f, g \in folder[i] : f.name = g.name => f = g
      /\ \A k, h \in Keys : index[k] # None /\ index[k] = index[h] => k = h
  BY ConstantsTyped DEF RInv, IInv, TypeOK, DiskSound, Ids
<1>4. IInv'
  BY EmulatorSound DEF RInv
<1>5. PICK k \in Keys :
        \/ EmulatorPublishes(k)
        \/ \E f \in File : EmulatorSaves(k, f) \/ EmulatorDeletes(k, f)
        \/ EmulatorMarks(k)
        \/ EmulatorPurges(k)
  BY DEF Emulator
<1>6. \A i \in Ids : \A f, g \in folder'[i] : f.name = g.name => f = g
  <2>1. CASE EmulatorPublishes(k)
    BY <1>3, <2>1 DEF EmulatorPublishes
  <2>2. CASE \E f \in File : EmulatorSaves(k, f) \/ EmulatorDeletes(k, f)
    BY <1>3, <2>2 DEF EmulatorSaves, EmulatorDeletes, PutFile
  <2>3. CASE EmulatorMarks(k)
    BY <1>3, <2>3 DEF EmulatorMarks
  <2>4. CASE EmulatorPurges(k)
    BY <1>3, <2>4 DEF EmulatorPurges
  <2> QED
    BY <1>5, <2>1, <2>2, <2>3, <2>4
<1>7. \A g, h \in Keys : index'[g] # None /\ index'[g] = index'[h] => g = h
  <2>1. CASE Indexed
    BY <1>4, <2>1 DEF IInv, IndexSound, Sound
  <2>2. CASE ~Indexed
    <3>1. index' = index
      BY <1>5, <2>2 DEF EmulatorPublishes, EmulatorSaves, EmulatorDeletes, EmulatorMarks, EmulatorPurges,
                        RInv, IInv, IndexSound
    <3> QED
      BY <1>3, <3>1
  <2> QED
    BY <2>1, <2>2
<1> QED
  BY <1>1, <1>2, <1>6, <1>7 DEF RInv, DiskSound

LEMMA InitPlaced == Init => RInv
<1> SUFFICES ASSUME Init PROVE RInv
  OBVIOUS
<1>1. call = Idle
  BY DEF Init
<1>2. DiskSound
  BY FoldersHold, InitAllocated, UnitsDistinct DEF Init, DiskSound
<1> QED
  BY <1>1, <1>2, InitSound DEF RInv, CallPlaced, Idle

LEMMA StepPlaced ==
  ASSUME RInv, [Next]_vars
  PROVE  RInv'
<1>1. IInv'
  BY StepSound DEF RInv
<1>2. CASE Collects
  BY <1>1, <1>2, CollectPlaced DEF Collects, CollectRequest, Asks, RInv
<1>3. CASE Restores
  <2>1. PICK t \in Titles, p \in Asked, m \in Modes, o \in BOOLEAN :
          \E u \in library[t] : RestoreBegin(RestoreRequest(t, p, m, u, o))
    BY <1>3 DEF Restores
  <2>2. PICK u \in library[t] : RestoreBegin(RestoreRequest(t, p, m, u, o))
    BY <2>1
  <2>3. RestoreRequest(t, p, m, u, o) \in Requests
    BY RequestTyped DEF RInv, IInv
  <2>4. RestoreRequest(t, p, m, u, o).unit \in library[RestoreRequest(t, p, m, u, o).title]
    BY DEF RestoreRequest
  <2> QED
    BY <1>1, <2>2, <2>3, <2>4, BeginPlaced DEF RInv
<1>4. CASE Writes
  BY <1>1, <1>4, CounterPlaced, PutPlaced, DropPlaced, IndexPlaced DEF Writes, RInv
<1>5. CASE RestoreEnd \/ RestoreFails
  <2>1. call' = Idle /\ UNCHANGED <<folder, index, library>>
    BY <1>5 DEF RestoreEnd, RestoreFails
  <2> QED
    BY <1>1, <2>1 DEF RInv, DiskSound, CallPlaced, Idle
<1>6. CASE Emulator
  BY <1>1, <1>6, EmulatorPlaced DEF RInv
<1>7. CASE UNCHANGED vars
  <2>1. UNCHANGED <<folder, index, doomed, library, call>>
    BY <1>7 DEF vars
  <2> QED
    BY <1>1, <2>1 DEF RInv, DiskSound, CallPlaced, Settles, Placed, Dropped, Home, Coming
<1> QED
  BY <1>2, <1>3, <1>4, <1>5, <1>6, <1>7 DEF Next

\* The invariant behind the theorems below: from the checks of a restore to
\* its last write, every file of the areas it carries is accounted for.
THEOREM RestorePlaced == Spec => []RInv
<1>1. RInv /\ [Next]_vars => RInv'
  BY StepPlaced
<1> QED
  BY <1>1, InitPlaced, PTL DEF Spec

(***************************************************************************)
(* What follows of a restore.                                              *)
(***************************************************************************)

\* The files of an area whose save the index names.
LEMMA NamedLocal ==
  ASSUME RInv, NEW q \in Requests, NEW a \in Areas, HasKey(q, a), KeyOf(q, a) \notin doomed,
         index[KeyOf(q, a)] \in Ids
  PROVE  LocalArea(q, a) = {AsPart(a, f) : f \in folder[index[KeyOf(q, a)]]}
  BY DEF LocalArea, SaveOf, FilesIn, Named

LEMMA EndExact ==
  ASSUME RInv, RestoreEnd, NEW a \in Areas, Carries(call.req, a)
  PROVE  {r \in LocalArea(call.req, a) : ~Kept(call.req, r)} = UnitArea(call.req, a)
<1> DEFINE q == call.req
           k == KeyOf(q, a)
<1>1. call.op = "restore" /\ call.puts = {} /\ call.drops = {} /\ Coming = index
  BY DEF RestoreEnd, Coming
<1>2. q \in Requests /\ Settles(q, a)
  BY <1>1, HomesApart
<1>3. LocalArea(q, a) = {AsPart(a, f) : f \in folder[index[k]]} /\ index[k] \in Ids /\ Home(q, a) = index[k]
  BY <1>1, <1>2, NamedLocal DEF Settles, Home
<1>4. \A f \in folder[index[k]] : AsPart(a, f) \in q.unit \/ Kept(q, AsPart(a, f))
  BY <1>1, <1>2, <1>3 DEF Settles
<1>5. \A p \in UnitArea(q, a) : AsFile(p) \in folder[index[k]]
  BY <1>1, <1>2, <1>3 DEF Settles
<1>6. \A p \in UnitArea(q, a) : p \in LocalArea(q, a) /\ ~Kept(q, p)
  <2> TAKE p \in UnitArea(q, a)
  <2>1. p \in Part /\ p.area = a /\ p \in q.unit
    BY <1>2, UnitTyped DEF UnitArea
  <2>2. AsPart(a, AsFile(p)) = p
    BY <2>1, PartsAreFiles
  <2> QED
    BY <1>3, <1>5, <2>1, <2>2 DEF Kept
<1>7. \A r \in LocalArea(q, a) : ~Kept(q, r) => r \in UnitArea(q, a)
  <2> TAKE r \in LocalArea(q, a)
  <2>1. PICK f \in folder[index[k]] : r = AsPart(a, f)
    BY <1>3
  <2> QED
    BY <1>4, <2>1 DEF UnitArea, AsPart
<1> QED
  BY <1>6, <1>7

\* sync_profiles.c:342-387: a restore that returned left each area its unit
\* carries as the unit has it, besides the optional folders it leaves out.
THEOREM RestoreIsExact == Spec => RestoreExact
<1> DEFINE A == RestoreEnd =>
                  \A a \in Areas : Carries(call.req, a) =>
                    {r \in LocalArea(call.req, a) : ~Kept(call.req, r)} = UnitArea(call.req, a)
<1>1. RInv /\ [Next]_vars => [A]_vars
  BY EndExact
<1> QED
  BY <1>1, RestorePlaced, PTL DEF Spec, RestoreExact

\* A step of a restore writes a folder of an area it carries, or none.
LEMMA CallSteps ==
  ASSUME RInv, call.op = "restore", [Next]_vars
  PROVE  /\ doomed' = doomed
         /\ \/ folder' = folder
            \/ \E w \in call.puts : WriteFile(w)
            \/ \E w \in call.drops : RemoveFile(w)
         /\ index' = index \/ (folder' = folder /\ index' = Coming)
<1>1. CASE Collects \/ Restores \/ Emulator
  BY <1>1 DEF Collects, Restores, Emulator, Collect, RestoreBegin, MayCall, MayEdit,
              EmulatorPublishes, EmulatorSaves, EmulatorDeletes, EmulatorMarks, EmulatorPurges
<1>2. CASE Writes
  BY <1>2 DEF Writes, WriteCounter, WriteFile, RemoveFile, WriteIndex, Coming
<1>3. CASE RestoreEnd \/ RestoreFails
  BY <1>3 DEF RestoreEnd, RestoreFails
<1>4. CASE UNCHANGED vars
  BY <1>4 DEF vars
<1> QED
  BY <1>1, <1>2, <1>3, <1>4 DEF Next

\* What a write does to one folder.
LEMMA WriteKeeps ==
  ASSUME RInv, call.op = "restore", [Next]_vars, NEW i \in Ids, folder'[i] # folder[i]
  PROVE  \E b \in Areas :
           /\ Carries(call.req, b) /\ i = Home(call.req, b)
           /\ \A f \in folder[i] : Kept(call.req, AsPart(b, f)) => f \in folder'[i]
<1>1. CASE \E w \in call.puts : WriteFile(w)
  <2>1. PICK w \in call.puts : WriteFile(w)
    BY <1>1
  <2>2. PICK b \in Areas : Carries(call.req, b) /\ w.id = Home(call.req, b) /\ AsPart(b, w.file) \in call.req.unit
    BY <2>1, WritesAreCalls DEF Placed
  <2>3. w.id \in Ids /\ folder' = [folder EXCEPT ![w.id] = PutFile(@, w.file)] /\ folder \in [Ids -> SUBSET File]
    BY <2>1, WritesAreCalls DEF Write, WriteFile, RInv, IInv, TypeOK
  <2>4. i = w.id /\ folder'[i] = PutFile(folder[i], w.file)
    BY <2>3
  <2>5. \A f \in folder[i] : Kept(call.req, AsPart(b, f)) => f.name # w.file.name
    BY <2>2 DEF Kept, UnitArea, AsPart
  <2> QED
    BY <2>2, <2>4, <2>5 DEF PutFile
<1>2. CASE \E w \in call.drops : RemoveFile(w)
  <2>1. PICK w \in call.drops : RemoveFile(w)
    BY <1>2
  <2>2. PICK b \in Areas : Carries(call.req, b) /\ w.id = Home(call.req, b) /\ Goes(call.req, AsPart(b, w.file))
    BY <2>1, WritesAreCalls DEF Dropped
  <2>3. w.id \in Ids /\ folder' = [folder EXCEPT ![w.id] = @ \ {w.file}] /\ folder \in [Ids -> SUBSET File]
    BY <2>1, WritesAreCalls DEF Write, RemoveFile, RInv, IInv, TypeOK
  <2>4. i = w.id /\ folder'[i] = folder[i] \ {w.file}
    BY <2>3
  <2>5. \A f \in folder[i] : Kept(call.req, AsPart(b, f)) => f # w.file
    BY <2>2 DEF Goes
  <2> QED
    BY <2>2, <2>4, <2>5
<1> QED
  BY <1>1, <1>2, CallSteps

LEMMA OtherSaveStays ==
  ASSUME RInv, call.op = "restore", [Next]_vars, NEW k \in Keys,
         \A a \in Areas : Carries(call.req, a) => KeyOf(call.req, a) # k
  PROVE  SaveOf(k)' = SaveOf(k)
<1>1. index'[k] = index[k]
  BY CallSteps DEF RInv, CallPlaced
<1>2. Named(k)' = Named(k)
  BY <1>1, CallSteps DEF Named
<1>3. ASSUME Named(k) \in Ids PROVE folder'[Named(k)] = folder[Named(k)]
  <2>1. Named(k) = index[k]
    BY <1>3, ConstantsTyped DEF Named, Ids
  <2> QED
    BY <1>3, <2>1, WriteKeeps, HomesApart
<1> QED
  BY <1>2, <1>3 DEF SaveOf, FilesIn

LEMMA KeptFileStays ==
  ASSUME RInv, call.op = "restore", [Next]_vars, NEW q, q = call.req, NEW a \in Areas, Carries(q, a),
         NEW r \in LocalArea(q, a), Kept(q, r)
  PROVE  r \in LocalArea(q, a)'
<1> DEFINE k == KeyOf(q, a)
<1>1. q \in Requests /\ Settles(q, a) /\ k \in Keys
  BY HomesApart
<1>2. HasKey(q, a) /\ k \notin doomed /\ Named(k) = index[k]
  BY <1>1 DEF Settles, Named
<1>3. PICK f \in SaveOf(k) : r = AsPart(a, f)
  BY <1>2 DEF LocalArea
<1>4. index[k] \in Ids /\ f \in folder[index[k]]
  BY <1>2, <1>3 DEF SaveOf, FilesIn
<1>5. Home(q, a) = index[k]
  BY <1>1, <1>4, ComingSound DEF Home, RInv
<1>6. index'[k] = index[k] /\ Named(k)' = index[k]
  <2>1. index'[k] = index[k]
    BY <1>1, <1>4, ComingSound, CallSteps DEF RInv
  <2> QED
    BY <1>2, <2>1, CallSteps DEF Named
<1>7. f \in folder'[index[k]]
  <2>1. CASE folder'[index[k]] # folder[index[k]]
    <3>1. PICK b \in Areas : /\ Carries(call.req, b) /\ index[k] = Home(call.req, b)
                             /\ \A g \in folder[index[k]] : Kept(call.req, AsPart(b, g)) => g \in folder'[index[k]]
      BY <1>4, <2>1, WriteKeeps
    <3>2. b = a
      BY <1>5, <3>1, HomesApart
    <3> QED
      BY <1>3, <1>4, <3>1, <3>2
  <2> QED
    BY <1>4, <2>1
<1> QED
  BY <1>2, <1>3, <1>4, <1>6, <1>7 DEF LocalArea, SaveOf, FilesIn

\* sync.md:185, sync_profiles.c:326-356: a restore writes the saves of the
\* areas its unit carries, for the profile it settled on, and no other; nor
\* the optional folders the unit leaves out.
THEOREM OthersAreKept == Spec => OthersStay
<1> DEFINE A == call.op = "restore" => \A q \in {call.req} :
        /\ \A k \in Keys : (\A a \in Areas : Carries(q, a) => KeyOf(q, a) # k) => SaveOf(k)' = SaveOf(k)
        /\ \A a \in Areas : Carries(q, a) => {r \in LocalArea(q, a) : Kept(q, r)} \subseteq LocalArea(q, a)'
<1>1. RInv /\ [Next]_vars => [A]_vars
  <2> SUFFICES ASSUME RInv, [Next]_vars PROVE A
    OBVIOUS
  <2> SUFFICES ASSUME call.op = "restore", NEW q \in {call.req}
               PROVE  /\ \A k \in Keys : (\A a \in Areas : Carries(q, a) => KeyOf(q, a) # k) => SaveOf(k)' = SaveOf(k)
                      /\ \A a \in Areas : Carries(q, a) => {r \in LocalArea(q, a) : Kept(q, r)} \subseteq LocalArea(q, a)'
    OBVIOUS
  <2>1. ASSUME NEW k \in Keys, \A a \in Areas : Carries(q, a) => KeyOf(q, a) # k PROVE SaveOf(k)' = SaveOf(k)
    BY <2>1, OtherSaveStays
  <2>2. ASSUME NEW a \in Areas, Carries(q, a), NEW r \in LocalArea(q, a), Kept(q, r)
        PROVE  r \in LocalArea(q, a)'
    BY <2>2, KeptFileStays
  <2> QED
    BY <2>1, <2>2
<1> QED
  BY <1>1, RestorePlaced, PTL DEF Spec, OthersStay

----------------------------------------------------------------------------
(***************************************************************************)
(* What the state blob is worth.  A conflict is a change since the last    *)
(* call (LeftTrue: an area's recorded hash covers what that call left),    *)
(* and a client that always manages loses no save (RecordsPassed: what the *)
(* blob records reached RomM, and TouchedPassed: so did what a restore     *)
(* still has to replace).                                                  *)
(***************************************************************************)

(***************************************************************************)
(* What the blob records of the areas, against the disk and against RomM.  *)
(***************************************************************************)

\* The hash a blob records for the save of a key.
Recorded(blob, k) == IF k.slot = Shared THEN blob.device[k.title] ELSE blob.account[k.title][k.slot]

\* An area's recorded hash covers what the last stored call left in it.
LeftTrue ==
  \A k \in Keys : left[k] # None => Recorded(st, k) = {AsPart(AreaOf(k), f) : f \in left[k]}

\* The blob a restore is to leave differs from the stored one in what its
\* unit brings.
BlobComing ==
  call.op = "restore" =>
    /\ call.blob.synced = RestoreBlob(call.req).synced
    /\ call.blob.account = RestoreBlob(call.req).account
    /\ call.blob.device = RestoreBlob(call.req).device
    /\ call.req.mode = "managed" => call.blob.restored = st.restored

LInv == RInv /\ LeftTrue /\ BlobComing

\* What reached RomM of a title's saves.
InRomM(t) == UNION library[t]

\* A client that always manages: what the blob records did reach RomM.
RecordsPassed ==
  \A t \in Titles :
    /\ st.device[t] \subseteq InRomM(t)
    /\ \A p \in Asked : /\ st.synced[t][p] \subseteq InRomM(t)
                        /\ st.account[t][p] \subseteq InRomM(t)
                        /\ st.restored[t][p] = None

\* What a restore is still to replace or remove reached RomM, or was given up.
TouchedPassed ==
  call.op = "restore" => \A q \in {call.req} : \A a \in Areas : Carries(q, a) =>
    \A f \in folder[Home(q, a)] :
      (\E w \in call.puts : Touches(w, Home(q, a), f)) \/ [id |-> Home(q, a), file |-> f] \in call.drops =>
        AsPart(a, f) \in InRomM(q.title) \cup call.agreed

CInv == RInv /\ BlobComing /\ RecordsPassed /\ TouchedPassed

(***************************************************************************)
(* What the steps of a restore leave alone.                                *)
(***************************************************************************)

LEMMA CallKeeps ==
  ASSUME RInv, call.op = "restore", call'.op = "restore", [Next]_vars
  PROVE  /\ call'.req = call.req /\ call'.blob = call.blob /\ call'.agreed = call.agreed
         /\ call'.puts \subseteq call.puts /\ call'.drops \subseteq call.drops
         /\ Coming' = Coming
         /\ UNCHANGED <<doomed, st, library, left>>
<1>1. call \in [op : {"idle", "restore"}, req : {None} \cup Requests, counter : {None} \cup 0..MaxId,
                puts : SUBSET Write, drops : SUBSET Write, index : {None} \cup [Keys -> Ids \cup {None}],
                agreed : SUBSET Part, blob : Blob]
  BY DEF RInv, IInv, TypeOK
<1>2. CASE Collects \/ Restores \/ Emulator
  BY <1>2 DEF Collects, Restores, Emulator, Collect, RestoreBegin, MayCall, MayEdit,
              EmulatorPublishes, EmulatorSaves, EmulatorDeletes, EmulatorMarks, EmulatorPurges
<1>3. CASE Writes
  <2>1. CASE WriteCounter
    BY <1>1, <2>1 DEF WriteCounter, Coming
  <2>2. CASE \E w \in call.puts : WriteFile(w)
    BY <1>1, <2>2 DEF WriteFile, Coming
  <2>3. CASE \E w \in call.drops : RemoveFile(w)
    BY <1>1, <2>3 DEF RemoveFile, Coming
  <2>4. CASE WriteIndex
    BY <1>1, <2>4 DEF WriteIndex, Coming
  <2> QED
    BY <1>3, <2>1, <2>2, <2>3, <2>4 DEF Writes
<1>4. CASE RestoreEnd \/ RestoreFails
  BY <1>4 DEF RestoreEnd, RestoreFails, Idle
<1>5. CASE UNCHANGED vars
  BY <1>5 DEF vars, Coming
<1> QED
  BY <1>2, <1>3, <1>4, <1>5 DEF Next

\* Outside the steps of a restore only its start sets one up.
LEMMA CallStarts ==
  ASSUME RInv, call.op = "idle", call'.op = "restore", [Next]_vars
  PROVE  \E q \in Requests : q.unit \in library[q.title] /\ RestoreBegin(q)
<1>1. Restores
  <2>1. ~(Collects \/ Emulator \/ UNCHANGED vars)
    BY DEF Collects, Collect, Emulator, EmulatorPublishes, EmulatorSaves, EmulatorDeletes, EmulatorMarks,
           EmulatorPurges, vars
  <2>2. ~(Writes \/ RestoreEnd \/ RestoreFails)
    <3>1. call.puts = {} /\ call.drops = {} /\ call.counter = None /\ call.index = None
      BY DEF RInv, CallPlaced, Idle
    <3> QED
      BY <3>1 DEF Writes, WriteCounter, WriteIndex, RestoreEnd, RestoreFails
  <2> QED
    BY <2>1, <2>2 DEF Next
<1>2. PICK t \in Titles, p \in Asked, m \in Modes, o \in BOOLEAN :
        \E u \in library[t] : RestoreBegin(RestoreRequest(t, p, m, u, o))
  BY <1>1 DEF Restores
<1>3. PICK u \in library[t] : RestoreBegin(RestoreRequest(t, p, m, u, o))
  BY <1>2
<1>4. RestoreRequest(t, p, m, u, o) \in Requests
  BY RequestTyped DEF RInv, IInv
<1> QED
  BY <1>3, <1>4 DEF RestoreRequest

LEMMA BlobStays ==
  ASSUME RInv, BlobComing, [Next]_vars
  PROVE  BlobComing'
<1> SUFFICES ASSUME call'.op = "restore" PROVE BlobComing'
  BY DEF BlobComing
<1>1. CASE call.op = "restore"
  BY <1>1, CallKeeps DEF BlobComing, RestoreBlob
<1>2. CASE call.op = "idle"
  <2>1. PICK q \in Requests : RestoreBegin(q)
    BY <1>2, CallStarts
  <2>2. call'.req = q /\ call'.blob = RestoreBlob(q) /\ st' = st
    BY <2>1 DEF RestoreBegin
  <2> QED
    BY <2>2 DEF BlobComing, RestoreBlob
<1> QED
  BY <1>1, <1>2, WritesAreCalls

(***************************************************************************)
(* A conflict is a change.                                                 *)
(***************************************************************************)

LEMMA KeyCases ==
  ASSUME NEW q, Asks(q), NEW k \in Keys
  PROVE  /\ k.slot = Shared => AreaOf(k) = "device" /\ (k.title = q.title => k = KeyOf(q, "device"))
         /\ k.slot # Shared => /\ AreaOf(k) = "account" /\ k.slot \in Profiles
                               /\ k.title = q.title /\ k.slot = q.profile =>
                                    HasKey(q, "account") /\ k = KeyOf(q, "account")
         /\ k = KeyOf(q, "device") => k.slot = Shared /\ k.title = q.title
         /\ HasKey(q, "account") /\ k = KeyOf(q, "account") =>
              k.slot # Shared /\ k.title = q.title /\ k.slot = q.profile
  BY ConstantsTyped DEF Asks, Asked, Keys, Slots, AreaOf, KeyOf, Key, HasKey

\* A blob that takes the hashes of some areas from what is there says what
\* the record of those areas does.
LEMMA LeftRecorded ==
  ASSUME TypeOK, LeftTrue, NEW q, Asks(q), NEW A \in SUBSET Areas, NEW blob,
         blob.account = IF "account" \in A
                        THEN [st.account EXCEPT ![q.title][q.profile] = LocalArea(q, "account")] ELSE st.account,
         blob.device = IF "device" \in A THEN [st.device EXCEPT ![q.title] = LocalArea(q, "device")] ELSE st.device,
         NEW k \in Keys, LeftNow(q, A)[k] # None
  PROVE  Recorded(blob, k) = {AsPart(AreaOf(k), f) : f \in LeftNow(q, A)[k]}
<1>1. st.account \in [Titles -> [Asked -> SUBSET Part]] /\ st.device \in [Titles -> SUBSET Part]
  BY DEF TypeOK, Blob
<1>2. q.title \in Titles /\ q.profile \in Asked /\ k.title \in Titles /\ Profiles \subseteq Asked
  BY DEF Asks, Keys, Asked
<1>3. CASE k.slot = Shared
  <2>1. AreaOf(k) = "device" /\ \A a \in A : HasKey(q, a) /\ k = KeyOf(q, a) => a = "device" /\ k.title = q.title
    BY <1>3, KeyCases DEF Areas
  <2>2. CASE "device" \in A /\ k.title = q.title
    <3>1. k = KeyOf(q, "device") /\ HasKey(q, "device")
      BY <1>3, <2>2, KeyCases DEF HasKey
    <3>2. LeftNow(q, A)[k] = SaveOf(k)
      BY <2>2, <3>1 DEF LeftNow
    <3>3. Recorded(blob, k) = LocalArea(q, "device")
      BY <1>1, <1>2, <1>3, <2>2 DEF Recorded
    <3> QED
      BY <2>1, <3>1, <3>2, <3>3 DEF LocalArea
  <2>3. CASE ~("device" \in A /\ k.title = q.title)
    <3>1. LeftNow(q, A)[k] = left[k]
      BY <2>1, <2>3 DEF LeftNow
    <3>2. Recorded(blob, k) = Recorded(st, k)
      BY <1>1, <1>2, <1>3, <2>3 DEF Recorded
    <3> QED
      BY <3>1, <3>2 DEF LeftTrue
  <2> QED
    BY <2>2, <2>3
<1>4. CASE k.slot # Shared
  <2>1. /\ AreaOf(k) = "account" /\ k.slot \in Asked
        /\ \A a \in A : HasKey(q, a) /\ k = KeyOf(q, a) => a = "account" /\ k.title = q.title /\ k.slot = q.profile
    BY <1>2, <1>4, KeyCases DEF Areas
  <2>2. CASE "account" \in A /\ k.title = q.title /\ k.slot = q.profile
    <3>1. k = KeyOf(q, "account") /\ HasKey(q, "account")
      BY <1>4, <2>2, KeyCases
    <3>2. LeftNow(q, A)[k] = SaveOf(k)
      BY <2>2, <3>1 DEF LeftNow
    <3>3. Recorded(blob, k) = LocalArea(q, "account")
      BY <1>1, <1>2, <1>4, <2>1, <2>2 DEF Recorded
    <3> QED
      BY <2>1, <3>1, <3>2, <3>3 DEF LocalArea
  <2>3. CASE ~("account" \in A /\ k.title = q.title /\ k.slot = q.profile)
    <3>1. LeftNow(q, A)[k] = left[k]
      BY <2>1, <2>3 DEF LeftNow
    <3>2. Recorded(blob, k) = Recorded(st, k)
      BY <1>1, <1>2, <1>4, <2>1, <2>3 DEF Recorded
    <3> QED
      BY <3>1, <3>2 DEF LeftTrue
  <2> QED
    BY <2>2, <2>3
<1> QED
  BY <1>3, <1>4

LEMMA NothingKept ==
  ASSUME Optional = {}
  PROVE  \A q, p : ~Kept(q, p)
  BY DEF Kept

LEMMA LeftStays ==
  ASSUME Optional = {}, LInv, [Next]_vars
  PROVE  LeftTrue'
<1>1. TypeOK /\ st \in Blob
  BY DEF LInv, RInv, IInv, TypeOK
<1>2. CASE Collects
  <2>1. PICK t \in Titles, p \in Asked : Collect(CollectRequest(t, p))
    BY <1>2 DEF Collects
  <2>2. PICK q : q = CollectRequest(t, p)
    OBVIOUS
  <2>3. Asks(q) /\ Collect(q)
    BY <2>1, <2>2 DEF Asks, CollectRequest
  <2>4. CASE st' = CollectBlob(q) /\ left' = LeftNow(q, Areas)
    <3>1. /\ st'.account = [st.account EXCEPT ![q.title][q.profile] = LocalArea(q, "account")]
          /\ st'.device = [st.device EXCEPT ![q.title] = LocalArea(q, "device")]
      BY <2>4 DEF CollectBlob
    <3>2. \A k \in Keys : LeftNow(q, Areas)[k] # None =>
            Recorded(st', k) = {AsPart(AreaOf(k), f) : f \in LeftNow(q, Areas)[k]}
      BY <1>1, <2>3, <3>1, LeftRecorded DEF LInv, Areas
    <3> QED
      BY <2>4, <3>2 DEF LeftTrue, Recorded
  <2>5. CASE st' = st /\ left' = left
    BY <2>5 DEF LInv, LeftTrue, Recorded
  <2> QED
    BY <2>3, <2>4, <2>5 DEF Collect
<1>3. CASE RestoreEnd
  <2>1. PICK q : q = call.req
    OBVIOUS
  <2>2. PICK A : A = {a \in Areas : Carries(q, a)}
    OBVIOUS
  <2>3. call.op = "restore" /\ q \in Requests /\ Asks(q) /\ A \in SUBSET Areas
    BY <1>3, <2>1, <2>2 DEF RestoreEnd, LInv, RInv, CallPlaced, Asks, Requests
  <2>4. \A a \in A : UnitArea(q, a) = LocalArea(q, a)
    <3> TAKE a \in A
    <3>1. {r \in LocalArea(q, a) : ~Kept(q, r)} = UnitArea(q, a)
      BY <1>3, <2>1, <2>2, EndExact DEF LInv
    <3> QED
      BY <3>1, NothingKept
  <2>5. /\ call.blob.account = IF "account" \in A
                               THEN [st.account EXCEPT ![q.title][q.profile] = UnitArea(q, "account")] ELSE st.account
        /\ call.blob.device = IF "device" \in A THEN [st.device EXCEPT ![q.title] = UnitArea(q, "device")] ELSE st.device
    BY <2>1, <2>2, <2>3 DEF LInv, BlobComing, RestoreBlob, Areas
  <2>6. /\ call.blob.account = IF "account" \in A
                               THEN [st.account EXCEPT ![q.title][q.profile] = LocalArea(q, "account")] ELSE st.account
        /\ call.blob.device = IF "device" \in A THEN [st.device EXCEPT ![q.title] = LocalArea(q, "device")] ELSE st.device
    BY <2>4, <2>5
  <2>7. \A k \in Keys : LeftNow(q, A)[k] # None =>
          Recorded(call.blob, k) = {AsPart(AreaOf(k), f) : f \in LeftNow(q, A)[k]}
    BY <1>1, <2>3, <2>6, LeftRecorded DEF LInv
  <2>8. st' = call.blob /\ left' = LeftNow(q, A)
    BY <1>3, <2>1, <2>2 DEF RestoreEnd
  <2> QED
    BY <2>7, <2>8 DEF LeftTrue, Recorded
<1>4. CASE Restores \/ Writes \/ RestoreFails \/ Emulator \/ UNCHANGED vars
  <2>1. st' = st /\ left' = left
    BY <1>4 DEF Restores, RestoreBegin, Writes, WriteCounter, WriteFile, RemoveFile, WriteIndex, RestoreFails,
                Emulator, EmulatorPublishes, EmulatorSaves, EmulatorDeletes, EmulatorMarks, EmulatorPurges, vars
  <2> QED
    BY <2>1 DEF LInv, LeftTrue, Recorded
<1> QED
  BY <1>2, <1>3, <1>4 DEF Next

\* sync.md:185: what the state blob records of an area is, where no folder of
\* a save is optional, what the last call that covered it left there, and the
\* blob of a restore under way will record what that restore leaves.
THEOREM RecordsLeft == Optional = {} => (Spec => []LInv)
<1> SUFFICES ASSUME Optional = {} PROVE Spec => []LInv
  OBVIOUS
<1>1. Init => LInv
  BY InitPlaced DEF LInv, Init, LeftTrue, BlobComing, Idle
<1>2. LInv /\ [Next]_vars => LInv'
  BY StepPlaced, LeftStays, BlobStays DEF LInv
<1> QED
  BY <1>1, <1>2, PTL DEF Spec

\* The files a restore finds in an area are those of its save; there are none
\* in a new folder.
LEMMA FoundLocal ==
  ASSUME IInv, NEW q \in Requests, NEW a \in Areas, HasKey(q, a)
  PROVE  FoundArea(q, a) = IF a \in Unpublished(q) THEN {} ELSE LocalArea(q, a)
<1>1. CASE a \in Unpublished(q)
  <2>1. Target(q, a) \in Nat /\ HighestId < Target(q, a) /\ HighestId \in Nat
    BY <1>1, NewIdsFresh, HighestIdSound DEF IInv
  <2>2. FilesIn(Target(q, a)) = {}
    BY <2>1, HighestIdSound DEF IInv, FilesIn
  <2> QED
    BY <1>1, <2>2 DEF FoundArea
<1>2. CASE a \notin Unpublished(q)
  <2>1. Target(q, a) = Named(KeyOf(q, a))
    BY <1>2 DEF Target
  <2> QED
    BY <1>2, <2>1 DEF FoundArea, LocalArea, SaveOf
<1> QED
  BY <1>1, <1>2

LEMMA ConflictChanged ==
  ASSUME Optional = {}, LInv, NEW q \in Requests, RestoreCode(q) = "CONFLICT"
  PROVE  \E a \in Areas : Carries(q, a) /\ SaveOf(KeyOf(q, a)) # left[KeyOf(q, a)]
<1>1. PICK a \in Areas : Carries(q, a) /\ Compared(q, a) \notin {UnitArea(q, a), {}, Last(q, a)}
  BY DEF RestoreCode, Conflict
<1>2. HasKey(q, a)
  BY <1>1 DEF RestoreCode, HasKey, Areas
<1> DEFINE k == KeyOf(q, a)
<1>3. k \in Keys /\ AreaOf(k) = a
  BY <1>2, KeyThere DEF Asks, Requests
<1>4. Compared(q, a) = FoundArea(q, a)
  BY NothingKept DEF Compared
<1>5. Compared(q, a) = LocalArea(q, a)
  BY <1>1, <1>2, <1>4, FoundLocal DEF LInv, RInv
<1>6. SaveOf(k) # None
  BY LocalTyped, NoneApart DEF LInv, RInv, IInv
<1>7. ASSUME SaveOf(k) = left[k] PROVE FALSE
  <2>1. Recorded(st, k) = {AsPart(a, f) : f \in SaveOf(k)}
    BY <1>3, <1>6, <1>7 DEF LInv, LeftTrue
  <2>2. Recorded(st, k) = Last(q, a)
    BY <1>2, ConstantsTyped DEF Recorded, Last, KeyOf, Key, HasKey, Areas, Requests, Asked
  <2> QED
    BY <1>1, <1>2, <1>5, <2>1, <2>2 DEF LocalArea
<1> QED
  BY <1>1, <1>7

\* sync.md:185: a CONFLICT always is a save that changed since the last call
\* that covered it, wherever no folder of a save is optional
\* (sync_profiles.c:270-274 compares without those the unit leaves out).
THEOREM ConflictsAreChanges == Optional = {} => (Spec => []ConflictMeansChanged)
<1> SUFFICES ASSUME Optional = {} PROVE Spec => []ConflictMeansChanged
  OBVIOUS
<1>1. LInv => ConflictMeansChanged
  <2> SUFFICES ASSUME LInv, NEW t \in Titles, NEW p \in Asked, NEW m \in Modes, NEW u \in library[t],
                      NEW q \in {RestoreRequest(t, p, m, u, FALSE)}, RestoreCode(q) = "CONFLICT"
               PROVE  \E a \in Areas : Carries(q, a) /\ SaveOf(KeyOf(q, a)) # left[KeyOf(q, a)]
    BY DEF ConflictMeansChanged
  <2>1. q \in Requests
    BY RequestTyped DEF LInv, RInv, IInv
  <2> QED
    BY <2>1, ConflictChanged
<1> QED
  BY <1>1, RecordsLeft, PTL

(***************************************************************************)
(* A client that always manages.                                           *)
(***************************************************************************)

Managed == "unmanaged" \notin Modes

LEMMA RecordedTyped ==
  ASSUME TypeOK
  PROVE  /\ st.synced \in [Titles -> [Asked -> SUBSET Part]]
         /\ st.restored \in [Titles -> [Asked -> {None} \cup [new : SUBSET Part, old : SUBSET Part]]]
         /\ st.account \in [Titles -> [Asked -> SUBSET Part]]
         /\ st.device \in [Titles -> SUBSET Part]
         /\ library \in [Titles -> SUBSET SUBSET Part]
  BY DEF TypeOK, Blob

\* sync.c:150-158: what a collect records is what it uploads, or what it
\* found recorded.
LEMMA CollectRecords ==
  ASSUME TypeOK, RecordsPassed, NEW q, Asks(q), Collect(q)
  PROVE  RecordsPassed'
<1>1. q.title \in Titles /\ q.profile \in Asked
  BY DEF Asks
<1>2. \A t \in Titles : InRomM(t) \subseteq InRomM(t)'
  <2>1. library' = library \/ library' = [library EXCEPT ![q.title] = @ \cup Uploads(q)]
    BY DEF Collect
  <2> QED
    BY <1>1, <2>1, RecordedTyped DEF InRomM
<1>3. CASE st' = st
  BY <1>2, <1>3 DEF RecordsPassed
<1>4. CASE st' = CollectBlob(q) /\ library' = [library EXCEPT ![q.title] = @ \cup Uploads(q)]
  <2>1. ~RestoreAgain(q)
    BY <1>1 DEF RestoreAgain, RecordsPassed
  <2>2. Local(q) \subseteq InRomM(q.title)'
    <3>1. CASE Local(q) = {} \/ Local(q) = st.synced[q.title][q.profile]
      BY <1>1, <1>2, <3>1 DEF RecordsPassed
    <3>2. CASE Local(q) \in Uploads(q)
      BY <1>1, <1>4, <3>2, RecordedTyped DEF InRomM
    <3> QED
      BY <2>1, <3>1, <3>2 DEF Uploads
  <2>3. LocalArea(q, "account") \subseteq Local(q) /\ LocalArea(q, "device") \subseteq Local(q)
    BY DEF Local
  <2>4. /\ st'.synced = [st.synced EXCEPT ![q.title][q.profile] = Local(q)]
        /\ st'.restored = [st.restored EXCEPT ![q.title][q.profile] = None]
        /\ st'.account = [st.account EXCEPT ![q.title][q.profile] = LocalArea(q, "account")]
        /\ st'.device = [st.device EXCEPT ![q.title] = LocalArea(q, "device")]
    BY <1>4, <2>1 DEF CollectBlob
  <2>5. ASSUME NEW t \in Titles
        PROVE  /\ st'.device[t] \subseteq InRomM(t)'
               /\ \A p \in Asked : /\ st'.synced[t][p] \subseteq InRomM(t)'
                                   /\ st'.account[t][p] \subseteq InRomM(t)'
                                   /\ st'.restored[t][p] = None
    <3>1. CASE t = q.title
      BY <1>1, <1>2, <2>2, <2>3, <2>4, <3>1, RecordedTyped DEF RecordsPassed
    <3>2. CASE t # q.title
      BY <1>1, <1>2, <2>4, <3>2, RecordedTyped DEF RecordsPassed
    <3> QED
      BY <3>1, <3>2
  <2> QED
    BY <2>5 DEF RecordsPassed
<1>5. PICK uploaded \in BOOLEAN, stored \in BOOLEAN :
        /\ stored => uploaded
        /\ library' = IF uploaded THEN [library EXCEPT ![q.title] = @ \cup Uploads(q)] ELSE library
        /\ st' = IF stored THEN CollectBlob(q) ELSE st
  BY DEF Collect
<1> QED
  BY <1>3, <1>4, <1>5

LEMMA EndRecords ==
  ASSUME Managed, CInv, RestoreEnd
  PROVE  RecordsPassed'
<1>1. PICK q : q = call.req
  OBVIOUS
<1>2. call.op = "restore" /\ q \in Requests /\ q.unit \in library[q.title] /\ q.title \in Titles /\ q.profile \in Asked
  BY <1>1 DEF RestoreEnd, CInv, RInv, CallPlaced, Requests
<1>3. q.mode = "managed"
  BY <1>2, ConstantsTyped DEF Managed, Requests
<1>4. st' = call.blob /\ library' = library
  BY DEF RestoreEnd
<1>5. /\ st'.synced = [st.synced EXCEPT ![q.title][q.profile] = q.unit]
      /\ st'.restored = st.restored
      /\ \/ st'.account = st.account
         \/ st'.account = [st.account EXCEPT ![q.title][q.profile] = UnitArea(q, "account")]
      /\ \/ st'.device = st.device
         \/ st'.device = [st.device EXCEPT ![q.title] = UnitArea(q, "device")]
  BY <1>1, <1>2, <1>3, <1>4 DEF CInv, BlobComing, RestoreBlob
<1>6. q.unit \subseteq InRomM(q.title) /\ UnitArea(q, "account") \subseteq q.unit /\ UnitArea(q, "device") \subseteq q.unit
  BY <1>2 DEF InRomM, UnitArea
<1>7. ASSUME NEW t \in Titles
      PROVE  /\ st'.device[t] \subseteq InRomM(t)
             /\ \A p \in Asked : /\ st'.synced[t][p] \subseteq InRomM(t)
                                 /\ st'.account[t][p] \subseteq InRomM(t)
                                 /\ st'.restored[t][p] = None
  <2>1. TypeOK /\ RecordsPassed
    BY DEF CInv, RInv, IInv
  <2>2. st'.device[t] \subseteq InRomM(t)
    <3>1. st'.device[t] = st.device[t] \/ (t = q.title /\ st'.device[t] = UnitArea(q, "device"))
      BY <1>2, <1>5, <2>1, RecordedTyped
    <3> QED
      BY <1>6, <2>1, <3>1 DEF RecordsPassed
  <2>3. ASSUME NEW p \in Asked PROVE st'.synced[t][p] \subseteq InRomM(t)
    BY <1>2, <1>5, <1>6, <2>1, RecordedTyped DEF RecordsPassed
  <2>4. ASSUME NEW p \in Asked PROVE st'.account[t][p] \subseteq InRomM(t)
    <3>1. CASE st'.account = [st.account EXCEPT ![q.title][q.profile] = UnitArea(q, "account")]
      BY <1>2, <1>6, <2>1, <3>1, RecordedTyped DEF RecordsPassed
    <3>2. CASE st'.account = st.account
      BY <2>1, <3>2 DEF RecordsPassed
    <3> QED
      BY <1>5, <3>1, <3>2
  <2>5. ASSUME NEW p \in Asked PROVE st'.restored[t][p] = None
    BY <1>5, <2>1 DEF RecordsPassed
  <2> QED
    BY <2>2, <2>3, <2>4, <2>5
<1> QED
  BY <1>4, <1>7 DEF RecordsPassed, InRomM

LEMMA RecordsStay ==
  ASSUME Managed, CInv, [Next]_vars
  PROVE  RecordsPassed'
<1>1. CASE Collects
  <2>1. PICK t \in Titles, p \in Asked : Collect(CollectRequest(t, p))
    BY <1>1 DEF Collects
  <2>2. Asks(CollectRequest(t, p))
    BY DEF Asks, CollectRequest
  <2> QED
    BY <2>1, <2>2, CollectRecords DEF CInv, RInv, IInv
<1>2. CASE RestoreEnd
  BY <1>2, EndRecords
<1>3. CASE Restores \/ Writes \/ RestoreFails \/ Emulator \/ UNCHANGED vars
  <2>1. st' = st /\ library' = library
    BY <1>3 DEF Restores, RestoreBegin, Writes, WriteCounter, WriteFile, RemoveFile, WriteIndex, RestoreFails,
                Emulator, EmulatorPublishes, EmulatorSaves, EmulatorDeletes, EmulatorMarks, EmulatorPurges, vars
  <2> QED
    BY <2>1 DEF CInv, RecordsPassed, InRomM
<1> QED
  BY <1>1, <1>2, <1>3 DEF Next

(***************************************************************************)
(* What a restore replaces.                                                *)
(***************************************************************************)

\* sync_profiles.c:300-330: a file it is to replace or remove is one it
\* compared, so it reached RomM or the user gave it up.
LEMMA BeginTouches ==
  ASSUME RInv, RecordsPassed, NEW q \in Requests, q.unit \in library[q.title],
         RestoreCode(q) = "OK", CounterWith(q) <= MaxId,
         NEW a \in Areas, Carries(q, a), NEW f \in folder[Target(q, a)],
         \/ \E w \in Puts(q) : Touches(w, Target(q, a), f)
         \/ [id |-> Target(q, a), file |-> f] \in Drops(q)
  PROVE  AsPart(a, f) \in InRomM(q.title) \cup Agreed(q)
<1>1. HasKey(q, a) /\ Target(q, a) \in Ids
  BY TargetIsHome DEF RInv
<1>2. AsPart(a, f) \in FoundArea(q, a)
  BY <1>1, FoundIn DEF RInv
<1>3. f \in File /\ AsPart(a, f).name = f.name
  BY <1>1, PartsAreFiles DEF RInv, IInv, TypeOK
<1>4. ~Kept(q, AsPart(a, f))
  <2>1. CASE \E w \in Puts(q) : Touches(w, Target(q, a), f)
    <3>1. PICK w \in Puts(q) : Touches(w, Target(q, a), f)
      BY <2>1
    <3>2. PICK b \in Areas : Carries(q, b) /\ w.id = Target(q, b) /\ AsPart(b, w.file) \in q.unit
      BY <3>1, BeginWrites DEF RInv
    <3>3. b = a
      BY <3>1, <3>2, TargetsApart DEF Touches
    <3> QED
      BY <1>3, <3>1, <3>2, <3>3 DEF Kept, UnitArea, Touches, AsPart
  <2>2. CASE [id |-> Target(q, a), file |-> f] \in Drops(q)
    <3>1. PICK b \in Areas : Carries(q, b) /\ Target(q, a) = Target(q, b) /\ Goes(q, AsPart(b, f))
      BY <2>2, BeginWrites DEF RInv
    <3>2. b = a
      BY <3>1, TargetsApart
    <3> QED
      BY <3>1, <3>2 DEF Goes
  <2> QED
    BY <2>1, <2>2
<1>5. AsPart(a, f) \in Compared(q, a)
  BY <1>2, <1>4 DEF Compared
<1>6. CASE q.overwrite
  BY <1>5, <1>6 DEF Agreed
<1>7. CASE ~q.overwrite
  <2>1. Compared(q, a) \in {UnitArea(q, a), {}, Last(q, a)}
    BY <1>7 DEF RestoreCode, Conflict
  <2>2. UnitArea(q, a) \subseteq InRomM(q.title)
    BY DEF UnitArea, InRomM
  <2>3. Last(q, a) \subseteq InRomM(q.title)
    BY DEF Last, RecordsPassed, Requests
  <2> QED
    BY <1>5, <2>1, <2>2, <2>3
<1> QED
  BY <1>6, <1>7

LEMMA TouchesStay ==
  ASSUME CInv, [Next]_vars
  PROVE  TouchedPassed'
<1> SUFFICES ASSUME call'.op = "restore" PROVE TouchedPassed'
  BY DEF TouchedPassed
<1>1. CASE call.op = "idle"
  <2>1. PICK q \in Requests : q.unit \in library[q.title] /\ RestoreBegin(q)
    BY <1>1, CallStarts DEF CInv
  <2>2. RestoreCode(q) = "OK" /\ CounterWith(q) <= MaxId
    BY <2>1 DEF RestoreBegin
  <2>3. /\ call'.req = q /\ call'.puts = Puts(q) /\ call'.drops = Drops(q) /\ call'.agreed = Agreed(q)
        /\ call'.index = IF Unpublished(q) = {} THEN None ELSE IndexWith(q)
        /\ UNCHANGED <<folder, index, library>>
    BY <2>1 DEF RestoreBegin
  <2>4. IndexWith(q) # None
    BY <2>2, IndexWithSound, NoneApart DEF CInv, RInv, Asks, Requests
  <2>5. \A a \in Areas : Carries(q, a) => Home(q, a)' = Target(q, a)
    BY <2>2, <2>3, <2>4, TargetIsHome DEF CInv, RInv, Home, Coming, NewIndex
  <2>6. ASSUME NEW a \in Areas, Carries(q, a), NEW f \in folder[Target(q, a)],
               \/ \E w \in Puts(q) : Touches(w, Target(q, a), f)
               \/ [id |-> Target(q, a), file |-> f] \in Drops(q)
        PROVE  AsPart(a, f) \in InRomM(q.title) \cup Agreed(q)
    BY <2>1, <2>2, <2>6, BeginTouches DEF CInv
  <2> QED
    BY <2>3, <2>5, <2>6 DEF TouchedPassed, InRomM
<1>2. CASE call.op = "restore"
  <2>1. PICK q : q = call.req
    OBVIOUS
  <2>2. /\ call'.req = q /\ call'.agreed = call.agreed /\ library' = library
        /\ call'.puts \subseteq call.puts /\ call'.drops \subseteq call.drops
        /\ \A a \in Areas : Home(q, a)' = Home(q, a)
    BY <1>2, <2>1, CallKeeps DEF CInv, Home
  <2>3. q \in Requests /\ q.unit \in library[q.title]
    BY <1>2, <2>1 DEF CInv, RInv, CallPlaced
  <2>4. ASSUME NEW a \in Areas, Carries(q, a), NEW f \in folder'[Home(q, a)],
               \/ \E w \in call'.puts : Touches(w, Home(q, a), f)
               \/ [id |-> Home(q, a), file |-> f] \in call'.drops
        PROVE  AsPart(a, f) \in InRomM(q.title) \cup call.agreed
    <3>1. Home(q, a) \in Ids
      BY <1>2, <2>1, <2>4, HomesApart DEF CInv, Settles
    <3>2. CASE f \in folder[Home(q, a)]
      BY <1>2, <2>1, <2>2, <2>4, <3>2 DEF CInv, TouchedPassed
    <3>3. CASE f \notin folder[Home(q, a)]
      <4>1. PICK w \in call.puts : WriteFile(w)
        <5>1. folder \in [Ids -> SUBSET File]
          BY DEF CInv, RInv, IInv, TypeOK
        <5>2. \A w \in call.drops : RemoveFile(w) => w.id \in Ids /\ folder'[Home(q, a)] \subseteq folder[Home(q, a)]
          BY <3>1, <5>1, WritesAreCalls DEF RemoveFile, CInv, Write
        <5> QED
          BY <1>2, <2>4, <3>3, <5>2, CallSteps DEF CInv
      <4>2. /\ w.id \in Ids /\ folder' = [folder EXCEPT ![w.id] = PutFile(@, w.file)]
            /\ folder \in [Ids -> SUBSET File]
        BY <4>1, WritesAreCalls DEF CInv, RInv, IInv, TypeOK, WriteFile, Write
      <4>3. f = w.file /\ Home(q, a) = w.id
        BY <2>4, <3>1, <3>3, <4>2 DEF PutFile
      <4>4. PICK b \in Areas : Carries(q, b) /\ w.id = Home(q, b) /\ AsPart(b, w.file) \in q.unit
        BY <2>1, WritesAreCalls DEF CInv, Placed
      <4>5. b = a
        BY <1>2, <2>1, <2>4, <4>3, <4>4, HomesApart DEF CInv
      <4> QED
        BY <2>3, <4>3, <4>4, <4>5 DEF InRomM
    <3> QED
      BY <3>2, <3>3
  <2> QED
    BY <2>2, <2>4 DEF TouchedPassed, InRomM
<1> QED
  BY <1>1, <1>2, WritesAreCalls DEF CInv

\* Whatever a managed restore has left to replace reached RomM, or was given
\* up, and so did what the blob records.
THEOREM RecordsReachedRomM == Managed => (Spec => []CInv)
<1> SUFFICES ASSUME Managed PROVE Spec => []CInv
  OBVIOUS
<1>1. Init => CInv
  BY InitPlaced DEF CInv, Init, BlobComing, RecordsPassed, TouchedPassed, NewBlob, Idle
<1>2. CInv /\ [Next]_vars => CInv'
  BY StepPlaced, BlobStays, RecordsStay, TouchesStay DEF CInv
<1> QED
  BY <1>1, <1>2, PTL DEF Spec

(***************************************************************************)
(* SyncProfiles implements SaveCustody when the client always manages.     *)
(***************************************************************************)

GivenUp == IF call.op = "restore" THEN {SaveOfGame(call.req.title, p) : p \in call.agreed} ELSE {}

\* The save of a game that a file is, where a key's folder holds it.
SaveAt(k, f) == SaveOfGame(k.title, AsPart(AreaOf(k), f))

LEMMA SaveAtTyped ==
  ASSUME NEW k \in Keys, NEW f \in File
  PROVE  SaveAt(k, f) \in SavesOfGames /\ SaveAt(k, f).title = k.title /\ SaveAt(k, f).part = AsPart(AreaOf(k), f)
<1>1. AreaOf(k) \in Areas /\ k.title \in Titles
  BY DEF AreaOf, Areas, Keys
<1> QED
  BY <1>1, PartsAreFiles DEF SaveAt, SaveOfGame, SavesOfGames

\* What it is for a save to be among the files of a key.
LEMMA FileHeld ==
  ASSUME NEW p \in Keys \X SavesOfGames, NEW files
  PROVE  (/\ p[2].title = p[1].title /\ p[2].part.area = AreaOf(p[1])
          /\ [name |-> p[2].part.name, data |-> p[2].part.data] \in files)
         <=> \E f \in File : f \in files /\ p[2] = SaveAt(p[1], f)
<1>1. p[1] \in Keys /\ p[2] \in SavesOfGames
  OBVIOUS
<1> DEFINE g == [name |-> p[2].part.name, data |-> p[2].part.data]
<1>2. p[2].part \in Part /\ g \in File
  BY <1>1 DEF SavesOfGames, Part, File
<1>3. ASSUME g \in files, p[2].title = p[1].title, p[2].part.area = AreaOf(p[1]) PROVE p[2] = SaveAt(p[1], g)
  <2>1. p[2].part = AsPart(AreaOf(p[1]), g)
    BY <1>2, <1>3 DEF AsPart, Part
  <2> QED
    BY <1>1, <1>3, <2>1 DEF SaveAt, SaveOfGame, SavesOfGames
<1>4. ASSUME NEW f \in File, f \in files, p[2] = SaveAt(p[1], f)
      PROVE  g = f /\ p[2].title = p[1].title /\ p[2].part.area = AreaOf(p[1])
  <2>1. p[2].title = p[1].title /\ p[2].part = AsPart(AreaOf(p[1]), f)
    BY <1>1, <1>4, SaveAtTyped
  <2> QED
    BY <2>1 DEF AsPart, File
<1> QED
  BY <1>2, <1>3, <1>4

\* A save is on the disk just when a file of its key's folder is.
LEMMA HeldFile ==
  ASSUME NEW p \in Keys \X SavesOfGames
  PROVE  /\ p \in HeldNow <=> \E f \in File : f \in SaveOf(p[1]) /\ p[2] = SaveAt(p[1], f)
         /\ p \in HeldNow' <=> \E f \in File : f \in SaveOf(p[1])' /\ p[2] = SaveAt(p[1], f)
  BY FileHeld DEF HeldNow

LEMMA FoundHeld ==
  ASSUME TypeOK, NEW k \in Keys, NEW f \in SaveOf(k)
  PROVE  SaveAt(k, f) \in Custody!SavesOn(HeldNow)
<1>1. f \in File
  BY LocalTyped
<1>2. <<k, SaveAt(k, f)>> \in HeldNow
  BY <1>1, SaveAtTyped, HeldFile
<1> QED
  BY <1>2 DEF Custody!SavesOn

LEMMA LocalHeld ==
  ASSUME TypeOK, NEW q, Asks(q), NEW a \in Areas, NEW r \in LocalArea(q, a)
  PROVE  SaveOfGame(q.title, r) \in Custody!SavesOn(HeldNow)
<1>1. PICK f \in SaveOf(KeyOf(q, a)) : HasKey(q, a) /\ r = AsPart(a, f)
  BY DEF LocalArea
<1>2. KeyOf(q, a) \in Keys /\ SaveAt(KeyOf(q, a), f) = SaveOfGame(q.title, r)
  BY <1>1, KeyThere DEF SaveAt
<1> QED
  BY <1>2, FoundHeld

LEMMA CollectPassesOn ==
  ASSUME TypeOK, NEW q, Asks(q), Collect(q)
  PROVE  Custody!PassOn
<1>1. call.op = "idle" /\ call' = call /\ UNCHANGED <<folder, index, doomed>>
  BY DEF Collect, MayCall
<1>2. \A r \in Local(q) : SaveOfGame(q.title, r) \in Custody!SavesOn(HeldNow)
  BY LocalHeld DEF Local, Areas
<1>3. \A t \in Titles : library[t] \subseteq library'[t] /\ \A u \in library'[t] \ library[t] : t = q.title /\ u = Local(q)
  BY RecordedTyped DEF Collect, Uploads, Asks
<1>4. Passed \subseteq Passed'
  BY <1>3 DEF Passed, SavesOfGames
<1>5. \A s \in Passed' \ Passed : s \in Custody!SavesOn(HeldNow)
  <2> TAKE s \in Passed' \ Passed
  <2>1. s \in SavesOfGames /\ s.title \in Titles /\ s.part \in UNION library'[s.title] /\ s.part \notin UNION library[s.title]
    BY DEF Passed, SavesOfGames
  <2>2. s.title = q.title /\ s.part \in Local(q)
    BY <1>3, <2>1
  <2>3. s = SaveOfGame(q.title, s.part)
    BY <2>1, <2>2 DEF SaveOfGame, SavesOfGames
  <2> QED
    BY <1>2, <2>2, <2>3
<1>6. \E s \in SUBSET Custody!SavesOn(HeldNow) : Passed' = Passed \cup s
  <2>1. Passed' \ Passed \in SUBSET Custody!SavesOn(HeldNow)
    BY <1>5
  <2>2. Passed' = Passed \cup (Passed' \ Passed)
    BY <1>4
  <2> QED
    BY <2>1, <2>2
<1>7. HeldNow' = HeldNow
  BY <1>1 DEF HeldNow, SaveOf, FilesIn, Named
<1> QED
  BY <1>1, <1>6, <1>7 DEF Custody!PassOn

LEMMA BeginBegins ==
  ASSUME IInv, NEW q \in Requests, RestoreBegin(q)
  PROVE  Custody!Begin
<1>1. RestoreCode(q) = "OK"
  BY DEF RestoreBegin
<1>2. /\ call.op = "idle" /\ call'.op = "restore" /\ call'.req = q /\ call'.agreed = Agreed(q)
      /\ UNCHANGED <<folder, index, doomed, library>>
  BY DEF RestoreBegin, MayCall
<1>3. ASSUME NEW p \in Agreed(q) PROVE SaveOfGame(q.title, p) \in Custody!SavesOn(HeldNow)
  <2>1. PICK a \in Areas : Carries(q, a) /\ p \in FoundArea(q, a)
    BY DEF Agreed, Compared
  <2>2. HasKey(q, a) /\ Asks(q)
    BY <1>1, <2>1 DEF RestoreCode, HasKey, Areas, Asks, Requests
  <2>3. p \in LocalArea(q, a)
    BY <2>1, <2>2, FoundLocal
  <2> QED
    BY <2>2, <2>3, LocalHeld DEF IInv
<1>4. HeldNow' = HeldNow /\ Passed' = Passed
  BY <1>2 DEF HeldNow, SaveOf, FilesIn, Named, Passed
<1> QED
  BY <1>2, <1>3, <1>4 DEF Custody!Begin

\* A step that takes off and puts there only what it may is a Replace.
LEMMA ReplacesOnly ==
  ASSUME IInv, call.op = "restore", call'.op = "restore", call'.req = call.req, call'.agreed = call.agreed,
         library' = library,
         \A k \in Keys, f \in File : f \in SaveOf(k) /\ f \notin SaveOf(k)' => SaveAt(k, f) \in Passed \cup GivenUp,
         \A k \in Keys, f \in File : f \in SaveOf(k)' /\ f \notin SaveOf(k) => SaveAt(k, f) \in Passed
  PROVE  Custody!Replace
<1>1. Passed' = Passed
  BY DEF Passed
<1>2. \A p \in HeldNow \ HeldNow' : p[2] \in Passed \cup GivenUp
  <2> TAKE p \in HeldNow \ HeldNow'
  <2>1. p \in Keys \X SavesOfGames /\ p[1] \in Keys
    BY DEF HeldNow
  <2> QED
    BY <2>1, HeldFile
<1>3. \A p \in HeldNow' \ HeldNow : p[2] \in Passed
  <2> TAKE p \in HeldNow' \ HeldNow
  <2>1. p \in Keys \X SavesOfGames /\ p[1] \in Keys
    BY DEF HeldNow
  <2> QED
    BY <2>1, HeldFile
<1>4. HeldNow' \subseteq Keys \X SavesOfGames
  BY DEF HeldNow
<1>5. Custody!SavesOn(HeldNow \ HeldNow') \subseteq Passed \cup GivenUp
  BY <1>2 DEF Custody!SavesOn
<1>6. Custody!SavesOn(HeldNow' \ HeldNow) \subseteq Passed
  BY <1>3 DEF Custody!SavesOn
<1> QED
  BY <1>1, <1>4, <1>5, <1>6 DEF Custody!Replace, GivenUp

LEMMA IndexWritten ==
  ASSUME RInv, call.op = "restore", [Next]_vars, index' # index
  PROVE  call.puts = {} /\ call.drops = {} /\ Indexed
<1>1. ~(Collects \/ Restores \/ Emulator \/ RestoreEnd \/ RestoreFails \/ UNCHANGED vars)
  BY DEF Collects, Restores, Emulator, Collect, RestoreBegin, MayCall, MayEdit, RestoreEnd, RestoreFails, vars,
         EmulatorPublishes, EmulatorSaves, EmulatorDeletes, EmulatorMarks, EmulatorPurges
<1>2. WriteIndex
  BY <1>1 DEF Next, Writes, WriteCounter, WriteFile, RemoveFile
<1>3. call.index # None /\ call.puts = {} /\ call.drops = {}
  BY <1>2 DEF WriteIndex, IndexTurn
<1> QED
  BY <1>3 DEF RInv, IInv, IndexSound

\* A file that leaves a folder was to be replaced or removed.
LEMMA LostTouched ==
  ASSUME RInv, call.op = "restore", [Next]_vars, NEW i \in Ids, NEW f \in folder[i], f \notin folder'[i]
  PROVE  (\E w \in call.puts : Touches(w, i, f)) \/ [id |-> i, file |-> f] \in call.drops
<1>1. folder \in [Ids -> SUBSET File]
  BY DEF RInv, IInv, TypeOK
<1>2. CASE \E w \in call.puts : WriteFile(w)
  <2>1. PICK w \in call.puts : WriteFile(w)
    BY <1>2
  <2>2. w.id \in Ids /\ folder' = [folder EXCEPT ![w.id] = PutFile(@, w.file)]
    BY <2>1, WritesAreCalls DEF WriteFile, Write
  <2>3. w.id = i /\ w.file.name = f.name
    BY <1>1, <2>2 DEF PutFile
  <2> QED
    BY <2>3 DEF Touches
<1>3. CASE \E w \in call.drops : RemoveFile(w)
  <2>1. PICK w \in call.drops : RemoveFile(w)
    BY <1>3
  <2>2. w \in Write /\ w.id \in Ids /\ folder' = [folder EXCEPT ![w.id] = @ \ {w.file}]
    BY <2>1, WritesAreCalls DEF RemoveFile, Write
  <2>3. w.id = i /\ w.file = f
    BY <1>1, <2>2
  <2>4. w = [id |-> i, file |-> f]
    BY <2>2, <2>3 DEF Write
  <2> QED
    BY <2>1, <2>4
<1> QED
  BY <1>2, <1>3, CallSteps

\* A file that comes to a folder is of the unit.
LEMMA GainedPlaced ==
  ASSUME RInv, call.op = "restore", [Next]_vars, NEW i \in Ids, NEW f \in folder'[i], f \notin folder[i]
  PROVE  \E b \in Areas : Carries(call.req, b) /\ Home(call.req, b) = i /\ AsPart(b, f) \in call.req.unit
<1>1. folder \in [Ids -> SUBSET File]
  BY DEF RInv, IInv, TypeOK
<1>2. \A w \in call.drops : ~RemoveFile(w)
  <2> SUFFICES ASSUME NEW w \in call.drops, RemoveFile(w) PROVE FALSE
    OBVIOUS
  <2>1. w.id \in Ids /\ folder' = [folder EXCEPT ![w.id] = @ \ {w.file}]
    BY WritesAreCalls DEF RemoveFile, Write
  <2> QED
    BY <1>1, <2>1
<1>3. PICK w \in call.puts : WriteFile(w)
  BY <1>2, CallSteps
<1>4. w.id \in Ids /\ folder' = [folder EXCEPT ![w.id] = PutFile(@, w.file)]
  BY <1>3, WritesAreCalls DEF WriteFile, Write
<1>5. w.id = i /\ f = w.file
  BY <1>1, <1>4 DEF PutFile
<1> QED
  BY <1>5, WritesAreCalls DEF Placed

\* What a restore takes off the disk and puts there.
LEMMA WritesReplace ==
  ASSUME Managed, CInv, [Next]_vars, call.op = "restore", call'.op = "restore"
  PROVE  Custody!Replace
<1>1. PICK q : q = call.req
  OBVIOUS
<1>2. /\ q \in Requests /\ q.unit \in library[q.title] /\ q.title \in Titles
      /\ call'.req = q /\ call'.agreed = call.agreed /\ library' = library /\ doomed' = doomed
  BY <1>1, CallKeeps DEF CInv, RInv, CallPlaced, Requests
<1>3. \A a \in Areas, f \in File : HasKey(q, a) =>
        /\ AsPart(a, f) \in InRomM(q.title) => SaveAt(KeyOf(q, a), f) \in Passed
        /\ AsPart(a, f) \in call.agreed => SaveAt(KeyOf(q, a), f) \in GivenUp
  <2> TAKE a \in Areas, f \in File
  <2>1. SUFFICES ASSUME HasKey(q, a)
                 PROVE  /\ AsPart(a, f) \in InRomM(q.title) => SaveAt(KeyOf(q, a), f) \in Passed
                        /\ AsPart(a, f) \in call.agreed => SaveAt(KeyOf(q, a), f) \in GivenUp
    OBVIOUS
  <2>2. KeyOf(q, a) \in Keys /\ KeyOf(q, a).title = q.title /\ AreaOf(KeyOf(q, a)) = a
    BY <1>2, <2>1, KeyThere DEF Asks, Requests
  <2>3. /\ SaveAt(KeyOf(q, a), f) \in SavesOfGames
        /\ SaveAt(KeyOf(q, a), f).title = q.title /\ SaveAt(KeyOf(q, a), f).part = AsPart(a, f)
    BY <2>2, SaveAtTyped
  <2>4. SaveAt(KeyOf(q, a), f) = SaveOfGame(q.title, AsPart(a, f))
    BY <2>2 DEF SaveAt
  <2> QED
    BY <1>1, <2>3, <2>4 DEF Passed, GivenUp, InRomM
<1>4. ASSUME NEW a \in Areas, Carries(q, a), index[KeyOf(q, a)] = None
      PROVE  /\ SaveOf(KeyOf(q, a)) = {}
             /\ \A f \in SaveOf(KeyOf(q, a))' : AsPart(a, f) \in InRomM(q.title)
  <2>1. Settles(q, a) /\ KeyOf(q, a) \in Keys /\ KeyOf(q, a) \notin doomed /\ None \notin Ids
    BY <1>1, <1>4, HomesApart, ConstantsTyped DEF CInv, Settles, Ids
  <2>2. SaveOf(KeyOf(q, a)) = {}
    BY <1>4, <2>1 DEF SaveOf, FilesIn, Named
  <2>3. CASE index' = index
    BY <1>2, <1>4, <2>1, <2>3 DEF SaveOf, FilesIn, Named
  <2>4. CASE index' # index
    <3>1. folder' = folder /\ index' = Coming
      BY <2>4, CallSteps DEF CInv
    <3>2. call.puts = {} /\ call.drops = {}
      BY <2>4, IndexWritten DEF CInv
    <3>3. Indexed
      BY <2>4, IndexWritten DEF CInv
    <3>4. \A p : ~Kept(q, p)
      BY <3>3, ConstantsTyped, NothingKept
    <3>5. \A f \in folder[Home(q, a)] : AsPart(a, f) \in q.unit
      BY <2>1, <3>2, <3>4 DEF Settles
    <3>6. SaveOf(KeyOf(q, a))' = folder[Home(q, a)]
      BY <1>2, <2>1, <3>1 DEF SaveOf, FilesIn, Named, Home, Settles
    <3> QED
      BY <1>2, <2>2, <3>5, <3>6 DEF InRomM
  <2> QED
    BY <2>2, <2>3, <2>4
<1>5. ASSUME NEW a \in Areas, Carries(q, a), index[KeyOf(q, a)] # None
      PROVE  /\ SaveOf(KeyOf(q, a)) = folder[Home(q, a)] /\ SaveOf(KeyOf(q, a))' = folder'[Home(q, a)]
             /\ Home(q, a) \in Ids
  <2>1. Settles(q, a) /\ KeyOf(q, a) \in Keys /\ KeyOf(q, a) \notin doomed
    BY <1>1, <1>5, HomesApart DEF CInv, Settles
  <2>2. Home(q, a) = index[KeyOf(q, a)] /\ Home(q, a) \in Ids
    BY <1>5, <2>1, ComingSound DEF CInv, RInv, Home, Settles
  <2>3. index'[KeyOf(q, a)] = index[KeyOf(q, a)]
    BY <2>1, <2>2, CallSteps DEF CInv, Home
  <2> QED
    BY <1>2, <2>1, <2>2, <2>3 DEF SaveOf, FilesIn, Named
<1>6. \A a \in Areas : Carries(q, a) => HasKey(q, a)
  BY <1>1, HomesApart DEF CInv, Settles
<1>7. ASSUME NEW k \in Keys, NEW f \in File, f \in SaveOf(k), f \notin SaveOf(k)' PROVE SaveAt(k, f) \in Passed \cup GivenUp
  <2>1. PICK a \in Areas : Carries(q, a) /\ KeyOf(q, a) = k
    BY <1>1, <1>7, OtherSaveStays DEF CInv
  <2>2. index[k] # None /\ f \in folder[Home(q, a)] /\ f \notin folder'[Home(q, a)]
    BY <1>4, <1>5, <1>7, <2>1
  <2>3. \/ \E w \in call.puts : Touches(w, Home(q, a), f)
        \/ [id |-> Home(q, a), file |-> f] \in call.drops
    BY <1>5, <2>1, <2>2, LostTouched DEF CInv
  <2>4. AsPart(a, f) \in InRomM(q.title) \cup call.agreed
    BY <1>1, <2>1, <2>2, <2>3 DEF CInv, TouchedPassed
  <2> QED
    BY <1>3, <1>6, <2>1, <2>4
<1>8. ASSUME NEW k \in Keys, NEW f \in File, f \in SaveOf(k)', f \notin SaveOf(k) PROVE SaveAt(k, f) \in Passed
  <2>1. PICK a \in Areas : Carries(q, a) /\ KeyOf(q, a) = k
    BY <1>1, <1>8, OtherSaveStays DEF CInv
  <2>2. CASE index[k] = None
    BY <1>3, <1>4, <1>6, <1>8, <2>1, <2>2
  <2>3. CASE index[k] # None
    <3>1. Home(q, a) \in Ids /\ f \in folder'[Home(q, a)] /\ f \notin folder[Home(q, a)]
      BY <1>5, <1>8, <2>1, <2>3
    <3>2. PICK b \in Areas : Carries(q, b) /\ Home(q, b) = Home(q, a) /\ AsPart(b, f) \in q.unit
      BY <1>1, <3>1, GainedPlaced DEF CInv
    <3>3. b = a
      BY <1>1, <2>1, <3>2, HomesApart DEF CInv
    <3> QED
      BY <1>2, <1>3, <1>6, <2>1, <3>2, <3>3 DEF InRomM
  <2> QED
    BY <2>2, <2>3
<1> QED
  BY <1>1, <1>2, <1>7, <1>8, ReplacesOnly DEF CInv, RInv

LEMMA StepKeepsCustody ==
  ASSUME Managed, CInv, [Next]_vars
  PROVE  [Custody!Next]_(Custody!custodyVars)
<1>1. CASE call.op = "restore" /\ call'.op = "restore"
  BY <1>1, WritesReplace DEF Custody!Next
<1>2. CASE call.op = "idle" /\ call'.op = "restore"
  <2>1. PICK q \in Requests : RestoreBegin(q)
    BY <1>2, CallStarts DEF CInv
  <2> QED
    BY <2>1, BeginBegins DEF CInv, RInv, Custody!Next
<1>3. CASE call.op = "restore" /\ call'.op = "idle"
  <2>1. UNCHANGED <<folder, index, doomed, library>>
    <3>1. ~(Collects \/ Restores \/ Emulator \/ UNCHANGED vars)
      BY <1>3 DEF Collects, Restores, Emulator, Collect, RestoreBegin, MayCall, MayEdit, vars,
                  EmulatorPublishes, EmulatorSaves, EmulatorDeletes, EmulatorMarks, EmulatorPurges
    <3>2. ~Writes
      <4>1. call \in [op : {"idle", "restore"}, req : {None} \cup Requests, counter : {None} \cup 0..MaxId,
                      puts : SUBSET Write, drops : SUBSET Write, index : {None} \cup [Keys -> Ids \cup {None}],
                      agreed : SUBSET Part, blob : Blob]
        BY DEF CInv, RInv, IInv, TypeOK
      <4> QED
        BY <1>3, <4>1 DEF Writes, WriteCounter, WriteFile, RemoveFile, WriteIndex
    <3> QED
      BY <3>1, <3>2 DEF Next, RestoreEnd, RestoreFails
  <2>2. HeldNow' = HeldNow /\ Passed' = Passed
    BY <2>1 DEF HeldNow, SaveOf, FilesIn, Named, Passed
  <2> QED
    BY <1>3, <2>2 DEF Custody!Next, Custody!End
<1>4. CASE call.op = "idle" /\ call'.op = "idle"
  <2>1. CASE Collects
    <3>1. PICK t \in Titles, p \in Asked : Collect(CollectRequest(t, p))
      BY <2>1 DEF Collects
    <3>2. Asks(CollectRequest(t, p))
      BY DEF Asks, CollectRequest
    <3> QED
      BY <3>1, <3>2, CollectPassesOn DEF CInv, RInv, IInv, Custody!Next
  <2>2. CASE Emulator
    <3>1. library' = library
      BY <2>2 DEF Emulator, EmulatorPublishes, EmulatorSaves, EmulatorDeletes, EmulatorMarks, EmulatorPurges
    <3>2. HeldNow' \subseteq Keys \X SavesOfGames
      BY DEF HeldNow
    <3> QED
      BY <1>4, <3>1, <3>2 DEF Custody!Next, Custody!Play, Passed
  <2>3. CASE UNCHANGED vars
    BY <1>4, <2>3 DEF vars, Custody!custodyVars, HeldNow, SaveOf, FilesIn, Named, Passed
  <2>4. ~(Restores \/ Writes \/ RestoreEnd \/ RestoreFails)
    <3>1. call.puts = {} /\ call.drops = {} /\ call.counter = None /\ call.index = None
      BY <1>4 DEF CInv, RInv, CallPlaced, Idle
    <3> QED
      BY <1>4, <3>1 DEF Restores, RestoreBegin, Writes, WriteCounter, WriteIndex, RestoreEnd, RestoreFails
  <2> QED
    BY <2>1, <2>2, <2>3, <2>4 DEF Next
<1>5. call.op \in {"idle", "restore"} /\ call'.op \in {"idle", "restore"}
  <2>1. RInv'
    BY StepPlaced DEF CInv
  <2> QED
    BY <2>1 DEF CInv, RInv, IInv, TypeOK
<1> QED
  BY <1>1, <1>2, <1>3, <1>4, <1>5

\* sync.md:185, c.md:390-398: a client that always manages loses no save of a
\* profile layout that did not reach RomM, whatever write fails or restore
\* dies half way; one that does not may (ProfilesLost: sync_profiles.c:110).
THEOREM ProfilesCustodyHolds == Managed => (Spec => CustodyKept)
<1> SUFFICES ASSUME Managed PROVE Spec => CustodyKept
  OBVIOUS
<1>1. Init => Custody!Init
  <2> SUFFICES ASSUME Init PROVE Custody!Init
    OBVIOUS
  <2>1. call.op = "idle"
    BY DEF Init, Idle
  <2> QED
    BY <2>1 DEF Custody!Init, HeldNow, Passed
<1>2. CInv /\ [Next]_vars => [Custody!Next]_(Custody!custodyVars)
  BY StepKeepsCustody
<1> QED
  BY <1>1, <1>2, RecordsReachedRomM, PTL DEF Spec, CustodyKept, Custody!Spec
==============================================================================
