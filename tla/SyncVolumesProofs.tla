------------------------- MODULE SyncVolumesProofs -------------------------
(***************************************************************************)
(* Theorems about SyncVolumes for any library, volumes, table and bounds.  *)
(* The argument: a restore is refused unless every save it will take off   *)
(* was passed on or given up by the user (DropsPassed), and between the    *)
(* check and the last write nothing makes that untrue (CallSound).         *)
(***************************************************************************)
EXTENDS SyncVolumes, TLAPS

IInv == TypeOK /\ BlobPassedOn /\ CallSound

\* What every request says, a collect's or a restore's.
Asks(q) ==
  /\ q.game \in Games
  /\ q.mode \in Modes
  /\ q.claims \in Claimable
  /\ q.comp \in Games \cup {None}
  /\ q.comp \in Companions[q.game] \cup {None}

LEMMA CollectAsks ==
  ASSUME NEW g \in Games, NEW m \in Modes, NEW c \in Claimable, NEW k \in Companions[g] \cup {None}
  PROVE  Asks(CollectRequest(g, m, c, k))
  BY ConstantsTyped DEF Asks, CollectRequest

LEMMA OwnerTyped ==
  ASSUME NEW q, Asks(q), st \in Blob, NEW v \in Volumes, NEW n \in Names
  PROVE  WhoseSave(q, v, n) \in Games \cup {None}
<1>1. st.owner[v][n] \in Games \cup {None}
  BY DEF Blob
<1> QED
  BY <1>1 DEF WhoseSave, Asks, Learned

LEMMA SavesTyped ==
  ASSUME NEW q, Asks(q), TypeOK
  PROVE  /\ \A v, who : OwnedOn(q, v, who) \subseteq vol[v]
         /\ \A who : Owned(q, who) \in SUBSET Item
         /\ Mine(q) \in SUBSET Item
         /\ Theirs(q) \in SUBSET Item
<1>1. \A v, who : OwnedOn(q, v, who) \subseteq vol[v]
  BY DEF OwnedOn
<1>2. Targets[q.game] \subseteq Volumes
  BY ConstantsTyped DEF Asks
<1>3. \A who : Owned(q, who) \in SUBSET Item
  BY <1>1, <1>2 DEF Owned, TypeOK
<1> QED
  BY <1>1, <1>3 DEF Mine, Theirs

LEMMA NewBlobTyped == NewBlob \in Blob
  BY DEF NewBlob, Blob

LEMMA LearnOwnersTyped ==
  ASSUME NEW q, Asks(q), st \in Blob, NEW mine, NEW theirs, q.comp = None => theirs = {}
  PROVE  LearnOwners(q, mine, theirs) \in [Volumes -> [Names -> Games \cup {None}]]
<1>1. \A v \in Volumes, n \in Names : st.owner[v][n] \in Games \cup {None}
  BY DEF Blob
<1>2. q.game \in Games /\ q.comp \in Games \cup {None}
  BY DEF Asks
<1> QED
  BY <1>1, <1>2 DEF LearnOwners

LEMMA CollectBlobTyped ==
  ASSUME NEW q, Asks(q), TypeOK
  PROVE  CollectBlob(q) \in Blob
<1>1. CollectSynced(q) \in [Games -> SUBSET Item]
  BY SavesTyped DEF CollectSynced, TypeOK, Blob
<1>2. [st.restored EXCEPT ![q.game] = None] \in [Games -> {None} \cup [new : SUBSET Item, old : SUBSET Item]]
  BY DEF TypeOK, Blob
<1>3. LearnOwners(q, Mine(q), Theirs(q)) \in [Volumes -> [Names -> Games \cup {None}]]
  BY LearnOwnersTyped DEF TypeOK, Theirs
<1>4. \A v \in Volumes : vol[v] \in SUBSET Item /\ OwnedOn(q, v, None) \in SUBSET Item
  BY SavesTyped DEF TypeOK
<1>5. /\ NoteVolumes(q, st.held, [v \in Volumes |-> OwnedOn(q, v, None)]) \in [Volumes -> SUBSET Item]
      /\ NoteVolumes(q, st.unowned, [v \in Volumes |-> OwnedOn(q, v, None)]) \in [Volumes -> SUBSET Item]
      /\ NoteVolumes(q, st.seen, vol) \in [Volumes -> {None} \cup SUBSET Item]
  BY <1>4 DEF NoteVolumes, TypeOK, Blob
<1>6. st.prepared \in [Volumes -> Games \cup {None}] /\ st.restored \in [Games -> {None} \cup [new : SUBSET Item, old : SUBSET Item]]
  BY DEF TypeOK, Blob
<1> HIDE DEF TypeOK, CollectSynced, NoteVolumes, LearnOwners
<1> QED
  BY <1>1, <1>2, <1>3, <1>5, <1>6 DEF CollectBlob, Blob

\* A restore's request also carries units that reached RomM.
AsksRestore(q) ==
  /\ Asks(q)
  /\ q \in RestoreRequests
  /\ q.unit \in library[q.game]
  /\ q.cunit = {} \/ (q.comp # None /\ q.cunit \in library[q.comp])

LEMMA RestoreAsks ==
  ASSUME TypeOK, NEW g \in Games, NEW m \in Modes, NEW c \in Claimable, NEW o \in BOOLEAN,
         NEW k \in Companions[g] \cup {None}, NEW u \in library[g], NEW w \in CompanionUnits(k)
  PROVE  AsksRestore(RestoreRequest(g, m, c, k, u, w, o))
<1> DEFINE q == RestoreRequest(g, m, c, k, u, w, o)
<1>1. k \in Games \cup {None}
  BY ConstantsTyped
<1>2. w = {} \/ (k # None /\ w \in library[k])
  BY DEF CompanionUnits
<1>3. u \in SUBSET Item /\ w \in SUBSET Item
  BY <1>1, <1>2 DEF TypeOK
<1>4. q \in RestoreRequests
  BY <1>1, <1>3 DEF RestoreRequest, RestoreRequests
<1>5. /\ q.game = g /\ q.mode = m /\ q.claims = c /\ q.comp = k /\ q.unit = u /\ q.cunit = w
  BY DEF RestoreRequest
<1>6. AsksRestore(q)
  <2> HIDE DEF q
  <2> QED
    BY <1>1, <1>2, <1>4, <1>5 DEF AsksRestore, Asks
<1> QED
  BY <1>6

LEMMA IncomingPassed ==
  ASSUME NEW q, AsksRestore(q), TypeOK
  PROVE  /\ Incoming(q) \subseteq Passed
         /\ TheirsIn(q) \subseteq Incoming(q)
         /\ Incoming(q) \in SUBSET Item
         /\ q.unit \in SUBSET Item
         /\ TheirsIn(q) \in SUBSET Item
         /\ CompanionRestored(q) => q.comp \in Games
<1>1. q.unit \in SUBSET Item /\ q.cunit \in SUBSET Item /\ q.game \in Games /\ q.comp \in Games \cup {None}
  BY DEF AsksRestore, Asks, RestoreRequests
<1>2. q.unit \subseteq Passed /\ TheirsIn(q) \subseteq Passed
  BY <1>1 DEF AsksRestore, Passed, TheirsIn
<1> QED
  BY <1>1, <1>2 DEF Incoming, TheirsIn, CompanionRestored, AsksRestore

LEMMA NextTyped ==
  ASSUME NEW q, AsksRestore(q), TypeOK, NEW v \in Volumes
  PROVE  NextOn(q, v) \in SUBSET Item /\ Fits(v, NextOn(q, v))
<1>1. Kept(q, v) \subseteq vol[v]
  BY DEF Kept
<1>2. vol[v] \in SUBSET Item /\ Fits(v, vol[v])
  BY DEF TypeOK
<1> QED
  BY <1>1, <1>2, IncomingPassed DEF NextOn, Fits

LEMMA RestoreBlobTyped ==
  ASSUME NEW q, AsksRestore(q), TypeOK
  PROVE  RestoreBlob(q) \in Blob
<1> DEFINE final == [v \in Volumes |-> IF Writes(q, v) THEN NextOn(q, v) ELSE vol[v]]
           swapped == [v \in Volumes |-> IF q.mode = "managed" THEN q.game ELSE st.prepared[v]]
           held == [v \in Volumes |-> IF q.mode = "managed" THEN {} ELSE st.held[v]]
           synced == [h \in Games |-> IF h = q.game THEN q.unit
                                      ELSE IF h = q.comp /\ CompanionRestored(q) THEN TheirsIn(q)
                                      ELSE st.synced[h]]
           restored == IF q.mode = "managed" THEN st.restored
                       ELSE [st.restored EXCEPT ![q.game] = [new |-> q.unit, old |-> Mine(q)]]
<1>1. Asks(q) /\ st \in Blob
  BY DEF AsksRestore, TypeOK
<1>2. synced \in [Games -> SUBSET Item]
  BY <1>1, IncomingPassed DEF Blob
<1>3. restored \in [Games -> {None} \cup [new : SUBSET Item, old : SUBSET Item]]
  <2>1. [new |-> q.unit, old |-> Mine(q)] \in [new : SUBSET Item, old : SUBSET Item]
    BY <1>1, IncomingPassed, SavesTyped
  <2> QED
    BY <1>1, <2>1 DEF Blob
<1>4. LearnOwners(q, q.unit, TheirsIn(q)) \in [Volumes -> [Names -> Games \cup {None}]]
  <2>1. q.comp = None => TheirsIn(q) = {}
    BY DEF AsksRestore, TheirsIn
  <2> QED
    BY <1>1, <2>1, LearnOwnersTyped
<1>5. final \in [Volumes -> SUBSET Item]
  BY NextTyped DEF TypeOK
<1>6. swapped \in [Volumes -> Games \cup {None}] /\ held \in [Volumes -> SUBSET Item]
  BY <1>1 DEF Blob, Asks
<1>7. /\ NoteVolumes(q, st.prepared, swapped) \in [Volumes -> Games \cup {None}]
      /\ NoteVolumes(q, st.held, held) \in [Volumes -> SUBSET Item]
      /\ NoteVolumes(q, st.seen, final) \in [Volumes -> {None} \cup SUBSET Item]
      /\ st.unowned \in [Volumes -> SUBSET Item]
  <2> HIDE DEF final, swapped, held
  <2> QED
    BY <1>1, <1>5, <1>6 DEF NoteVolumes, Blob
<1>8. RestoreBlob(q) = [synced |-> synced, restored |-> restored, owner |-> LearnOwners(q, q.unit, TheirsIn(q)),
                        prepared |-> NoteVolumes(q, st.prepared, swapped), held |-> NoteVolumes(q, st.held, held),
                        seen |-> NoteVolumes(q, st.seen, final), unowned |-> st.unowned]
  BY DEF RestoreBlob
<1> HIDE DEF synced, restored, final, swapped, held
<1> QED
  BY <1>2, <1>3, <1>4, <1>7, <1>8 DEF Blob

(***************************************************************************)
(* What the checks of a restore buy.                                       *)
(***************************************************************************)

LEMMA SyncedPassed ==
  ASSUME BlobPassedOn
  PROVE  /\ \A g \in Games : st.synced[g] \subseteq Passed
         /\ \A v \in Volumes : st.held[v] \subseteq Passed
  BY DEF BlobPassedOn, Passed

LEMMA OKPassesChecks ==
  ASSUME NEW q, RestoreCode(q) = "OK"
  PROVE  ~Conflict(q) /\ ~Uncollected(q)
  BY DEF RestoreCode

\* On a game's own volume every save is the game's or its companion's.
LEMMA OwnVolumeSaves ==
  ASSUME NEW q, Asks(q), NEW v \in PerGame, NEW n
  PROVE  WhoseSave(q, v, n) \in Ours(q)
  BY DEF WhoseSave, Ours, Learned, Presumed, Asks

\* A save the conflict rule lets a restore replace was passed on or given up.
LEMMA ReplacedPassed ==
  ASSUME NEW q, AsksRestore(q), TypeOK, BlobPassedOn, ~Conflict(q),
         NEW v \in Targets[q.game], NEW i \in vol[v], WhoseSave(q, v, i.name) \in ReplacedOwners(q)
  PROVE  i \in Passed \cup Agreed(q)
<1>1. CASE q.overwrite
  BY <1>1 DEF Agreed
<1>2. CASE ~q.overwrite /\ WhoseSave(q, v, i.name) = q.game
  <2>1. i \in Mine(q)
    BY <1>2 DEF Mine, Owned, OwnedOn
  <2>2. Mine(q) = q.unit \/ Mine(q) = st.synced[q.game]
    BY <1>2, <2>1 DEF Conflict, BlocksRestore
  <2>3. q.unit \subseteq Passed /\ st.synced[q.game] \subseteq Passed
    BY IncomingPassed, SyncedPassed DEF Incoming, AsksRestore, Asks
  <2> QED
    BY <2>1, <2>2, <2>3
<1>3. CASE ~q.overwrite /\ CompanionRestored(q) /\ WhoseSave(q, v, i.name) = q.comp
  <2>1. q.comp \in Games /\ q.comp # None
    BY <1>3, IncomingPassed, ConstantsTyped
  <2>2. i \in Theirs(q)
    BY <1>3, <2>1 DEF Theirs, Owned, OwnedOn
  <2>3. Theirs(q) = TheirsIn(q) \/ Theirs(q) = st.synced[q.comp]
    BY <1>3, <2>2 DEF Conflict, BlocksRestore
  <2>4. TheirsIn(q) \subseteq Passed /\ st.synced[q.comp] \subseteq Passed
    BY <2>1, IncomingPassed, SyncedPassed
  <2> QED
    BY <2>2, <2>3, <2>4
<1> QED
  BY <1>1, <1>2, <1>3 DEF ReplacedOwners, AsksRestore, RestoreRequests

\* Managed: what a swap drops beside those is another game's, as last synced,
\* or no game's, and in the last holding.
LEMMA SweptPassed ==
  ASSUME NEW q, AsksRestore(q), TypeOK, BlobPassedOn, q.mode = "managed", ~Uncollected(q),
         NEW v \in Targets[q.game], NEW i \in vol[v], WhoseSave(q, v, i.name) \notin Ours(q)
  PROVE  i \in Passed
<1>1. v \in Shared(q.game) /\ v \in Volumes /\ Asks(q) /\ i.name \in Names
  BY OwnVolumeSaves, ConstantsTyped DEF Shared, AsksRestore, Asks, TypeOK, Item
<1>2. WhoseSave(q, v, i.name) \in Games \cup {None}
  BY <1>1, OwnerTyped DEF TypeOK
<1>3. Swappable(q)
  BY DEF Uncollected
<1>4. CASE WhoseSave(q, v, i.name) = None
  <2>1. i \in OwnedOn(q, v, None)
    BY <1>4 DEF OwnedOn
  <2> QED
    BY <1>1, <1>3, <2>1, SyncedPassed DEF Swappable
<1>5. CASE WhoseSave(q, v, i.name) \in Games
  <2>1. i \in Owned(q, WhoseSave(q, v, i.name))
    BY <1>5 DEF Owned, OwnedOn
  <2> QED
    BY <1>3, <1>5, <2>1, SyncedPassed DEF Swappable
<1> QED
  BY <1>2, <1>4, <1>5

\* A restore that is not refused takes off no save that isn't passed on or
\* given up, and puts on none that isn't passed on.
LEMMA DropsPassed ==
  ASSUME NEW q, AsksRestore(q), TypeOK, BlobPassedOn, RestoreCode(q) = "OK", NEW v \in Targets[q.game]
  PROVE  /\ vol[v] \ NextOn(q, v) \subseteq Passed \cup Agreed(q)
         /\ NextOn(q, v) \ vol[v] \subseteq Passed
<1>1. NextOn(q, v) \ vol[v] \subseteq Passed
  BY IncomingPassed DEF NextOn, Kept
<1>2. SUFFICES ASSUME NEW i \in vol[v], i \notin Kept(q, v)
      PROVE  i \in Passed \cup Agreed(q)
  BY <1>1 DEF NextOn
<1>3. CASE WhoseSave(q, v, i.name) \in ReplacedOwners(q)
  BY <1>3, OKPassesChecks, ReplacedPassed
<1>4. CASE WhoseSave(q, v, i.name) \notin ReplacedOwners(q)
  <2>1. q.mode = "managed" /\ WhoseSave(q, v, i.name) \notin Ours(q)
    BY <1>2, <1>4 DEF Kept
  <2> QED
    BY <2>1, OKPassesChecks, SweptPassed
<1> QED
  BY <1>3, <1>4

(***************************************************************************)
(* The invariant, one lemma per action.                                    *)
(***************************************************************************)

LEMMA InitSound == Init => IInv
<1> SUFFICES ASSUME Init PROVE IInv
  OBVIOUS
<1>1. vol \in [Volumes -> SUBSET Item] /\ \A v \in Volumes : Fits(v, vol[v])
  BY ConstantsTyped, VolumesHold DEF Init
<1>2. call \in [op : {"idle", "restore"}, req : {None} \cup RestoreRequests,
                pending : SUBSET Volumes, agreed : SUBSET Item, blob : Blob,
                read : [Volumes -> (SUBSET Item) \X SUBSET (Names \cup {Nameless})],
                 next : [Volumes -> SUBSET Item], rotten : [Volumes -> SUBSET (Names \cup {Nameless})]]
  BY NewBlobTyped DEF Init, Idle
<1>3. TypeOK
  BY <1>1, <1>2, ConstantsTyped, NewBlobTyped DEF Init, TypeOK
<1>4. BlobPassedOn
  BY DEF Init, NewBlob, BlobPassedOn
<1>5. CallSound
  BY DEF Init, Idle, NewBlob, CallSound
<1> QED
  BY <1>3, <1>4, <1>5 DEF IInv

LEMMA UploadsFound ==
  ASSUME NEW q, Asks(q), TypeOK, NEW h \in Games
  PROVE  Uploads(q, h) \subseteq {Mine(q), Theirs(q)}
  BY DEF Uploads

LEMMA CollectSound ==
  ASSUME NEW q, Asks(q), IInv, Collect(q)
  PROVE  IInv'
<1> USE DEF IInv
<1>1. PICK uploaded \in BOOLEAN, stored \in BOOLEAN :
         /\ stored => uploaded
         /\ library' = IF uploaded THEN [h \in Games |-> library[h] \cup Uploads(q, h)] ELSE library
         /\ holdings' = IF uploaded THEN holdings \cup Owned(q, None) ELSE holdings
         /\ st' = IF stored THEN CollectBlob(q) ELSE st
  BY DEF Collect
<1>2. library' \in [Games -> SUBSET SUBSET Item] /\ holdings' \subseteq Item
  BY <1>1, SavesTyped, UploadsFound DEF TypeOK
<1>3. st' \in Blob
  BY <1>1, CollectBlobTyped DEF TypeOK
<1>4. calls' \in Nat
  BY DEF Collect, TypeOK
<1>5. UNCHANGED <<vol, exists, corrupt, unreadable, call, core, edits>>
  BY DEF Collect
<1>6. TypeOK'
  BY <1>2, <1>3, <1>4, <1>5 DEF TypeOK, Closed
<1>7. \A h \in Games : UNION library[h] \subseteq UNION library'[h]
  BY <1>1 DEF TypeOK
<1>8. holdings \subseteq holdings'
  BY <1>1
<1>9. BlobPassedOn'
  <2>1. CASE ~stored
    BY <1>1, <1>7, <1>8, <2>1 DEF BlobPassedOn
  <2>2. CASE stored
    <3>1. ASSUME NEW h \in Games PROVE CollectSynced(q)[h] \subseteq UNION library'[h]
      <4>1. library'[h] = library[h] \cup Uploads(q, h) /\ st.synced[h] \subseteq UNION library[h]
        BY <1>1, <2>2 DEF BlobPassedOn
      <4>2. CASE h = q.game /\ ~RestoreAgain(q)
        <5>1. Mine(q) \in {{}, st.synced[h]} \/ Mine(q) \in Uploads(q, h)
          BY <4>2 DEF Uploads
        <5> QED
          BY <4>1, <4>2, <5>1 DEF CollectSynced
      <4>3. CASE h = q.comp /\ Theirs(q) # {} /\ ~(h = q.game /\ ~RestoreAgain(q))
        <5>1. Theirs(q) = st.synced[h] \/ Theirs(q) \in Uploads(q, h)
          BY <4>3 DEF Uploads
        <5> QED
          BY <4>1, <4>3, <5>1 DEF CollectSynced
      <4>4. CASE CollectSynced(q)[h] = st.synced[h]
        BY <4>1, <4>4
      <4> QED
        BY <4>2, <4>3, <4>4 DEF CollectSynced
    <3>2. ASSUME NEW v \in Volumes PROVE CollectBlob(q).held[v] \subseteq holdings'
      <4>1. CollectBlob(q).held[v] = IF v \in Shared(q.game) THEN OwnedOn(q, v, None) ELSE st.held[v]
        BY DEF CollectBlob, NoteVolumes
      <4>2. v \in Shared(q.game) => OwnedOn(q, v, None) \subseteq Owned(q, None)
        BY DEF Owned, Shared
      <4> QED
        BY <1>1, <2>2, <4>1, <4>2 DEF BlobPassedOn
    <3>3. st' = CollectBlob(q) /\ CollectBlob(q).synced = CollectSynced(q)
      BY <1>1, <2>2 DEF CollectBlob
    <3> QED
      BY <3>1, <3>2, <3>3 DEF BlobPassedOn
  <2> QED
    BY <2>1, <2>2
<1>10. CallSound'
  BY <1>5, <1>7, <1>8 DEF CallSound, Collect, MayCall
<1> QED
  BY <1>6, <1>9, <1>10

LEMMA BeginSound ==
  ASSUME NEW q, AsksRestore(q), IInv, RestoreBegin(q)
  PROVE  IInv'
<1> USE DEF IInv
<1>1. UNCHANGED <<vol, exists, corrupt, unreadable, st, library, holdings, core, edits>>
  BY DEF RestoreBegin
<1>2. Written(q) \subseteq Targets[q.game] /\ Targets[q.game] \subseteq Volumes
  BY ConstantsTyped DEF Written, AsksRestore, Asks
<1>3. Agreed(q) \in SUBSET Item
  BY <1>2 DEF Agreed, TypeOK
<1>4. [v \in Volumes |-> IF v \in Written(q) THEN NextOn(q, v) ELSE vol[v]] \in [Volumes -> SUBSET Item]
  BY NextTyped DEF TypeOK
<1>5. [v \in Volumes |-> IF v \in Written(q) /\ q.mode = "unmanaged" THEN corrupt[v] ELSE {}]
        \in [Volumes -> SUBSET (Names \cup {Nameless})]
  BY DEF TypeOK
<1>disk. Disk \in [Volumes -> (SUBSET Item) \X SUBSET (Names \cup {Nameless})]
  BY DEF Disk, TypeOK
<1>6. call' \in [op : {"idle", "restore"}, req : {None} \cup RestoreRequests,
                 pending : SUBSET Volumes, agreed : SUBSET Item, blob : Blob,
                 read : [Volumes -> (SUBSET Item) \X SUBSET (Names \cup {Nameless})],
                 next : [Volumes -> SUBSET Item], rotten : [Volumes -> SUBSET (Names \cup {Nameless})]]
  BY <1>2, <1>3, <1>4, <1>5, <1>disk, RestoreBlobTyped DEF RestoreBegin, AsksRestore
<1>7. TypeOK'
  BY <1>1, <1>6 DEF TypeOK, RestoreBegin, Closed
<1>8. BlobPassedOn'
  BY <1>1 DEF BlobPassedOn
<1>9. \A g \in Games : RestoreBlob(q).synced[g] \subseteq UNION library[g]
  BY DEF RestoreBlob, BlobPassedOn, AsksRestore, TheirsIn, CompanionRestored
<1>10. \A v \in Volumes : RestoreBlob(q).held[v] \subseteq holdings
  BY DEF RestoreBlob, NoteVolumes, BlobPassedOn
<1>11. ASSUME NEW v \in Written(q)
       PROVE  /\ Fits(v, NextOn(q, v))
              /\ vol[v] \ NextOn(q, v) \subseteq Passed \cup Agreed(q)
              /\ NextOn(q, v) \ vol[v] \subseteq Passed
  BY <1>2, DropsPassed, NextTyped DEF RestoreBegin
<1>12. /\ call'.op = "restore" /\ call'.pending = Written(q) /\ call'.agreed = Agreed(q)
       /\ call'.blob = RestoreBlob(q)
       /\ \A v \in Written(q) : call'.next[v] = NextOn(q, v)
  BY <1>2 DEF RestoreBegin
<1>13. Passed' = Passed
  BY <1>1 DEF Passed
<1>14. CallSound'
  BY <1>1, <1>9, <1>10, <1>11, <1>12, <1>13 DEF CallSound, Fits
<1> QED
  BY <1>7, <1>8, <1>14

LEMMA WriteSound ==
  ASSUME NEW v \in Volumes, IInv, RestoreWrite(v)
  PROVE  IInv'
<1> USE DEF IInv
<1>1. UNCHANGED <<st, library, holdings, core, edits, calls>>
  BY DEF RestoreWrite
<1>2. vol' = [vol EXCEPT ![v] = call.next[v]] /\ call.next[v] \in SUBSET Item /\ Fits(v, call.next[v])
  BY DEF RestoreWrite, CallSound, TypeOK
<1>3. vol' \in [Volumes -> SUBSET Item] /\ \A w \in Volumes : Fits(w, vol'[w])
  BY <1>2 DEF TypeOK
<1>4. call' = [call EXCEPT !.pending = call.pending \ {v}]
  BY DEF RestoreWrite
<1>5. call' \in [op : {"idle", "restore"}, req : {None} \cup RestoreRequests,
                 pending : SUBSET Volumes, agreed : SUBSET Item, blob : Blob,
                 read : [Volumes -> (SUBSET Item) \X SUBSET (Names \cup {Nameless})],
                 next : [Volumes -> SUBSET Item], rotten : [Volumes -> SUBSET (Names \cup {Nameless})]]
  BY <1>4 DEF TypeOK
<1>6. corrupt' \in [Volumes -> SUBSET (Names \cup {Nameless})] /\ exists' \subseteq Volumes /\ unreadable' \subseteq Volumes
  BY DEF RestoreWrite, TypeOK
<1>7. TypeOK'
  BY <1>1, <1>3, <1>5, <1>6 DEF TypeOK, Closed
<1>8. BlobPassedOn'
  BY <1>1 DEF BlobPassedOn
<1>9. /\ call'.op = call.op /\ call'.blob = call.blob /\ call'.next = call.next /\ call'.agreed = call.agreed
      /\ call'.pending = call.pending \ {v}
  BY <1>4 DEF TypeOK
<1>10. \A w \in call'.pending : vol'[w] = vol[w] /\ w \in call.pending
  BY <1>2, <1>9 DEF TypeOK
<1>11. Passed' = Passed
  BY <1>1 DEF Passed
<1>12. CallSound'
  BY <1>1, <1>9, <1>10, <1>11 DEF CallSound, Fits
<1> QED
  BY <1>7, <1>8, <1>12

LEMMA EndSound ==
  ASSUME IInv, RestoreEnd \/ RestoreFails
  PROVE  IInv'
<1> USE DEF IInv
<1>1. UNCHANGED <<vol, exists, corrupt, unreadable, library, holdings, core, edits, calls>>
  BY DEF RestoreEnd, RestoreFails
<1>2. call' = Idle /\ st' \in {st, call.blob}
  BY DEF RestoreEnd, RestoreFails
<1>3. call' \in [op : {"idle", "restore"}, req : {None} \cup RestoreRequests,
                 pending : SUBSET Volumes, agreed : SUBSET Item, blob : Blob,
                 read : [Volumes -> (SUBSET Item) \X SUBSET (Names \cup {Nameless})],
                 next : [Volumes -> SUBSET Item], rotten : [Volumes -> SUBSET (Names \cup {Nameless})]]
  BY <1>2, NewBlobTyped DEF Idle
<1>4. TypeOK'
  BY <1>1, <1>2, <1>3 DEF TypeOK, Closed
<1>5. BlobPassedOn'
  BY <1>1, <1>2 DEF BlobPassedOn, CallSound
<1>6. CallSound'
  BY <1>2 DEF CallSound, Idle, NewBlob
<1> QED
  BY <1>4, <1>5, <1>6

\* While a call can't overlap an emulator, the volumes change only with no
\* restore under way; otherwise CallSound promises less.
LEMMA VolumesChangeSound ==
  ASSUME IInv, UNCHANGED <<st, library, holdings, call, calls>>,
         CallsAtomic => call.op = "idle",
         vol' \in [Volumes -> SUBSET Item], \A v \in Volumes : Fits(v, vol'[v]),
         exists' \subseteq Volumes, unreadable' \subseteq Volumes,
         corrupt' \in [Volumes -> SUBSET (Names \cup {Nameless})], edits' \in Nat,
         core' = Closed \/ (core' \in [vol : Volumes, image : SUBSET Item] /\ Fits(core'.vol, core'.image))
  PROVE  IInv'
<1> USE DEF IInv
<1>1. TypeOK'
  BY DEF TypeOK, Closed, Fits
<1>2. BlobPassedOn'
  BY DEF BlobPassedOn
<1>3. CallSound'
  <2>1. CallsAtomic => call.pending = {}
    BY DEF CallSound
  <2> QED
    BY <2>1 DEF CallSound, Passed, Fits
<1> QED
  BY <1>1, <1>2, <1>3

LEMMA EmulatorSound ==
  ASSUME IInv, Emulator
  PROVE  IInv'
<1> USE DEF IInv, MayEdit
<1>1. TypeOK
  OBVIOUS
<1>2. edits + 1 \in Nat
  BY DEF TypeOK
<1>3. ASSUME NEW v \in Volumes, NEW i \in Writable, EmulatorSaves(v, i) PROVE IInv'
  <2>1. i \in Item /\ i.name \in Names
    BY ConstantsTyped DEF Item
  <2>2. Put(vol[v], i) \in SUBSET Item /\ Fits(v, Put(vol[v], i))
    BY <1>3, <2>1 DEF Put, EmulatorSaves, Fits, TypeOK
  <2>3. vol' \in [Volumes -> SUBSET Item] /\ \A w \in Volumes : Fits(w, vol'[w])
    BY <1>3, <2>2 DEF EmulatorSaves, TypeOK
  <2>4. corrupt' \in [Volumes -> SUBSET (Names \cup {Nameless})] /\ exists' \subseteq Volumes
    BY <1>3 DEF EmulatorSaves, TypeOK
  <2> QED
    BY <1>2, <1>3, <2>3, <2>4, VolumesChangeSound DEF EmulatorSaves, TypeOK
<1>4. ASSUME NEW v \in Volumes, NEW i \in vol[v], EmulatorDeletes(v, i) PROVE IInv'
  <2>1. vol' \in [Volumes -> SUBSET Item] /\ \A w \in Volumes : Fits(w, vol'[w])
    BY <1>4 DEF EmulatorDeletes, TypeOK, Fits
  <2> QED
    BY <1>2, <1>4, <2>1, VolumesChangeSound DEF EmulatorDeletes, TypeOK
<1>5. ASSUME NEW v \in Volumes, NEW i \in vol[v], EmulatorCorrupts(v, i) PROVE IInv'
  <2>1. vol' \in [Volumes -> SUBSET Item] /\ \A w \in Volumes : Fits(w, vol'[w])
    BY <1>5 DEF EmulatorCorrupts, TypeOK, Fits
  <2>2. i.name \in Names
    BY DEF TypeOK, Item
  <2>3. corrupt' \in [Volumes -> SUBSET (Names \cup {Nameless})]
    BY <1>5, <2>2 DEF EmulatorCorrupts, TypeOK
  <2> QED
    BY <1>2, <1>5, <2>1, <2>3, VolumesChangeSound DEF EmulatorCorrupts, TypeOK
<1>6. ASSUME NEW v \in Volumes, EmulatorTruncates(v) PROVE IInv'
  <2>1. vol' \in [Volumes -> SUBSET Item] /\ \A w \in Volumes : Fits(w, vol'[w])
    BY <1>6 DEF EmulatorTruncates, TypeOK, Fits
  <2> QED
    BY <1>2, <1>6, <2>1, VolumesChangeSound DEF EmulatorTruncates, TypeOK
<1>7. ASSUME NEW v \in Volumes, CoreLoads(v) PROVE IInv'
  <2>1. core' \in [vol : Volumes, image : SUBSET Item] /\ Fits(core'.vol, core'.image)
    BY <1>7 DEF CoreLoads, TypeOK
  <2> QED
    BY <1>2, <1>7, <2>1, VolumesChangeSound DEF CoreLoads, TypeOK
<1>8. ASSUME CoreUnloads PROVE IInv'
  <2>1. core \in [vol : Volumes, image : SUBSET Item] /\ Fits(core.vol, core.image)
    BY <1>8 DEF CoreUnloads, TypeOK
  <2>2. vol' \in [Volumes -> SUBSET Item] /\ \A w \in Volumes : Fits(w, vol'[w])
    BY <1>8, <2>1 DEF CoreUnloads, TypeOK
  <2>3. corrupt' \in [Volumes -> SUBSET (Names \cup {Nameless})] /\ exists' \subseteq Volumes
    BY <1>8, <2>1 DEF CoreUnloads, TypeOK
  <2> QED
    BY <1>8, <2>2, <2>3, VolumesChangeSound DEF CoreUnloads, TypeOK
<1> QED
  BY <1>3, <1>4, <1>5, <1>6, <1>7, <1>8 DEF Emulator

LEMMA StepSound ==
  ASSUME IInv, [Next]_vars
  PROVE  IInv'
<1>1. CASE Collects
  BY <1>1, CollectAsks, CollectSound DEF Collects
<1>2. CASE Restores
  <2>1. PICK g \in Games, m \in Modes, c \in Claimable, o \in BOOLEAN :
          \E k \in Companions[g] \cup {None}, u \in library[g] :
            \E w \in CompanionUnits(k) : RestoreBegin(RestoreRequest(g, m, c, k, u, w, o))
    BY <1>2 DEF Restores
  <2>2. PICK k \in Companions[g] \cup {None}, u \in library[g] :
          \E w \in CompanionUnits(k) : RestoreBegin(RestoreRequest(g, m, c, k, u, w, o))
    BY <2>1
  <2>3. PICK w \in CompanionUnits(k) : RestoreBegin(RestoreRequest(g, m, c, k, u, w, o))
    BY <2>2
  <2>4. AsksRestore(RestoreRequest(g, m, c, k, u, w, o))
    BY RestoreAsks DEF IInv
  <2> QED
    BY <2>3, <2>4, BeginSound
<1>3. CASE \E v \in Volumes : RestoreWrite(v)
  BY <1>3, WriteSound
<1>4. CASE RestoreEnd \/ RestoreFails
  BY <1>4, EndSound
<1>5. CASE Emulator
  BY <1>5, EmulatorSound
<1>6. CASE UNCHANGED vars
  BY <1>6 DEF vars, IInv, TypeOK, BlobPassedOn, CallSound, Closed, Fits, Passed
<1> QED
  BY <1>1, <1>2, <1>3, <1>4, <1>5, <1>6 DEF Next

\* The inductive invariant.
THEOREM Soundness == Spec => []IInv
<1>1. Init => IInv
  BY InitSound
<1>2. IInv /\ [Next]_vars => IInv'
  BY StepSound
<1> QED
  BY <1>1, <1>2, PTL DEF Spec

\* Every variable keeps to its type: no volume takes another device's saves.
THEOREM TypeCorrect == Spec => []TypeOK
<1>1. IInv => TypeOK
  BY DEF IInv
<1> QED
  BY <1>1, Soundness, PTL

\* What the blob calls synced or held was passed on (sync.c:157,
\* sync_volumes.c:187), whatever uploads and blobs were lost on the way.
THEOREM BlobTrue == Spec => []BlobPassedOn
<1>1. IInv => BlobPassedOn
  BY DEF IInv
<1> QED
  BY <1>1, Soundness, PTL

\* A restore under way has nothing left to write that would lose a save.
THEOREM CallStaysSound == Spec => []CallSound
<1>1. IInv => CallSound
  BY DEF IInv
<1> QED
  BY <1>1, Soundness, PTL

(***************************************************************************)
(* SyncVolumes implements SaveCustody when no emulator writes while a call *)
(* runs: CallSound is what makes each write a Replace.                     *)
(***************************************************************************)

OnDisk == {p \in Volumes \X Item : p[2] \in vol[p[1]]}

LEMMA FoundOnDisk ==
  ASSUME TypeOK, NEW s, NEW v \in Volumes, s \subseteq vol[v]
  PROVE  s \subseteq Custody!SavesOn(OnDisk)
<1> SUFFICES ASSUME NEW i \in s PROVE i \in Custody!SavesOn(OnDisk)
  OBVIOUS
<1>1. <<v, i>> \in OnDisk
  BY DEF OnDisk, TypeOK
<1> QED
  BY <1>1 DEF Custody!SavesOn

LEMMA OwnedOnDisk ==
  ASSUME TypeOK, NEW q, Asks(q), NEW who
  PROVE  Owned(q, who) \subseteq Custody!SavesOn(OnDisk)
<1>1. Targets[q.game] \subseteq Volumes
  BY ConstantsTyped DEF Asks
<1> QED
  BY <1>1, FoundOnDisk DEF Owned, OwnedOn

LEMMA CollectPassesOn ==
  ASSUME IInv, NEW q, Asks(q), Collect(q)
  PROVE  Custody!PassOn
<1> USE DEF IInv
<1>1. Mine(q) \subseteq Custody!SavesOn(OnDisk) /\ Theirs(q) \subseteq Custody!SavesOn(OnDisk)
  BY OwnedOnDisk DEF Mine, Theirs
<1>2. Owned(q, None) \subseteq Custody!SavesOn(OnDisk)
  BY OwnedOnDisk
<1>3. Passed' \subseteq Passed \cup Custody!SavesOn(OnDisk) /\ Passed \subseteq Passed'
  <2>1. PICK uploaded \in BOOLEAN :
           /\ library' = IF uploaded THEN [h \in Games |-> library[h] \cup Uploads(q, h)] ELSE library
           /\ holdings' = IF uploaded THEN holdings \cup Owned(q, None) ELSE holdings
    BY DEF Collect
  <2>2. \A h \in Games : Uploads(q, h) \subseteq {Mine(q), Theirs(q)}
    BY UploadsFound
  <2> QED
    BY <1>1, <1>2, <2>1, <2>2 DEF Passed, TypeOK
<1>4. \E s \in SUBSET Custody!SavesOn(OnDisk) : Passed' = Passed \cup s
  <2>1. Passed' \ Passed \in SUBSET Custody!SavesOn(OnDisk)
    BY <1>3
  <2>2. Passed' = Passed \cup (Passed' \ Passed)
    BY <1>3
  <2> QED
    BY <2>1, <2>2
<1>5. UNCHANGED <<vol, call>> /\ call.op = "idle"
  BY DEF Collect, MayCall
<1> QED
  BY <1>4, <1>5 DEF Custody!PassOn, OnDisk

LEMMA BeginBegins ==
  ASSUME IInv, NEW q, AsksRestore(q), RestoreBegin(q)
  PROVE  Custody!Begin
<1> USE DEF IInv
<1>1. Targets[q.game] \subseteq Volumes
  BY ConstantsTyped DEF AsksRestore, Asks
<1>2. Agreed(q) \subseteq Custody!SavesOn(OnDisk)
  BY <1>1, FoundOnDisk DEF Agreed
<1>3. /\ call.op = "idle" /\ call'.op = "restore" /\ call'.agreed = Agreed(q)
      /\ UNCHANGED <<vol, library, holdings>>
  BY DEF RestoreBegin, MayCall
<1> QED
  BY <1>2, <1>3 DEF Custody!Begin, OnDisk, Passed

LEMMA WriteReplaces ==
  ASSUME IInv, CallsAtomic, NEW v \in Volumes, RestoreWrite(v)
  PROVE  Custody!Replace
<1> USE DEF IInv
<1>1. /\ v \in call.pending /\ call.op = "restore"
      /\ vol' = [vol EXCEPT ![v] = call.next[v]]
      /\ call'.op = call.op /\ call'.agreed = call.agreed
      /\ UNCHANGED <<library, holdings>>
  BY DEF RestoreWrite, CallSound, TypeOK
<1>2. /\ vol[v] \ call.next[v] \subseteq Passed \cup call.agreed
      /\ call.next[v] \ vol[v] \subseteq Passed
  BY <1>1 DEF CallSound
<1>3. call.next[v] \in SUBSET Item
  BY DEF TypeOK
<1>4. OnDisk' \subseteq Volumes \X Item
  BY DEF OnDisk
<1>5. \A p \in OnDisk \ OnDisk' : p[1] = v /\ p[2] \in vol[v] \ call.next[v]
  BY <1>1 DEF OnDisk, TypeOK
<1>6. \A p \in OnDisk' \ OnDisk : p[1] = v /\ p[2] \in call.next[v] \ vol[v]
  BY <1>1 DEF OnDisk, TypeOK
<1>7. Custody!SavesOn(OnDisk \ OnDisk') \subseteq Passed \cup call.agreed
  BY <1>2, <1>5 DEF Custody!SavesOn
<1>8. Custody!SavesOn(OnDisk' \ OnDisk) \subseteq Passed
  BY <1>2, <1>6 DEF Custody!SavesOn
<1>9. Passed' = Passed
  BY <1>1 DEF Passed
<1> QED
  BY <1>1, <1>4, <1>7, <1>8, <1>9 DEF Custody!Replace, OnDisk

LEMMA EmulatorPlays ==
  ASSUME CallsAtomic, Emulator
  PROVE  Custody!Play
<1>1. call.op = "idle" /\ UNCHANGED <<library, holdings, call>>
  BY DEF Emulator, MayEdit, EmulatorSaves, EmulatorDeletes, EmulatorCorrupts, EmulatorTruncates, CoreLoads, CoreUnloads
<1> QED
  BY <1>1 DEF Custody!Play, Passed

LEMMA StepKeepsCustody ==
  ASSUME IInv, CallsAtomic, [Next]_vars
  PROVE  [Custody!Next]_(Custody!custodyVars)
<1>1. CASE Collects
  BY <1>1, CollectAsks, CollectPassesOn DEF Collects, Custody!Next
<1>2. CASE Restores
  <2>1. PICK g \in Games, m \in Modes, c \in Claimable, o \in BOOLEAN :
          \E k \in Companions[g] \cup {None}, u \in library[g] :
            \E w \in CompanionUnits(k) : RestoreBegin(RestoreRequest(g, m, c, k, u, w, o))
    BY <1>2 DEF Restores
  <2>2. PICK k \in Companions[g] \cup {None}, u \in library[g] :
          \E w \in CompanionUnits(k) : RestoreBegin(RestoreRequest(g, m, c, k, u, w, o))
    BY <2>1
  <2>3. PICK w \in CompanionUnits(k) : RestoreBegin(RestoreRequest(g, m, c, k, u, w, o))
    BY <2>2
  <2> QED
    BY <2>3, RestoreAsks, BeginBegins DEF IInv, Custody!Next
<1>3. CASE \E v \in Volumes : RestoreWrite(v)
  BY <1>3, WriteReplaces DEF Custody!Next
<1>4. CASE RestoreEnd \/ RestoreFails
  BY <1>4 DEF RestoreEnd, RestoreFails, Idle, Custody!Next, Custody!End, Passed
<1>5. CASE Emulator
  BY <1>5, EmulatorPlays DEF Custody!Next
<1>6. CASE UNCHANGED vars
  BY <1>6 DEF vars, Custody!custodyVars, Passed
<1> QED
  BY <1>1, <1>2, <1>3, <1>4, <1>5, <1>6 DEF Next

\* sync.md:104-115: no restore loses a save that wasn't passed on, for any
\* number of games and volumes, whatever fails or dies half way.
THEOREM CustodyHolds == CallsAtomic => (Spec => CustodyKept)
<1> SUFFICES ASSUME CallsAtomic PROVE Spec => CustodyKept
  OBVIOUS
<1>1. Init => Custody!Init
  <2> SUFFICES ASSUME Init PROVE Custody!Init
    OBVIOUS
  <2>1. IInv
    BY InitSound
  <2> QED
    BY <2>1 DEF Init, Idle, Custody!Init, IInv, TypeOK, Passed
<1>2. IInv /\ [Next]_vars => [Custody!Next]_(Custody!custodyVars)
  BY StepKeepsCustody
<1> QED
  BY <1>1, <1>2, Soundness, PTL DEF Spec, CustodyKept, Custody!Spec

(***************************************************************************)
(* What a restore still has to record and to write, as its request has it. *)
(***************************************************************************)

OwnersComing ==
  call.op = "restore" => call.blob.owner = LearnOwners(call.req, call.req.unit, TheirsIn(call.req))

\* Unmanaged, a volume keeps what was read but the replaced.
UnmanagedPlaced ==
  call.op = "restore" /\ call.req.mode = "unmanaged" =>
    \A v \in call.pending :
      /\ call.rotten[v] = call.read[v][2]
      /\ call.next[v] \subseteq call.read[v][1] \cup Incoming(call.req)
      /\ \A i \in call.read[v][1] \ call.next[v] : WhoseSave(call.req, v, i.name) \in ReplacedOwners(call.req)

PlacedInv == IInv /\ OwnersComing /\ UnmanagedPlaced

\* The blob in the client's store and the plan of a restore stay as they are
\* while it writes, whatever emulators do to the volumes.
LEMMA CallKeeps ==
  ASSUME IInv, call.op = "restore", call'.op = "restore", [Next]_vars
  PROVE  /\ st' = st /\ library' = library /\ holdings' = holdings
         /\ call'.req = call.req /\ call'.blob = call.blob /\ call'.agreed = call.agreed
         /\ call'.read = call.read /\ call'.next = call.next /\ call'.rotten = call.rotten
         /\ \/ call'.pending = call.pending
            \/ \E v \in call.pending : RestoreWrite(v) /\ call'.pending = call.pending \ {v}
<1>1. CASE Collects \/ Restores
  BY <1>1 DEF Collects, Collect, Restores, RestoreBegin, MayCall
<1>2. CASE \E v \in Volumes : RestoreWrite(v)
  BY <1>2 DEF RestoreWrite, IInv, TypeOK
<1>3. CASE RestoreEnd \/ RestoreFails
  BY <1>3 DEF RestoreEnd, RestoreFails, Idle
<1>4. CASE Emulator
  BY <1>4 DEF Emulator, EmulatorSaves, EmulatorDeletes, EmulatorCorrupts, EmulatorTruncates, CoreLoads, CoreUnloads
<1>5. CASE UNCHANGED vars
  BY <1>5 DEF vars
<1> QED
  BY <1>1, <1>2, <1>3, <1>4, <1>5 DEF Next

\* Only the start of a restore sets one up.
LEMMA CallStarts ==
  ASSUME IInv, call.op = "idle", call'.op = "restore", [Next]_vars
  PROVE  \E q : AsksRestore(q) /\ RestoreBegin(q)
<1>1. ~(Collects \/ (\E v \in Volumes : RestoreWrite(v)) \/ RestoreEnd \/ RestoreFails \/ UNCHANGED vars)
  BY DEF Collects, Collect, RestoreWrite, RestoreEnd, RestoreFails, vars, IInv, CallSound
<1>2. ~Emulator
  BY DEF Emulator, EmulatorSaves, EmulatorDeletes, EmulatorCorrupts, EmulatorTruncates, CoreLoads, CoreUnloads
<1>3. PICK g \in Games, m \in Modes, c \in Claimable, o \in BOOLEAN :
        \E k \in Companions[g] \cup {None}, u \in library[g] :
          \E w \in CompanionUnits(k) : RestoreBegin(RestoreRequest(g, m, c, k, u, w, o))
  BY <1>1, <1>2 DEF Next, Restores
<1>4. PICK k \in Companions[g] \cup {None}, u \in library[g] :
        \E w \in CompanionUnits(k) : RestoreBegin(RestoreRequest(g, m, c, k, u, w, o))
  BY <1>3
<1>5. PICK w \in CompanionUnits(k) : RestoreBegin(RestoreRequest(g, m, c, k, u, w, o))
  BY <1>4
<1> QED
  BY <1>5, RestoreAsks DEF IInv

LEMMA PlacedStays ==
  ASSUME PlacedInv, [Next]_vars
  PROVE  PlacedInv'
<1>1. IInv'
  BY StepSound DEF PlacedInv
<1>2. call.op \in {"idle", "restore"} /\ call'.op \in {"idle", "restore"}
  BY <1>1 DEF PlacedInv, IInv, TypeOK
<1>3. CASE call'.op = "idle"
  BY <1>1, <1>3 DEF PlacedInv, OwnersComing, UnmanagedPlaced
<1>4. CASE call.op = "idle" /\ call'.op = "restore"
  <2>1. PICK q : AsksRestore(q) /\ RestoreBegin(q)
    BY <1>4, CallStarts DEF PlacedInv
  <2>2. /\ call'.req = q /\ call'.pending = Written(q) /\ call'.read = Disk /\ call'.blob = RestoreBlob(q)
        /\ call'.next = [v \in Volumes |-> IF v \in Written(q) THEN NextOn(q, v) ELSE vol[v]]
        /\ call'.rotten = [v \in Volumes |-> IF v \in Written(q) /\ q.mode = "unmanaged" THEN corrupt[v] ELSE {}]
        /\ st' = st
    BY <2>1 DEF RestoreBegin
  <2>3. call'.blob.owner = LearnOwners(q, q.unit, TheirsIn(q))
    BY <2>2 DEF RestoreBlob
  <2>4. OwnersComing'
    BY <2>2, <2>3 DEF OwnersComing, LearnOwners
  <2>5. ASSUME q.mode = "unmanaged", NEW v \in Written(q)
        PROVE  /\ call'.rotten[v] = call'.read[v][2]
               /\ call'.next[v] \subseteq call'.read[v][1] \cup Incoming(q)
               /\ \A i \in call'.read[v][1] \ call'.next[v] : WhoseSave(q, v, i.name) \in ReplacedOwners(q)
    <3>1. v \in Volumes
      BY <2>1, ConstantsTyped DEF Written, AsksRestore, Asks
    <3>2. call'.read[v] = <<vol[v], corrupt[v]>> /\ call'.rotten[v] = corrupt[v] /\ call'.next[v] = NextOn(q, v)
      BY <2>2, <2>5, <3>1 DEF Disk
    <3>3. call'.read[v][1] = vol[v] /\ call'.read[v][2] = corrupt[v]
      BY <3>2
    <3> QED
      BY <2>5, <3>2, <3>3 DEF NextOn, Kept
  <2>6. UnmanagedPlaced'
    BY <2>2, <2>5 DEF UnmanagedPlaced, WhoseSave, Learned, Presumed
  <2> QED
    BY <1>1, <2>4, <2>6 DEF PlacedInv
<1>5. CASE call.op = "restore" /\ call'.op = "restore"
  <2>1. OwnersComing'
    BY <1>5, CallKeeps DEF PlacedInv, OwnersComing, LearnOwners
  <2>2. \A v \in call'.pending : v \in call.pending
    BY <1>5, CallKeeps DEF PlacedInv
  <2>3. UnmanagedPlaced'
    BY <1>5, <2>2, CallKeeps DEF PlacedInv, UnmanagedPlaced, WhoseSave, Learned, Presumed
  <2> QED
    BY <1>1, <2>1, <2>3 DEF PlacedInv
<1> QED
  BY <1>2, <1>3, <1>4, <1>5

\* What a restore has left to write and to record follows from its request
\* and from what it read.
THEOREM RestorePlanned == Spec => []PlacedInv
<1>1. Init => PlacedInv
  BY InitSound DEF PlacedInv, Init, Idle, OwnersComing, UnmanagedPlaced
<1>2. PlacedInv /\ [Next]_vars => PlacedInv'
  BY PlacedStays
<1> QED
  BY <1>1, <1>2, PTL DEF Spec

(***************************************************************************)
(* What a step may never do.                                               *)
(***************************************************************************)

\* A save found on a game's targets is on the one volume of its device.
LEMMA FoundOn ==
  ASSUME TypeOK, NEW q, Asks(q), NEW who, NEW i \in Owned(q, who), NEW v \in Targets[q.game], i.dev = Device[v]
  PROVE  i \in vol[v] /\ WhoseSave(q, v, i.name) = who
<1>1. PICK w \in Targets[q.game] : i \in vol[w] /\ WhoseSave(q, w, i.name) = who
  BY DEF Owned, OwnedOn
<1>2. Targets[q.game] \subseteq Volumes
  BY ConstantsTyped DEF Asks
<1>3. i.dev = Device[w]
  BY <1>1, <1>2 DEF TypeOK, Fits
<1>4. w = v
  BY <1>3, TargetsDistinct DEF Asks
<1> QED
  BY <1>1, <1>4

\* sync.c:104-131: a collect learns over another owner only what the user claims.
LEMMA CollectMoves ==
  ASSUME TypeOK, NEW q, Asks(q), q.comp # q.game, NEW v \in Volumes, NEW n \in Names,
         st.owner[v][n] # None, CollectBlob(q).owner[v][n] # st.owner[v][n]
  PROVE  n \in q.claims
<1> DEFINE o == st.owner[v][n]
<1>1. CollectBlob(q).owner = LearnOwners(q, Mine(q), Theirs(q))
  BY DEF CollectBlob
<1>2. CASE v \in Shared(q.game) /\ (\E i \in Mine(q) : i.dev = Device[v] /\ i.name = n)
  <2>1. PICK i \in Mine(q) : i.dev = Device[v] /\ i.name = n
    BY <1>2
  <2>2. WhoseSave(q, v, n) = q.game /\ v \notin PerGame
    BY <1>2, <2>1, FoundOn DEF Mine, Shared
  <2>3. o # q.game
    BY <1>1, <1>2 DEF LearnOwners
  <2> QED
    BY <2>2, <2>3 DEF WhoseSave, Learned
<1>3. CASE v \in Targets[q.game] /\ \E i \in Theirs(q) : i.dev = Device[v] /\ i.name = n
  <2>1. PICK i \in Theirs(q) : i.dev = Device[v] /\ i.name = n
    BY <1>3
  <2>2. WhoseSave(q, v, n) = q.comp /\ q.comp # None
    BY <1>3, <2>1, FoundOn DEF Theirs
  <2>3. CASE o = q.comp
    <3>1. v \in Shared(q.game) /\ \E j \in Mine(q) : j.dev = Device[v] /\ j.name = n
      BY <1>1, <1>3, <2>3 DEF LearnOwners
    <3> QED
      BY <1>2, <3>1
  <2>4. CASE o # q.comp
    BY <2>2, <2>4 DEF WhoseSave, Learned, Presumed
  <2> QED
    BY <2>3, <2>4
<1>4. \/ v \in Shared(q.game) /\ \E i \in Mine(q) : i.dev = Device[v] /\ i.name = n
      \/ v \in Targets[q.game] /\ \E i \in Theirs(q) : i.dev = Device[v] /\ i.name = n
  BY <1>1 DEF LearnOwners
<1> QED
  BY <1>2, <1>3, <1>4

LEMMA RestoreMoves ==
  ASSUME PlacedInv, call.op = "restore", NEW v \in Volumes, NEW n \in Names,
         call.blob.owner[v][n] # st.owner[v][n]
  PROVE  \E i \in Incoming(call.req) : i.dev = Device[v] /\ i.name = n
  BY DEF PlacedInv, OwnersComing, LearnOwners, Incoming

\* sync.md:66-68: a learned owner moves to another game only through the
\* user's claim, or through a restore that puts a save of that name there.
THEOREM OwnersMove == Spec => OwnerMoves
<1> DEFINE A == \A v \in Volumes, n \in Names :
        st.owner[v][n] # None /\ st'.owner[v][n] # st.owner[v][n] =>
          \/ call.op = "restore" /\ \E i \in Incoming(call.req) : i.dev = Device[v] /\ i.name = n
          \/ call.op = "idle" /\ \E c \in Claimable : n \in c
<1>1. ASSUME PlacedInv, [Next]_vars PROVE [A]_vars
  <2>1. SUFFICES ASSUME NEW v \in Volumes, NEW n \in Names, st.owner[v][n] # None, st'.owner[v][n] # st.owner[v][n]
                 PROVE  \/ call.op = "restore" /\ \E i \in Incoming(call.req) : i.dev = Device[v] /\ i.name = n
                        \/ call.op = "idle" /\ \E c \in Claimable : n \in c
    OBVIOUS
  <2>2. CASE Collects
    <3>1. PICK g \in Games, m \in Modes, c \in Claimable :
            \E k \in Companions[g] \cup {None} : Collect(CollectRequest(g, m, c, k))
      BY <2>2 DEF Collects
    <3>2. PICK k \in Companions[g] \cup {None} : Collect(CollectRequest(g, m, c, k))
      BY <3>1
    <3>3. PICK q : q = CollectRequest(g, m, c, k)
      OBVIOUS
    <3>4. Asks(q) /\ q.claims = c /\ q.comp # q.game
      BY <3>3, CollectAsks, NoSelfCompanion, ConstantsTyped DEF CollectRequest
    <3>5. call.op = "idle" /\ st' = CollectBlob(q)
      BY <2>1, <3>2, <3>3 DEF Collect, MayCall
    <3> QED
      BY <2>1, <3>4, <3>5, CollectMoves, <1>1 DEF PlacedInv, IInv
  <2>3. CASE RestoreEnd
    BY <1>1, <2>1, <2>3, RestoreMoves DEF RestoreEnd
  <2>4. CASE Restores \/ (\E v_1 \in Volumes : RestoreWrite(v_1)) \/ RestoreFails \/ Emulator \/ UNCHANGED vars
    <3>1. st' = st
      BY <2>4 DEF Restores, RestoreBegin, RestoreWrite, RestoreFails, Emulator, EmulatorSaves, EmulatorDeletes,
                  EmulatorCorrupts, EmulatorTruncates, CoreLoads, CoreUnloads, vars
    <3> QED
      BY <2>1, <3>1
  <2> QED
    BY <1>1, <2>2, <2>3, <2>4 DEF Next
<1>2. PlacedInv /\ [Next]_vars => [A]_vars
  BY <1>1
<1> QED
  BY <1>2, RestorePlanned, PTL DEF Spec, OwnerMoves

\* sync.c:135-136: a collect never uploads the saves an unmanaged restore
\* replaced over the unit that restore brought.
THEOREM RevertsNotUploaded == Spec => NoRevertUpload
<1> DEFINE A == \A g \in Games :
        /\ \A h \in Games : g \notin Companions[h]
        /\ st.restored[g] # None /\ st.restored[g].old # st.restored[g].new
        => st.restored[g].old \notin library'[g] \ library[g]
<1>1. ASSUME IInv, [Next]_vars PROVE [A]_vars
  <2>1. SUFFICES ASSUME NEW g \in Games, \A h \in Games : g \notin Companions[h],
                        st.restored[g] # None, st.restored[g].old # st.restored[g].new,
                        st.restored[g].old \in library'[g] \ library[g]
                 PROVE  FALSE
    OBVIOUS
  <2>2. CASE Collects
    <3>1. PICK h \in Games, m \in Modes, c \in Claimable :
            \E k \in Companions[h] \cup {None} : Collect(CollectRequest(h, m, c, k))
      BY <2>2 DEF Collects
    <3>2. PICK k \in Companions[h] \cup {None} : Collect(CollectRequest(h, m, c, k))
      BY <3>1
    <3>3. PICK q : q = CollectRequest(h, m, c, k)
      OBVIOUS
    <3>4. q.comp # g
      BY <2>1, <3>1, <3>3, ConstantsTyped DEF CollectRequest
    <3>5. st.restored[g].old \in Uploads(q, g)
      BY <2>1, <3>2, <3>3 DEF Collect
    <3>6. g = q.game /\ st.restored[g].old = Mine(q) /\ ~RestoreAgain(q)
      BY <3>4, <3>5 DEF Uploads
    <3> QED
      BY <2>1, <3>6 DEF RestoreAgain
  <2>3. CASE ~Collects
    <3>1. library' = library
      BY <1>1, <2>3 DEF Next, Restores, RestoreBegin, RestoreWrite, RestoreEnd, RestoreFails, Emulator, EmulatorSaves,
                  EmulatorDeletes, EmulatorCorrupts, EmulatorTruncates, CoreLoads, CoreUnloads, vars
    <3> QED
      BY <2>1, <3>1
  <2> QED
    BY <2>2, <2>3
<1>2. IInv /\ [Next]_vars => [A]_vars
  BY <1>1
<1> QED
  BY <1>2, Soundness, PTL DEF Spec, NoRevertUpload

\* sync.md:112-114: an unmanaged restore takes off a volume only the saves of
\* the game, and of a companion it has a unit for, and leaves corrupt saves in
\* place, whatever emulators write while it runs.
THEOREM UnmanagedReplacesItsOwn == Spec => UnmanagedKeepsOthers
<1> DEFINE A == \A v \in call.pending \ call'.pending :
        call'.op = "restore" /\ call.req.mode = "unmanaged" =>
          /\ call.read[v] = <<vol[v], corrupt[v]>> => corrupt'[v] = corrupt[v]
          /\ \A i \in vol[v] \cap call.read[v][1] :
               i \notin vol'[v] => WhoseSave(call.req, v, i.name) \in ReplacedOwners(call.req)
          /\ vol'[v] \subseteq call.read[v][1] \cup Incoming(call.req)
<1>1. ASSUME PlacedInv, [Next]_vars PROVE [A]_vars
  <2>1. SUFFICES ASSUME NEW v \in call.pending \ call'.pending, call'.op = "restore", call.req.mode = "unmanaged"
                 PROVE  /\ call.read[v] = <<vol[v], corrupt[v]>> => corrupt'[v] = corrupt[v]
                        /\ \A i \in vol[v] \cap call.read[v][1] :
                             i \notin vol'[v] => WhoseSave(call.req, v, i.name) \in ReplacedOwners(call.req)
                        /\ vol'[v] \subseteq call.read[v][1] \cup Incoming(call.req)
    OBVIOUS
  <2>2. call.op = "restore" /\ v \in Volumes
    BY <1>1 DEF PlacedInv, IInv, CallSound, TypeOK
  <2>3. RestoreWrite(v)
    BY <1>1, <2>1, <2>2, CallKeeps DEF PlacedInv
  <2>4. vol'[v] = call.next[v] /\ corrupt'[v] = call.rotten[v]
    BY <1>1, <2>2, <2>3 DEF RestoreWrite, PlacedInv, IInv, TypeOK
  <2> QED
    BY <1>1, <2>1, <2>2, <2>4 DEF PlacedInv, UnmanagedPlaced
<1>2. PlacedInv /\ [Next]_vars => [A]_vars
  BY <1>1
<1> QED
  BY <1>2, RestorePlanned, PTL DEF Spec, UnmanagedKeepsOthers
=============================================================================
