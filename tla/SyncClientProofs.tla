-------------------------- MODULE SyncClientProofs --------------------------
(***************************************************************************)
(* Theorems about SyncClient.  The client only narrows SyncVolumes down,   *)
(* so what SyncVolumesProofs proves holds under it; and what the client    *)
(* saw agrees with what the blob records, which is what the promises of    *)
(* docs/sync.md that span several calls rest on.                           *)
(***************************************************************************)
EXTENDS SyncClient, SyncVolumesProofs

LEMMA FollowsNext ==
  ASSUME Follows
  PROVE  Next
<1>1. CASE \E g \in Games, m \in Modes, c \in Claimable :
             \E k \in Companions[g] \cup {None} : ClientCollects(CollectRequest(g, m, c, k))
  BY <1>1 DEF ClientCollects, Next, Collects
<1>2. CASE \E v \in Volumes : ClientWrites(v)
  BY <1>2 DEF ClientWrites, Next
<1> QED
  BY <1>1, <1>2 DEF Follows, ClientRestored, Next

LEMMA ClientStep ==
  ASSUME [ClientNext]_<<vars, clientVars>>
  PROVE  [Next]_vars
<1>1. CASE ClientNext
  BY <1>1, FollowsNext DEF ClientNext, Strays, Anything, Next
<1> QED
  BY <1>1

\* Every step of the client is one of SyncVolumes by definition, so the
\* theorems about any client can be cited of this one.
LEMMA ClientIsClient == ClientSpec => Spec
<1>1. ClientInit => Init
  BY DEF ClientInit
<1>2. [ClientNext]_<<vars, clientVars>> => [Next]_vars
  BY ClientStep
<1> QED
  BY <1>1, <1>2, PTL DEF ClientSpec, Spec

\* sync.md:95-115 under the client: what the blob says is true, no restore
\* loses a save that was not passed on, and owners move as the document says.
THEOREM ClientKeepsCustody == CallsAtomic => (ClientSpec => []BlobPassedOn /\ CustodyKept /\ OwnerMoves)
<1> SUFFICES ASSUME CallsAtomic PROVE ClientSpec => []BlobPassedOn /\ CustodyKept /\ OwnerMoves
  OBVIOUS
<1>1. Spec => CustodyKept
  BY CustodyHolds
<1>2. IInv => BlobPassedOn
  BY DEF IInv
<1> QED
  BY <1>1, <1>2, ClientIsClient, Soundness, OwnersMove, PTL

(***************************************************************************)
(* What the blob remembers of the last collect.                            *)
(***************************************************************************)

\* The saves of a volume, as last collected, are unclaimed ones the blob lists
\* or ones it has an owner for.
LooksRemembered ==
  \A v \in Volumes : looked[v] # None =>
    /\ v \notin PerGame
    /\ st.seen[v] # None
    /\ st.unowned[v] \subseteq looked[v]
    /\ \A i \in looked[v] \ st.unowned[v] : st.owner[v][i.name] # None

\* The blob a restore will leave forgets none of it.
BlobRemembers ==
  call.op = "restore" => \A v \in Volumes :
    /\ call.blob.unowned[v] = st.unowned[v]
    /\ st.seen[v] # None => call.blob.seen[v] # None
    /\ \A n \in Names : st.owner[v][n] # None => call.blob.owner[v][n] # None

LookTyped == looked \in [Volumes -> {None} \cup SUBSET Item] /\ (strayed => looked = NotSeen)

MemoryInv == PlacedInv /\ LookTyped /\ BlobRemembers /\ LooksRemembered

LEMMA RemembersStay ==
  ASSUME IInv, BlobRemembers, [Next]_vars
  PROVE  BlobRemembers'
<1>1. IInv'
  BY StepSound
<1>2. call.op \in {"idle", "restore"} /\ call'.op \in {"idle", "restore"}
  BY <1>1 DEF IInv, TypeOK
<1>3. CASE call'.op = "idle"
  BY <1>3 DEF BlobRemembers
<1>4. CASE call.op = "idle" /\ call'.op = "restore"
  <2>1. PICK q : AsksRestore(q) /\ RestoreBegin(q)
    BY <1>4, CallStarts
  <2>2. call'.blob = RestoreBlob(q) /\ st' = st
    BY <2>1 DEF RestoreBegin
  <2>3. q.game # None /\ (TheirsIn(q) # {} => q.comp # None)
    BY <2>1, ConstantsTyped DEF AsksRestore, Asks, TheirsIn
  <2>4. ASSUME NEW v \in Volumes
        PROVE  /\ RestoreBlob(q).unowned[v] = st.unowned[v]
               /\ st.seen[v] # None => RestoreBlob(q).seen[v] # None
               /\ \A n \in Names : st.owner[v][n] # None => RestoreBlob(q).owner[v][n] # None
    <3>1. NextOn(q, v) \in SUBSET Item /\ vol[v] \in SUBSET Item
      BY <2>1, NextTyped DEF IInv, TypeOK
    <3>2. RestoreBlob(q).seen[v] = IF v \in Shared(q.game) THEN IF Writes(q, v) THEN NextOn(q, v) ELSE vol[v]
                                   ELSE st.seen[v]
      BY DEF RestoreBlob, NoteVolumes
    <3>3. \A n \in Names : st.owner[v][n] # None => LearnOwners(q, q.unit, TheirsIn(q))[v][n] # None
      BY <2>3 DEF LearnOwners
    <3> QED
      BY <3>1, <3>2, <3>3, NoneApart DEF RestoreBlob
  <2> QED
    BY <2>2, <2>4 DEF BlobRemembers
<1>5. CASE call.op = "restore" /\ call'.op = "restore"
  BY <1>5, CallKeeps DEF BlobRemembers
<1> QED
  BY <1>2, <1>3, <1>4, <1>5

LEMMA CollectRemembers ==
  ASSUME IInv, LookTyped, LooksRemembered, NEW q, Asks(q), ClientCollects(q)
  PROVE  LooksRemembered'
<1>1. st' = CollectBlob(q) /\ looked' = [v \in Volumes |-> IF v \in Shared(q.game) THEN vol[v] ELSE looked[v]]
  BY DEF ClientCollects
<1>2. q.game # None /\ (Theirs(q) # {} => q.comp # None)
  BY ConstantsTyped DEF Asks, Theirs
<1>3. st'.owner = LearnOwners(q, Mine(q), Theirs(q))
  BY <1>1 DEF CollectBlob
<1>4. \A v \in Volumes, n \in Names : st.owner[v][n] # None => st'.owner[v][n] # None
  BY <1>2, <1>3 DEF LearnOwners
<1>5. SUFFICES ASSUME NEW v \in Volumes, looked'[v] # None
      PROVE  /\ v \notin PerGame
             /\ st'.seen[v] # None
             /\ st'.unowned[v] \subseteq looked'[v]
             /\ \A i \in looked'[v] \ st'.unowned[v] : st'.owner[v][i.name] # None
  BY DEF LooksRemembered
<1>6. CASE v \notin Shared(q.game)
  <2>1. looked'[v] = looked[v] /\ st'.seen[v] = st.seen[v] /\ st'.unowned[v] = st.unowned[v]
    BY <1>1, <1>6 DEF CollectBlob, NoteVolumes
  <2>2. \A i \in looked[v] : i.name \in Names
    BY <1>5, <2>1 DEF LookTyped, Item
  <2> QED
    BY <1>4, <1>5, <2>1, <2>2 DEF LooksRemembered
<1>7. CASE v \in Shared(q.game)
  <2>1. looked'[v] = vol[v] /\ st'.seen[v] = vol[v] /\ st'.unowned[v] = OwnedOn(q, v, None)
    BY <1>1, <1>7 DEF CollectBlob, NoteVolumes
  <2>2. ASSUME NEW i \in vol[v], i \notin OwnedOn(q, v, None)
        PROVE  st'.owner[v][i.name] # None
    <3>1. i.name \in Names /\ i.dev = Device[v]
      BY DEF IInv, TypeOK, Fits, Item
    <3>2. v \in Targets[q.game] /\ v \notin PerGame
      BY <1>7 DEF Shared
    <3>3. CASE st.owner[v][i.name] # None
      BY <1>4, <3>1, <3>3
    <3>4. CASE st.owner[v][i.name] = None
      <4>1. WhoseSave(q, v, i.name) # None
        BY <2>2 DEF OwnedOn
      <4>2. WhoseSave(q, v, i.name) \in {q.game, q.comp}
        BY <3>4, <4>1 DEF WhoseSave, Learned
      <4>3. i \in Mine(q) \/ i \in Theirs(q)
        BY <3>2, <4>1, <4>2 DEF Mine, Theirs, Owned, OwnedOn
      <4> QED
        BY <1>2, <1>3, <1>7, <3>1, <3>2, <4>3 DEF LearnOwners
    <3> QED
      BY <3>3, <3>4
  <2> QED
    BY <1>5, <1>7, <2>1, <2>2 DEF OwnedOn, Shared
<1> QED
  BY <1>6, <1>7

LEMMA MemoryInit == ClientInit => MemoryInv
<1> SUFFICES ASSUME ClientInit PROVE MemoryInv
  OBVIOUS
<1>1. Init /\ IInv
  BY InitSound DEF ClientInit
<1>2. PlacedInv
  BY <1>1 DEF PlacedInv, Init, Idle, OwnersComing, UnmanagedPlaced
<1>3. LookTyped /\ LooksRemembered
  BY DEF ClientInit, LookTyped, LooksRemembered, NotSeen
<1> QED
  BY <1>1, <1>2, <1>3 DEF MemoryInv, BlobRemembers, Init, Idle

LEMMA MemoryStays ==
  ASSUME MemoryInv, [ClientNext]_<<vars, clientVars>>
  PROVE  MemoryInv'
<1> USE DEF MemoryInv
<1>1. [Next]_vars /\ IInv
  BY ClientStep DEF PlacedInv
<1>2. PlacedInv' /\ BlobRemembers'
  BY <1>1, PlacedStays, RemembersStay
<1>3. LookTyped' /\ LooksRemembered'
  <2>1. ASSUME NEW g \in Games, NEW m \in Modes, NEW c \in Claimable, NEW k \in Companions[g] \cup {None},
               ~strayed, UNCHANGED strayed, ClientCollects(CollectRequest(g, m, c, k))
        PROVE  LookTyped' /\ LooksRemembered'
    <3>1. PICK q : q = CollectRequest(g, m, c, k)
      OBVIOUS
    <3>2. Asks(q) /\ ClientCollects(q)
      BY <2>1, <3>1, CollectAsks
    <3>3. \A v \in Volumes : vol[v] \in SUBSET Item
      BY <1>1 DEF IInv, TypeOK
    <3>4. LookTyped'
      BY <2>1, <3>2, <3>3 DEF LookTyped, ClientCollects
    <3> QED
      BY <1>1, <3>2, <3>4, CollectRemembers
  <2>2. ASSUME UNCHANGED <<st, looked>>, strayed' = strayed
        PROVE  LookTyped' /\ LooksRemembered'
    BY <2>2 DEF LookTyped, LooksRemembered, NotSeen
  <2>3. CASE ClientRestored /\ UNCHANGED strayed
    <3>1. call.op = "restore" /\ st' = call.blob /\ looked' = looked
      BY <2>3 DEF ClientRestored, RestoreEnd
    <3>2. \A v \in Volumes : looked[v] # None => \A i \in looked[v] : i.name \in Names
      BY DEF LookTyped, Item
    <3>3. LooksRemembered'
      BY <3>1, <3>2 DEF LooksRemembered, BlobRemembers
    <3> QED
      BY <2>3, <3>1, <3>3 DEF LookTyped, NotSeen
  <2>4. CASE Strays
    BY <2>4 DEF Strays, LookTyped, LooksRemembered, NotSeen
  <2>5. CASE strayed /\ Anything
    BY <2>5 DEF Anything, clientVars, LookTyped, LooksRemembered, NotSeen
  <2>6. CASE UNCHANGED <<vars, clientVars>>
    BY <2>2, <2>6 DEF vars, clientVars
  <2>7. CASE Restores /\ UNCHANGED record /\ UNCHANGED strayed
    BY <2>2, <2>7 DEF Restores, RestoreBegin, record
  <2>8. CASE (\E v \in Volumes : ClientWrites(v)) /\ UNCHANGED strayed
    BY <2>2, <2>8 DEF ClientWrites, RestoreWrite
  <2>9. CASE Emulator /\ UNCHANGED <<kept, taken, looked>> /\ UNCHANGED strayed
    BY <2>2, <2>9 DEF Emulator, EmulatorSaves, EmulatorDeletes, EmulatorCorrupts, EmulatorTruncates,
                      CoreLoads, CoreUnloads
  <2> QED
    BY <2>1, <2>3, <2>4, <2>5, <2>6, <2>7, <2>8, <2>9 DEF ClientNext, Follows
<1> QED
  BY <1>2, <1>3

\* sync.md:88, sigil.h:648: on a volume a collect has seen, unowned_changed
\* counts exactly the unclaimed saves that are new or rewritten since, through
\* any number of restores and emulator sessions.
THEOREM UnownedRemembered == ClientSpec => []UnownedMemory
<1>1. ASSUME MemoryInv PROVE UnownedMemory
  <2>1. SUFFICES ASSUME NEW g \in Games, NEW m \in Modes, NEW v \in Shared(g), NEW q,
                        q = CollectRequest(g, m, {}, None), looked[v] # None
                 PROVE  UnownedChanged(q, v) = OwnedOn(q, v, None) \ looked[v]
    BY DEF UnownedMemory
  <2>2. v \in Volumes
    BY ConstantsTyped DEF Shared
  <2>3. /\ v \notin PerGame /\ st.seen[v] # None /\ st.unowned[v] \subseteq looked[v]
        /\ \A i \in looked[v] \ st.unowned[v] : st.owner[v][i.name] # None
    BY <1>1, <2>1, <2>2 DEF MemoryInv, LooksRemembered
  <2>4. \A i \in OwnedOn(q, v, None) : st.owner[v][i.name] = None
    BY <2>1, <2>3 DEF OwnedOn, WhoseSave, Learned, CollectRequest
  <2> QED
    BY <2>3, <2>4 DEF UnownedChanged
<1>2. ClientSpec => []MemoryInv
  BY MemoryInit, MemoryStays, PTL DEF ClientSpec
<1> QED
  BY <1>1, <1>2, PTL

(***************************************************************************)
(* Once every game was collected, nothing stands in a restore's way.       *)
(***************************************************************************)

\* Games that share a volume share them all, and none has a volume of its own:
\* the case docs/sync.md:109-111 is about.  Where games share only some of
\* their volumes the promise is false (MCSyncSplit).
Alike ==
  /\ PerGame = {}
  /\ \A g, h \in Games : Targets[g] = Targets[h] \/ Targets[g] \cap Targets[h] = {}
  /\ \A g \in Games : \A k \in Companions[g] : Targets[k] = Targets[g]

OnlyManaged == Modes \subseteq {"managed"}

Among(owner) == \A v \in Volumes, n \in Names : owner[v][n] # None => v \in Targets[owner[v][n]]

LearnedOn(v, who) == {i \in vol[v] : st.owner[v][i.name] = who}
LearnedFor(h) == UNION {LearnedOn(v, h) : v \in Targets[h]}

\* Every save on the volumes of a game collected lately has the owner the blob
\* records for it, or is unclaimed and held, and the game's are as last synced.
AllLearned ==
  \A h \in fresh :
    /\ LearnedFor(h) \in {{}, st.synced[h]}
    /\ \A v \in Targets[h] :
         /\ st.held[v] = LearnedOn(v, None)
         /\ \A i \in LearnedOn(v, None) : i.name \notin NameTable[h] /\ st.prepared[v] # h

\* No unmanaged restore was made, and no owner is one of other volumes, now
\* and in the blob a restore will leave.
Unreplaced(blob) == blob.restored = [g \in Games |-> None] /\ Among(blob.owner)

FreshTyped == fresh \subseteq Games /\ (strayed => fresh = {})

FreshInv == IInv /\ FreshTyped /\ Unreplaced(st) /\ (call.op = "restore" => Unreplaced(call.blob)) /\ AllLearned

LEMMA LearnAmong ==
  ASSUME Alike, NEW q, Asks(q), Among(st.owner), NEW mine, NEW theirs, theirs # {} => q.comp # None
  PROVE  Among(LearnOwners(q, mine, theirs))
<1>1. SUFFICES ASSUME NEW v \in Volumes, NEW n \in Names, LearnOwners(q, mine, theirs)[v][n] # None
      PROVE  v \in Targets[LearnOwners(q, mine, theirs)[v][n]]
  BY DEF Among
<1>2. CASE v \in Shared(q.game) /\ \E i \in mine : i.dev = Device[v] /\ i.name = n
  BY <1>2 DEF LearnOwners, Shared
<1>3. CASE /\ ~(v \in Shared(q.game) /\ \E i \in mine : i.dev = Device[v] /\ i.name = n)
           /\ v \in Targets[q.game] /\ \E i \in theirs : i.dev = Device[v] /\ i.name = n
  <2>1. LearnOwners(q, mine, theirs)[v][n] = q.comp
    BY <1>3 DEF LearnOwners
  <2>2. q.comp \in Companions[q.game] /\ q.game \in Games
    BY <1>3 DEF Asks
  <2> QED
    BY <1>3, <2>1, <2>2 DEF Alike
<1>4. CASE LearnOwners(q, mine, theirs)[v][n] = st.owner[v][n]
  BY <1>1, <1>4 DEF Among
<1> QED
  BY <1>2, <1>3, <1>4 DEF LearnOwners

\* A collect records for every save it finds on shared volumes whose it is.
LEMMA CollectLearns ==
  ASSUME Alike, TypeOK, NEW q, Asks(q), q.comp # q.game, NEW v \in Targets[q.game], NEW i \in vol[v]
  PROVE  LearnOwners(q, Mine(q), Theirs(q))[v][i.name] = WhoseSave(q, v, i.name)
<1> DEFINE w == WhoseSave(q, v, i.name)
           learned == LearnOwners(q, Mine(q), Theirs(q))[v][i.name]
<1>1. v \in Volumes /\ v \in Shared(q.game) /\ i.name \in Names /\ i.dev = Device[v] /\ q.game # None
  BY ConstantsTyped DEF Alike, Shared, Asks, TypeOK, Fits, Item
<1>2. learned = IF \E j \in Mine(q) : j.dev = Device[v] /\ j.name = i.name THEN q.game
                ELSE IF \E j \in Theirs(q) : j.dev = Device[v] /\ j.name = i.name THEN q.comp
                ELSE st.owner[v][i.name]
  BY <1>1 DEF LearnOwners
<1>3. (\E j \in Mine(q) : j.dev = Device[v] /\ j.name = i.name) <=> w = q.game
  <2>1. w = q.game => i \in Mine(q)
    BY DEF Mine, Owned, OwnedOn
  <2> QED
    BY <1>1, <2>1, FoundOn DEF Mine
<1>4. (\E j \in Theirs(q) : j.dev = Device[v] /\ j.name = i.name) <=> (q.comp # None /\ w = q.comp)
  <2>1. q.comp # None /\ w = q.comp => i \in Theirs(q)
    BY DEF Theirs, Owned, OwnedOn
  <2> QED
    BY <1>1, <2>1, FoundOn DEF Theirs
<1>5. w \notin {q.game, q.comp} \/ w = None => w = st.owner[v][i.name]
  BY <1>1 DEF WhoseSave, Learned, Alike
<1> QED
  BY <1>1, <1>2, <1>3, <1>4, <1>5

LEMMA CollectFresh ==
  ASSUME Alike, OnlyManaged, FreshInv, NEW q, Asks(q), q.comp # q.game, ClientCollects(q)
  PROVE  AllLearned' /\ Unreplaced(st')
<1> USE DEF FreshInv
<1>1. /\ st' = CollectBlob(q) /\ vol' = vol
      /\ fresh' = (IF q.claims = {} THEN fresh ELSE {}) \cup {q.game}
  BY DEF ClientCollects, Collect
<1>2. ~RestoreAgain(q) /\ st'.restored = [g \in Games |-> None]
  BY <1>1 DEF RestoreAgain, Unreplaced, CollectBlob, Asks
<1>3. st'.owner = LearnOwners(q, Mine(q), Theirs(q)) /\ st'.prepared = st.prepared
  BY <1>1 DEF CollectBlob
<1>4. q.mode = "managed" /\ q.game \in Games /\ q.game # None
  BY ConstantsTyped DEF Asks, OnlyManaged
<1>5. Unreplaced(st')
  BY <1>2, <1>3, LearnAmong DEF Unreplaced, Theirs
<1>6. ASSUME NEW v \in Targets[q.game] PROVE v \in Volumes /\ v \in Shared(q.game)
  BY <1>4, ConstantsTyped DEF Alike, Shared
<1>7. ASSUME NEW v \in Targets[q.game], NEW i \in vol[v]
      PROVE  st'.owner[v][i.name] = WhoseSave(q, v, i.name)
  BY <1>3, CollectLearns DEF IInv
<1>8. ASSUME NEW v \in Targets[q.game]
      PROVE  /\ \A who : LearnedOn(v, who)' = OwnedOn(q, v, who)
             /\ st'.held[v] = LearnedOn(v, None)'
  <2>1. \A who : LearnedOn(v, who)' = {i \in vol[v] : st'.owner[v][i.name] = who}
    BY <1>1 DEF LearnedOn
  <2>2. \A who : LearnedOn(v, who)' = OwnedOn(q, v, who)
    BY <1>7, <2>1 DEF OwnedOn
  <2>3. st'.held[v] = OwnedOn(q, v, None)
    BY <1>1, <1>6 DEF CollectBlob, NoteVolumes
  <2> QED
    BY <2>2, <2>3
<1>9. ASSUME NEW h \in Games, Targets[h] = Targets[q.game]
      PROVE  LearnedFor(h)' = Owned(q, h)
  BY <1>8, <1>9 DEF LearnedFor, Owned
<1>10. ASSUME NEW v \in Targets[q.game], NEW i \in LearnedOn(v, None)'
       PROVE  /\ i \in vol[v] /\ st.owner[v][i.name] = None
              /\ i.name \notin NameTable[q.game] /\ st.prepared[v] # q.game
  BY <1>4, <1>6, <1>8 DEF OwnedOn, WhoseSave, Learned, Presumed, Shared
<1>11. SUFFICES ASSUME NEW h \in fresh'
       PROVE  /\ LearnedFor(h)' \in {{}, st'.synced[h]}
              /\ \A v \in Targets[h] :
                   /\ st'.held[v] = LearnedOn(v, None)'
                   /\ \A i \in LearnedOn(v, None)' : i.name \notin NameTable[h] /\ st'.prepared[v] # h
  BY <1>5 DEF AllLearned
<1>12. CASE h = q.game
  <2>1. st'.synced[h] = Mine(q) /\ LearnedFor(h)' = Mine(q)
    BY <1>1, <1>2, <1>4, <1>9, <1>12 DEF CollectBlob, CollectSynced, Mine
  <2> QED
    BY <1>3, <1>8, <1>10, <1>12, <2>1
<1>13. CASE h # q.game
  <2>1. h \in fresh /\ h \in Games /\ q.claims = {}
    BY <1>1, <1>13 DEF FreshTyped
  <2>2. /\ LearnedFor(h) \in {{}, st.synced[h]}
        /\ \A v \in Targets[h] :
             /\ st.held[v] = LearnedOn(v, None)
             /\ \A i \in LearnedOn(v, None) : i.name \notin NameTable[h] /\ st.prepared[v] # h
    BY <2>1 DEF AllLearned
  <2>3. CASE Targets[h] = Targets[q.game]
    <3>1. LearnedFor(h)' = Owned(q, h)
      BY <1>9, <2>1, <2>3
    <3>2. Owned(q, h) \in {{}, st'.synced[h]}
      <4>1. CASE h = q.comp
        <5>1. Owned(q, h) = Theirs(q)
          BY <2>1, <4>1, ConstantsTyped DEF Theirs
        <5> QED
          BY <1>1, <1>13, <2>1, <4>1, <5>1 DEF CollectBlob, CollectSynced
      <4>2. CASE h # q.comp
        <5>1. ASSUME NEW v \in Targets[h] PROVE OwnedOn(q, v, h) = LearnedOn(v, h)
          BY <1>6, <1>13, <2>1, <2>3, <4>2, ConstantsTyped DEF OwnedOn, LearnedOn, WhoseSave, Learned, Shared
        <5>2. Owned(q, h) = LearnedFor(h)
          BY <2>3, <5>1 DEF Owned, LearnedFor
        <5>3. st'.synced[h] = st.synced[h]
          BY <1>1, <1>13, <2>1, <4>2 DEF CollectBlob, CollectSynced
        <5> QED
          BY <2>2, <5>2, <5>3
      <4> QED
        BY <4>1, <4>2
    <3>3. \A v \in Targets[h] : \A i \in LearnedOn(v, None)' : i \in LearnedOn(v, None)
      BY <1>10, <2>3 DEF LearnedOn
    <3> QED
      BY <1>3, <1>8, <2>2, <2>3, <3>1, <3>2, <3>3
  <2>4. CASE Targets[h] # {} /\ Targets[h] \cap Targets[q.game] = {}
    <3>1. h # q.comp
      BY <1>4, <2>1, <2>4, ConstantsTyped DEF Alike, Asks
    <3>2. st'.synced[h] = st.synced[h]
      BY <1>1, <1>13, <2>1, <3>1 DEF CollectBlob, CollectSynced
    <3>3. ASSUME NEW v \in Targets[h]
          PROVE  st'.held[v] = st.held[v] /\ \A who : LearnedOn(v, who)' = LearnedOn(v, who)
      <4>1. v \in Volumes /\ v \notin Targets[q.game]
        BY <2>1, <2>4, ConstantsTyped
      <4>2. st'.held[v] = st.held[v] /\ \A n \in Names : st'.owner[v][n] = st.owner[v][n]
        BY <1>1, <4>1 DEF CollectBlob, NoteVolumes, Shared, LearnOwners
      <4>3. \A i \in vol[v] : i.name \in Names
        BY <4>1 DEF IInv, TypeOK, Item
      <4> QED
        BY <1>1, <4>2, <4>3 DEF LearnedOn
    <3>4. LearnedFor(h)' = LearnedFor(h)
      BY <3>3 DEF LearnedFor
    <3> QED
      BY <1>3, <2>2, <3>2, <3>3, <3>4
  <2>5. Targets[h] = Targets[q.game] \/ Targets[h] \cap Targets[q.game] = {}
    BY <1>4, <2>1 DEF Alike
  <2>6. CASE Targets[h] = {}
    BY <2>6 DEF LearnedFor
  <2> QED
    BY <2>3, <2>4, <2>5, <2>6
<1> QED
  BY <1>12, <1>13

LEMMA FreshInit == ClientInit => FreshInv
<1> SUFFICES ASSUME ClientInit PROVE FreshInv
  OBVIOUS
<1>1. Init /\ IInv
  BY InitSound DEF ClientInit
<1> QED
  BY <1>1 DEF FreshInv, FreshTyped, AllLearned, Unreplaced, Among, ClientInit, Init, Idle, NewBlob

LEMMA FreshStays ==
  ASSUME Alike, OnlyManaged, FreshInv, [ClientNext]_<<vars, clientVars>>
  PROVE  FreshInv'
<1> USE DEF FreshInv
<1>1. [Next]_vars
  BY ClientStep
<1>2. IInv'
  BY <1>1, StepSound
<1>3. call.op \in {"idle", "restore"} /\ call'.op \in {"idle", "restore"}
  BY <1>2 DEF IInv, TypeOK
<1>4. call'.op = "restore" => Unreplaced(call'.blob)
  <2>1. CASE call.op = "idle" /\ call'.op = "restore"
    <3>1. PICK q : AsksRestore(q) /\ RestoreBegin(q)
      BY <1>1, <2>1, CallStarts
    <3>2. Asks(q) /\ q.mode = "managed" /\ (TheirsIn(q) # {} => q.comp # None)
      BY <3>1 DEF AsksRestore, Asks, OnlyManaged, TheirsIn
    <3>3. Among(LearnOwners(q, q.unit, TheirsIn(q)))
      BY <3>2, LearnAmong DEF Unreplaced
    <3>4. call'.blob.owner = LearnOwners(q, q.unit, TheirsIn(q)) /\ call'.blob.restored = st.restored
      BY <3>1, <3>2 DEF RestoreBegin, RestoreBlob
    <3> QED
      BY <3>3, <3>4 DEF Unreplaced
  <2>2. CASE call.op = "restore" /\ call'.op = "restore"
    BY <1>1, <2>2, CallKeeps
  <2> QED
    BY <1>3, <2>1, <2>2
<1>5. FreshTyped' /\ Unreplaced(st') /\ AllLearned'
  <2>1. ASSUME NEW g \in Games, NEW m \in Modes, NEW c \in Claimable, NEW k \in Companions[g] \cup {None},
               ~strayed, UNCHANGED strayed, ClientCollects(CollectRequest(g, m, c, k))
        PROVE  FreshTyped' /\ Unreplaced(st') /\ AllLearned'
    <3>1. PICK q : q = CollectRequest(g, m, c, k)
      OBVIOUS
    <3>2. Asks(q) /\ ClientCollects(q) /\ q.comp # q.game /\ q.game \in Games
      BY <2>1, <3>1, CollectAsks, NoSelfCompanion, ConstantsTyped DEF CollectRequest
    <3>3. FreshTyped'
      BY <2>1, <3>2 DEF FreshTyped, ClientCollects
    <3> QED
      BY <3>2, <3>3, CollectFresh
  <2>2. ASSUME fresh' = {}, Unreplaced(st') PROVE FreshTyped' /\ Unreplaced(st') /\ AllLearned'
    BY <2>2 DEF FreshTyped, AllLearned
  <2>3. ASSUME UNCHANGED <<st, vol, fresh, strayed>> PROVE FreshTyped' /\ Unreplaced(st') /\ AllLearned'
    BY <2>3 DEF FreshTyped, AllLearned, Unreplaced, LearnedFor, LearnedOn
  <2>4. CASE Restores /\ UNCHANGED record /\ UNCHANGED strayed
    BY <2>3, <2>4 DEF Restores, RestoreBegin, record
  <2>5. CASE \E v \in Volumes : ClientWrites(v)
    BY <2>2, <2>5 DEF ClientWrites, RestoreWrite
  <2>6. CASE ClientRestored
    BY <2>2, <2>6 DEF ClientRestored, RestoreEnd
  <2>7. CASE Emulator /\ fresh' = {}
    BY <2>2, <2>7 DEF Emulator, EmulatorSaves, EmulatorDeletes, EmulatorCorrupts, EmulatorTruncates,
                      CoreLoads, CoreUnloads
  <2>8. (Unreplaced(st') /\ fresh' = {}) \/ ~(Strays \/ (strayed /\ Anything))
    <3>1. CASE Collects /\ fresh' = {}
      <4>1. PICK g \in Games, m \in Modes, c \in Claimable :
              \E k \in Companions[g] \cup {None} : Collect(CollectRequest(g, m, c, k))
        BY <3>1 DEF Collects
      <4>2. PICK k \in Companions[g] \cup {None} : Collect(CollectRequest(g, m, c, k))
        BY <4>1
      <4>3. PICK q : q = CollectRequest(g, m, c, k)
        OBVIOUS
      <4>4. Asks(q)
        BY <4>3, CollectAsks
      <4>5. st' \in {st, CollectBlob(q)}
        BY <4>2, <4>3 DEF Collect
      <4>6. Unreplaced(CollectBlob(q))
        <5>1. Among(LearnOwners(q, Mine(q), Theirs(q)))
          BY <4>4, LearnAmong DEF Unreplaced, Theirs
        <5> QED
          BY <5>1 DEF Unreplaced, CollectBlob
      <4> QED
        BY <3>1, <4>5, <4>6
    <3>2. CASE Next /\ ~Collects /\ fresh' = {}
      BY <3>2 DEF Next, Restores, RestoreBegin, RestoreWrite, RestoreEnd, RestoreFails, Emulator, EmulatorSaves,
                  EmulatorDeletes, EmulatorCorrupts, EmulatorTruncates, CoreLoads, CoreUnloads
    <3>3. Strays \/ (strayed /\ Anything) => Next /\ fresh' = {}
      BY DEF Strays, Anything, Next, FreshTyped, clientVars
    <3> QED
      BY <3>1, <3>2, <3>3
  <2>9. CASE UNCHANGED <<vars, clientVars>>
    BY <2>3, <2>9 DEF vars, clientVars
  <2> QED
    BY <2>1, <2>2, <2>4, <2>5, <2>6, <2>7, <2>8, <2>9 DEF ClientNext, Follows
<1> QED
  BY <1>2, <1>4, <1>5

\* sync.md:109-111: where games that share a volume share them all, once every
\* game was collected and nothing was written since, no managed restore is
\* refused with SIGIL_ERR_UNCOLLECTED: sync_volumes.c:262-298 finds every other
\* game's saves as last synced, and the rest in the last holding.
THEOREM CollectingClears == Alike /\ OnlyManaged => (ClientSpec => []UncollectedClears)
<1> SUFFICES ASSUME Alike, OnlyManaged PROVE ClientSpec => []UncollectedClears
  OBVIOUS
<1>1. ASSUME FreshInv PROVE UncollectedClears
  <2>1. SUFFICES ASSUME fresh = Games, NEW g \in Games, NEW u \in library[g], NEW q,
                        q = RestoreRequest(g, "managed", {}, None, u, {}, TRUE)
                 PROVE  Swappable(q)
    BY DEF UncollectedClears, RestoreCode, Uncollected, RestoreRequest
  <2>2. q.game = g /\ q.claims = {} /\ q.comp = None /\ q.mode = "managed" /\ g # None
    BY <2>1, ConstantsTyped DEF RestoreRequest
  <2>3. \A v \in Targets[g] : v \notin PerGame
    BY DEF Alike
  <2>4. ASSUME NEW v \in Targets[g]
        PROVE  OwnedOn(q, v, None) = LearnedOn(v, None) /\ LearnedOn(v, None) = st.held[v]
    <3>1. \A i \in LearnedOn(v, None) : i.name \notin NameTable[g] /\ st.prepared[v] # g
      BY <1>1, <2>1 DEF FreshInv, AllLearned
    <3>2. OwnedOn(q, v, None) = LearnedOn(v, None)
      BY <2>2, <2>3, <3>1 DEF OwnedOn, LearnedOn, WhoseSave, Learned, Presumed
    <3> QED
      BY <1>1, <2>1, <3>2 DEF FreshInv, AllLearned
  <2>5. ASSUME NEW h \in Games \ Ours(q)
        PROVE  Owned(q, h) \in {{}, st.synced[h]}
    <3>1. h # g /\ h # None
      BY <2>2, ConstantsTyped DEF Ours
    <3>2. ASSUME NEW v \in Targets[g] PROVE OwnedOn(q, v, h) = LearnedOn(v, h)
      BY <2>2, <2>3, <3>1 DEF OwnedOn, LearnedOn, WhoseSave, Learned
    <3>3. CASE Targets[h] = Targets[g]
      <4>1. Owned(q, h) = LearnedFor(h)
        BY <2>2, <3>2, <3>3 DEF Owned, LearnedFor
      <4> QED
        BY <1>1, <2>1, <4>1 DEF FreshInv, AllLearned
    <3>4. CASE Targets[h] \cap Targets[g] = {}
      <4>1. \A v \in Targets[g] : \A i \in vol[v] : v \in Volumes /\ i.name \in Names
        BY <1>1, ConstantsTyped DEF FreshInv, IInv, TypeOK, Item
      <4>2. \A v \in Targets[g] : LearnedOn(v, h) = {}
        BY <1>1, <3>1, <3>4, <4>1 DEF LearnedOn, FreshInv, Unreplaced, Among
      <4> QED
        BY <2>2, <3>2, <4>2 DEF Owned
    <3> QED
      BY <3>3, <3>4 DEF Alike
  <2> QED
    BY <2>2, <2>4, <2>5 DEF Swappable, Shared
<1>2. FreshInv /\ [ClientNext]_<<vars, clientVars>> => FreshInv'
  BY FreshStays
<1> QED
  BY <1>1, <1>2, FreshInit, PTL DEF ClientSpec
=============================================================================
