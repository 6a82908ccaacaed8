------------------------------ MODULE SyncCards ------------------------------
(***************************************************************************)
(* sigil_collect and sigil_restore on card platforms (src/src/sync_cards.c *)
(* and sync_folder_cards.c, with sync.c and sync_units.c): the saves of a  *)
(* game and its companion, on the game's own card and on the shared cards  *)
(* beside it.  A raw card is one file, written whole; a folder card        *)
(* (PCSX2) keeps each save as a directory, written file by file.           *)
(*                                                                         *)
(* A save is the set of its files, a hash the set of parts it covers.  The *)
(* name of a PS1 or PS2 save starts with its game's id, so the name says   *)
(* whose it is.                                                            *)
(***************************************************************************)
EXTENDS FiniteSets, Naturals

CONSTANTS
  Games,        \* the game ids in play
  Names,        \* names of saves
  Owner,        \* Owner[n]: the game whose id n carries
  Files,        \* file names inside a save
  Data,         \* what a file can hold
  Cards,        \* places a card can be
  Own,          \* Own[g]: g's own card, or None when all its cards are shared
  Folders,      \* the cards that are folder cards
  Slot,         \* Slot[c]: c's place in the layout
  Capacity,     \* saves a card holds
  Companions,   \* Companions[g]: the titles g's calls may list
  Modes,        \* the modes the client uses, out of "managed", "unmanaged"
  Repairs,      \* the values of the request's `repair` in play
  Damage,       \* what emulators may break, out of "flaw", "corrupt"
  Copied,       \* a save may come to be on two cards: the user copies it, or an
                \* emulator makes it anew while a restore puts it elsewhere
  ServerUnits,  \* [Games -> SUBSET SUBSET Part], units already in RomM
  Writable,     \* saves emulators write
  InitSlots,    \* what the cards may start as
  MaxEdits,     \* bound: steps of emulators
  MaxCalls,     \* bound: collects and restores
  None          \* no card, no game, no record

Part == [name : Names, file : Files, data : Data]
NamesIn(s) == {p.name : p \in s}
Whole(s) == \A p, r \in s : p.name = r.name /\ p.file = r.file => p = r

ASSUME ConstantsTyped ==
  /\ Owner \in [Names -> Games]
  /\ Own \in [Games -> Cards \cup {None}]
  /\ Folders \subseteq Cards
  /\ Slot \in [Cards -> Nat]
  /\ Capacity \in [Cards -> Nat]
  /\ Companions \in [Games -> SUBSET Games]
  /\ Modes \subseteq {"managed", "unmanaged"}
  /\ Repairs \subseteq BOOLEAN /\ Copied \in BOOLEAN
  /\ Damage \subseteq {"flaw", "corrupt"}
  /\ ServerUnits \in [Games -> SUBSET SUBSET Part]
  /\ Writable \subseteq SUBSET Part
  /\ InitSlots \subseteq [Cards -> {"none", "erased", "card"}]
  /\ MaxEdits \in Nat /\ MaxCalls \in Nat
  /\ None \notin Games \cup Cards

\* A unit holds saves of its own game, and Files of one name have one value.
ASSUME UnitsSound ==
  \A g \in Games : \A u \in ServerUnits[g] : Whole(u) /\ \A p \in u : Owner[p.name] = g
\* A companion is another game (sigil.h:600), and the layout with its settings
\* says whether games have a card of their own (sync_cards.c:94-95).
ASSUME NoSelfCompanion == \A g \in Games : g \notin Companions[g]
ASSUME OwnAlike == (\A g \in Games : Own[g] # None) \/ (Cards # {} /\ \A g \in Games : Own[g] = None)
ASSUME WritableSound == \A s \in Writable : Whole(s) /\ Cardinality(NamesIn(s)) = 1
\* A folder card is known by what its directory holds (sync_folder_cards.c:11).
ASSUME FoldersThere == \A i \in InitSlots, c \in Folders : i[c] = "card"

VARIABLES
  card,      \* card[c]: the parts of the saves on c
  slot,      \* slot[c]: no file, an empty or erased file, or a card
  flawed,    \* cards whose check fails; for a folder card, no usable superblock
  corrupt,   \* corrupt[c]: names of saves on c that no longer read
  st,        \* the state blob as the client stored it
  library,   \* library[g]: every unit of g that reached RomM
  call,      \* the restore under way: what it still has to write
  edits,     \* emulator steps taken, up to MaxEdits
  calls      \* collects and restores made, up to MaxCalls

vars == <<card, slot, flawed, corrupt, st, library, call, edits, calls>>

(***************************************************************************)
(* The cards a call reads: files in the order of the layout, then folder   *)
(* cards.  An empty or erased file holds no card.                          *)
(***************************************************************************)
SharedCards == Cards \ {Own[g] : g \in Games}
CardsOf(g) == SharedCards \cup ({Own[g]} \ {None})
Loaded(g) == {c \in CardsOf(g) : slot[c] = "card"}

Before(c, d) == IF c \in Folders <=> d \in Folders THEN Slot[c] < Slot[d] ELSE d \in Folders
FirstOf(s) == CHOOSE c \in s : \A d \in s \ {c} : Before(c, d)
LastOf(s) == CHOOSE c \in s : \A d \in s \ {c} : Before(d, c)

\* The game's own card; of shared cards the first one there, or the first.
Primary(g) ==
  LET there == {c \in SharedCards : slot[c] # "none"}
      first(s) == CHOOSE c \in s : \A d \in s : Slot[c] <= Slot[d]
  IN IF Own[g] # None THEN Own[g] ELSE first(IF there = {} THEN SharedCards ELSE there)

NamesOn(c) == NamesIn(card[c])
Holders(g, n) == {c \in Loaded(g) : n \in NamesOn(c)}

Ours(q) == {q.game, q.comp} \ {None}

\* Of a save two cards hold, the first card's is read.
LocalOf(q, h) ==
  {p \in UNION {card[c] : c \in Loaded(q.game)} :
     Owner[p.name] = h /\ p \in card[FirstOf(Holders(q.game, p.name))]}
Mine(q) == LocalOf(q, q.game)
Theirs(q) == IF q.comp = None THEN {} ELSE LocalOf(q, q.comp)

\* A file that fails its check, or a corrupt save of the game or its companion.
Damaged(q) ==
  \E c \in Loaded(q.game) :
    \/ c \in flawed \ Folders /\ ~q.repair
    \/ \E n \in corrupt[c] : Owner[n] \in Ours(q)

(***************************************************************************)
(* Collect.                                                                *)
(***************************************************************************)
Blob == [synced : [Games -> SUBSET Part],
         restored : [Games -> {None} \cup [new : SUBSET Part, old : SUBSET Part]]]
NewBlob == [synced |-> [g \in Games |-> {}], restored |-> [g \in Games |-> None]]

RestoreAgain(q) ==
  LET restored == st.restored[q.game]
  IN restored # None /\ Mine(q) # restored.new /\ Mine(q) = restored.old

CollectBlob(q) ==
  [synced |-> [g \in Games |->
                 IF g = q.game THEN IF RestoreAgain(q) THEN st.synced[g] ELSE Mine(q)
                 ELSE IF g = q.comp /\ Theirs(q) # {} THEN Theirs(q)
                 ELSE st.synced[g]],
   restored |-> IF RestoreAgain(q) THEN st.restored ELSE [st.restored EXCEPT ![q.game] = None]]

Uploads(q, g) ==
  {u \in {LocalOf(q, g)} :
     g \in Ours(q) /\ ~(g = q.game /\ RestoreAgain(q)) /\ u \notin {{}, st.synced[g]}}

MayCall == call.op = "idle" /\ calls < MaxCalls

\* The client uploads what it got, then stores the blob; it may die before
\* either.  A refused call changes nothing.
Collect(q) ==
  /\ MayCall
  /\ calls' = calls + 1
  /\ ~Damaged(q)
  /\ \E uploaded, stored \in BOOLEAN :
       /\ stored => uploaded
       /\ library' = IF uploaded THEN [g \in Games |-> library[g] \cup Uploads(q, g)] ELSE library
       /\ st' = IF stored THEN CollectBlob(q) ELSE st
  /\ UNCHANGED <<card, slot, flawed, corrupt, call, edits>>

(***************************************************************************)
(* Restore.  The request also carries the game's unit, the companion's     *)
(* unit or {}, and whether the user agreed to replace changed saves.       *)
(***************************************************************************)
CompanionRestored(q) == q.cunit # {}
Incoming(q) == q.unit \cup q.cunit

BlocksRestore(q, local, incoming, last) ==
  local # incoming /\ local # {} /\ local # last /\ ~q.overwrite

\* Mutant: only the game's own saves are looked at.
ConflictOfGame(q) == BlocksRestore(q, Mine(q), q.unit, st.synced[q.game])

Conflict(q) ==
  \/ BlocksRestore(q, Mine(q), q.unit, st.synced[q.game])
  \/ CompanionRestored(q) /\ BlocksRestore(q, Theirs(q), q.cunit, st.synced[q.comp])

AlreadyThere(q) == Mine(q) = q.unit /\ (CompanionRestored(q) => Theirs(q) = q.cunit)
Repairing(q) == q.repair /\ (Loaded(q.game) \cap flawed) \ Folders # {}
MustPlace(q) == ~AlreadyThere(q) \/ Repairing(q)

\* Mutant: the saves of every companion are cleared.
ReplacedEvery(q) == Ours(q)

Replaced(q) == {q.game} \cup (IF CompanionRestored(q) THEN {q.comp} ELSE {})
IsReplaced(q, p) == Owner[p.name] \in Replaced(q)

\* Mutant: every save goes on the game's own card.
PlaceOnPrimary(q, n) == Primary(q.game)

\* A save goes back on the last card that held it, a new one on the game's own.
Place(q, n) == IF Holders(q.game, n) = {} THEN Primary(q.game) ELSE LastOf(Holders(q.game, n))

\* Mutant: the game's old saves are not taken off first.
KeptAll(q, c) == card[c]

Kept(q, c) == {p \in card[c] : ~IsReplaced(q, p)}
Final(q, c) == Kept(q, c) \cup {p \in Incoming(q) : Place(q, p.name) = c}

\* Every card that lost or took a save, was repaired, or is made for this.
Changed(q) ==
  {c \in Loaded(q.game) : \E p \in card[c] : IsReplaced(q, p)}
    \cup {Place(q, n) : n \in NamesIn(Incoming(q))}
    \cup ({Primary(q.game)} \ Loaded(q.game))
    \cup (IF q.repair THEN (Loaded(q.game) \cap flawed) \ Folders ELSE {})

\* A folder card is packed with the saves the game sees, other games' left out.
Counted(q, c) == {n \in NamesIn(Final(q, c)) : c \in Folders => Owner[n] \in Ours(q)}
NoRoom(q) == \E c \in Changed(q) : Cardinality(Counted(q, c) \cup corrupt[c]) > Capacity[c]

\* A folder card that hides the saves it holds is left alone without `repair`.
Hidden(q) == ~q.repair /\ \E c \in Changed(q) \cap Folders : c \in flawed /\ card[c] # {}

\* The first refusal in the order of the code; "OK" when it goes ahead.
RestoreCode(q) ==
  IF Damaged(q) THEN "DAMAGED"
  ELSE IF Conflict(q) THEN "CONFLICT"
  ELSE IF ~MustPlace(q) THEN "OK"
  ELSE IF NoRoom(q) THEN "NO_SPACE"
  ELSE IF Hidden(q) THEN "DAMAGED"
  ELSE "OK"

\* A raw card is one write.  A folder card takes a superblock when it then has
\* no usable one, the files of each save rewritten, and then the removals.
Step == [kind : {"image", "superblock"}, on : Cards] \cup [kind : {"put", "drop"}, on : Cards, part : Part]

\* Mutant: a folder card without a usable superblock is left so.
SuperblockNever(q, c) == {}

Superblock(q, c) == {[kind |-> "superblock", on |-> c]}

Puts(q, c) == {[kind |-> "put", on |-> c, part |-> p] : p \in {r \in Final(q, c) : IsReplaced(q, r)}}

\* Mutant: the files a rewritten save lacks stay.
DropsOfGone(q, c) ==
  {[kind |-> "drop", on |-> c, part |-> p] :
     p \in {r \in card[c] : IsReplaced(q, r) /\ r.name \notin NamesIn(Final(q, c))}}

Drops(q, c) ==
  {[kind |-> "drop", on |-> c, part |-> p] :
     p \in {r \in card[c] : IsReplaced(q, r) /\ \A o \in Final(q, c) : o.name # r.name \/ o.file # r.file}}

Steps(q, c) ==
  IF c \in Folders THEN Superblock(q, c) \cup Puts(q, c) \cup Drops(q, c) ELSE {[kind |-> "image", on |-> c]}

RestoreBlob(q) ==
  [synced |-> [g \in Games |-> IF g = q.game THEN q.unit
                               ELSE IF g = q.comp /\ CompanionRestored(q) THEN q.cunit
                               ELSE st.synced[g]],
   restored |-> IF q.mode = "managed" THEN st.restored
                ELSE [st.restored EXCEPT ![q.game] = [new |-> q.unit, old |-> Mine(q)]]]

\* What the user agreed to lose: the saves overwrite_local lets it replace.
Agreed(q) ==
  IF q.overwrite THEN UNION {{p \in card[c] : IsReplaced(q, p)} : c \in Loaded(q.game)} ELSE {}

Disk == [c \in Cards |-> <<card[c], corrupt[c]>>]

Idle == [op |-> "idle", req |-> None, todo |-> {}, made |-> {}, agreed |-> {}, blob |-> NewBlob,
         read |-> [c \in Cards |-> <<{}, {}>>], final |-> [c \in Cards |-> {}], since |-> 0]

\* Every card is read, checked and built before the first write.
RestoreBegin(q) ==
  /\ MayCall
  /\ calls' = calls + 1
  /\ RestoreCode(q) = "OK"
  /\ call' = [op |-> "restore", req |-> q, agreed |-> Agreed(q), blob |-> RestoreBlob(q), read |-> Disk,
              todo |-> IF MustPlace(q) THEN UNION {Steps(q, c) : c \in Changed(q)} ELSE {},
              made |-> IF MustPlace(q) THEN {Primary(q.game)} \ Loaded(q.game) ELSE {},
              final |-> [c \in Cards |-> IF MustPlace(q) /\ c \in Changed(q) THEN Final(q, c) ELSE card[c]],
              since |-> edits]
  /\ UNCHANGED <<card, slot, flawed, corrupt, st, library, edits>>

\* The cards go one by one, a card made for this restore last.
Earlier(c, d) == c # d /\ (IF c \in call.made \/ d \in call.made THEN d \in call.made ELSE Before(c, d))
Phase(s) == CASE s.kind = "superblock" -> 0 [] s.kind = "drop" -> 2 [] OTHER -> 1
Turn(s) ==
  \A t \in call.todo : ~Earlier(t.on, s.on) /\ (t.on = s.on => Phase(t) >= Phase(s))

PutPart(s, p) == {r \in s : r.name # p.name \/ r.file # p.file} \cup {p}

Took(s) == call' = [call EXCEPT !.todo = @ \ {s}]

\* The image read, with the game's saves replaced, over whatever is there now.
WriteImage(s) ==
  /\ s \in call.todo /\ s.kind = "image" /\ Turn(s)
  /\ Took(s)
  /\ card' = [card EXCEPT ![s.on] = call.final[s.on]]
  /\ corrupt' = [corrupt EXCEPT ![s.on] = call.read[s.on][2]]
  /\ slot' = [slot EXCEPT ![s.on] = "card"]
  /\ flawed' = flawed \ {s.on}
  /\ UNCHANGED <<st, library, edits, calls>>

\* Read again just before: nothing is written over a usable one.
WriteSuperblock(s) ==
  /\ s \in call.todo /\ s.kind = "superblock" /\ Turn(s)
  /\ Took(s)
  /\ flawed' = flawed \ {s.on}
  /\ UNCHANGED <<card, slot, corrupt, st, library, edits, calls>>

WriteFile(s) ==
  /\ s \in call.todo /\ s.kind = "put" /\ Turn(s)
  /\ Took(s)
  /\ card' = [card EXCEPT ![s.on] = PutPart(@, s.part)]
  /\ UNCHANGED <<slot, flawed, corrupt, st, library, edits, calls>>

RemoveFile(s) ==
  /\ s \in call.todo /\ s.kind = "drop" /\ Turn(s)
  /\ Took(s)
  /\ card' = [card EXCEPT ![s.on] = {p \in @ : p.name # s.part.name \/ p.file # s.part.file}]
  /\ UNCHANGED <<slot, flawed, corrupt, st, library, edits, calls>>

RestoreEnd ==
  /\ call.op = "restore" /\ call.todo = {}
  /\ st' = call.blob
  /\ call' = Idle
  /\ UNCHANGED <<card, slot, flawed, corrupt, library, edits, calls>>

\* A write or its verify fails, or the client dies before it stores the blob.
RestoreFails ==
  /\ call.op = "restore"
  /\ call' = Idle
  /\ UNCHANGED <<card, slot, flawed, corrupt, st, library, edits, calls>>

(***************************************************************************)
(* Emulators and the user, who play while an unmanaged restore runs.       *)
(***************************************************************************)
MayEdit == edits < MaxEdits /\ (call.op = "restore" => call.req.mode = "unmanaged")

\* A save written whole, on a card the emulator formats when there is none.
EmulatorSaves(c, s) ==
  /\ MayEdit /\ c \notin flawed
  /\ \A n \in NamesIn(s) : Copied \/ \A d \in Cards \ {c} : n \notin NamesOn(d) \cup NamesIn(call.final[d])
  /\ card' = [card EXCEPT ![c] = {p \in @ : p.name \notin NamesIn(s)} \cup s]
  /\ card'[c] # card[c]
  /\ Cardinality(NamesIn(card'[c]) \cup corrupt[c]) <= Capacity[c]
  /\ slot' = [slot EXCEPT ![c] = "card"]
  /\ corrupt' = [corrupt EXCEPT ![c] = @ \ NamesIn(s)]
  /\ edits' = edits + 1
  /\ UNCHANGED <<flawed, st, library, call, calls>>

EmulatorDeletes(c, n) ==
  /\ MayEdit
  /\ n \in NamesOn(c)
  /\ card' = [card EXCEPT ![c] = {p \in @ : p.name # n}]
  /\ edits' = edits + 1
  /\ UNCHANGED <<slot, flawed, corrupt, st, library, call, calls>>

EmulatorCorrupts(c, n) ==
  /\ MayEdit /\ "corrupt" \in Damage /\ c \notin Folders
  /\ n \in NamesOn(c)
  /\ card' = [card EXCEPT ![c] = {p \in @ : p.name # n}]
  /\ corrupt' = [corrupt EXCEPT ![c] = @ \cup {n}]
  /\ edits' = edits + 1
  /\ UNCHANGED <<slot, flawed, st, library, call, calls>>

EmulatorFlaws(c) ==
  /\ MayEdit /\ "flaw" \in Damage
  /\ slot[c] = "card" /\ c \notin flawed
  /\ flawed' = flawed \cup {c}
  /\ edits' = edits + 1
  /\ UNCHANGED <<card, slot, corrupt, st, library, call, calls>>

Emulator ==
  \E c \in Cards :
    \/ \E s \in Writable : EmulatorSaves(c, s)
    \/ \E n \in Names : EmulatorDeletes(c, n) \/ EmulatorCorrupts(c, n)
    \/ EmulatorFlaws(c)

(***************************************************************************)
(* The specification.                                                      *)
(***************************************************************************)
CollectRequest(g, m, k, r) == [game |-> g, mode |-> m, comp |-> k, repair |-> r]

RestoreRequest(g, m, k, u, w, o, r) ==
  [game |-> g, mode |-> m, comp |-> k, unit |-> u, cunit |-> w, overwrite |-> o, repair |-> r]

RestoreRequests ==
  [game : Games, mode : Modes, comp : Games \cup {None}, unit : SUBSET Part, cunit : SUBSET Part,
   overwrite : BOOLEAN, repair : Repairs]

CompanionUnits(k) == {{}} \cup (IF k = None THEN {} ELSE library[k])

Collects ==
  \E g \in Games, m \in Modes, r \in Repairs :
    \E k \in Companions[g] \cup {None} : Collect(CollectRequest(g, m, k, r))

Restores ==
  \E g \in Games, m \in Modes, o \in BOOLEAN, r \in Repairs :
    \E k \in Companions[g] \cup {None}, u \in library[g] :
      \E w \in CompanionUnits(k) : RestoreBegin(RestoreRequest(g, m, k, u, w, o, r))

Writes == \E s \in call.todo : WriteImage(s) \/ WriteSuperblock(s) \/ WriteFile(s) \/ RemoveFile(s)

Init ==
  /\ slot \in InitSlots
  /\ card = [c \in Cards |-> {}]
  /\ flawed = {}
  /\ corrupt = [c \in Cards |-> {}]
  /\ st = NewBlob
  /\ library = ServerUnits
  /\ call = Idle
  /\ edits = 0
  /\ calls = 0

Next == Collects \/ Restores \/ Writes \/ RestoreEnd \/ RestoreFails \/ Emulator

Spec == Init /\ [][Next]_vars

(***************************************************************************)
(* Properties.                                                             *)
(***************************************************************************)
Passed == UNION {UNION library[g] : g \in Games}
Managed == call.op = "restore" /\ call.req.mode = "managed"

\* Shape of the state: a card holds one file of a name in a save, and saves
\* only where there is a card.
TypeOK ==
  /\ card \in [Cards -> SUBSET Part] /\ \A c \in Cards : Whole(card[c])
  /\ slot \in [Cards -> {"none", "erased", "card"}]
  /\ \A c \in Cards : slot[c] # "card" => card[c] = {}
  /\ flawed \subseteq Cards
  /\ corrupt \in [Cards -> SUBSET Names]
  /\ st \in Blob
  /\ library \in [Games -> SUBSET SUBSET Part]
  /\ call \in [op : {"idle", "restore"}, req : {None} \cup RestoreRequests, todo : SUBSET Step,
              made : SUBSET Cards, agreed : SUBSET Part, blob : Blob,
              read : [Cards -> (SUBSET Part) \X SUBSET Names], final : [Cards -> SUBSET Part], since : 0..MaxEdits]
  /\ edits \in 0..MaxEdits
  /\ calls \in 0..MaxCalls

\* docs/sync.md:55-56: a save is on one of a game's cards at a time, also
\* after a restore that died between two cards, as long as the user copied
\* none: sigil reads the first copy and would replace the others unseen.
OneCard ==
  \A n \in Names : \A c, d \in CardsOf(Owner[n]) : n \in NamesOn(c) \cap NamesOn(d) => c = d

\* What holds of the cards between any two steps: types, and one card for a
\* save (docs/sync.md:55-56).
CardsSound == TypeOK /\ OneCard

\* sync.md "Refusals": a restore takes off the cards only files of saves that
\* reached RomM, unless the user agreed to overwrite them, and puts there only
\* such files; one that dies between two files has done no more than that.
\* Managed calls: beside an unmanaged one the emulator writes as it likes.
Custody == INSTANCE SaveCustody WITH
  Places <- Cards, Saves <- Part,
  disk <- {p \in Cards \X Part : p[2] \in card[p[1]]},
  safe <- Passed, agreed <- IF Managed THEN call.agreed ELSE {}, busy <- Managed

CustodyKept == Custody!Spec

\* sync.md:56-57: a restore "never touches another game's save", nor those of
\* a companion it has no unit for; corrupt saves stay too.  On a raw card it
\* may undo what an emulator did since the card was read, and nothing more.
OthersStay ==
  [][ call.op = "restore" /\ call'.op = "restore" /\ call.todo # call'.todo =>
        \A c \in Cards :
          /\ call.read[c] = <<card[c], corrupt[c]>> => corrupt'[c] = corrupt[c]
          /\ \A p \in card[c] \ card'[c] :
               \/ Owner[p.name] = call.req.game
               \/ Owner[p.name] = call.req.comp /\ CompanionRestored(call.req)
               \/ p \notin call.read[c][1]
          /\ \A p \in card'[c] \ card[c] : p \in Incoming(call.req) \cup call.read[c][1] ]_vars

\* Nothing wrote to the cards since the restore read them but the restore.
Undisturbed == edits = call.since

\* sync_state.c:8: once a restore returned, the saves collect finds are those
\* the blob records as synced, folder cards and second copies included.
RestoreExact ==
  [][ RestoreEnd /\ Undisturbed =>
        \A q \in {call.req} :
          /\ Mine(q)' = st'.synced[q.game]
          /\ CompanionRestored(q) => Theirs(q)' = st'.synced[q.comp] ]_vars

\* sync.md:55-56: "Restore puts each save back on the card it was on".
PutBack ==
  [][ RestoreEnd /\ Undisturbed =>
        \A n \in NamesIn(Incoming(call.req)), c \in CardsOf(call.req.game) :
          n \in NamesIn(call.read[c][1]) => n \in NamesOn(c) ]_vars

\* docs/platforms/ps2.md:63-66: a card a restore wrote shows its saves: its
\* check passes, and a folder card has a superblock PCSX2 reads.
WrittenShows ==
  [][ RestoreEnd /\ Undisturbed =>
        \A c \in CardsOf(call.req.game) : call.final[c] # call.read[c][1] => c \notin flawed ]_vars

\* ps2.md:63-66: "with `repair`" restore "writes a new superblock".
RepairHeals ==
  [][ RestoreEnd /\ Undisturbed /\ call.req.repair =>
        \A c \in Loaded(call.req.game) : Mine(call.req) \cap card[c] # {} => c \notin flawed ]_vars
=============================================================================
