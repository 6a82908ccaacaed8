------------------------------ MODULE GciFolder ------------------------------
(***************************************************************************)
(* Dolphin's GCI folder as sigil reads and fills it                        *)
(* (src/src/sync_gci_folder.c): each save is a .gci file, known by the     *)
(* identity in its header, whatever the file's name.  A folder is a        *)
(* function from paths to files.                                           *)
(*                                                                         *)
(* A path is <<name, zeros>>: a name and the zeros put before ".gci" when  *)
(* it is taken; pairs sort as the names do.  A save whose own name ends in *)
(* zeros has them in its IdName.                                           *)
(***************************************************************************)
EXTENDS Naturals, FiniteSets, Sequences, SequencesExt, FiniteSetsExt

CONSTANTS
  Ids,        \* identities: game code, maker and file name
  IdGame,     \* IdGame[i]: the game whose code i carries
  IdName,     \* IdName[i]: the path Dolphin gives i's file when none has it
  IdBlocks,   \* IdBlocks[i]: the blocks i's save takes
  Region,     \* Region[g]: the Dolphin region of game g
  MaxZeros,   \* zeros put in a name, 10 in the code
  DataBlocks, \* blocks of the card Dolphin takes the folder for
  Tenth,      \* a part of them kept free from other games, 10 in the code
  OthersMax,  \* saves after which no other game's load, 112 in the code
  EntriesMax, \* saves a card's directory holds, 127 in the code
  Broken,     \* what a file holds that is no save
  None        \* no file

Names(i) == {<<IdName[i][1], IdName[i][2] + z>> : z \in 0..MaxZeros}
Path == UNION {Names(i) : i \in Ids}
File(i, data) == [id |-> i, data |-> data]
Before(p, r) == p[1] < r[1] \/ (p[1] = r[1] /\ p[2] < r[2])
FirstPath(s) == CHOOSE p \in s : \A r \in s \ {p} : Before(p, r)

(***************************************************************************)
(* Reading.  Of two files with one identity Dolphin loads the first by     *)
(* name and refuses the other, which is stale.                             *)
(***************************************************************************)
Listed(d) == {p \in Path : d[p] # None}
Saves(d) == {p \in Listed(d) : d[p].data # Broken}
Holding(d, i) == {p \in Saves(d) : d[p].id = i}

PathOf(d, i) == FirstPath(Holding(d, i))
Ours(games) == {i \in Ids : IdGame[i] \in games}
LocalIds(d, games) == {i \in Ours(games) : Holding(d, i) # {}}
Local(d, games) == {d[PathOf(d, i)] : i \in LocalIds(d, games)}
Stale(d, games) ==
  {p \in Saves(d) : IdGame[d[p].id] \in games /\ p # PathOf(d, d[p].id)}

(***************************************************************************)
(* Placing.  `in` holds the files that come, `games` whose saves are read, *)
(* `gone` whose saves the restore replaces.                                *)
(***************************************************************************)
\* Mutant: a name another file has is taken over.
NameFreeAlways(d, i) == Names(i)

\* Mutant: zeros are put in the name of a save that has its file, too.
TargetAnew(d, i) == IF Names(i) \ Listed(d) = {} THEN None ELSE FirstPath(Names(i) \ Listed(d))

NameFree(d, i) == Names(i) \ Listed(d)

\* Over the game's file with the identity, else under the first name free.
Target(d, i) ==
  IF Holding(d, i) # {} THEN PathOf(d, i)
  ELSE IF NameFree(d, i) = {} THEN None ELSE FirstPath(NameFree(d, i))

IdsIn(in) == {f.id : f \in in}

\* Mutant: the saves of every companion the unit lacks go.
GoesOfAll(d, games, gone, in) == {PathOf(d, i) : i \in LocalIds(d, games) \ IdsIn(in)}

\* The game's files, and those of a companion with a unit, the units lack.
Goes(d, games, gone, in) == {PathOf(d, i) : i \in LocalIds(d, games \cap gone) \ IdsIn(in)}

Removed(d, games, gone, in) == Goes(d, games, gone, in) \cup Stale(d, games)
Exists(d, in) == \E f \in in : Target(d, f.id) = None

(***************************************************************************)
(* What Dolphin loads: the running game's files, then other games' while a *)
(* part of the card stays free, each in the order of the names.            *)
(***************************************************************************)
At(p, f) == [path |-> p, id |-> f.id, data |-> f.data]

Reserve == DataBlocks \div Tenth

First(v, game) ==
  LET mine(f) == IdGame[f.id] = game
  IN CHOOSE f \in v : \A o \in v \ {f} : IF mine(f) = mine(o) THEN ~Before(o.path, f.path) ELSE mine(f)

Fits(f, game, got) ==
  LET free == DataBlocks - MapThenSumSet(LAMBDA o : IdBlocks[o.id], got)
  IN IF IdGame[f.id] = game THEN IdBlocks[f.id] <= free /\ Cardinality(got) < EntriesMax
     ELSE Cardinality(got) <= OthersMax /\ free >= IdBlocks[f.id] + Reserve

Loaded(v, game) ==
  LET from[rest \in SUBSET v, got \in SUBSET v] ==
        IF rest = {} THEN got
        ELSE LET f == First(rest, game)
                 twin == \E o \in got : o.id = f.id
             IN from[rest \ {f}, IF ~twin /\ Fits(f, game, got) THEN got \cup {f} ELSE got]
  IN from[v, {}]

Incoming(d, in) == {At(Target(d, f.id), f) : f \in in}
Staying(d, games, gone, in) ==
  {At(p, d[p]) : p \in Listed(d) \ (Removed(d, games, gone, in) \cup {Target(d, f.id) : f \in in})}

\* Mutant: only the blocks of the unit's own files are counted.
NoSpaceAlone(d, game, games, gone, in) ==
  MapThenSumSet(LAMBDA f : IdBlocks[f.id], in) > DataBlocks

\* A file that comes and would not load; a twin's place is not looked at.
NoSpace(d, game, games, gone, in) ==
  LET got == Loaded(Incoming(d, in) \cup Staying(d, games, gone, in), game)
  IN \E f \in Incoming(d, in) \ got : \A o \in got : o.id # f.id

\* Dolphin loads no file that is not a save.
Shows(d, game) == {[id |-> f.id, data |-> f.data] : f \in Loaded({At(p, d[p]) : p \in Saves(d)}, game)}

\* A companion's save from another region (sync_units.c:627).
Foreign(game, in) == \E f \in in : Region[IdGame[f.id]] # Region[game]

Code(d, game, games, gone, in, remove) ==
  IF Removed(d, games, gone, in) # {} /\ ~remove THEN "INVALID_ARG"
  ELSE IF Exists(d, in) THEN "EXISTS"
  ELSE IF NoSpace(d, game, games, gone, in) THEN "NO_SPACE"
  ELSE "OK"

\* The files that come, then the removals, the stale files last; those of one
\* turn in any order.
Turns(d, games, gone, in) ==
  <<{[path |-> Target(d, f.id), data |-> f] : f \in in},
    {[path |-> p, data |-> None] : p \in Goes(d, games, gone, in)},
    {[path |-> p, data |-> None] : p \in Stale(d, games)}>>
==============================================================================
