---------------------------- MODULE ProfileRoots ----------------------------
(* Resolving a layout whose saves are folders: where the client's root sits  *)
(* in the emulator's folders, the profiles the emulator lists, which files   *)
(* are the game's for the profile settled on, and where a member of a unit   *)
(* goes.  The emulator writes below its base folder; there may be a copy of  *)
(* it.  Paths on the disk are whole; what a client lists is below its root.  *)
EXTENDS ProfileLayouts, FiniteSets, SequencesExt

CONSTANTS
  FolderRequests,  \* [layout, save_id, game] a client resolves
  Games,       \* [layouts -> sets of [category, folders, extdata, installs]]: games on the disk
  Slots,       \* [layouts -> profiles of the emulator]
  Asked,       \* [layouts -> what a client may ask for, None or a profile]
  Files,       \* [layouts -> files of a save folder]
  Bases,       \* [layouts -> folders that may hold the emulator's]
  Begins,      \* pairs of a folder's name and the save id it begins with
  LowerOf,     \* [profiles with capitals -> the same without]
  MaxSaves     \* [layouts -> files of saves on the disk at a time]

VARIABLES
  request,     \* the request, with its row
  sent,        \* [root, known, profile]: the root listed, whether its own path is sent, the profile asked for
  disk         \* [whole paths -> what the emulator wrote there]

vars == <<request, sent, disk>>

----------------------------------------------------------------------------
(* Templates. *)

Variables == {"{profile}", "{save_id}", "{extdata_id}", "{category}"}

Width(row, segment) == IF segment = "{save_id}" THEN row.save_id_segments ELSE 1

\* Where in a path segment i of template t begins; {save_id} is in it once.
Start(row, t, i) == IF \E j \in 1..(i - 1) : t[j] = "{save_id}" THEN i + row.save_id_segments - 1 ELSE i

Size(row, t) == Start(row, t, Len(t)) + Width(row, t[Len(t)]) - 1

\* Template and path agree as far as both go.
Reached(row, t, path) == {i \in DOMAIN t : Start(row, t, i) <= Len(path)}
walk(row, t, path) == \A i \in Reached(row, t, path) : t[i] \in Variables \/ t[i] = path[Start(row, t, i)]

\* What the variables stand for; <<>> for one not reached.
Bound(row, t, path) ==
  [v \in Variables |->
     LET at == {i \in Reached(row, t, path) : t[i] = v} IN
       IF at = {} THEN <<>>
       ELSE LET first == Start(row, t, CHOOSE i \in at : TRUE)
                last == first + Width(row, v) - 1 IN
              SubSeq(path, first, IF last <= Len(path) THEN last ELSE Len(path))]

in_folder(row, t, path) == Len(path) > Size(row, t) /\ walk(row, t, path)
Rest(row, t, path) == SubSeq(path, Size(row, t) + 1, Len(path))
is_file(row, t, path) == Len(path) = Size(row, t) /\ walk(row, t, path)

Expands(t, v) == \A i \in DOMAIN t : t[i] \in Variables => v[t[i]] # <<>>
expand(t, v, rest) == FlattenSeq([i \in DOMAIN t |-> IF t[i] \in Variables THEN v[t[i]] ELSE <<t[i]>>]) \o rest

\* The part of a template before its first variable.
Lead(t) == Min({i \in DOMAIN t : t[i] \in Variables} \cup {Len(t) + 1}) - 1
literal_lead(t) == SubSeq(t, 1, Lead(t))
Literal(t) == Lead(t) = Len(t)

\* A path goes past the template's lead, or is all of one that is all lead.
PassesLead(row, t, path) == walk(row, t, path) /\ Len(path) >= Lead(t) + (IF Literal(t) THEN 0 ELSE 1)

\* The places of a row that has an account folder for this name: a device
\* folder spells it out.
device_folder_name(row, name) ==
  \E i \in DOMAIN row.folders : row.folders[i].area = "device" /\ name \in Range(row.folders[i].template)

----------------------------------------------------------------------------
(* The game. *)

save_id_fits(at, name) == name = at.save_id \/ (at.row.prefix /\ <<name, at.save_id>> \in Begins)

\* Mutant: any title of the code.
game_fits_anywhere(at, v) ==
  /\ v["{save_id}"] = <<>> \/ save_id_fits(at, v["{save_id}"])
  /\ v["{save_id}"] # <<>> \/ v["{extdata_id}"] \in {<<>>, at.extdata}

\* A walk's folder is the game's: by its save id, or by the extdata id that
\* gives, in its category.  A name with neither stands for the game.
game_fits(at, v) ==
  /\ v["{category}"] \in {<<>>, at.category}
  /\ v["{save_id}"] = <<>> \/ save_id_fits(at, v["{save_id}"])
  /\ v["{save_id}"] # <<>> \/ v["{extdata_id}"] \in {<<>>, at.extdata}

\* What a walk left out, so that any template expands.
Filled(at, v) ==
  [v EXCEPT !["{category}"] = IF @ = <<>> THEN at.category ELSE @,
            !["{save_id}"] = IF @ = <<>> THEN at.save_id ELSE @,
            !["{extdata_id}"] = IF @ = <<>> THEN at.extdata ELSE @]

----------------------------------------------------------------------------
(* Where the root sits: `below` is the root's folder under the base, `above` *)
(* the base's under the root. *)

Listing(s, d) == {SubSeq(path, Len(s.root) + 1, Len(path)) : path \in {p \in DOMAIN d : IsStrictPrefix(s.root, p)}}

Under(prefix, path) == SubSeq(path, Len(prefix) + 1, Len(path))
BaseReaches(at, path) == IsPrefix(at.above, path)
to_base(at, path) == at.below \o Under(at.above, path)

\* Mutant: every folder is in reach.
RootReachesAll(at, base_path) == TRUE

RootReaches(at, base_path) == IsPrefix(at.below, base_path)
to_root(at, base_path) == at.above \o Under(at.below, base_path)

Templates(row) == ({row.list} \ {None}) \cup {row.folders[i].template : i \in DOMAIN row.folders}

\* A listed path from its first `top` on is one of the layout.
Tops(row, path) == {i \in DOMAIN path : path[i] = row.top}
LayoutAt(row, path) == Min(Tops(row, path))
layout_path(row, path) ==
  Tops(row, path) # {} /\ \E t \in Templates(row) : PassesLead(row, t, SubSeq(path, LayoutAt(row, path), Len(path)))

find_above(row, listing) ==
  {SubSeq(path, 1, LayoutAt(row, path) - 1) : path \in {p \in listing : layout_path(row, p)}}

\* From the last segment named `top` on.
find_top(row, path) == Max(Tops(row, path) \cup {0})
folder_from(path, first) == SubSeq(path, first, Len(path))

inside_save_folder(at) ==
  \E i \in DOMAIN at.row.folders :
    LET t == at.row.folders[i].template IN
      in_folder(at.row, t, at.below) /\ game_fits(at, Bound(at.row, t, at.below))

\* A save id names its category, or takes the row's.
Split(r) == r.profiles.category # None /\ Len(r.save_id) > 1

Situated(r, below, above) ==
  [row |-> r.profiles, save_id |-> IF Split(r) THEN Tail(r.save_id) ELSE r.save_id,
   category |-> CASE r.profiles.category = None -> <<>> [] Split(r) -> <<Head(r.save_id)>>
                  [] OTHER -> <<r.profiles.category>>,
   extdata |-> r.game.extdata, below |-> below, above |-> above, profiles |-> {}, profile |-> None, rc |-> "ok"]

SituatedInside(at) == IF inside_save_folder(at) THEN [at EXCEPT !.rc = "invalid"] ELSE at

SituatedAbove(r, found) ==
  CASE Cardinality(found) = 1 -> Situated(r, <<>>, CHOOSE above \in found : TRUE)
    [] Cardinality(found) > 1 -> [Situated(r, <<>>, <<>>) EXCEPT !.rc = "ambiguous"]
    [] OTHER -> Situated(r, <<>>, <<>>)

Located(r, s, listing) ==
  IF s.known /\ find_top(r.profiles, s.root) > 0
  THEN SituatedInside(Situated(r, folder_from(s.root, find_top(r.profiles, s.root)), <<>>))
  ELSE SituatedAbove(r, find_above(r.profiles, listing))

----------------------------------------------------------------------------
(* Profiles. *)

\* A listed file the root can reach, by its path below the base.
Readable(at, s, d, base_path) == RootReaches(at, base_path) /\ s.root \o to_root(at, base_path) \in DOMAIN d
ReadAt(at, s, d, base_path) == d[s.root \o to_root(at, base_path)]

BasePaths(at, s, d) == {to_base(at, path) : path \in {p \in Listing(s, d) : BaseReaches(at, p)}}

ignored(row, rest) == \E name \in row.ignored : rest = <<name>>

names_account(row, folder, path) ==
  /\ folder.area = "account"
  /\ in_folder(row, folder.template, path)
  /\ ~ignored(row, Rest(row, folder.template, path))
  /\ ~device_folder_name(row, Bound(row, folder.template, path)["{profile}"][1])

folder_profiles(at, s, d) ==
  UNION {{Bound(at.row, folder.template, path)["{profile}"][1] :
            path \in {p \in BasePaths(at, s, d) : names_account(at.row, folder, p)}} : folder \in Range(at.row.folders)}

list_reachable(at) == at.row.list # None /\ RootReaches(at, literal_lead(at.row.list))

\* The yuzu forks' one file.
list_profiles(at, s, d) ==
  IF Readable(at, s, d, at.row.list) THEN ReadAt(at, s, d, at.row.list).profiles ELSE {}

\* One file per profile.
file_profiles(at, s, d) ==
  {Bound(at.row, at.row.list, path)["{profile}"][1] : path \in {p \in BasePaths(at, s, d) : is_file(at.row, at.row.list, p)}}

Listed(at, s, d) ==
  CASE at.row.fixed_profile # None -> {at.row.fixed_profile}
    [] at.row.fixed_profile = None /\ ~list_reachable(at) -> folder_profiles(at, s, d)
    [] OTHER -> IF Literal(at.row.list) THEN list_profiles(at, s, d) ELSE file_profiles(at, s, d)

\* The profile whose folder `below` lies in.
implied_profile(row, below) ==
  LET named == {Bound(row, row.folders[i].template, below)["{profile}"] :
                  i \in {i \in DOMAIN row.folders : row.folders[i].area = "account" /\ walk(row, row.folders[i].template, below)}}
      profiles == {name \in named : name # <<>> /\ ~device_folder_name(row, name[1])} IN
    IF profiles = {} THEN None ELSE (CHOOSE name \in profiles : TRUE)[1]

Lower(id) == IF id \in DOMAIN LowerOf THEN LowerOf[id] ELSE id

\* A listed profile whatever the case, else the id as given.
pick(listed, id) == IF \E q \in listed : Lower(q) = Lower(id) THEN CHOOSE q \in listed : Lower(q) = Lower(id) ELSE id

\* The profile asked for, or the only one.
Settle(listed, asked) ==
  CASE asked # None -> pick(listed, asked)
    [] asked = None /\ Cardinality(listed) = 1 -> CHOOSE q \in listed : TRUE
    [] OTHER -> None

Settled(at, listed, profile) ==
  IF device_folder_name(at.row, profile) THEN [at EXCEPT !.rc = "invalid"]
  ELSE [at EXCEPT !.profiles = listed, !.profile = profile]

SettledAmong(at, listed, asked) == Settled(at, listed, Settle(listed, asked))

Opening(at, s, d) ==
  IF at.rc # "ok" THEN at
  ELSE SettledAmong(at, Listed(at, s, d), IF s.profile # None THEN s.profile ELSE implied_profile(at.row, at.below))

sigil_profile_root_open(r, s, d) == Opening(Located(r, s, Listing(s, d)), s, d)

----------------------------------------------------------------------------
(* Files. *)

\* Game data that is installed: its PARAM.SFO says it is no save.
game_data_install(at, s, d, folder) ==
  LET sfo == folder \o <<"PARAM.SFO">> IN Readable(at, s, d, sfo) /\ ReadAt(at, s, d, sfo).kind = "install"

\* Folders of the row that take a file of the game's for `profile`.
TakesFor(at, profile, folder, v) ==
  /\ game_fits(at, v)
  /\ folder.area = "device" \/ (profile # None /\ v["{profile}"] = <<profile>>)

FoldersOf(at, profile, base_path) ==
  {i \in DOMAIN at.row.folders :
     /\ in_folder(at.row, at.row.folders[i].template, base_path)
     /\ TakesFor(at, profile, at.row.folders[i], Bound(at.row, at.row.folders[i].template, base_path))}

NoFile == [area |-> "none", entry |-> <<>>]

AreaIn(at, s, d, folder, v, rest) ==
  IF \/ ignored(at.row, rest)
     \/ at.row.savedata_only /\ game_data_install(at, s, d, expand(folder.template, v, <<>>))
     \/ ~Expands(folder.entry, v)
  THEN NoFile ELSE [area |-> folder.area, entry |-> expand(folder.entry, v, rest)]

AreaOfFolder(at, s, d, folder, base_path) ==
  AreaIn(at, s, d, folder, Filled(at, Bound(at.row, folder.template, base_path)), Rest(at.row, folder.template, base_path))

AreaOfFirst(at, s, d, folders, base_path) ==
  IF folders = {} THEN NoFile ELSE AreaOfFolder(at, s, d, at.row.folders[Min(folders)], base_path)

\* The first such folder's area, and the file's name in the unit.
area_of(at, s, d, profile, base_path) == AreaOfFirst(at, s, d, FoldersOf(at, profile, base_path), base_path)

\* The game's files in the listing, by their path below the root.
sigil_profile_files(at, s, d, profile) ==
  {f \in {[path |-> path, of |-> area_of(at, s, d, profile, to_base(at, path))] :
            path \in {p \in Listing(s, d) : BaseReaches(at, p)}} : f.of # NoFile}

\* No profile is settled on and one of several holds saves of the game.
sigil_profile_undecided(at, s, d) ==
  /\ at.profile = None /\ Cardinality(at.profiles) > 1
  /\ \E q \in at.profiles : \E f \in sigil_profile_files(at, s, d, q) : f.of.area = "account"

Placed(rc, area, path, entry) == [rc |-> rc, area |-> area, path |-> path, entry |-> entry]
Refused(rc) == Placed(rc, "none", <<>>, <<>>)

\* Folders that take a member.
Named(at, entry, legacy) ==
  {i \in DOMAIN at.row.folders :
     LET name == IF legacy THEN at.row.folders[i].legacy ELSE at.row.folders[i].entry IN
       name # None /\ in_folder(at.row, name, entry) /\ game_fits(at, Bound(at.row, name, entry))}

\* Where the folder is, and whether the root reaches it.
PlaceAt(at, folder, own, base_path) ==
  CASE RootReaches(at, base_path) -> Placed("ok", folder.area, to_root(at, base_path), own)
    [] ~RootReaches(at, base_path) /\ folder.rebuilt -> Placed("skip", folder.area, <<>>, own)
    [] OTHER -> Refused("no_target")

ForProfile(at, folder, v) ==
  IF folder.area = "account" /\ at.profile # None THEN [v EXCEPT !["{profile}"] = <<at.profile>>] ELSE v

PlaceRest(at, folder, v, rest) ==
  IF ~Expands(folder.entry, v) THEN Refused("not_found")
  ELSE IF ignored(at.row, rest) THEN Placed("skip", folder.area, <<>>, expand(folder.entry, v, rest))
  ELSE IF folder.area = "account" /\ at.profile = None THEN Refused("no_target")
  ELSE IF ~Expands(folder.template, ForProfile(at, folder, v)) THEN Refused("not_found")
  ELSE PlaceAt(at, folder, expand(folder.entry, v, rest), expand(folder.template, ForProfile(at, folder, v), rest))

PlaceIn(at, folder, name, entry) ==
  PlaceRest(at, folder, Filled(at, Bound(at.row, name, entry)), Rest(at.row, name, entry))

\* A row's own names come before an older unit's.
PlaceNamed(at, entry, current, older) ==
  CASE current # {} -> PlaceIn(at, at.row.folders[Min(current)], at.row.folders[Min(current)].entry, entry)
    [] current = {} /\ older # {} -> PlaceIn(at, at.row.folders[Min(older)], at.row.folders[Min(older)].legacy, entry)
    [] OTHER ->
         IF \E t \in at.row.dropped : in_folder(at.row, t, entry) /\ game_fits(at, Bound(at.row, t, entry))
         THEN Placed("skip", "none", <<>>, entry) ELSE Refused("not_found")

\* Where a member of a unit goes for the profile settled on.
sigil_profile_place(at, entry) == PlaceNamed(at, entry, Named(at, entry, FALSE), Named(at, entry, TRUE))

\* What a resolve takes: the members of the unit, by their paths.
Resolves(at, s, d) == at.rc = "ok" /\ ~sigil_profile_undecided(at, s, d)
resolve_profiles(at, s, d) == sigil_profile_files(at, s, d, at.profile)

\* The base folder and the profile for a path, for a client to list there.
sigil_save_base(row, path) ==
  LET first == find_top(row, path) IN
    IF first = 0 THEN [base |-> path, profile |-> None]
    ELSE [base |-> SubSeq(path, 1, first - 1), profile |-> implied_profile(row, folder_from(path, first))]

----------------------------------------------------------------------------
(* What happens. *)

\* The emulator's folder for a save: of a game, in folder i of the row, by a
\* name the game gives it, for a profile.
Of(game, name, slot) ==
  [v \in Variables |-> CASE v = "{profile}" -> <<slot>> [] v = "{save_id}" -> name
                         [] v = "{extdata_id}" -> game.extdata [] OTHER -> game.category]

KeptIn(row, i, game, name, slot, file) == expand(row.folders[i].template, Of(game, name, slot), file)

Wrote(kind, save, profiles) == [kind |-> kind, save |-> save, profiles |-> profiles]
NoSave == [base |-> <<>>, folder |-> 0, game |-> None, name |-> <<>>, slot |-> None]

TheRow == request.profiles
Written == {path \in DOMAIN disk : disk[path].kind # "list"}
Put(path, wrote) == disk' = [p \in DOMAIN disk \cup {path} |-> IF p = path THEN wrote ELSE disk[p]]

\* A save, in a folder of its own; or a file the emulator keeps there.
EmulatorSaves ==
  \E base \in Bases[request.layout], i \in DOMAIN TheRow.folders, game \in Games[request.layout], slot \in Slots[request.layout] :
  \E name \in game.folders, file \in Files[request.layout] :
    /\ Cardinality(Written) < MaxSaves[request.layout]
    /\ Put(base \o KeptIn(TheRow, i, game, name, slot, file),
           Wrote(IF ignored(TheRow, file) THEN "own" ELSE "save",
                 [base |-> base, folder |-> i, game |-> game, name |-> name,
                  slot |-> IF TheRow.folders[i].area = "account" THEN slot ELSE None], {}))
    /\ UNCHANGED <<request, sent>>

\* Data a game installs beside its saves, PARAM.SFO first.
EmulatorInstalls ==
  \E base \in Bases[request.layout], game \in Games[request.layout], slot \in Slots[request.layout] :
  \E name \in game.installs, file \in {<<"PARAM.SFO">>} \cup Files[request.layout] :
    LET folder == base \o KeptIn(TheRow, 1, game, name, slot, <<>>) IN
      /\ Cardinality(Written) < MaxSaves[request.layout]
      /\ file = <<"PARAM.SFO">> \/ folder \o <<"PARAM.SFO">> \in DOMAIN disk
      /\ Put(folder \o file, Wrote("install", NoSave, {}))
      /\ UNCHANGED <<request, sent>>

\* The emulator lists a profile: in its one file, or by a file of its own.
EmulatorLists ==
  \E slot \in Slots[request.layout], base \in Bases[request.layout] :
    LET one == Literal(TheRow.list)
        path == base \o IF one THEN TheRow.list ELSE expand(TheRow.list, Of([category |-> <<>>, extdata |-> <<>>], <<>>, slot), <<>>)
        there == IF one /\ path \in DOMAIN disk THEN disk[path].profiles ELSE {} IN
      /\ TheRow.list # None
      /\ Put(path, Wrote("list", NoSave, there \cup {slot}))
      /\ UNCHANGED <<request, sent>>

\* The client lists the base folder instead, for the profile it was pointed at.
ListsBase ==
  LET at == sigil_save_base(TheRow, sent.root) IN
    /\ sent' = [sent EXCEPT !.root = at.base, !.profile = IF @ = None THEN at.profile ELSE @]
    /\ UNCHANGED <<request, disk>>

\* Every folder on the way to a file of the game's.
Roots(r) ==
  LET row == profiles_row(r.layout)
      kept == {base \o KeptIn(row, i, r.game, name, slot, file) :
                 base \in Bases[r.layout], i \in DOMAIN row.folders, name \in r.game.folders,
                 slot \in Slots[r.layout], file \in Files[r.layout]} IN
    UNION {{SubSeq(path, 1, n) : n \in 0..(Len(path) - 1)} : path \in kept}

\* A client points at a folder and asks for a profile or none.  Inside the
\* emulator's folders it sends its root's own path.
Init ==
  /\ request \in {[layout |-> r.layout, save_id |-> r.save_id, game |-> r.game, profiles |-> profiles_row(r.layout)] :
                    r \in FolderRequests}
  /\ sent \in [root : Roots(request), known : BOOLEAN, profile : Asked[request.layout]]
  /\ sent.known \/ sent.root \in Bases[request.layout] \cup {<<>>}
  /\ disk = <<>>

Next == EmulatorSaves \/ EmulatorInstalls \/ EmulatorLists \/ ListsBase

Spec == Init /\ [][Next]_vars

----------------------------------------------------------------------------
(* Properties. *)

Opened == sigil_profile_root_open(request, sent, disk)

Within(folder) == \E path \in DOMAIN disk : IsStrictPrefix(folder, path)

\* Bases the root lies in, or that hold something below it.
BasesAround ==
  {base \in Bases[request.layout] : IsPrefix(base, sent.root) \/ (IsPrefix(sent.root, base) /\ Within(base))}

\* The profiles whose folders the root lies in.
ProfilesAround ==
  {slot \in Slots[request.layout] :
     \E i \in DOMAIN TheRow.folders, game \in Games[request.layout], base \in Bases[request.layout] :
     \E name \in game.folders :
       LET t == TheRow.folders[i].template
           last == Min({n \in DOMAIN t : t[n] = "{profile}"}) IN
         /\ TheRow.folders[i].area = "account"
         /\ IsPrefix(base \o expand(SubSeq(t, 1, last), Of(game, name, slot), <<>>), sent.root)}

TakesTheGame(at, files, taken) ==
  /\ taken = {path \in Written : /\ IsStrictPrefix(sent.root, path) /\ disk[path].kind = "save"
                                 /\ disk[path].save.game = request.game
                                 /\ disk[path].save.slot \in {None, at.profile}}
  /\ \A path \in taken, other \in Written \ taken : disk[other].kind = "save" => disk[other].save # disk[path].save
  /\ \A f, g \in files : f.of.entry = g.of.entry => f = g

Collects(at, files) ==
  /\ at.rc = "ambiguous" <=> Cardinality(BasesAround) > 1
  /\ at.rc = "ok" /\ sent.profile = None /\ ProfilesAround # {} => at.profile \in ProfilesAround
  /\ Resolves(at, sent, disk) => TakesTheGame(at, files, {sent.root \o f.path : f \in files})

CollectsAt(at) == Collects(at, resolve_profiles(at, sent, disk))

\* A save is collected whole, with no other: wherever the client points, a
\* resolve takes every file below the root that the emulator keeps for the
\* game and the profile or for every profile, no file of another game, title
\* category, profile or copy, none of the emulator's own or of installed
\* data, and all of a save folder or none; every file has a name of its own
\* in the unit.  The root's own path decides the profile when none is asked
\* for, and two copies below the root are refused
\* (save_profiles.c:291, 321, 358, 1030, save_unit.c:589).
CollectsTheGame == CollectsAt(Opened)

EntryOf(i, game, name, file) == expand(TheRow.folders[i].entry, Of(game, name, None), file)
OlderOf(i, game, name, file) == expand(TheRow.folders[i].legacy, Of(game, name, "80000009"), file)

\* Where the base around the root keeps a file of the game's.
TheBase == IF BasesAround = {} THEN sent.root ELSE CHOOSE base \in BasesAround : TRUE

GoesTo(at, folder, place, kept, entry, file) ==
  /\ place.rc = (CASE ignored(TheRow, file) -> "skip"
                   [] ~ignored(TheRow, file) /\ folder.area = "account" /\ at.profile = None -> "no_target"
                   [] OTHER -> IF IsPrefix(sent.root, kept) THEN "ok" ELSE IF folder.rebuilt THEN "skip" ELSE "no_target")
  /\ place.rc = "ok" => sent.root \o place.path = kept /\ place.entry = entry

OwnGoes(at, base) ==
  \A i \in DOMAIN TheRow.folders, name \in request.game.folders, file \in Files[request.layout] :
    \A entry \in {EntryOf(i, request.game, name, file)}
                   \cup (IF TheRow.folders[i].legacy = None THEN {} ELSE {OlderOf(i, request.game, name, file)}) :
      GoesTo(at, TheRow.folders[i], sigil_profile_place(at, entry), base \o KeptIn(TheRow, i, request.game, name, at.profile, file),
             EntryOf(i, request.game, name, file), file)

OthersStay(at) ==
  /\ \A i \in DOMAIN TheRow.folders, game \in Games[request.layout], file \in Files[request.layout] :
     \A name \in game.folders \ request.game.folders :
       sigil_profile_place(at, EntryOf(i, game, name, file)).rc = "not_found"
  /\ \A t \in TheRow.dropped, name \in request.game.folders :
       sigil_profile_place(at, expand(t, Of(request.game, name, None), <<"x">>)).rc = "skip"

Places(at, base) ==
  at.rc = "ok" =>
    /\ OwnGoes(at, base)
    /\ OthersStay(at)
    /\ \A f \in resolve_profiles(at, sent, disk) :
         sigil_profile_place(at, f.of.entry) = Placed("ok", f.of.area, f.path, f.of.entry)

\* What is placed is what was collected: a member goes where the emulator of
\* the base around the root keeps that file for the profile settled on, under
\* the name a collect gives it; it is refused when that is out of the root's
\* reach, unless the emulator writes the folder again itself; an older unit's
\* name goes to the same place; another game's and installed content go
\* nowhere (save_profiles.c:1114-1154).
PlacesServe == Places(Opened, TheBase)
=============================================================================
