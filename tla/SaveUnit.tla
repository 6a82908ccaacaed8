------------------------------ MODULE SaveUnit ------------------------------
(* What the program takes for a game's save: from a listing of the save root *)
(* and the options a client sends, the files that are the game's, those it   *)
(* expects, those every game shares, those it would take under other         *)
(* options, the hashes it compares and where a restore writes volumes.  The  *)
(* core writes files under its own options, which the client may not send.   *)
EXTENDS SaveLayouts

CONSTANTS
  Requests,   \* [layout, platform, identified, features, region] a client resolves
  Contents,   \* [layouts -> sets of [form, data, pack]]; form "bytes", "zip" or "rzip"
  Subs,       \* [layouts -> names of files in a folder, or for a '*']
  Values,     \* values of options that take any
  MaxFiles,   \* [layouts -> files in the save root at a time]
  MaxSent     \* options a client sends at a time

VARIABLES
  request,    \* the request, without the options, with its row of the table
  sent,       \* the value sent for each of the row's options, None for one left out
  disk        \* [paths -> contents] of the save root

vars == <<request, sent, disk>>

----------------------------------------------------------------------------
(* Names. *)

Holds(options, c) ==
  \/ options[c.key] = None /\ c.default
  \/ options[c.key] = c.value

Applies(options, file) == \A i \in DOMAIN file.conditions : Holds(options, file.conditions[i])

\* What an option gives a variable.
OptionValue(options, var) ==
  LET o == VARIABLE_OPTIONS[var]
      value == IF options[o.key] \in {None, ""} THEN o.fallback ELSE options[o.key] IN
    IF var = "cart_size" /\ value \notin GPGX_CARTS THEN None ELSE value

\* None for what the identification did not find.
VariableValue(r, options, var) ==
  CASE var \in {"stem", "romset"} -> "stem"
    [] var \in DOMAIN VARIABLE_OPTIONS -> OptionValue(options, var)
    [] OTHER -> IF r.identified THEN var ELSE None

Expands(r, options, file) == \A i \in DOMAIN file.vars : VariableValue(r, options, file.vars[i]) # None

\* `sub` is a file's name in a folder, or what stands for the '*'.
Path(file, of, sub) == [dir |-> file.dir, of |-> of, rest |-> file.rest, sub |-> sub]
NoSub == ""

\* The name a template has; of a folder or a '*', what all its files begin with.
Expanded(r, options, file) ==
  Path(file, [i \in DOMAIN file.vars |-> VariableValue(r, options, file.vars[i])], NoSub)

\* Every file a template with one name or more stands for.
Fits(file, name, path) ==
  [path EXCEPT !.sub = NoSub] = name /\ (path.sub = NoSub <=> file.kind = "file")

\* Files of the row that apply under the options and have a name.
Taking(r, options) ==
  {file \in Range(r.row.files) : Applies(options, file) /\ Expands(r, options, file)}

----------------------------------------------------------------------------
(* The unit. *)

\* A client lists the root and the layout's folders.
Listing(r, d) == {p \in DOMAIN d : p.dir = "" \/ p.dir \in r.subdirs}

Member(path, role, folder) == [path |-> path, role |-> role, folder |-> folder]

Members(r, options, listing) ==
  UNION {{Member(p, file.role, file.kind = "folder") : p \in {p \in listing : Fits(file, Expanded(r, options, file), p)}} :
           file \in {f \in Taking(r, options) : ~f.shared}}

\* A folder of shared files is a name no listing of files has.
Unkeyed(r, options, listing) ==
  {Expanded(r, options, file) : file \in {f \in Taking(r, options) : f.shared /\ f.kind = "file"}} \cap listing

Expected(r, options, listing) ==
  {Expanded(r, options, file) :
     file \in {f \in Taking(r, options) :
                 /\ ~f.shared /\ f.kind = "file"
                 /\ \/ f.role = "primary"
                    \/ f.role = "rtc" /\ r.features = "rtc"}} \ listing

Shape(members) ==
  CASE members = {} -> "none"
    [] \E m \in members : m.folder -> "folder"
    [] OTHER -> IF Cardinality(members) = 1 THEN "single" ELSE "multi"

\* A mutant for the checks: only the first option.
AlternateOptionsFirst(options, file) ==
  {[key |-> c.key, value |-> c.value] : c \in {c \in {Head(file.conditions)} : ~Holds(options, c)}}

\* Options that select a file beside those sent.
AlternateOptions(options, file) ==
  {[key |-> c.key, value |-> c.value] : c \in {c \in Range(file.conditions) : ~Holds(options, c)}}

\* Listed files the row names and the options do not take: the first file of
\* the row with that name gives the options.
Alternates(r, options, listing) ==
  LET files == r.row.files
      name == [i \in {i \in DOMAIN files : files[i].kind = "file" /\ Expands(r, options, files[i])} |->
                 Expanded(r, options, files[i])]
      taken == {Expanded(r, options, file) : file \in Taking(r, options)} IN
    {[path |-> name[i], shared |-> files[i].shared, options |-> AlternateOptions(options, files[i])] :
       i \in {i \in DOMAIN name : /\ name[i] \in listing \ taken
                                  /\ \A j \in DOMAIN name : j < i => name[j] # name[i]}}

With(options, more) ==
  [key \in DOMAIN options |-> IF \E o \in more : o.key = key THEN (CHOOSE o \in more : o.key = key).value ELSE options[key]]

----------------------------------------------------------------------------
(* Hashes: MD5 as the thing it is of. *)

NoName == [of |-> <<>>, rest |-> "", sub |-> NoSub]

\* A compressed .srm is read as what it holds.
Read(c) == IF c.form = "rzip" THEN [form |-> "bytes", data |-> c.data, pack |-> 0] ELSE c

md5_stream(c) == [kind |-> "md5", of |-> {<<NoName, Read(c)>>}]

\* A zip hashes as the names and hashes of its entries, however it is packed.
hash_single(c) ==
  IF Read(c).form = "zip" THEN [kind |-> "named", of |-> {<<NoName, [form |-> "bytes", data |-> c.data, pack |-> 0]>>}]
  ELSE md5_stream(c)

Entry(path) == [of |-> path.of, rest |-> path.rest, sub |-> path.sub]

combined_hash(members, d) == [kind |-> "named", of |-> {<<Entry(m.path), Read(d[m.path])>> : m \in members}]

StateMembers(members) == {m \in members : m.role # "rtc"}

NoHash == [kind |-> "none", of |-> {}]

ContentHash(members, d) ==
  CASE Shape(members) = "none" -> NoHash
    [] Shape(members) = "single" -> hash_single(d[(CHOOSE m \in members : TRUE).path])
    [] OTHER -> combined_hash(members, d)

\* A mutant for the checks: the members' names always count.
IdentityHashNamed(members, d) ==
  IF StateMembers(members) = {} THEN ContentHash(members, d)
  ELSE IF Shape(members) = "single" THEN ContentHash(members, d) ELSE combined_hash(StateMembers(members), d)

IdentityHash(members, d) ==
  LET state == StateMembers(members) IN
    CASE Shape(members) \in {"none", "single"} -> ContentHash(members, d)
      [] Cardinality(state) = 1 -> hash_single(d[(CHOOSE m \in state : TRUE).path])
      [] OTHER -> combined_hash(state, d)

----------------------------------------------------------------------------
(* Where a restore writes a volume. *)

\* A mutant for the checks: "auto" is no region, not the game's.
RegionAsSent(r, options) ==
  LET option == r.row.region IN
    IF option = None \/ options[option] \notin DOMAIN REGION_VALUES THEN r.region ELSE REGION_VALUES[options[option]]

Region(r, options) ==
  LET option == r.row.region
      forced == IF option = None \/ options[option] \notin DOMAIN REGION_VALUES THEN "" ELSE REGION_VALUES[options[option]] IN
    IF forced = "" THEN r.region ELSE forced

\* A mutant for the checks: the first, listed or not.
FirstOfAny(names, which, listing) == names[Min(which)]

\* Of the row's files `which`, the first that is listed, else the first.
FirstOf(names, which, listing) ==
  LET present == {i \in which : names[i] \in listing} IN names[Min(IF present = {} THEN which ELSE present)]

Devices(r) == {file.device : file \in Range(r.row.files)} \ {"none"}

OnDevice(r, options, device) ==
  {i \in DOMAIN r.row.files : r.row.files[i].device = device /\ r.row.files[i] \in Taking(r, options)}

\* The row's own files first; among the shared ones those the region allows,
\* or the one file present; None where a region is needed to tell.
Target(r, options, listing, device) ==
  LET files == r.row.files
      on == OnDevice(r, options, device)
      names == [i \in on |-> Expanded(r, options, files[i])]
      own == {i \in on : ~files[i].shared}
      allowed == {i \in on : files[i].shared /\ files[i].region \in {"", Region(r, options)}}
      present == Range(names) \cap listing IN
    CASE own # {} -> FirstOf(names, own, listing)
      [] own = {} /\ allowed # {} -> FirstOf(names, allowed, listing)
      [] own = {} /\ allowed = {} /\ Cardinality(present) = 1 -> CHOOSE p \in present : TRUE
      [] OTHER -> None

TargetDevices(r, options) == {device \in Devices(r) : \E f \in Taking(r, options) : f.device = device}

\* Refused for all devices when one has no target.
Targets(r, options, listing) ==
  LET targets == [device \in TargetDevices(r, options) |-> Target(r, options, listing, device)] IN
    IF None \in Range(targets) THEN <<>> ELSE targets

----------------------------------------------------------------------------
(* What happens. *)

Listed == Listing(request, disk)
TheMembers == Members(request, sent, Listed)

\* Values that can be sent for an option: the catalog's, and any for one that
\* takes any.
Sendable(key) == {None} \cup (IF OptionValues(request.row, key) = {} THEN Values ELSE OptionValues(request.row, key))

\* Files the core writes, under whatever options it runs with: a name has at
\* most one option in it.
Settings == {sent} \cup UNION {{[sent EXCEPT ![key] = value] : value \in Sendable(key)} : key \in DOMAIN sent}

Names(file) ==
  {[Expanded(request, options, file) EXCEPT !.sub = sub] :
     options \in {o \in Settings : Expands(request, o, file)},
     sub \in IF file.kind = "file" THEN {NoSub} ELSE Subs[request.layout]}

CoreWrites ==
  \E file \in Range(request.row.files) : \E path \in Names(file), c \in Contents[request.layout] :
    /\ Cardinality(DOMAIN disk \cup {path}) <= MaxFiles[request.layout]
    /\ disk' = [p \in DOMAIN disk \cup {path} |-> IF p = path THEN c ELSE disk[p]]
    /\ UNCHANGED <<request, sent>>

CoreDeletes ==
  \E path \in DOMAIN disk :
    /\ disk' = [p \in DOMAIN disk \ {path} |-> disk[p]]
    /\ UNCHANGED <<request, sent>>

Sends(options) ==
  /\ Cardinality({key \in DOMAIN options : options[key] # None}) <= MaxSent
  /\ sent' = options
  /\ UNCHANGED <<request, disk>>

\* The client sends another value, or one less.
SendsOption == \E key \in DOMAIN sent : \E value \in Sendable(key) : Sends([sent EXCEPT ![key] = value])

\* The client takes up the options of an alternate.
Adopts == \E a \in Alternates(request, sent, Listed) : Sends(With(sent, a.options))

\* A request as the program sees it: with its row and the folders listed.
Found(r) ==
  [identified |-> r.identified, features |-> r.features, region |-> r.region, layout |-> r.layout,
   row |-> sigil_layout_find(r.layout, r.platform), subdirs |-> sigil_save_layout_subdirs(r.layout)]

\* What the table keeps to, and FilesAccounted rests on: its files are in the
\* folders a client lists, a file has no option twice, no option that selects
\* a file is in a name, and a name is one of a file or of a folder.
FileKeeps(r, file) ==
  /\ file.dir = "" \/ file.dir \in r.subdirs
  /\ \A i, j \in DOMAIN file.conditions : file.conditions[i].key = file.conditions[j].key => i = j
  /\ \A i \in DOMAIN file.conditions :
       /\ file.conditions[i].key \in OptionKeys(r.row)
       /\ \A var \in DOMAIN VARIABLE_OPTIONS : VARIABLE_OPTIONS[var].key # file.conditions[i].key
  /\ \A i \in DOMAIN file.vars :
       file.vars[i] \in DOMAIN VARIABLE_OPTIONS => VARIABLE_OPTIONS[file.vars[i]].key \in OptionKeys(r.row)

OneKind(file, other) ==
  /\ file.kind = "file"
  /\ file.dir = other.dir /\ file.rest = other.rest
  /\ DOMAIN file.vars = DOMAIN other.vars
  => other.kind = "file"

\* Restores rest on the rest of it: a device's files are no folders but
\* Dolphin's, its own and its shared ones never apply together, and the
\* catalog's defaults are what an absent option stands for.  MemoryCardSize
\* alone has no value that stands for all of its files.
Conflict(c, d) == c.key = d.key /\ c.value # d.value /\ ~(c.default /\ d.default)

DevicesKeep(r) ==
  \A n \in DOMAIN r.row.files :
    LET file == r.row.files[n] IN
      /\ file.device \notin {"none", "gc_folder"} => file.kind = "file"
      /\ \A i \in DOMAIN file.conditions : file.conditions[i].value # None
      /\ \A m \in DOMAIN r.row.files :
           LET other == r.row.files[m] IN
             file.device # "none" /\ other.device = file.device /\ other.shared /\ ~file.shared
               => \E i \in DOMAIN file.conditions, j \in DOMAIN other.conditions :
                    Conflict(file.conditions[i], other.conditions[j])

DefaultKeeps(r, key, default) ==
  /\ \A n \in DOMAIN r.row.files :
       LET file == r.row.files[n] IN
         /\ \A i \in DOMAIN file.conditions :
              file.conditions[i].key = key => (file.conditions[i].default <=> file.conditions[i].value = default)
         /\ \A i \in DOMAIN file.vars :
              file.vars[i] \in DOMAIN VARIABLE_OPTIONS /\ VARIABLE_OPTIONS[file.vars[i]].key = key
                => VARIABLE_OPTIONS[file.vars[i]].fallback = default
  /\ key = r.row.region /\ default \in DOMAIN REGION_VALUES => REGION_VALUES[default] = ""
  /\ None \notin DOMAIN REGION_VALUES

DefaultsKeep(r) ==
  \A key \in OptionKeys(r.row) \ {"MemoryCardSize"} :
    DefaultValue(r.row, key) # None => DefaultKeeps(r, key, DefaultValue(r.row, key))

RowKeeps(r) ==
  /\ DOMAIN r.row.files \subseteq Nat
  /\ \A n \in DOMAIN r.row.files : FileKeeps(r, r.row.files[n])
  /\ \A n, m \in DOMAIN r.row.files : OneKind(r.row.files[n], r.row.files[m])
  /\ DevicesKeep(r)
  /\ DefaultsKeep(r)

ASSUME TableKeeps == \A r \in Requests : RowKeeps(Found(r))

Init ==
  /\ request \in {Found(r) : r \in Requests}
  /\ sent = [key \in OptionKeys(request.row) |-> None]
  /\ disk = <<>>

Next == CoreWrites \/ CoreDeletes \/ SendsOption \/ Adopts

Spec == Init /\ [][Next]_vars

----------------------------------------------------------------------------
(* Properties. *)

Paths(members) == {m.path : m \in members}
Taken(options, listing) == Paths(Members(request, options, listing)) \cup Unkeyed(request, options, listing)

\* No file of the game's goes unnoticed: what the row names, with the values
\* its variables have now, is a member, a shared file or an alternate, whether
\* or not the core's options are the ones sent; taking up what an alternate
\* says makes it part of the unit without losing sight of it; and a file that
\* is expected is a member once it is there.  Folders and '*' are outside of
\* it unless they apply.
FilesAccounted ==
  LET alternates == Alternates(request, sent, Listed) IN
    /\ \A file \in Range(request.row.files) :
         file.kind = "file" /\ Expands(request, sent, file) /\ Expanded(request, sent, file) \in DOMAIN disk
           => Expanded(request, sent, file) \in Taken(sent, Listed) \cup {a.path : a \in alternates}
    /\ \A a \in alternates : a.path \in Taken(With(sent, a.options), Listed)
    /\ \A p \in Expected(request, sent, Listed) : p \in Paths(Members(request, sent, Listed \cup {p}))

\* The identity a sync compares says whether the save's own files changed:
\* a clock that ticks, appears or is lost, and a member compressed or packed
\* again, are no new save, whatever shape the unit takes; anything else is
\* one.  Files of the same bytes under another name are the same save only
\* when the unit has one file.
SameFile(c, d) == Read(c) = Read(d)
SamePacked(c, d) == SameFile(c, d) \/ (c.form = "zip" /\ d.form = "zip" /\ c.data = d.data)

SameState(members, others) ==
  LET state == Paths(StateMembers(members))
      other == Paths(StateMembers(others)) IN
    IF Cardinality(state) = 1 /\ Cardinality(other) = 1 /\ \A m \in members \cup others : ~m.folder
    THEN \E p \in state, q \in other : SamePacked(disk[p], disk'[q])
    ELSE state = other /\ \A p \in state : SameFile(disk[p], disk'[p])

IdentityStep ==
  LET members == TheMembers
      others == TheMembers' IN
    StateMembers(members) # {} /\ StateMembers(others) # {}
      => (IdentityHash(members, disk) = IdentityHash(others, disk') <=> SameState(members, others))

\* A restore of volumes writes where the next sync reads: the target is part
\* of the unit once it is there, and no second volume is made for a device
\* while one that the game may use is present.
TargetServes ==
  LET targets == Targets(request, sent, Listed) IN
    \A device \in DOMAIN targets :
      device # "gc_folder" =>
        /\ targets[device] \in Taken(sent, Listed \cup {targets[device]})
        /\ (\E f \in Taking(request, sent) :
              /\ f.device = device /\ f.region \in {"", Region(request, sent)}
              /\ Expanded(request, sent, f) \in Listed)
             => targets[device] \in Listed

\* Sending an option's default, as the catalog gives it, changes nothing.
\* MemoryCardSize alone has no value that stands for all of its files.
DefaultsAgree ==
  \A key \in OptionKeys(request.row) \ {"MemoryCardSize"} :
    sent[key] = None /\ DefaultValue(request.row, key) # None =>
      LET explicit == [sent EXCEPT ![key] = DefaultValue(request.row, key)] IN
        /\ Taken(explicit, Listed) = Taken(sent, Listed)
        /\ Expected(request, explicit, Listed) = Expected(request, sent, Listed)
        /\ Targets(request, explicit, Listed) = Targets(request, sent, Listed)

\* Everything that reads a row of the table agrees on it: what a sync counts
\* as the game's, what it offers beside that, where a restore writes and what
\* the catalog says (FilesAccounted, TargetServes, DefaultsAgree).
UnitSound == FilesAccounted /\ TargetServes /\ DefaultsAgree
============================================================================
