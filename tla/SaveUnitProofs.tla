--------------------------- MODULE SaveUnitProofs ---------------------------
(***************************************************************************)
(* Theorems about SaveUnit for any requests, files and options.  The       *)
(* argument: whatever was sent before, an alternate's options select its   *)
(* file and leave its name as it is (AdoptedApplies, AdoptedNames), so     *)
(* each of the row's files is taken, or is found among the alternates from *)
(* the first entry of the row with its name.                               *)
(***************************************************************************)
EXTENDS SaveResolve, Integers, TLAPS, FiniteSetTheorems

\* The request stays as found, and what is sent is one value per option.
Typed ==
  /\ \E r \in Requests : request = Found(r)
  /\ sent = [key \in OptionKeys(request.row) |-> sent[key]]

\* save_unit.c:755: the options an alternate gives select its file, whatever
\* the client sent before.
LEMMA AdoptedApplies ==
  ASSUME NEW options, NEW file,
         \A i \in DOMAIN file.conditions : file.conditions[i].key \in DOMAIN options,
         \A i, j \in DOMAIN file.conditions : file.conditions[i].key = file.conditions[j].key => i = j
  PROVE  Applies(With(options, AlternateOptions(options, file)), file)
<1> DEFINE more == AlternateOptions(options, file)
<1>1. \A o \in more : \E i \in DOMAIN file.conditions :
        /\ ~Holds(options, file.conditions[i])
        /\ o.key = file.conditions[i].key
        /\ o.value = file.conditions[i].value
  BY DEF AlternateOptions, Range
<1> SUFFICES ASSUME NEW i \in DOMAIN file.conditions
             PROVE  Holds(With(options, more), file.conditions[i])
  BY DEF Applies
<1> DEFINE c == file.conditions[i]
<1>2. With(options, more)[c.key] =
        IF \E o \in more : o.key = c.key THEN (CHOOSE o \in more : o.key = c.key).value ELSE options[c.key]
  BY DEF With
<1>3. CASE Holds(options, c)
  <2>1. ~\E o \in more : o.key = c.key
    <3> HIDE DEF more
    <3> QED BY <1>1, <1>3
  <2>2. With(options, more)[c.key] = options[c.key]
    BY <1>2, <2>1
  <2> QED
    BY <1>3, <2>2 DEF Holds
<1>4. CASE ~Holds(options, c)
  <2>1. [key |-> c.key, value |-> c.value] \in more
    BY <1>4 DEF AlternateOptions, Range
  <2>2. PICK o \in more : o = (CHOOSE x \in more : x.key = c.key) /\ o.key = c.key
    <3> HIDE DEF more
    <3>1. \E x \in more : x.key = c.key
      BY <2>1
    <3> QED BY <3>1
  <2>3. o.value = c.value
    <3> HIDE DEF more
    <3> QED BY <1>1, <2>2
  <2>4. With(options, more)[c.key] = c.value
    <3> HIDE DEF more
    <3> QED BY <1>2, <2>1, <2>2, <2>3
  <2> QED
    BY <2>4 DEF Holds
<1> QED
  BY <1>3, <1>4

\* Options that are in no name change no name.
LEMMA AdoptedNames ==
  ASSUME NEW r, NEW options, NEW more, NEW file,
         \A i \in DOMAIN file.vars :
           file.vars[i] \in DOMAIN VARIABLE_OPTIONS =>
             /\ VARIABLE_OPTIONS[file.vars[i]].key \in DOMAIN options
             /\ \A o \in more : o.key # VARIABLE_OPTIONS[file.vars[i]].key
  PROVE  /\ Expanded(r, With(options, more), file) = Expanded(r, options, file)
         /\ Expands(r, With(options, more), file) <=> Expands(r, options, file)
<1>1. \A i \in DOMAIN file.vars :
        VariableValue(r, With(options, more), file.vars[i]) = VariableValue(r, options, file.vars[i])
  <2> SUFFICES ASSUME NEW i \in DOMAIN file.vars
               PROVE  VariableValue(r, With(options, more), file.vars[i]) = VariableValue(r, options, file.vars[i])
    OBVIOUS
  <2>1. CASE file.vars[i] \in DOMAIN VARIABLE_OPTIONS
    <3> DEFINE key == VARIABLE_OPTIONS[file.vars[i]].key
    <3>1. With(options, more)[key] = options[key]
      <4>1. key \in DOMAIN options /\ ~\E o \in more : o.key = key
        BY <2>1
      <4> HIDE DEF key
      <4> QED BY <4>1 DEF With
    <3>2. OptionValue(With(options, more), file.vars[i]) = OptionValue(options, file.vars[i])
      BY <3>1 DEF OptionValue
    <3> QED BY <3>2 DEF VariableValue
  <2>2. CASE file.vars[i] \notin DOMAIN VARIABLE_OPTIONS
    BY <2>2 DEF VariableValue
  <2> QED BY <2>1, <2>2
<1> QED
  BY <1>1 DEF Expanded, Expands

\* A set of natural numbers that is not empty has a least one.
LEMMA HasLeast ==
  ASSUME NEW S \in SUBSET Nat, S # {}
  PROVE  \E n \in S : \A m \in S : ~(m < n)
<1>1. PICK b \in S : TRUE
  OBVIOUS
<1> DEFINE U == {n \in S : n <= b}
           below(n) == 0..n
           T == {below(n) : n \in U}
           R == StrictSubsetOrdering(0..b)
<1>2. b \in Nat /\ b \in U
  BY <1>1
<1>3. T \subseteq SUBSET (0..b) /\ T # {}
  <2>1. \A n \in U : below(n) \in SUBSET (0..b)
    BY <1>2
  <2> HIDE DEF below, U
  <2> QED BY <1>2, <2>1
<1>4. IsWellFoundedOn(R, SUBSET (0..b))
  <2>1. IsFiniteSet(0..b)
    BY <1>2, FS_Interval
  <2>2. FiniteSubsetsOf(0..b) = SUBSET (0..b)
    BY <2>1, FS_FiniteSubsetsOfFinite
  <2>3. IsWellFoundedOn(R, FiniteSubsetsOf(0..b))
    BY <2>1, FS_StrictSubsetOrderingWellFounded
  <2> QED BY <2>2, <2>3
<1>5. \E x \in T : \A y \in T : ~(<<y, x>> \in R)
  <2> HIDE DEF T, R
  <2> QED BY <1>3, <1>4, WFMin
<1>6. PICK n \in U : \A m \in U : ~(<<below(m), below(n)>> \in R)
  <2> HIDE DEF R, below, U
  <2> QED BY <1>5
<1>7. ASSUME NEW m \in S, m < n PROVE FALSE
  <2>1. m \in U /\ below(m) \subseteq below(n) /\ n \in below(n) /\ n \notin below(m)
    BY <1>2, <1>7
  <2>2. below(m) \in SUBSET (0..b) /\ below(n) \in SUBSET (0..b)
    BY <2>1, <1>2
  <2>3. <<below(m), below(n)>> \in R
    <3> HIDE DEF below
    <3> QED BY <2>1, <2>2 DEF StrictSubsetOrdering
  <2> QED
    BY <2>1, <2>3, <1>6
<1> QED
  BY <1>7

----------------------------------------------------------------------------
\* No step changes what was found, or which options there are.
LEMMA TypedStep == Typed /\ [Next]_vars => Typed'
<1> SUFFICES ASSUME Typed, [Next]_vars PROVE Typed'
  OBVIOUS
<1>1. ASSUME request' = request, DOMAIN sent' = DOMAIN sent, sent' = [key \in DOMAIN sent' |-> sent'[key]]
      PROVE  Typed'
  BY <1>1 DEF Typed
<1>2. CASE CoreWrites
  BY <1>1, <1>2 DEF CoreWrites, Typed
<1>3. CASE CoreDeletes
  BY <1>1, <1>3 DEF CoreDeletes, Typed
<1>4. CASE SendsOption
  <2>1. PICK key, value : sent' = [sent EXCEPT ![key] = value] /\ request' = request
    BY <1>4 DEF SendsOption, Sends
  <2> QED BY <1>1, <2>1 DEF Typed
<1>5. CASE Adopts
  <2>1. PICK more : sent' = With(sent, more) /\ request' = request
    BY <1>5 DEF Adopts, Sends
  <2> QED BY <1>1, <2>1 DEF With
<1>6. CASE UNCHANGED vars
  BY <1>1, <1>6 DEF vars, Typed
<1> QED BY <1>2, <1>3, <1>4, <1>5, <1>6 DEF Next

\* The request stays as the program found it, with a value for each option.
THEOREM TypedAlways == Spec => []Typed
<1>1. Init => Typed
  BY DEF Init, Typed
<1> QED
  BY <1>1, TypedStep, PTL DEF Spec

\* What the table gives the row of a request.
LEMMA RowTyped ==
  ASSUME Typed
  PROVE  RowKeeps(request) /\ DOMAIN sent = OptionKeys(request.row)
  BY TableKeeps DEF Typed

\* save_unit.c:426 and :446: a listed file with a name the options take is a
\* member or a shared file.
LEMMA TakenIsTaken ==
  ASSUME NEW options, NEW listing, NEW file \in Taking(request, options), file.kind = "file",
         Expanded(request, options, file) \in listing
  PROVE  Expanded(request, options, file) \in Taken(options, listing)
<1> DEFINE path == Expanded(request, options, file)
<1>1. path.sub = NoSub /\ [path EXCEPT !.sub = NoSub] = path
  BY DEF Expanded, Path
<1>2. CASE file.shared
  BY <1>2 DEF Taken, Unkeyed
<1>3. CASE ~file.shared
  <2>1. Fits(file, path, path)
    BY <1>1 DEF Fits
  <2>2. Member(path, file.role, file.kind = "folder") \in Members(request, options, listing)
    <3> DEFINE OfFile(f) == {Member(p, f.role, f.kind = "folder") : p \in {p \in listing : Fits(f, Expanded(request, options, f), p)}}
    <3>1. Member(path, file.role, file.kind = "folder") \in OfFile(file)
      BY <2>1
    <3>2. file \in {f \in Taking(request, options) : ~f.shared}
      BY <1>3
    <3> HIDE DEF path
    <3> QED BY <3>1, <3>2 DEF Members
  <2>3. Member(path, file.role, file.kind = "folder").path = path
    BY DEF Member
  <2> QED BY <2>2, <2>3 DEF Taken, Paths
<1> QED
  BY <1>2, <1>3

\* Row's file i has a name, and it is one file's.
NameOf(i) == Expanded(request, sent, request.row.files[i])
Nameable(i) == request.row.files[i].kind = "file" /\ Expands(request, sent, request.row.files[i])
TakenNames == {Expanded(request, sent, file) : file \in Taking(request, sent)}

AlternateOf(i) ==
  [path |-> NameOf(i), shared |-> request.row.files[i].shared,
   options |-> AlternateOptions(sent, request.row.files[i])]

\* save_unit.c:738: what the alternates are.
LEMMA AlternatesAre ==
  Alternates(request, sent, Listed) =
    {AlternateOf(i) : i \in {i \in DOMAIN request.row.files :
                               /\ Nameable(i)
                               /\ NameOf(i) \in Listed \ TakenNames
                               /\ \A j \in DOMAIN request.row.files : Nameable(j) /\ j < i => NameOf(j) # NameOf(i)}}
  BY DEF Alternates, AlternateOf, Nameable, NameOf, TakenNames

LEMMA RowHas ==
  ASSUME Typed, NEW i \in DOMAIN request.row.files
  PROVE  FileKeeps(request, request.row.files[i])
  BY RowTyped DEF RowKeeps

\* An alternate's options, when sent, make its file one of the unit's.
LEMMA AlternateTaken ==
  ASSUME Typed, NEW a \in Alternates(request, sent, Listed)
  PROVE  a.path \in Taken(With(sent, a.options), Listed)
<1>1. PICK i \in DOMAIN request.row.files : Nameable(i) /\ NameOf(i) \in Listed /\ a = AlternateOf(i)
  BY AlternatesAre
<1>2. PICK file : file = request.row.files[i] /\ FileKeeps(request, file)
  BY RowHas
<1>3. DOMAIN sent = OptionKeys(request.row)
  BY RowTyped
<1>4. PICK more : more = AlternateOptions(sent, file)
  OBVIOUS
<1>5. a.path = Expanded(request, sent, file) /\ a.options = more
  BY <1>1, <1>2, <1>4 DEF AlternateOf, NameOf
<1>6. Applies(With(sent, more), file)
  <2>1. \A n \in DOMAIN file.conditions : file.conditions[n].key \in DOMAIN sent
    BY <1>2, <1>3 DEF FileKeeps
  <2>2. \A n, k \in DOMAIN file.conditions : file.conditions[n].key = file.conditions[k].key => n = k
    BY <1>2 DEF FileKeeps
  <2> QED BY <1>4, <2>1, <2>2, AdoptedApplies
<1>7. \A n \in DOMAIN file.vars :
        file.vars[n] \in DOMAIN VARIABLE_OPTIONS =>
          /\ VARIABLE_OPTIONS[file.vars[n]].key \in DOMAIN sent
          /\ \A o \in more : o.key # VARIABLE_OPTIONS[file.vars[n]].key
  <2>1. \A o \in more : \E k \in DOMAIN file.conditions : o.key = file.conditions[k].key
    BY <1>4 DEF AlternateOptions, Range
  <2>2. \A k \in DOMAIN file.conditions, var \in DOMAIN VARIABLE_OPTIONS :
          VARIABLE_OPTIONS[var].key # file.conditions[k].key
    BY <1>2 DEF FileKeeps
  <2>3. \A n \in DOMAIN file.vars :
          file.vars[n] \in DOMAIN VARIABLE_OPTIONS => VARIABLE_OPTIONS[file.vars[n]].key \in DOMAIN sent
    BY <1>2, <1>3 DEF FileKeeps
  <2> QED BY <2>1, <2>2, <2>3
<1>8. /\ Expanded(request, With(sent, more), file) = Expanded(request, sent, file)
      /\ Expands(request, With(sent, more), file) <=> Expands(request, sent, file)
  BY <1>7, AdoptedNames
<1>9. file \in Taking(request, With(sent, more)) /\ file.kind = "file"
  BY <1>1, <1>2, <1>6, <1>8 DEF Taking, Nameable, Range
<1>10. Expanded(request, With(sent, more), file) \in Listed
  BY <1>1, <1>2, <1>8 DEF NameOf
<1> QED
  BY <1>5, <1>8, <1>9, <1>10, TakenIsTaken

\* A file the row names is part of the unit or an alternate.
LEMMA NamedAccounted ==
  ASSUME Typed, NEW i \in DOMAIN request.row.files, Nameable(i), NameOf(i) \in DOMAIN disk
  PROVE  NameOf(i) \in Taken(sent, Listed) \cup {a.path : a \in Alternates(request, sent, Listed)}
<1>1. NameOf(i) \in Listed
  <2>1. NameOf(i).dir = request.row.files[i].dir
    BY DEF NameOf, Expanded, Path
  <2>2. request.row.files[i].dir = "" \/ request.row.files[i].dir \in request.subdirs
    BY RowHas DEF FileKeeps
  <2> QED BY <2>1, <2>2 DEF Listed, Listing
<1>2. CASE NameOf(i) \in TakenNames
  <2>1. PICK other \in Taking(request, sent) : Expanded(request, sent, other) = NameOf(i)
    BY <1>2 DEF TakenNames
  <2>2. PICK j \in DOMAIN request.row.files : other = request.row.files[j]
    BY DEF Taking, Range
  <2>3. OneKind(request.row.files[i], request.row.files[j])
    BY RowTyped DEF RowKeeps
  <2>4. request.row.files[i].dir = other.dir /\ request.row.files[i].rest = other.rest
    BY <2>1 DEF NameOf, Expanded, Path
  <2>5. DOMAIN request.row.files[i].vars = DOMAIN other.vars
    <3>1. DOMAIN NameOf(i).of = DOMAIN request.row.files[i].vars /\ DOMAIN Expanded(request, sent, other).of = DOMAIN other.vars
      BY DEF NameOf, Expanded, Path
    <3> QED BY <2>1, <3>1
  <2>6. other.kind = "file"
    BY <2>2, <2>3, <2>4, <2>5 DEF OneKind, Nameable
  <2> QED BY <1>1, <2>1, <2>6, TakenIsTaken
<1>3. CASE NameOf(i) \notin TakenNames
  <2> DEFINE S == {j \in DOMAIN request.row.files : Nameable(j) /\ NameOf(j) = NameOf(i)}
  <2>1. S \in SUBSET Nat /\ S # {}
    <3>1. DOMAIN request.row.files \subseteq Nat
      BY RowTyped DEF RowKeeps
    <3> QED BY <3>1
  <2>2. PICK j \in S : \A k \in S : ~(k < j)
    <3> HIDE DEF S
    <3> QED BY <2>1, HasLeast
  <2>3. \A k \in DOMAIN request.row.files : Nameable(k) /\ k < j => NameOf(k) # NameOf(j)
    BY <2>2
  <2>4. AlternateOf(j) \in Alternates(request, sent, Listed)
    BY <1>1, <1>3, <2>2, <2>3, AlternatesAre
  <2>5. AlternateOf(j).path = NameOf(i)
    BY <2>2 DEF AlternateOf
  <2> QED BY <2>4, <2>5
<1> QED
  BY <1>2, <1>3

\* save_unit.c:432: an expected file is a member once it is there.
LEMMA ExpectedJoins ==
  ASSUME NEW p \in Expected(request, sent, Listed)
  PROVE  p \in Paths(Members(request, sent, Listed \cup {p}))
<1>1. PICK file \in Taking(request, sent) : ~file.shared /\ file.kind = "file" /\ p = Expanded(request, sent, file)
  BY DEF Expected
<1>2. p.sub = NoSub /\ [p EXCEPT !.sub = NoSub] = p
  BY <1>1 DEF Expanded, Path
<1>3. Fits(file, Expanded(request, sent, file), p)
  BY <1>1, <1>2 DEF Fits
<1>4. Member(p, file.role, file.kind = "folder") \in Members(request, sent, Listed \cup {p})
  BY <1>1, <1>3 DEF Members
<1>5. Member(p, file.role, file.kind = "folder").path = p
  BY DEF Member
<1> QED
  BY <1>4, <1>5 DEF Paths

LEMMA TypedAccounts ==
  ASSUME Typed
  PROVE  FilesAccounted
<1>1. \A file \in Range(request.row.files) :
        file.kind = "file" /\ Expands(request, sent, file) /\ Expanded(request, sent, file) \in DOMAIN disk
          => Expanded(request, sent, file)
               \in Taken(sent, Listed) \cup {a.path : a \in Alternates(request, sent, Listed)}
  BY NamedAccounted DEF Range, NameOf, Nameable
<1> QED BY <1>1, AlternateTaken, ExpectedJoins DEF FilesAccounted

\* Whatever the core wrote and the client sent, no file the row names goes
\* unnoticed, and an alternate's options take it up.
THEOREM FilesAreAccounted == Spec => []FilesAccounted
  BY TypedAccounts, TypedAlways, PTL

----------------------------------------------------------------------------
(* Where a restore writes volumes. *)

\* A set of a row's indices that is not empty has the least, as Min gives it.
LEMMA MinIn ==
  ASSUME NEW S \in SUBSET Nat, S # {}
  PROVE  Min(S) \in S
<1>1. PICK n \in S : \A m \in S : n <= m
  <2>1. PICK n \in S : \A m \in S : ~(m < n)
    BY HasLeast
  <2>2. \A m \in S : n <= m
    BY <2>1
  <2> QED BY <2>2
<1> QED
  BY <1>1 DEF Min

\* Files whose conditions conflict never apply together.
LEMMA ConflictExcludes ==
  ASSUME NEW options, NEW file, NEW other, Applies(options, file), Applies(options, other),
         NEW i \in DOMAIN file.conditions, NEW j \in DOMAIN other.conditions,
         file.conditions[i].value # None, other.conditions[j].value # None,
         Conflict(file.conditions[i], other.conditions[j])
  PROVE  FALSE
<1>1. Holds(options, file.conditions[i]) /\ Holds(options, other.conditions[j])
  BY DEF Applies
<1> QED
  BY <1>1 DEF Holds, Conflict

\* save_unit.c:845: the first of some files is the name of one of them, and
\* listed when any of them is.
LEMMA FirstOfIs ==
  ASSUME NEW names, NEW which \in SUBSET Nat, which # {}, NEW listing
  PROVE  /\ \E i \in which : FirstOf(names, which, listing) = names[i]
         /\ (\E i \in which : names[i] \in listing) => FirstOf(names, which, listing) \in listing
<1> DEFINE present == {i \in which : names[i] \in listing}
<1>1. FirstOf(names, which, listing) = names[Min(IF present = {} THEN which ELSE present)]
  BY DEF FirstOf
<1>2. CASE present = {}
  <2>1. Min(which) \in which
    BY MinIn
  <2> QED BY <1>1, <1>2, <2>1
<1>3. CASE present # {}
  <2>1. present \in SUBSET Nat
    OBVIOUS
  <2>2. Min(present) \in present
    <3> HIDE DEF present
    <3> QED BY <1>3, <2>1, MinIn
  <2> QED BY <1>1, <1>3, <2>2
<1> QED
  BY <1>2, <1>3

NameWith(options, i) == Expanded(request, options, request.row.files[i])

\* What the target of a device is.
LEMMA TargetIs ==
  ASSUME Typed, NEW options, NEW listing, NEW device,
         Target(request, options, listing, device) # None
  PROVE  \E i \in OnDevice(request, options, device) :
           Target(request, options, listing, device) = NameWith(options, i)
<1> DEFINE files == request.row.files
           on == OnDevice(request, options, device)
           names == [i \in on |-> Expanded(request, options, files[i])]
           own == {i \in on : ~files[i].shared}
           allowed == {i \in on : files[i].shared /\ files[i].region \in {"", Region(request, options)}}
           present == Range(names) \cap listing
           target == Target(request, options, listing, device)
<1>1. /\ own # {} => target = FirstOf(names, own, listing)
      /\ own = {} /\ allowed # {} => target = FirstOf(names, allowed, listing)
      /\ own = {} /\ allowed = {} => Cardinality(present) = 1 /\ target = CHOOSE p \in present : TRUE
  <2> DEFINE by == CASE own # {} -> FirstOf(names, own, listing)
                     [] own = {} /\ allowed # {} -> FirstOf(names, allowed, listing)
                     [] own = {} /\ allowed = {} /\ Cardinality(present) = 1 -> CHOOSE p \in present : TRUE
                     [] OTHER -> None
  <2>1. target = by
    BY DEF Target
  <2>2. own # {} => by = FirstOf(names, own, listing)
    <3> HIDE DEF names, own, allowed, present, target
    <3> QED OBVIOUS
  <2>3. own = {} /\ allowed # {} => by = FirstOf(names, allowed, listing)
    <3> HIDE DEF names, own, allowed, present, target
    <3> QED OBVIOUS
  <2>4. own = {} /\ allowed = {} /\ by # None => Cardinality(present) = 1 /\ by = CHOOSE p \in present : TRUE
    <3> HIDE DEF names, own, allowed, present, target
    <3> QED OBVIOUS
  <2> HIDE DEF by, names, own, allowed, present
  <2> QED BY <2>1, <2>2, <2>3, <2>4
<1>2. on \subseteq Nat /\ \A i \in on : names[i] = NameWith(options, i)
  BY RowTyped DEF OnDevice, RowKeeps, NameWith
<1>3. CASE own # {}
  <2>1. \E i \in own : FirstOf(names, own, listing) = names[i]
    <3>1. own \in SUBSET Nat /\ own # {}
      BY <1>2, <1>3
    <3> HIDE DEF names, own, allowed
    <3> QED BY <3>1, FirstOfIs
  <2>2. target = FirstOf(names, own, listing)
    BY <1>1, <1>3
  <2> QED BY <1>2, <2>1, <2>2
<1>4. CASE own = {} /\ allowed # {}
  <2>1. \E i \in allowed : FirstOf(names, allowed, listing) = names[i]
    <3>1. allowed \in SUBSET Nat /\ allowed # {}
      BY <1>2, <1>4
    <3> HIDE DEF names, own, allowed
    <3> QED BY <3>1, FirstOfIs
  <2>2. target = FirstOf(names, allowed, listing)
    BY <1>1, <1>4
  <2> QED BY <1>2, <2>1, <2>2
<1>5. CASE own = {} /\ allowed = {}
  <2>1. Cardinality(present) = 1 /\ target = CHOOSE p \in present : TRUE
    BY <1>1, <1>5
  <2>2. present # {}
    <3> HIDE DEF present
    <3> QED BY <2>1, FS_EmptySet
  <2>3. target \in present
    <3> HIDE DEF present, target
    <3> QED BY <2>1, <2>2
  <2>4. PICK i \in on : target = names[i]
    BY <2>3 DEF Range
  <2> QED BY <1>2, <2>4
<1> QED
  BY <1>3, <1>4, <1>5

\* save_unit.c:847: a volume of a device of a target's own is part of the
\* unit once it is there.
LEMMA TargetTaken ==
  ASSUME Typed, NEW device, device \notin {"none", "gc_folder"},
         NEW i \in OnDevice(request, sent, device)
  PROVE  NameWith(sent, i) \in Taken(sent, Listed \cup {NameWith(sent, i)})
<1> DEFINE file == request.row.files[i]
<1>1. file \in Taking(request, sent) /\ file.device = device /\ i \in DOMAIN request.row.files
  BY DEF OnDevice
<1>2. file.kind = "file"
  BY <1>1, RowTyped DEF RowKeeps, DevicesKeep
<1> QED
  BY <1>1, <1>2, TakenIsTaken DEF NameWith

\* save_unit.c:833: of two files of a device, one its own and one shared, the
\* options take one.
LEMMA OwnOrShared ==
  ASSUME Typed, NEW options, NEW device, device # "none",
         NEW i \in OnDevice(request, options, device), NEW j \in OnDevice(request, options, device),
         ~request.row.files[i].shared
  PROVE  ~request.row.files[j].shared
<1> SUFFICES ASSUME request.row.files[j].shared PROVE FALSE
  OBVIOUS
<1>1. PICK file : file = request.row.files[i]
  OBVIOUS
<1>2. PICK other : other = request.row.files[j]
  OBVIOUS
<1>3. /\ i \in DOMAIN request.row.files /\ j \in DOMAIN request.row.files
      /\ Applies(options, file) /\ Applies(options, other)
      /\ file.device = device /\ other.device = device /\ other.shared /\ ~file.shared
  BY <1>1, <1>2 DEF OnDevice, Taking
<1>4. /\ \A k \in DOMAIN file.conditions : file.conditions[k].value # None
      /\ \A k \in DOMAIN other.conditions : other.conditions[k].value # None
      /\ \E k \in DOMAIN file.conditions, l \in DOMAIN other.conditions :
           Conflict(file.conditions[k], other.conditions[l])
  BY <1>1, <1>2, <1>3, RowTyped DEF RowKeeps, DevicesKeep
<1> QED
  BY <1>3, <1>4, ConflictExcludes

\* save_unit.c:845: no second volume while one the game may use is present.
LEMMA TargetListed ==
  ASSUME Typed, NEW options, NEW listing, NEW device, device # "none",
         NEW j \in OnDevice(request, options, device),
         request.row.files[j].region \in {"", Region(request, options)},
         NameWith(options, j) \in listing
  PROVE  Target(request, options, listing, device) \in listing
<1> DEFINE files == request.row.files
           on == OnDevice(request, options, device)
           names == [i \in on |-> Expanded(request, options, files[i])]
           own == {i \in on : ~files[i].shared}
           allowed == {i \in on : files[i].shared /\ files[i].region \in {"", Region(request, options)}}
           present == Range(names) \cap listing
           target == Target(request, options, listing, device)
<1>1. /\ own # {} => target = FirstOf(names, own, listing)
      /\ own = {} /\ allowed # {} => target = FirstOf(names, allowed, listing)
  <2> DEFINE by == CASE own # {} -> FirstOf(names, own, listing)
                     [] own = {} /\ allowed # {} -> FirstOf(names, allowed, listing)
                     [] own = {} /\ allowed = {} /\ Cardinality(present) = 1 -> CHOOSE p \in present : TRUE
                     [] OTHER -> None
  <2>1. target = by
    BY DEF Target
  <2>2. own # {} => by = FirstOf(names, own, listing)
    <3> HIDE DEF names, own, allowed, present, target
    <3> QED OBVIOUS
  <2>3. own = {} /\ allowed # {} => by = FirstOf(names, allowed, listing)
    <3> HIDE DEF names, own, allowed, present, target
    <3> QED OBVIOUS
  <2> HIDE DEF by, names, own, allowed, present
  <2> QED BY <2>1, <2>2, <2>3
<1>2. on \subseteq Nat /\ names[j] = NameWith(options, j)
  BY RowTyped DEF OnDevice, RowKeeps, NameWith
<1>3. CASE own # {}
  <2>1. own \in SUBSET Nat /\ j \in own
    BY <1>2, <1>3, OwnOrShared
  <2>2. FirstOf(names, own, listing) \in listing
    <3>1. \E i \in own : names[i] \in listing
      BY <1>2, <2>1
    <3> HIDE DEF names, own, allowed
    <3> QED BY <2>1, <3>1, FirstOfIs
  <2> QED BY <1>1, <1>3, <2>2
<1>4. CASE own = {}
  <2>1. allowed \in SUBSET Nat /\ j \in allowed
    BY <1>2, <1>4
  <2>2. FirstOf(names, allowed, listing) \in listing
    <3>1. \E i \in allowed : names[i] \in listing
      BY <1>2, <2>1
    <3> HIDE DEF names, own, allowed
    <3> QED BY <2>1, <3>1, FirstOfIs
  <2> QED BY <1>1, <1>4, <2>1, <2>2
<1> QED
  BY <1>3, <1>4

\* Where a restore writes volumes is where the next sync reads.
LEMMA TargetsServe ==
  ASSUME Typed
  PROVE  TargetServes
<1> SUFFICES ASSUME NEW device \in DOMAIN Targets(request, sent, Listed), device # "gc_folder"
             PROVE  /\ Targets(request, sent, Listed)[device] \in Taken(sent, Listed \cup {Targets(request, sent, Listed)[device]})
                    /\ (\E f \in Taking(request, sent) :
                          /\ f.device = device /\ f.region \in {"", Region(request, sent)}
                          /\ Expanded(request, sent, f) \in Listed)
                         => Targets(request, sent, Listed)[device] \in Listed
  BY DEF TargetServes
<1> DEFINE all == [d \in TargetDevices(request, sent) |-> Target(request, sent, Listed, d)]
<1>1. Targets(request, sent, Listed) = all /\ None \notin Range(all)
  <2>1. Targets(request, sent, Listed) = IF None \in Range(all) THEN <<>> ELSE all
    BY DEF Targets
  <2>2. DOMAIN <<>> = {}
    OBVIOUS
  <2> HIDE DEF all
  <2> QED BY <2>1, <2>2
<1>2. /\ device \in TargetDevices(request, sent) /\ device # "none"
      /\ Targets(request, sent, Listed)[device] = Target(request, sent, Listed, device)
      /\ Target(request, sent, Listed, device) # None
  <2>1. device \in DOMAIN all /\ DOMAIN all = TargetDevices(request, sent)
    BY <1>1
  <2>2. device # "none"
    BY <2>1 DEF TargetDevices, Devices
  <2> QED BY <1>1, <2>1, <2>2 DEF Range
<1>3. PICK i \in OnDevice(request, sent, device) : Target(request, sent, Listed, device) = NameWith(sent, i)
  BY <1>2, TargetIs
<1>4. Targets(request, sent, Listed)[device] \in Taken(sent, Listed \cup {Targets(request, sent, Listed)[device]})
  BY <1>2, <1>3, TargetTaken
<1>5. ASSUME NEW f \in Taking(request, sent), f.device = device, f.region \in {"", Region(request, sent)},
             Expanded(request, sent, f) \in Listed
      PROVE  Targets(request, sent, Listed)[device] \in Listed
  <2>1. PICK j \in DOMAIN request.row.files : f = request.row.files[j]
    BY <1>5 DEF Taking, Range
  <2>2. j \in OnDevice(request, sent, device) /\ NameWith(sent, j) \in Listed
    BY <1>5, <2>1 DEF OnDevice, NameWith
  <2> QED BY <1>2, <1>5, <2>1, <2>2, TargetListed
<1> QED
  BY <1>4, <1>5

----------------------------------------------------------------------------
(* Defaults. *)

\* Options agree on a row: they take the same files, by the same names, in
\* the same region.
Agree(r, options, others) ==
  /\ Taking(r, options) = Taking(r, others)
  /\ \A file \in Taking(r, others) : Expanded(r, options, file) = Expanded(r, others, file)
  /\ Region(r, options) = Region(r, others)

\* save_unit.c:426, :446 and :432: such options take the same paths.
LEMMA AgreeOnFiles ==
  ASSUME NEW options, NEW others, NEW listing, Agree(request, options, others)
  PROVE  /\ Taken(options, listing) = Taken(others, listing)
         /\ Expected(request, options, listing) = Expected(request, others, listing)
<1>1. Members(request, options, listing) = Members(request, others, listing)
  <2> DEFINE Of(o, f) == {Member(p, f.role, f.kind = "folder") : p \in {p \in listing : Fits(f, Expanded(request, o, f), p)}}
             Unshared == {f \in Taking(request, others) : ~f.shared}
  <2>1. \A f \in Unshared : Of(options, f) = Of(others, f)
    BY DEF Agree
  <2>2. /\ Members(request, options, listing) = UNION {Of(options, f) : f \in Unshared}
        /\ Members(request, others, listing) = UNION {Of(others, f) : f \in Unshared}
    BY DEF Members, Agree
  <2>3. {Of(options, f) : f \in Unshared} = {Of(others, f) : f \in Unshared}
    <3> HIDE DEF Of, Unshared
    <3> QED BY <2>1
  <2> HIDE DEF Of, Unshared
  <2> QED BY <2>2, <2>3
<1>2. Unkeyed(request, options, listing) = Unkeyed(request, others, listing)
  BY DEF Unkeyed, Agree
<1>3. Expected(request, options, listing) = Expected(request, others, listing)
  <2> DEFINE Wanted == {file \in Taking(request, others) :
                          /\ ~file.shared /\ file.kind = "file"
                          /\ \/ file.role = "primary"
                             \/ file.role = "rtc" /\ request.features = "rtc"}
  <2>1. \A f \in Wanted : Expanded(request, options, f) = Expanded(request, others, f)
    BY DEF Agree
  <2>2. /\ Expected(request, options, listing) = {Expanded(request, options, f) : f \in Wanted} \ listing
        /\ Expected(request, others, listing) = {Expanded(request, others, f) : f \in Wanted} \ listing
    BY DEF Expected, Agree
  <2> HIDE DEF Wanted
  <2> QED BY <2>1, <2>2
<1> QED
  BY <1>1, <1>2, <1>3 DEF Taken

\* save_unit.c:833: such options give the same targets.
LEMMA AgreeOnTargets ==
  ASSUME NEW options, NEW others, NEW listing, Agree(request, options, others)
  PROVE  Targets(request, options, listing) = Targets(request, others, listing)
<1>1. ASSUME NEW device
      PROVE  Target(request, options, listing, device) = Target(request, others, listing, device)
  <2> DEFINE files == request.row.files
             on(o) == OnDevice(request, o, device)
             names(o) == [i \in on(o) |-> Expanded(request, o, files[i])]
  <2>1. on(options) = on(others)
    BY DEF OnDevice, Agree
  <2>2. names(options) = names(others)
    <3>1. \A i \in on(others) : Expanded(request, options, files[i]) = Expanded(request, others, files[i])
      BY DEF OnDevice, Agree
    <3> HIDE DEF on
    <3> QED BY <2>1, <3>1
  <2>3. Region(request, options) = Region(request, others)
    BY DEF Agree
  <2> DEFINE Choice(n, o, region) ==
               LET own == {i \in o : ~files[i].shared}
                   allowed == {i \in o : files[i].shared /\ files[i].region \in {"", region}}
                   present == Range(n) \cap listing IN
                 CASE own # {} -> FirstOf(n, own, listing)
                   [] own = {} /\ allowed # {} -> FirstOf(n, allowed, listing)
                   [] own = {} /\ allowed = {} /\ Cardinality(present) = 1 -> CHOOSE p \in present : TRUE
                   [] OTHER -> None
  <2>4. /\ Target(request, options, listing, device) = Choice(names(options), on(options), Region(request, options))
        /\ Target(request, others, listing, device) = Choice(names(others), on(others), Region(request, others))
    BY DEF Target
  <2> HIDE DEF Choice, names, on
  <2> QED BY <2>1, <2>2, <2>3, <2>4
<1>2. TargetDevices(request, options) = TargetDevices(request, others)
  BY DEF TargetDevices, Agree
<1>3. [d \in TargetDevices(request, options) |-> Target(request, options, listing, d)]
        = [d \in TargetDevices(request, others) |-> Target(request, others, listing, d)]
  BY <1>1, <1>2
<1> QED
  BY <1>3 DEF Targets

\* sigil_save_catalog's default, sent, is what an option left out stands for.
LEMMA DefaultAgrees ==
  ASSUME Typed, NEW key \in OptionKeys(request.row), sent[key] = None,
         NEW default, default # None, DefaultKeeps(request, key, default)
  PROVE  Agree(request, [sent EXCEPT ![key] = default], sent)
<1> DEFINE explicit == [sent EXCEPT ![key] = default]
<1>1. /\ DOMAIN sent = OptionKeys(request.row)
      /\ explicit[key] = default
      /\ \A k \in DOMAIN sent : k # key => explicit[k] = sent[k]
  BY RowTyped
<1> HIDE DEF explicit
<1>2. ASSUME NEW n \in DOMAIN request.row.files
      PROVE  /\ Applies(explicit, request.row.files[n]) <=> Applies(sent, request.row.files[n])
             /\ Expands(request, explicit, request.row.files[n]) <=> Expands(request, sent, request.row.files[n])
             /\ Expanded(request, explicit, request.row.files[n]) = Expanded(request, sent, request.row.files[n])
  <2>1. PICK file : file = request.row.files[n]
    OBVIOUS
  <2>2. FileKeeps(request, file)
    BY <2>1, RowHas
  <2>3. \A i \in DOMAIN file.conditions : file.conditions[i].value # None
    BY <2>1, RowTyped DEF RowKeeps, DevicesKeep
  <2>4. /\ \A i \in DOMAIN file.conditions :
             file.conditions[i].key = key => (file.conditions[i].default <=> file.conditions[i].value = default)
        /\ \A i \in DOMAIN file.vars :
             file.vars[i] \in DOMAIN VARIABLE_OPTIONS /\ VARIABLE_OPTIONS[file.vars[i]].key = key
               => VARIABLE_OPTIONS[file.vars[i]].fallback = default
    BY <2>1 DEF DefaultKeeps
  <2>5. \A i \in DOMAIN file.conditions : Holds(explicit, file.conditions[i]) <=> Holds(sent, file.conditions[i])
    <3> SUFFICES ASSUME NEW i \in DOMAIN file.conditions
                 PROVE  Holds(explicit, file.conditions[i]) <=> Holds(sent, file.conditions[i])
      OBVIOUS
    <3>1. PICK c : c = file.conditions[i]
      OBVIOUS
    <3>2. c.key \in DOMAIN sent /\ c.value # None /\ (c.key = key => (c.default <=> c.value = default))
      BY <1>1, <2>2, <2>3, <2>4, <3>1 DEF FileKeeps
    <3>3. CASE c.key = key
      BY <1>1, <3>2, <3>3, <3>1 DEF Holds
    <3>4. CASE c.key # key
      BY <1>1, <3>2, <3>4, <3>1 DEF Holds
    <3> QED BY <3>3, <3>4
  <2>6. \A i \in DOMAIN file.vars : VariableValue(request, explicit, file.vars[i]) = VariableValue(request, sent, file.vars[i])
    <3> SUFFICES ASSUME NEW i \in DOMAIN file.vars, file.vars[i] \in DOMAIN VARIABLE_OPTIONS
                 PROVE  OptionValue(explicit, file.vars[i]) = OptionValue(sent, file.vars[i])
      BY DEF VariableValue
    <3>1. PICK o : o = VARIABLE_OPTIONS[file.vars[i]]
      OBVIOUS
    <3>2. o.key \in DOMAIN sent /\ (o.key = key => o.fallback = default)
      BY <1>1, <2>2, <2>4, <3>1 DEF FileKeeps
    <3>3. (IF explicit[o.key] \in {None, ""} THEN o.fallback ELSE explicit[o.key])
            = (IF sent[o.key] \in {None, ""} THEN o.fallback ELSE sent[o.key])
      BY <1>1, <3>2
    <3> QED BY <3>1, <3>3 DEF OptionValue
  <2> QED BY <2>1, <2>5, <2>6 DEF Applies, Expands, Expanded
<1>3. Taking(request, explicit) = Taking(request, sent)
  BY <1>2 DEF Taking, Range
<1>4. \A file \in Taking(request, sent) : Expanded(request, explicit, file) = Expanded(request, sent, file)
  BY <1>2 DEF Taking, Range
<1>5. Region(request, explicit) = Region(request, sent)
  <2> DEFINE option == request.row.region
             Forced(o) == IF option = None \/ o[option] \notin DOMAIN REGION_VALUES THEN "" ELSE REGION_VALUES[o[option]]
  <2>1. Forced(explicit) = Forced(sent)
    <3>1. CASE option = None
      BY <3>1
    <3>2. CASE option = key
      <4>1. Forced(sent) = ""
        BY <3>2 DEF DefaultKeeps
      <4>2. Forced(explicit) = ""
        BY <1>1, <3>2 DEF DefaultKeeps
      <4> QED BY <4>1, <4>2
    <3>3. CASE option \notin {None, key}
      <4>1. option \in DOMAIN sent
        BY <1>1, <3>3 DEF OptionKeys
      <4> QED BY <1>1, <3>3, <4>1
    <3> QED BY <3>1, <3>2, <3>3
  <2> HIDE DEF Forced
  <2>2. \A o : Region(request, o) = IF Forced(o) = "" THEN request.region ELSE Forced(o)
    BY DEF Region, Forced
  <2> QED BY <2>1, <2>2
<1> QED
  BY <1>3, <1>4, <1>5 DEF Agree, explicit

\* Sending the catalog's default changes nothing.
LEMMA DefaultsAreAgreed ==
  ASSUME Typed
  PROVE  DefaultsAgree
<1> SUFFICES ASSUME NEW key \in OptionKeys(request.row) \ {"MemoryCardSize"},
                    sent[key] = None, DefaultValue(request.row, key) # None
             PROVE  Agree(request, [sent EXCEPT ![key] = DefaultValue(request.row, key)], sent)
  BY AgreeOnFiles, AgreeOnTargets DEF DefaultsAgree
<1>1. DefaultKeeps(request, key, DefaultValue(request.row, key))
  BY RowTyped DEF RowKeeps, DefaultsKeep
<1> QED
  BY <1>1, DefaultAgrees

\* Everything that reads a row of the table agrees on it, whatever is sent
\* and listed (save_unit.c:423, :721, :833).
THEOREM UnitIsSound == Spec => []UnitSound
<1>1. Typed => TargetServes /\ DefaultsAgree
  BY TargetsServe, DefaultsAreAgreed
<1> QED
  BY <1>1, TypedAlways, FilesAreAccounted, PTL DEF UnitSound

\* A resolve that knows folders too never makes a row of files one of folders.
FilesTyped == ~HasProfiles => Typed

THEOREM FilesTypedAlways == ResolveSpec => []FilesTyped
<1>1. ResolveInit => FilesTyped
  <2>1. Folders!Init => HasProfiles
    BY DEF Folders!Init, HasProfiles
  <2> QED BY <2>1 DEF ResolveInit, FilesTyped, Init, Typed
<1>2. FilesTyped /\ [ResolveNext]_vars => FilesTyped'
  <2> SUFFICES ASSUME FilesTyped, [ResolveNext]_vars PROVE FilesTyped'
    OBVIOUS
  <2>1. CASE ~HasProfiles /\ (CoreWrites \/ CoreDeletes \/ SendsOption \/ Adopts)
    <3>1. Typed /\ [Next]_vars
      BY <2>1 DEF FilesTyped, Next
    <3> QED BY <3>1, TypedStep DEF FilesTyped
  <2>2. CASE HasProfiles /\ (Folders!EmulatorSaves \/ Folders!EmulatorInstalls \/ Folders!EmulatorLists \/ Folders!ListsBase)
    <3>1. request' = request
      BY <2>2 DEF Folders!EmulatorSaves, Folders!EmulatorInstalls, Folders!EmulatorLists, Folders!ListsBase
    <3> QED BY <2>2, <3>1 DEF FilesTyped, HasProfiles
  <2>3. CASE UNCHANGED vars
    BY <2>3 DEF FilesTyped, HasProfiles, Typed, vars
  <2> QED BY <2>1, <2>2, <2>3 DEF ResolveNext
<1> QED
  BY <1>1, <1>2, PTL DEF ResolveSpec

\* What a resolve takes from files is sound for every row of the table.
THEOREM FilesAreSound == ResolveSpec => []FilesSound
<1>1. Typed => UnitSound
  BY TargetsServe, DefaultsAreAgreed, TypedAccounts DEF UnitSound
<1>2. FilesTyped => FilesSound
  BY <1>1 DEF FilesTyped, FilesSound
<1> QED
  BY <1>2, FilesTypedAlways, PTL
============================================================================
