------------------------------- MODULE CardPs2 -------------------------------
(***************************************************************************)
(* PS2 memory cards (src/src/card_ps2.c): clusters, a FAT, a root          *)
(* directory that grows by clusters and is never cut, and a folder for     *)
(* each save with its own clusters of entries.  A card is a record of its  *)
(* FAT, what its clusters hold and the count of root entries.              *)
(*                                                                         *)
(* The indirect tables are abstracted to one FAT, and the folders written  *)
(* here hold one file.                                                     *)
(***************************************************************************)
EXTENDS Naturals, FiniteSets, Sequences, SequencesExt, CardChains

CONSTANTS
  Clusters,   \* clusters of the FAT, cluster 0 the first of the root
  None        \* no name, no data

Cluster == 0..(Clusters - 1)
End == Clusters          \* the link of a chain's last cluster
Free == Clusters + 1
Off == Clusters + 2      \* a link that leaves the card
PerCluster == 2          \* entries a cluster holds
InClusters(entries) == (entries + PerCluster - 1) \div PerCluster

\* Entries exist as a folder or as a file.
NoEntry == [mode |-> "none", name |-> None, first |-> 0, length |-> 0]
Folder(name, first, length) == [NoEntry EXCEPT !.mode = "folder", !.name = name, !.first = first, !.length = length]
File(first, length) == [NoEntry EXCEPT !.mode = "file", !.first = first, !.length = length]
Entries(low, high) == [kind |-> "entries", half |-> <<low, high>>]
Data(p) == [kind |-> "data", piece |-> p]
Dots == Entries(Folder(None, 0, 0), Folder(None, 0, 0))

Format ==
  [fat |-> [c \in Cluster |-> IF c = 0 THEN End ELSE Free],
   holds |-> [c \in Cluster |-> IF c = 0 THEN Dots ELSE Data(None)],
   count |-> 2]

(***************************************************************************)
(* Reading.                                                                *)
(***************************************************************************)
\* The chain from a cluster in order, or <<>> when it runs into a free
\* cluster, leaves the card or loops.
Walk(v, first) == Chain(v.fat, End, first)

\* Entry i of the directory with this chain, counted from 0; data read as an
\* entry is taken for none that exists.
EntryAt(v, order, i) ==
  LET c == v.holds[order[1 + (i \div PerCluster)]] IN
  IF c.kind = "entries" THEN c.half[1 + (i % PerCluster)] ELSE NoEntry

\* The root's entries past its first two, where its chain is still whole.
RootReads(v) == Len(Walk(v, 0)) >= InClusters(v.count)
Root(v) ==
  LET order == Walk(v, 0) IN
  [i \in (IF RootReads(v) THEN 2..(v.count - 1) ELSE {}) |-> EntryAt(v, order, i)]
Folders(v) == LET root == Root(v) IN {root[i] : i \in {j \in DOMAIN root : root[j].mode = "folder"}}

\* The entries a save's folder has past its first two, or <<>> when the
\* folder does not read.
FolderEntries(v, e) ==
  LET order == Walk(v, e.first) IN
  IF Len(order) < InClusters(e.length) THEN <<>>
  ELSE [i \in 1..(e.length - 2) |-> EntryAt(v, order, i + 1)]

FilesOf(v, e) == SelectSeq(FolderEntries(v, e), LAMBDA f : f.mode = "file" /\ f.length > 0)

\* save_clusters: the folder and each file have the clusters they need.
Reads(v, e) ==
  /\ Len(Walk(v, e.first)) >= InClusters(e.length)
  /\ \A f \in Range(FilesOf(v, e)) : Len(Walk(v, f.first)) >= f.length

\* Mutant: only the first cluster.
SpannedFirst(v, first, n) == LET order == Walk(v, first) IN IF order = <<>> THEN order ELSE SubSeq(order, 1, 1)

\* The clusters a chain is counted on: as many as it needs.
Spanned(v, first, n) == LET order == Walk(v, first) IN IF Len(order) > n THEN SubSeq(order, 1, n) ELSE order

Claimed(v, e) ==
  IF Len(Walk(v, e.first)) < InClusters(e.length) THEN <<>>
  ELSE FoldLeft(LAMBDA acc, f : acc \o Spanned(v, f.first, f.length),
                Spanned(v, e.first, InClusters(e.length)), FilesOf(v, e))

\* A cluster two chains reach marks every save there broken.
Listed(v) ==
  LET folders == Folders(v)
      claims == [e \in folders |-> Claimed(v, e)]
      root == Range(Spanned(v, 0, InClusters(v.count)))
      shared(e) ==
        \/ ~IsInjective(claims[e])
        \/ Range(claims[e]) \cap root # {}
        \/ \E o \in folders \ {e} : Range(claims[e]) \cap Range(claims[o]) # {}
  IN {e \in folders : Reads(v, e) /\ ~shared(e)}

Piece(c) == IF c.kind = "data" THEN c.piece ELSE None
FileData(v, f) == LET order == Walk(v, f.first) IN [i \in 1..f.length |-> Piece(v.holds[order[i]])]
Contents(v, e) == FoldLeft(LAMBDA acc, f : acc \o FileData(v, f), <<>>, FilesOf(v, e))

List(v) == {[name |-> e.name, first |-> e.first, file |-> Contents(v, e)] : e \in Listed(v)}
Corrupt(v) == {e.name : e \in Folders(v) \ Listed(v)} \cup (IF RootReads(v) THEN {} ELSE {None})
FreeBlocks(v) == {c \in Cluster : v.fat[c] = Free}
FreeSlots(v) == Cardinality(FreeBlocks(v))

(***************************************************************************)
(* Writing.                                                                *)
(***************************************************************************)
\* The first root entry a deleted folder left, or one on the end.
RootSlotForNew(v) ==
  LET root == Root(v)
      gone == {i \in DOMAIN root : root[i].mode = "none"}
  IN IF gone = {} THEN v.count ELSE CHOOSE i \in gone : \A j \in gone : i <= j

RootGrows(v) == RootSlotForNew(v) = v.count /\ v.count % PerCluster = 0
Cost(v, u) == (IF RootGrows(v) THEN 1 ELSE 0) + InClusters(3) + Len(u.file)

InjectCode(v, u) ==
  IF ~RootReads(v) THEN "UNSUPPORTED"
  ELSE IF \E e \in Folders(v) : e.name = u.name THEN "EXISTS"
  ELSE IF Cost(v, u) > Cardinality(FreeBlocks(v)) THEN "NO_SPACE" ELSE "OK"

\* A chain of these clusters, in order.
Chained(fat, order) ==
  [c \in Cluster |-> IF c \notin Range(order) THEN fat[c]
                     ELSE LET i == CHOOSE i \in DOMAIN order : order[i] = c
                          IN IF i = Len(order) THEN End ELSE order[i + 1]]

WithEntry(holds, order, i, e) ==
  [holds EXCEPT ![order[1 + (i \div PerCluster)]] =
     IF i % PerCluster = 0 THEN Entries(e, IF @.kind = "entries" THEN @.half[2] ELSE NoEntry)
     ELSE Entries(IF @.kind = "entries" THEN @.half[1] ELSE NoEntry, e)]

\* The free clusters are handed out lowest first: to the root when it grows,
\* the folder's first, its second, the file's.
Inject(v, u) ==
  LET given == Lowest(FreeBlocks(v), Cost(v, u))
      root == Walk(v, 0) \o (IF RootGrows(v) THEN <<given[1]>> ELSE <<>>)
      own == IF RootGrows(v) THEN Tail(given) ELSE given
      folder == SubSeq(own, 1, InClusters(3))
      data == SubSeq(own, InClusters(3) + 1, Len(own))
      slot == RootSlotForNew(v)
      cleared == IF RootGrows(v) THEN [v.holds EXCEPT ![given[1]] = Entries(NoEntry, NoEntry)] ELSE v.holds
      listed == WithEntry(cleared, root, slot, Folder(u.name, folder[1], 3))
  IN IF InjectCode(v, u) # "OK" THEN v
     ELSE [fat |-> Chained(Chained(Chained(v.fat, root), folder), data),
           holds |-> [c \in Cluster |->
             IF c = folder[1] THEN Dots
             ELSE IF c = folder[2] THEN Entries(File(data[1], Len(data)), NoEntry)
             ELSE IF c \in Range(data) THEN Data(u.file[CHOOSE i \in DOMAIN data : data[i] = c])
             ELSE listed[c]],
           count |-> IF slot = v.count THEN v.count + 1 ELSE v.count]

Freed(v, first) == [v EXCEPT !.fat = [c \in Cluster |-> IF c \in Range(Walk(v, first)) THEN Free ELSE @[c]]]

\* The files' chains are freed as far as they run, then the folder's; the
\* root entry no longer exists.
Delete(v, first) ==
  LET root == Root(v)
      at == {i \in DOMAIN root : root[i].mode = "folder" /\ root[i].first = first}
      i == CHOOSE i \in at : \A j \in at : i <= j
      files == FilesOf(v, root[i])
      emptied == FoldLeft(Freed, v, [k \in DOMAIN files |-> files[k].first] \o <<first>>)
      extracts == /\ Reads(v, root[i])
                  /\ \A f \in Range(FolderEntries(v, root[i])) : f.mode # "folder"
  IN IF at = {} \/ ~extracts THEN v
     ELSE [emptied EXCEPT !.holds = WithEntry(@, Walk(v, 0), i, [root[i] EXCEPT !.mode = "none"])]

\* Nothing is asked here of whether chains share clusters.
Verify(v, u) == \E e \in Folders(v) : e.name = u.name /\ Reads(v, e) /\ Contents(v, e) = u.file
==============================================================================
