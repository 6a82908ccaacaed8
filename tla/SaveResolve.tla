---------------------------- MODULE SaveResolve ----------------------------
(* One resolve for every row of the table: a row of files is SaveUnit's, a   *)
(* row with profiles ProfileRoots's.                                         *)
EXTENDS SaveUnit

CONSTANTS
  FolderRequests, Games, Slots, Asked, Files, Bases, Begins, LowerOf, MaxSaves   \* as in ProfileRoots

Folders == INSTANCE ProfileRoots

HasProfiles == "profiles" \in DOMAIN request

ResolveInit == Init \/ Folders!Init

ResolveNext ==
  \/ ~HasProfiles /\ CoreWrites
  \/ ~HasProfiles /\ CoreDeletes
  \/ ~HasProfiles /\ SendsOption
  \/ ~HasProfiles /\ Adopts
  \/ HasProfiles /\ Folders!EmulatorSaves
  \/ HasProfiles /\ Folders!EmulatorInstalls
  \/ HasProfiles /\ Folders!EmulatorLists
  \/ HasProfiles /\ Folders!ListsBase

ResolveSpec == ResolveInit /\ [][ResolveNext]_vars

----------------------------------------------------------------------------
(* Properties. *)

\* What is resolved from files, under any options (save_unit.c:423, :721).
FilesSound == ~HasProfiles => UnitSound

\* The identity a sync compares is the state's (save_unit.c:540).
IdentityOfState == [][~HasProfiles => IdentityStep]_vars

\* What is resolved from folders, wherever the client points
\* (save_unit.c:589).
FoldersSound == HasProfiles => Folders!CollectsTheGame

\* Where a unit of folders is restored (save_profiles.c:1114).
FoldersPlaced == HasProfiles => Folders!PlacesServe
============================================================================
