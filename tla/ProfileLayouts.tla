--------------------------- MODULE ProfileLayouts ---------------------------
(* The rows of the layout table whose saves are folders, kept per user       *)
(* profile when a row has an account folder.  A path and a template are      *)
(* sequences of segments; {profile}, {extdata_id} and {category} stand for   *)
(* one segment, {save_id} for the row's number of them.  Ryujinx's row,      *)
(* whose folders an index names, is SyncProfiles's.                          *)
EXTENDS Naturals, Sequences

CONSTANT None   \* what a row lacks

\* One folder of a game's saves: on disk, and in a unit.
Folder(area, template, entry) ==
  [area |-> area, template |-> template, entry |-> entry, legacy |-> None, rebuilt |-> FALSE]

Account(template, entry) == Folder("account", template, entry)
Device(template, entry) == Folder("device", template, entry)

\* An older unit's name for the folder.
Legacy(legacy, folder) == [folder EXCEPT !.legacy = legacy]
\* The emulator writes the folder again by itself.
Rebuilt(folder) == [folder EXCEPT !.rebuilt = TRUE]

\* A row without profiles; `list` is the profile list, or the template of one
\* file per profile.
Row(top, folders) ==
  [top |-> top, list |-> None, folders |-> folders, ignored |-> {}, prefix |-> FALSE, savedata_only |-> FALSE,
   fixed_profile |-> None, save_id_segments |-> 1, category |-> None, dropped |-> {}]

Nobody == "00000000000000000000000000000000"

\* yuzu and its forks: device saves under the all-zero user.
YUZU_PROFILES ==
  LET saves == <<"nand", "user", "save", "0000000000000000">> IN
    [Row("nand", <<Account(saves \o <<"{profile}", "{save_id}">>, <<"{save_id}">>),
                   Device(saves \o <<Nobody, "{save_id}">>, <<"device", "{save_id}">>)>>)
     EXCEPT !.list = <<"nand", "system", "save", "8000000000000010", "su", "avators", "profiles.dat">>,
            !.ignored = {".yuzu_save_size", ".citron_save_size", ".sudachi_save_size", ".suyu_save_size"}]

\* yuzu's tree with one user and no list.
SKYLINE_PROFILES ==
  LET saves == <<"switch", "nand", "user", "save", "0000000000000000">> IN
    [Row("switch", <<Account(saves \o <<"{profile}", "{save_id}">>, <<"{save_id}">>),
                     Device(saves \o <<Nobody, "{save_id}">>, <<"device", "{save_id}">>)>>)
     EXCEPT !.fixed_profile = "00000000000000000000000000000001"]

\* A 3DS title's save and its extdata, which its id gives another name.
CTR_FOLDERS ==
  LET sd == <<"sdmc", "Nintendo 3DS", Nobody, Nobody>> IN
    [Row("sdmc",
         <<Legacy(<<"data">>, Device(sd \o <<"title", "{save_id}", "data">>, <<"{save_id}", "data">>)),
           Legacy(<<"extdata">>, Device(sd \o <<"extdata", "00000000", "{extdata_id}">>, <<"{save_id}", "extdata">>))>>)
     EXCEPT !.save_id_segments = 2]

\* A Wii title's data/, beside the installed content/ older units carry.
WiiRow(top, user) ==
  [Row(top, <<Device(user \o <<"Wii", "title", "{category}", "{save_id}", "data">>, <<"{save_id}", "data">>)>>)
   EXCEPT !.category = "00010000", !.dropped = {<<"{save_id}", "content">>}]

WII_FOLDERS == WiiRow("User", <<"User">>)
WII_STANDALONE_FOLDERS == WiiRow("Wii", <<>>)

\* meta/, every account's files and one account's.
CEMU_PROFILES ==
  LET title == <<"mlc01", "usr", "save", "{category}", "{save_id}">> IN
    [Row("mlc01",
         <<Rebuilt(Device(title \o <<"meta">>, <<"{save_id}", "meta">>)),
           Device(title \o <<"user", "common">>, <<"{save_id}", "user", "common">>),
           Legacy(<<"{save_id}", "user", "{profile}">>,
                  Account(title \o <<"user", "{profile}">>, <<"{save_id}", "user", "account">>))>>)
     EXCEPT !.list = <<"mlc01", "usr", "save", "system", "act", "{profile}", "account.dat">>, !.category = "00050000"]

VITA3K_PROFILES ==
  [Row("ux0", <<Account(<<"ux0", "user", "{profile}", "savedata", "{save_id}">>, <<"{save_id}">>)>>)
   EXCEPT !.list = <<"ux0", "user", "{profile}", "user.xml">>]

\* A game names each of its folders with its id and a suffix of its own.
RPCS3_PROFILES ==
  [Row("dev_hdd0", <<Account(<<"dev_hdd0", "home", "{profile}", "savedata", "{save_id}">>, <<"{save_id}">>)>>)
   EXCEPT !.list = <<"dev_hdd0", "home", "{profile}", "localusername">>, !.prefix = TRUE]

\* So does a PSP game, which installs data in folders beside them.
PSP_FOLDERS ==
  [Row("PSP", <<Device(<<"PSP", "SAVEDATA", "{save_id}">>, <<"{save_id}">>)>>)
   EXCEPT !.prefix = TRUE, !.savedata_only = TRUE]

\* The row of a layout: each layout's rows with profiles are one.
profiles_row(layout) ==
  CASE layout \in {"eden", "citron", "sudachi", "yuzu", "lemon"} -> YUZU_PROFILES
    [] layout \in {"skyline", "strato"} -> SKYLINE_PROFILES
    [] layout = "dolphin" -> WII_FOLDERS
    [] layout = "dolphin_standalone" -> WII_STANDALONE_FOLDERS
    [] layout = "cemu" -> CEMU_PROFILES
    [] layout \in {"azahar", "citra", "lime3ds"} -> CTR_FOLDERS
    [] layout = "vita3k" -> VITA3K_PROFILES
    [] layout \in {"rpcs3", "aps3e", "armsx3"} -> RPCS3_PROFILES
    [] OTHER -> PSP_FOLDERS
=============================================================================
