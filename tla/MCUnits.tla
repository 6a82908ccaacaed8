------------------------------ MODULE MCUnits ------------------------------
(* One request for each row that keeps files, identified or not, with and    *)
(* without a clock, and the Sega CD's with and without a region; and one for *)
(* each kind of row that keeps folders, the Wii's of two categories.         *)
EXTENDS SaveResolve, TLC

MCPorts == <<"D2">>

MCRequest(layout, platform, identified, features, region) ==
  [layout |-> layout, platform |-> platform, identified |-> identified, features |-> features, region |-> region]

MCPlatform(row) ==
  CASE row.platform = "psx" -> "ps1" [] row.platform = "segacd" -> "scd" [] row.platform = "dreamcast" -> "dc"
    [] row.platform = "gamecube" -> "ngc" [] row.platform = "snes" -> "sfc" [] OTHER -> row.platform

MCRequests ==
  {MCRequest(row.layout, MCPlatform(row), TRUE, "", "") : row \in FileRows \ OneFileRows}
    \cup {MCRequest(row.layout, MCPlatform(row), TRUE, "", "") : row \in {r \in OneFileRows : r.layout = "dosbox_pure"}}
    \cup {MCRequest("genesis_plus_gx", "segacd", TRUE, "", "U"), MCRequest("bsnes", "snes", FALSE, "rtc", ""),
          MCRequest("swanstation", "psx", FALSE, "", ""), MCRequest("flycast", "dc", FALSE, "", ""),
          MCRequest("gambatte", "gb", TRUE, "rtc", ""), MCRequest("nestopia", "nes", TRUE, "", "")}

MCFileLayouts == {r.layout : r \in MCRequests}

MCContent(form, data, pack) == [form |-> form, data |-> data, pack |-> pack]
MCContents ==
  [layout \in MCFileLayouts |->
     CASE layout = "dosbox_pure" -> {MCContent("zip", 1, 1), MCContent("zip", 1, 2), MCContent("zip", 2, 1)}
       [] layout \in {"gambatte", "bsnes"} -> {MCContent("bytes", 1, 0), MCContent("bytes", 2, 0), MCContent("rzip", 1, 0)}
       [] layout \in {"same_cdi", "mupen64plus_standalone"} -> {MCContent("bytes", 1, 0), MCContent("bytes", 2, 0)}
       [] OTHER -> {MCContent("bytes", 1, 0)}]

MCMaxFiles == [layout \in MCFileLayouts |-> IF layout \in {"bsnes", "same_cdi", "mupen64plus_standalone"} THEN 3 ELSE 2]

MCSubs == [layout \in MCFileLayouts |-> {"x", "y"}]

\* Another game beside the one asked for: another id, or the same code in
\* another category, or a longer name that begins the same.
MCFolderLayouts ==
  {"yuzu", "skyline", "vita3k", "azahar", "dolphin", "dolphin_standalone", "cemu", "rpcs3", "ppsspp"}

MCGame(category, folders, extdata, installs) ==
  [category |-> category, folders |-> folders, extdata |-> extdata, installs |-> installs]
MCTitle(id) == MCGame(<<>>, {<<id>>}, <<>>, {})

MCTheGame(layout) ==
  CASE layout = "azahar" -> MCGame(<<>>, {<<"00040000", "00113200">>}, <<"00001132">>, {})
    [] layout \in {"dolphin", "dolphin_standalone"} -> MCGame(<<"00010000">>, {<<"524d">>}, <<>>, {})
    [] layout = "cemu" -> MCGame(<<"00050000">>, {<<"101c">>}, <<>>, {})
    [] layout = "rpcs3" -> MCGame(<<>>, {<<"B1-A">>, <<"B1-B">>}, <<>>, {})
    [] layout = "ppsspp" -> MCGame(<<>>, {<<"U1DATA">>, <<"U1SET">>}, <<>>, {<<"U1GAME">>})
    [] OTHER -> MCTitle("T1")

MCOtherGame(layout) ==
  CASE layout = "azahar" -> MCGame(<<>>, {<<"00040000", "00113300">>}, <<"00001133">>, {})
    [] layout \in {"dolphin", "dolphin_standalone"} -> [MCTheGame(layout) EXCEPT !.category = <<"00010001">>]
    [] layout = "cemu" -> MCGame(<<"00050000">>, {<<"202c">>}, <<>>, {})
    [] OTHER -> MCTitle("T2")

MCBegins == {<<<<name>>, <<id>>>> : <<name, id>> \in
               {<<"B1-A", "B1">>, <<"B1-B", "B1">>, <<"U1DATA", "U1">>, <<"U1SET", "U1">>, <<"U1GAME", "U1">>}}

MCSaveId(layout) ==
  CASE layout = "rpcs3" -> <<"B1">> [] layout = "ppsspp" -> <<"U1">>
    [] OTHER -> CHOOSE name \in MCTheGame(layout).folders : TRUE

MCFolderRequest(layout, save_id, game) == [layout |-> layout, save_id |-> save_id, game |-> game]
MCFolderRequests ==
  {MCFolderRequest(layout, MCSaveId(layout), MCTheGame(layout)) : layout \in MCFolderLayouts}
    \cup {MCFolderRequest("dolphin", <<"00010001", "524d">>, MCOtherGame("dolphin"))}

MCGames == [layout \in MCFolderLayouts |-> {MCTheGame(layout), MCOtherGame(layout)}]

MCHasProfiles == {"yuzu", "vita3k", "cemu", "rpcs3"}
MCSlots ==
  [layout \in MCFolderLayouts |->
     CASE layout = "skyline" -> {"00000000000000000000000000000001"}
       [] layout \in MCHasProfiles -> {"AB", "CD"}
       [] OTHER -> {"nobody"}]
MCAsked ==
  [layout \in MCFolderLayouts |-> {None} \cup (IF layout \in MCHasProfiles THEN {"AB"} ELSE {})
                                         \cup (IF layout = "yuzu" THEN {"ab"} ELSE {})]
MCLowerOf == ("AB" :> "ab") @@ ("CD" :> "cd")

MCFiles ==
  [layout \in MCFolderLayouts |->
     CASE layout = "yuzu" -> {<<"f">>, <<".yuzu_save_size">>}
       [] layout = "azahar" -> {<<"00000001", "f">>, <<"g">>}
       [] layout \in {"cemu", "vita3k"} -> {<<"f">>}
       [] OTHER -> {<<"f">>, <<"d", "g">>}]

MCEmulator == <<"emu">>
MCBases ==
  [layout \in MCFolderLayouts |->
     IF layout \in {"ppsspp", "vita3k", "azahar"} THEN {MCEmulator, <<"copy">>} ELSE {MCEmulator}]

MCMaxSaves == [layout \in MCFolderLayouts |-> IF layout \in {"ppsspp", "azahar", "dolphin", "dolphin_standalone"} THEN 3 ELSE 2]
============================================================================
