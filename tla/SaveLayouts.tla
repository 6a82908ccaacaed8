---------------------------- MODULE SaveLayouts ----------------------------
(* The table of save layouts: which files each core keeps for a game, under  *)
(* which of its options, which files it shares between games, and in which   *)
(* folders of the save root a client looks.  A file's name is a folder, the  *)
(* values of the template's variables and the rest of the template.          *)
EXTENDS Naturals, FiniteSets, SequencesExt

CONSTANTS
  Ports,      \* flycast's controller ports after A1, as a sequence
  None        \* an option the client does not send

----------------------------------------------------------------------------
(* One file of a row. *)

\* Holds while the client sends this value.
On(key, value) == [key |-> key, value |-> value, default |-> FALSE]

\* Holds as well while the client sends none.
ByDefault(key, value) == [key |-> key, value |-> value, default |-> TRUE]

\* A template: what is sent must hold for all of `conditions`.
Template(dir, vars, rest, conditions) ==
  [dir |-> dir, vars |-> vars, rest |-> rest, kind |-> "file", conditions |-> conditions,
   role |-> "primary", device |-> "none", region |-> "", shared |-> FALSE]

As(role, file) == [file EXCEPT !.role = role]
Shared(file) == [file EXCEPT !.shared = TRUE]
At(device, file) == [file EXCEPT !.device = device]
ForRegion(region, file) == [file EXCEPT !.region = region]
\* A template that names a whole folder, or with a '*' in it.
Kind(kind, file) == [file EXCEPT !.kind = kind]

Stem(rest, conditions) == Template("", <<"stem">>, rest, conditions)
Named(rest, conditions) == Template("", <<>>, rest, conditions)

\* A row, its own files before the shared ones.
Row(layout, platform, files, subdirs) ==
  [layout |-> layout, platform |-> platform, files |-> files, subdirs |-> subdirs, region |-> None]

AnyPlatform == "any"

----------------------------------------------------------------------------
(* The rows. *)

LibretroDefault == Row("libretro", AnyPlatform, <<Stem(".srm", <<>>), As("rtc", Stem(".rtc", <<>>))>>, {})

\* Cores that keep one file of one name.
OneFileRows ==
  LET One(layout, platform, rest) == Row(layout, platform, <<Stem(rest, <<>>)>>, {}) IN
    {One(layout, AnyPlatform, ".srm") : layout \in {"vba_next", "gpsp"}}
      \cup {One(layout, "n64", ".srm") : layout \in {"mupen64plus_next", "parallel_n64"}}
      \cup {One(layout, AnyPlatform, ".sav") :
              layout \in {"mgba_standalone", "vbam_standalone", "sameboy_standalone", "gearboy_standalone", "melonds"}}
      \cup {One("mednafen_ngp", AnyPlatform, ".flash"), One("pokemini", AnyPlatform, ".eep"),
            One("handy", AnyPlatform, ".eeprom"), One("dosbox_pure", AnyPlatform, ".pure.zip")}

GenesisPlusGx ==
  LET bram == "genesis_plus_gx_system_bram"
      cart == "genesis_plus_gx_cart_bram"
      Bios(region, rest) == ForRegion(region, At("internal", Shared(Named(rest, <<ByDefault(bram, "per bios")>>)))) IN
    [Row("genesis_plus_gx", "segacd",
         <<At("internal", Stem(".brm", <<On(bram, "per game")>>)),
           As("sidecar", At("cart", Template("", <<"stem", "cart_size">>, "_cart.brm", <<On(cart, "per game")>>))),
           Bios("E", "scd_E.brm"), Bios("U", "scd_U.brm"), Bios("J", "scd_J.brm"),
           At("cart", Shared(Template("", <<"cart_size">>, "_cart.brm", <<ByDefault(cart, "per cart")>>)))>>, {})
       EXCEPT !.region = "genesis_plus_gx_region_detect"]

\* The two Beetle PSX builds differ in the prefix of their keys alone.
BeetlePsx(layout) ==
  LET method == "use_mednafen_memcard0_method"
      shared == "shared_memory_cards"
      second == "enable_memcard1"
      Card(index, more) == Template("", <<"stem", index>>, ".mcr", <<more, ByDefault(shared, "disabled")>>)
      SharedCard(index, more) == Shared(Template("", <<index>>, "shared.mcr", <<On(shared, "enabled"), more>>)) IN
    Row(layout, AnyPlatform,
        <<Stem(".srm", <<ByDefault(method, "libretro")>>), Card("left_index", On(method, "mednafen")),
          As("sidecar", Card("right_index", On(second, "enabled"))),
          SharedCard("left_index", On(method, "mednafen")), SharedCard("right_index", On(second, "enabled"))>>, {})

BeetleSaturn ==
  LET method == "beetle_saturn_save_method"
      internal == "beetle_saturn_shared_int"
      external == "beetle_saturn_shared_ext" IN
    Row("mednafen_saturn", AnyPlatform,
        <<At("internal", Stem(".srm", <<ByDefault(method, "libretro")>>)),
          At("internal", Stem(".bkr", <<On(method, "mednafen"), ByDefault(internal, "disabled")>>)),
          As("sidecar", At("cart", Stem(".bcr", <<ByDefault(external, "disabled")>>))),
          As("sidecar", Stem(".smpc", <<ByDefault(internal, "disabled")>>)),
          At("internal", Shared(Named("shared.bkr", <<On(internal, "enabled"), On(method, "mednafen")>>))),
          Shared(Named("shared.smpc", <<On(internal, "enabled")>>)),
          At("cart", Shared(Named("shared.bcr", <<On(external, "enabled")>>)))>>, {})

Kronos ==
  LET beetle == "kronos_use_beetle_saves"
      addon == "kronos_addon_cartridge"
      Own(rest, more) == Template("kronos/saturn", <<"stem">>, rest, <<ByDefault(beetle, "disabled")>> \o more)
      Cart(rest, condition) == As("sidecar", At("cart", Own(rest, <<condition>>))) IN
    Row("kronos", "saturn",
        <<At("internal", Own(".ram", <<>>)), At("internal", Stem(".bkr", <<On(beetle, "enabled")>>)),
          Cart("-ext512K.ram", ByDefault(addon, "512K_backup_ram")), Cart("-ext1M.ram", On(addon, "1M_backup_ram")),
          Cart("-ext2M.ram", On(addon, "2M_backup_ram")), Cart("-ext4M.ram", On(addon, "4M_backup_ram")),
          As("sidecar", At("cart", Stem(".bcr", <<On(beetle, "enabled")>>)))>>, {"kronos/saturn"})

OtherSaturnRows ==
  {Row("yabause", "saturn", <<At("internal", Stem(".srm", <<>>))>>, {}),
   Row("yabasanshiro", "saturn",
       <<At("internal", Shared(Template("yabasanshiro", <<>>, "backup.bin", <<>>)))>>, {"yabasanshiro"})}

\* A per-game VMU has the product number in its name, or the stem in an older
\* one; `rest` is the port.
Flycast ==
  LET mode == "reicast_per_content_vmus"
      Vmu(var, port, value) == At(port, Template("", <<var>>, port, <<On(mode, value)>>))
      All(port) == <<As("sidecar", Vmu("dc_vmu_id", port, "All VMUs")), As("sidecar", Vmu("stem", port, "All VMUs"))>>
      SharedVmu(port) == At(port, Shared(Named(port, <<ByDefault(mode, "disabled")>>))) IN
    Row("flycast", "dreamcast",
        <<Vmu("dc_vmu_id", "A1", "VMU A1"), Vmu("dc_vmu_id", "A1", "All VMUs"),
          Vmu("stem", "A1", "VMU A1"), Vmu("stem", "A1", "All VMUs")>>
          \o FlattenSeq([i \in DOMAIN Ports |-> All(Ports[i])])
          \o <<SharedVmu("A1")>> \o [i \in DOMAIN Ports |-> SharedVmu(Ports[i])], {})

FlycastStandalone ==
  LET mode == "PerGameVmu"
      Own(var) == At("A1", Template("", <<var>>, "_A1", <<ByDefault(mode, "yes")>>)) IN
    Row("flycast_standalone", "dreamcast",
        <<Own("dc_vmu_id"), Own("stem"), At("A1", Shared(Named("A1", <<On(mode, "no")>>)))>>
          \o [i \in DOMAIN Ports |-> At(Ports[i], Shared(Named(Ports[i], <<>>)))], {})

\* MemoryCardSize picks the raw card; without it every name applies.
DolphinGc(layout, dir) ==
  LET Card(size) == At("gc_card", Shared(Template(dir, <<"gc_region">>, size,
                                                  <<On("SlotA", "1"), ByDefault("MemoryCardSize", size)>>))) IN
    Row(layout, "gamecube",
        <<Kind("folder", At("gc_folder", Shared(Template(dir, <<"gc_region">>, "Card A/", <<ByDefault("SlotA", "8")>>))))>>
          \o <<Card("-1"), Card("4"), Card("3"), Card("2"), Card("1"), Card("0")>>, {dir})

PcsxRearmed ==
  Row("pcsx_rearmed", AnyPlatform,
      <<Stem(".srm", <<ByDefault("memcard1", "libretro")>>),
        Template("", <<"pcsx_serial">>, "_1.mcd", <<On("memcard1", "serial")>>),
        As("sidecar", Template("", <<"pcsx_serial">>, "_2.mcd", <<On("memcard2", "serial")>>)),
        Shared(Named("pcsx-card1.mcd", <<On("memcard1", "shared")>>)),
        Shared(Named("pcsx-card2.mcd", <<ByDefault("memcard2", "shared")>>))>>, {})

SwanStation ==
  Row("swanstation", "psx",
      <<Stem(".srm", <<ByDefault("Card1Type", "Libretro")>>),
        Template("", <<"title_id">>, "_1.mcd", <<On("Card1Type", "PerGame")>>),
        Stem("_1.mcd", <<On("Card1Type", "PerGameTitle")>>),
        As("sidecar", Template("", <<"title_id">>, "_2.mcd", <<On("Card2Type", "PerGame")>>)),
        As("sidecar", Stem("_2.mcd", <<On("Card2Type", "PerGameTitle")>>)),
        Shared(Named("shared_card_1.mcd", <<On("Card1Type", "Shared")>>)),
        Shared(Named("shared_card_2.mcd", <<On("Card2Type", "Shared")>>))>>, {})

DuckStation ==
  LET Card(rest, key, title) ==
        <<Template("memcards", <<"stem">>, rest, <<title>>),
          Template("memcards", <<"title_id">>, rest, <<On(key, "PerGame")>>),
          Template("memcards", <<"stem">>, rest, <<On(key, "PerGameFileTitle")>>)>>
      second == Card("_2.mcd", "Card2Type", On("Card2Type", "PerGameTitle")) IN
    Row("duckstation", "psx",
        Card("_1.mcd", "Card1Type", ByDefault("Card1Type", "PerGameTitle"))
          \o [i \in DOMAIN second |-> As("sidecar", second[i])]
          \o <<Shared(Template("memcards", <<>>, "shared_card_1.mcd", <<On("Card1Type", "Shared")>>)),
               Shared(Template("memcards", <<>>, "shared_card_2.mcd", <<On("Card2Type", "Shared")>>))>>, {"memcards"})

OtherPsxRows ==
  {Row("armsx1", "psx", <<Shared(Named("slot1.mcd", <<>>)), Shared(Named("slot2.mcd", <<>>))>>, {}),
   Row("vita_pops", "psx",
       <<Template("PSP/SAVEDATA", <<"disc_id">>, "SCEVMC0.VMP", <<>>),
         As("sidecar", Template("PSP/SAVEDATA", <<"disc_id">>, "SCEVMC1.VMP", <<>>))>>, {"PSP/SAVEDATA"})}

Ps2Rows ==
  {Row("pcsx2", AnyPlatform,
       <<Stem(".ps2", <<On("pcsx2_shared_memory_cards", "disabled")>>),
         Shared(Named("Mcd001.ps2", <<ByDefault("pcsx2_shared_memory_cards", "enabled")>>)),
         Shared(Named("Mcd002.ps2", <<ByDefault("pcsx2_shared_memory_cards", "enabled")>>))>>, {}),
   Row("pcsx2_standalone", "ps2",
       <<Shared(Template("memcards", <<"pcsx2_slot1">>, "", <<>>)),
         Shared(Template("memcards", <<"pcsx2_slot2">>, "", <<>>))>>, {"memcards"})}

Opera ==
  Row("opera", AnyPlatform,
      <<Template("opera/per_game", <<"stem", "nvram_version">>, ".srm", <<ByDefault("opera_nvram_storage", "per game")>>),
        Shared(Template("opera/shared", <<"nvram_version">>, ".srm", <<On("opera_nvram_storage", "shared")>>))>>,
      {"opera/per_game", "opera/shared"})

ArcadeRows ==
  LET subfolder == "mame2003-plus_core_save_subfolder" IN
    {Row("fbneo", AnyPlatform,
         <<Template("fbneo", <<"romset">>, ".fs", <<>>), As("sidecar", Template("fbneo", <<"romset">>, ".nv", <<>>)),
           As("sidecar", Template("fbneo", <<"romset">>, ".memcard", <<On("fbneo-memcard-mode", "per-game")>>)),
           Shared(Template("fbneo", <<>>, "shared.memcard", <<On("fbneo-memcard-mode", "shared")>>))>>, {"fbneo"}),
     Row("mame2003_plus", AnyPlatform,
         <<Template("mame2003-plus/nvram", <<"romset">>, ".nv", <<ByDefault(subfolder, "enabled")>>),
           As("sidecar", Template("mame2003-plus/hi", <<"romset">>, ".hi", <<ByDefault(subfolder, "enabled")>>)),
           Template("nvram", <<"romset">>, ".nv", <<On(subfolder, "disabled")>>),
           As("sidecar", Template("hi", <<"romset">>, ".hi", <<On(subfolder, "disabled")>>))>>,
         {"mame2003-plus/nvram", "mame2003-plus/hi", "nvram", "hi"})}

SameCdi ==
  Row("same_cdi", AnyPlatform,
      <<Kind("folder", Template("same_cdi/nvram", <<"stem">>, "/", <<ByDefault("same_cdi_nvram_saves", "enabled")>>))>>,
      {"same_cdi/nvram"})

NestopiaFds ==
  LET format == "nestopia_fds_savefile_format" IN
    Row("nestopia", "fds",
        <<Stem(".sav", <<ByDefault(format, "sav_ups")>>), Stem(".ups", <<On(format, "ups")>>),
          Stem(".ips", <<On(format, "ips")>>)>>, {})

Bsnes ==
  Row("bsnes", "snes", <<Stem(".srm", <<>>), As("rtc", Stem(".rtc", <<>>)), As("sidecar", Stem(".psr", <<>>))>>, {})

\* N64 files whose names only a database outside the program spells.
N64Rows ==
  LET Types(F(_, _)) == <<F(".eep", "primary"), F(".sra", "primary"), F(".fla", "primary"), F(".mpk", "sidecar")>>
      Mupen(rest, role) == Kind("glob", As(role, Template("", <<"n64_md5_8">>, rest, <<>>)))
      Fz(rest, role) == Kind("glob", As(role, Template("GameData", <<"n64_md5_lower">>, rest, <<>>)))
      Unique(rest, role) ==
        Kind("glob", As(role, Template("Save", <<"n64_md5_n64">>, "/*" \o rest, <<ByDefault("Unique Game Dir", "1")>>)))
      Flat(rest, role) == As(role, Template("Save", <<"n64_header">>, rest, <<On("Unique Game Dir", "0")>>)) IN
    {Row("mupen64plus_standalone", "n64", Types(Mupen), {}),
     Row("m64plus_fz", "n64", Types(Fz), {"GameData"}),
     Row("project64", "n64", Types(Unique) \o Types(Flat), {"Save"})}

\* Layouts whose saves are folders, kept per profile: rows of their own for
\* one platform each, resolved another way.
ProfileRows ==
  {Row(layout, "switch", <<>>, {}) : layout \in {"eden", "citron", "sudachi", "yuzu", "lemon", "skyline", "strato", "ryujinx", "kenjinx"}}
    \cup {Row(layout, "wii", <<>>, {}) : layout \in {"dolphin", "dolphin_standalone"}}
    \cup {Row(layout, "3ds", <<>>, {}) : layout \in {"azahar", "citra", "lime3ds"}}
    \cup {Row(layout, "ps3", <<>>, {}) : layout \in {"rpcs3", "aps3e", "armsx3"}}
    \cup {Row(layout, "psp", <<>>, {}) : layout \in {"ppsspp", "ppsspp_standalone", "psp_console"}}
    \cup {Row("cemu", "wiiu", <<>>, {}), Row("vita3k", "psvita", <<>>, {})}

FileRows ==
  OneFileRows \cup OtherSaturnRows \cup OtherPsxRows \cup Ps2Rows \cup ArcadeRows \cup N64Rows
    \cup {GenesisPlusGx, BeetlePsx("mednafen_psx_hw"), BeetlePsx("mednafen_psx"), BeetleSaturn, Kronos, Flycast,
          FlycastStandalone, DolphinGc("dolphin", "User/GC"), DolphinGc("dolphin_standalone", "GC"), PcsxRearmed,
          SwanStation, DuckStation, Opera, SameCdi, NestopiaFds, Bsnes}

LAYOUTS == FileRows \cup ProfileRows

----------------------------------------------------------------------------
(* Finding a row, and what the catalog says of it. *)

\* The platform a slug names.
sigil_layout_platform(slug) ==
  CASE slug \in {"scd", "sega_cd", "sega-cd", "mega_cd", "mega-cd", "megacd"} -> "segacd"
    [] slug \in {"sfc", "sfam"} -> "snes"
    [] slug \in {"ps1", "playstation"} -> "psx"
    [] slug \in {"famicom_disk_system", "fds"} -> "fds"
    [] slug = "dc" -> "dreamcast"
    [] slug \in {"ngc", "gc"} -> "gamecube"
    [] slug = "vita" -> "psvita"
    [] OTHER -> slug

\* A row for the platform before one for any; the libretro files for a layout
\* the table does not have.
sigil_layout_find(layout, platform) ==
  LET named == {row \in LAYOUTS : row.layout = layout}
      own == {row \in named : row.platform # AnyPlatform /\ row.platform = sigil_layout_platform(platform)}
      any == {row \in named : row.platform = AnyPlatform} IN
    CASE own # {} -> CHOOSE row \in own : TRUE
      [] own = {} /\ any # {} -> CHOOSE row \in any : TRUE
      [] OTHER -> LibretroDefault

\* The folders a client lists besides the save root itself.
sigil_save_layout_subdirs(layout) == UNION {row.subdirs : row \in {r \in LAYOUTS : r.layout = layout}}

\* The options template variables read, and the value each takes when none is
\* sent.
VARIABLE_OPTIONS ==
  [var \in {"cart_size", "nvram_version", "pcsx2_slot1", "pcsx2_slot2", "left_index", "right_index"} |->
     CASE var = "cart_size" -> [key |-> "genesis_plus_gx_cart_size", fallback |-> "4meg"]
       [] var = "nvram_version" -> [key |-> "opera_nvram_version", fallback |-> "0"]
       [] var = "pcsx2_slot1" -> [key |-> "Slot1_Filename", fallback |-> "Mcd001.ps2"]
       [] var = "pcsx2_slot2" -> [key |-> "Slot2_Filename", fallback |-> "Mcd002.ps2"]
       [] var = "left_index" -> [key |-> "memcard_left_index", fallback |-> "0"]
       [] OTHER -> [key |-> "memcard_right_index", fallback |-> "1"]]

GPGX_CARTS == {"128k", "256k", "512k", "1meg", "2meg", "4meg"}

REGION_VALUES == [value \in {"auto", "ntsc-u", "pal", "ntsc-j"} |->
                    CASE value = "ntsc-u" -> "U" [] value = "pal" -> "E" [] value = "ntsc-j" -> "J" [] OTHER -> ""]

Conditions(row) == FlattenSeq([i \in DOMAIN row.files |-> row.files[i].conditions])
OptionVariables(row) == UNION {Range(row.files[i].vars) : i \in DOMAIN row.files} \cap DOMAIN VARIABLE_OPTIONS

OptionKeys(row) ==
  {c.key : c \in Range(Conditions(row))}
    \cup {VARIABLE_OPTIONS[var].key : var \in OptionVariables(row)} \cup ({row.region} \ {None})

\* The values of an option the row's files depend on.
OptionValues(row, key) ==
  {c.value : c \in {c \in Range(Conditions(row)) : c.key = key}}
    \cup (IF key = VARIABLE_OPTIONS["cart_size"].key THEN GPGX_CARTS ELSE {})
    \cup (IF key = row.region THEN DOMAIN REGION_VALUES ELSE {})

\* The catalog's default_value: of the first file that applies by default.
DefaultValue(row, key) ==
  LET first == SelectSeq(Conditions(row), LAMBDA c : c.key = key /\ c.default)
      variables == {var \in OptionVariables(row) : VARIABLE_OPTIONS[var].key = key} IN
    CASE key = row.region -> "auto"
      [] variables # {} -> VARIABLE_OPTIONS[CHOOSE var \in variables : TRUE].fallback
      [] OTHER -> IF first = <<>> THEN None ELSE Head(first).value
============================================================================
