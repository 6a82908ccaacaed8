SPECIFICATION ResolveSpec
CONSTANTS
  None = None
  Ports <- MCPorts
  Requests <- MCRequests
  Contents <- MCContents
  Subs <- MCSubs
  Values = {"0", "1", "Mcd001.ps2"}
  MaxFiles <- MCMaxFiles
  MaxSent = 2
  FolderRequests <- MCFolderRequests
  Games <- MCGames
  Slots <- MCSlots
  Asked <- MCAsked
  Files <- MCFiles
  Bases <- MCBases
  Begins <- MCBegins
  LowerOf <- MCLowerOf
  MaxSaves <- MCMaxSaves
INVARIANTS FilesSound FoldersSound FoldersPlaced
PROPERTIES IdentityOfState
CHECK_DEADLOCK FALSE
