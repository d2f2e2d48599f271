SPECIFICATION PartsSpec
CONSTANTS
  server = server
  cli = cli
  desktop = desktop
  console = console
  d1 = d1
  d2 = d2
  u1 = u1
  m1 = m1
  None = None
  Sqlite = Sqlite
  Processes = {server}
  Server = server
  Dirs = {d1, d2}
  Cwd = d1
  Urls = {u1}
  Models = {m1}
  Outcomes = {TRUE}
  MaxIds = 3
  Programs = {desktop, console}
  Sizes = {2, 6, 7}
  MaxBytes = 6
  ChunkChars = 4
  NoMeta = NoMeta
  Answers = {TRUE, FALSE}
  MaxSaves = 3
  MaxEnds = 1
  MaxCrashes = 1
SYMMETRY Symmetry
CHECK_DEADLOCK FALSE
INVARIANTS
  RegistryWellFormed
  
  SavedIsWhole
  
PROPERTIES
  PutAwayAfterCopy
