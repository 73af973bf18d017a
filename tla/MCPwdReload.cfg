SPECIFICATION PwdAlone
CONSTANTS
  Schemes = {"tcp", "udp6", "sctp", "unix"}
  OptSets = {{}, {"noconnect"}, {"onetomany"}, {"broadcast", "noreuse"}}
  MaxAddrs = 2
  NoTimeout = NoTimeout
  MaxTimeout = 2
  MaxHandler = 2
  MaxHeld = 2
  MaxIo = 4
  MaxSignals = 2
  Comment = Comment
  NoPass = NoPass
  NoRecord = None
  None = None
  Users = {"u", "v"}
  Passwords = {"p", "q"}
  Contents <- PwdFiles
  Candidates <- Guesses
  FileContents <- TwoChunks
  MaxChanges = 2
  MaxFailures = 2
  Byte = "x"
  BlockSize = 2
  PrintfGrow = 4
  MaxBufLen = 6
  Outputs = {0, 1, 2, 3, 5}
  Chunks = {"x", "y"}
  Old = "old"
  Torn = "torn"
INVARIANTS PwdKeepsOldDb
