SPECIFICATION ProgramsSpec
CONSTANTS
  DOWN_NUM = 3
  COMP_NUM = 1
  Names = {1, 2, 3}
  MaxList = 4
  Lengths = {0, 5, 6}
  SplitAt = 3
  MaxCalls = 2
  IndexName = "index"
  Playlists <- MCPlaylists
  SubLists <- MCSubLists
  MaxRuns = 2
  Alphabets <- MCAlphabets
  MaxText = 5
  Threads = {t1, t2, t3}
  MaxSync = 2
  MaxThrows = 1
  MaxEmpty = 60
INVARIANTS
  LoopsComputeAddDownItems
  JoinedBlocksAreFresh
  FilesOfOneRun
  ParsersAgree
  EmptyHandedOnlyInGap
PROPERTIES
  DownloadsFinish
  RecorderEnds
CHECK_DEADLOCK FALSE
