SPECIFICATION MCSpec
CONSTANTS
  None = None
  Gap = 3
  EndIdle = 8
  MaxWords = 4
  OutBytes = 24
  Samples = 310
  SliceSamples = 53
  InfoWords = 2
  FrameWords = 3
  Blocks = {0, 1}
  Lines <- MCLines
  ReadLines <- MCReadLines
  PollLines <- MCPollLines
  ProbeLines <- MCProbeLines
  Chunks = 2
  AnimEvery = 2
  HostWait = 1
  HomePolls = 1
  SettlePolls = 1
  DelayPolls = 0
  SplashPolls = 1
INVARIANTS
  TakenAsSent
  SlicesAsWhole
  
  DrainIsShown
