SPECIFICATION FairSpec
CONSTANTS
  Replies <- MCReplies
  Boots <- MCBoots
  HoldAge = 2
  PulseAge = 1
  IdleAge = 1
  Limit = 1
  LostAfter = 2
INVARIANTS
  HangsUpForCause
PROPERTIES
  SlowPushIsInput
  HostCatchesUp
  PlainPeerIsShed
