\* Two controls, four commands in any order, a queue that fills up after two events.
SPECIFICATION FairSpec
CONSTANTS
  w = w
  lmb = lmb
  NoControl = NoControl
  Control = {w, lmb}
  SynthCap = 1
  MaxHold = 2
  CommandTTL = 1
  LeaseTTL = 1
  InboxCap = 2
  MaxCommands = 4
INVARIANTS TypeOK NothingSticks
PROPERTIES EventuallyReleased
