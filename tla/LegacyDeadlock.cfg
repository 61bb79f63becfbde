\* GLFW, one key, two commands, both threads fair: the monitors are taken in both orders.
SPECIFICATION FairSpec
CONSTANTS
  w = w
  s = s
  Key = {w}
  Backend = {"glfw"}
  MaxHold = 1
  CommandTTL = 1
  LeaseTTL = 0
  InboxCap = 1
  MaxCommands = 2
PROPERTIES HeldKeyReleased
