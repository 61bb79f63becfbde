\* Both backends: two keys, three commands and a command queue of two.
SPECIFICATION Spec
CONSTANTS
  w = w
  s = s
  Key = {w, s}
  Backend = {"glfw", "lwjgl2"}
  MaxHold = 1
  CommandTTL = 1
  LeaseTTL = 1
  InboxCap = 2
  MaxCommands = 3
INVARIANTS TypeOK CompletedOnce GlfwNoResultLost GlfwNothingSticks
SYMMETRY Symmetry
