\* Three bridges, two of them companions, that start at any time and die anywhere.
SPECIFICATION FairLockSpec
CONSTANTS
  b1 = b1
  b2 = b2
  b3 = b3
  NoBridge = NoBridge
  Bridge = {b1, b2, b3}
  Companion = {b2, b3}
INVARIANTS OneOwnerInTurn LiveOwnerKept FilesNameTheServer
PROPERTIES StaleLockReplaced
\* Every process may have died.
CHECK_DEADLOCK FALSE
