\* Two bridges find the lock of a third that died.
SPECIFICATION LockSpec
CONSTANTS
  b1 = b1
  b2 = b2
  b3 = b3
  NoBridge = NoBridge
  Bridge = {b1, b2, b3}
  Companion = {b3}
INVARIANTS OneOwner
\* Every process may have died.
CHECK_DEADLOCK FALSE
