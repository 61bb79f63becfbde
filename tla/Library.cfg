\* Three explorations of one model, chosen by MCBounds: two mods and the queue with one call at
\* a time; two ingestions at once over three rows; two calls over two runs of Vineflower.
SPECIFICATION LiveSpec
CONSTANTS
  a = a
  b = b
  copy = copy
  mod = mod
  other = other
  bytes1 = bytes1
  bytes2 = bytes2
  c1 = c1
  c2 = c2
  NoJar = NoJar
  Jar <- MCJar
  ModOf <- MCMod
  Key <- MCMod
  Dir <- MCMod
  Content <- MCContent
  Call = {c1, c2}
  Bounds <- MCBounds
  MaxMods = 3
  MaxRetries = 1
  MaxRuns = 2
  MaxFaults = 1
INVARIANTS TypeOK KeepsAMod SourceIsOwn NothingForgotten
PROPERTIES EventuallyEmbedded
\* Every bound may be used up.
CHECK_DEADLOCK FALSE
