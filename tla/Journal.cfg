\* A journal of three entries of which two are saved, over two lives.
SPECIFICATION FairSpec
CONSTANTS
  BatchSize = 1
  JournalCap = 3
  SaveCap = 2
  ReadCap = 1
  MaxSeq = 2
  MaxEntries = 2
  MaxLives = 2
  MaxFaults = 1
INVARIANTS ReaderServed CloseKeepsHistory
PROPERTIES EventuallySaved
\* A bridge may have ended for the last time.
CHECK_DEADLOCK FALSE
