\* Events only, under fairness: a deque of three, a journal of four, a session that is lost and
\* restored.
SPECIFICATION FairSpec
CONSTANTS
  c1 = c1
  c2 = c2
  NoCommand = NoCommand
  Command = {}
  Diagnostic = {}
  BatchSize = 2
  EventCap = 3
  ResultCap = 1
  InboxCap = 1
  ReceivedCap = 1
  PendingCap = 1
  JournalCap = 4
  CommandTTL = 0
  Grace = 1
  HeartbeatTTL = 1
  MaxSeq = 4
  MaxLosses = 1
  MaxOrphans = 1
INVARIANTS NoEventLost JournalInOrder ConnectionAlternates StopLeavesNoGap
PROPERTIES EveryEventRecorded
