\* Two commands, one of them a diagnostic, over a lossy link, under fairness; no client
\* events but the ones commands raise.
SPECIFICATION FairSpec
CONSTANTS
  c1 = c1
  c2 = c2
  NoCommand = NoCommand
  Command = {c1, c2}
  Diagnostic = {c2}
  BatchSize = 2
  EventCap = 2
  ResultCap = 2
  InboxCap = 1
  ReceivedCap = 1
  PendingCap = 1
  JournalCap = 3
  CommandTTL = 1
  Grace = 1
  HeartbeatTTL = 1
  MaxSeq = 0
  MaxLosses = 0
  MaxOrphans = 1
INVARIANTS AtMostOnce TruthfulReply
PROPERTIES LateBeginsOnlyInLongPump DeliverySpec EveryCallAnswered
