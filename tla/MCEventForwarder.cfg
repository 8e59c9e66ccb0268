SPECIFICATION FairForwarderSpec
CONSTANTS
  plain = plain
  retrying = retrying
  Resources = {r1}
  Endpoints <- TwoEndpoints
  MaxAttempts <- Attempts
  Workers = {w1, w2}
  QueueSize = 1
  MaxChanges = 3
  MaxFaults = 2
INVARIANTS ForwarderTypeOK QuietIsCurrent
PROPERTIES Drains
CHECK_DEADLOCK FALSE
