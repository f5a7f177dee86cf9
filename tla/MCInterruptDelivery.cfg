SPECIFICATION FairSpec
CONSTANTS
  NumQueues = 2
  QueueSize = 2
  MaxClientCalls = 2
INVARIANTS
  MaskedOnlyUntilHandled
  NoLostCompletion
  NoLostConfigChange
PROPERTIES
  CompletionsProcessed
  ConfigChangesDelivered
