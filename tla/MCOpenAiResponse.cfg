SPECIFICATION Spec
CONSTANTS
  MachineAccept <- OpenAiAccept
  MachineFinish <- OpenAiFinish
  Feeds <- MCFeeds
  MaxEventsPerPoll = 2
  JsonObjects <- MCJsonObjects
  JsonOthers <- MCJsonOthers
  SchemaInstances <- MCSchemaInstances
  DeepJson <- MCDeepJson
  MaxStructuredBytes = 2
  MaxCount = 3
  MaxToolCalls = 2
  MaxToolArguments = 3
  MaxAllToolArguments = 4
  MaxToolName = 1
INVARIANTS
    AssemblesTheWire
    CollectorAgreesUnlessUsageGrew
    DeliveredWithinLimits
    DoneIsEarned
    ReportsUsage
