SPECIFICATION FairSpec
CONSTANTS
  MachineAccept <- OpenAiAccept
  MachineFinish <- OpenAiFinish
  Feeds <- MCDriverFeeds
  MaxEventsPerPoll = 1
  JsonObjects <- MCJsonObjects
  JsonOthers <- MCJsonOthers
  SchemaInstances <- MCSchemaInstances
  DeepJson <- MCDeepJson
  MaxStructuredBytes = 2
  MaxCount = 3
  MaxToolCalls = 2
  MaxToolArguments = 3
  MaxAllToolArguments = 4
  MaxToolName = 1
INVARIANTS
    DeliversWhatTheMachineEmits
PROPERTY
    NeverStranded
