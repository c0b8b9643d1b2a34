SPECIFICATION Spec
CONSTANTS
  MachineAccept <- AnthropicAccept
  MachineFinish <- AnthropicFinish
  Feeds <- MCEmptyToolFeeds
  MaxEventsPerPoll = 2
  JsonObjects <- MCJsonObjects
  JsonOthers <- MCJsonOthers
  SchemaInstances <- MCSchemaInstances
  EmptyObject <- MCEmptyObject
  MaxStructuredBytes = 2
  MaxCount = 4
  MaxToolCalls = 2
  MaxToolArguments = 2
  MaxAllToolArguments = 2
  MaxContentBlocks = 3
  MaxStreamEvents = 10
  MaxOpaqueThinking = 2
INVARIANTS
  CompletesWhenTheStreamDoes
