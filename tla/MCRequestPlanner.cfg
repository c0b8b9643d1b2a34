SPECIFICATION Spec
CONSTANTS
    ToolCallIds <- MCToolCallIds
    OfficialImageUrlBytes = 3
    OfficialInlineImageBytes = 3
    OfficialLimits <- MCLimits
    ProtectedHeaders <- MCProtectedHeaders
    LowerKey <- MCLowerKey
    Targets <- MCTargets
    Inputs <- MCInputs
    Calls <- MCCalls
    Filtered <- MCFiltered
    Fits <- MCFits
    Hashed <- MCHashed
    MaxPasses = 2
INVARIANTS
    ToolCallsArePaired
    ResubmissionIsIdentity
    TextIsBounded
    AnthropicTurnsAlternate
    SendsOnlyWhatIsSupported
    EncoderRechecksNeverFire
    FactsDescribeTheBody
CHECK_DEADLOCK FALSE
