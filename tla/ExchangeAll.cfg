SPECIFICATION ExchangeSpec
CONSTANTS
    CustomTools = {2}
    MaxBlocks = 2
    MaxRetries = 1
    MaxBlocksWritten = 3
    MaxMessages = 4
    MaxItems = 5
INVARIANTS
    ClientStreamWhole
    AnswerOfOneAttempt
    ResponsesAgree
    ChatTellsAll
    NativeTellsAll
CHECK_DEADLOCK FALSE
