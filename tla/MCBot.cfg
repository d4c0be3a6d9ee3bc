SPECIFICATION FairSpec
CONSTANTS
    a = a
    b = b
    Chats = {a, b}
    MaxUpdates = 4
    ChatOf <- MCChatOf
    TextOf <- MCTextOf
    MaxLaunches = 2
INVARIANTS TypeOK CommandsAccountedFor CounterIsRuns TriedInOrder
PROPERTIES KeepsDelivery EveryUpdateTried
