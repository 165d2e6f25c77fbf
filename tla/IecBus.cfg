SPECIFICATION FairSpec
CONSTANTS
    Bits = 3
    Polls = 1
    Wide = 4
    LISTEN <- MCListen
    TALK <- MCTalk
    UNLISTEN <- MCUnlisten
    UNTALK <- MCUntalk
    SECOND <- MCSecond
    Dollar <- MCDollar
    Commands <- MCCommands
    Message <- MCMessage
    Rooms <- MCRooms
INVARIANTS TypeOK BytesIntact BusInOrder
PROPERTIES DialogsEnd
