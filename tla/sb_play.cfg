SPECIFICATION FairSpec
CONSTANTS
    Base = 2
    Songs <- McSongs
    Space = 3
    SmallBlock = 1
    DetectLimit = 2
    MainUses <- McUses
    HandlerUses <- McHandler
INVARIANTS TypeOK WholeBlocks PollsAreCurrent NeverDeaf
PROPERTIES InOrder InterruptsCome
