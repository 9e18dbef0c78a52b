\* Two alike reports and a blank one, each sent twice.
SPECIFICATION FairSpec
CONSTANTS
    Reports = {r1, r2, r3}
    Blank = r3
    Texts = {"same", "blank"}
    Wordless = {"blank"}
    Text <- MCText
    MaxAsked = 2
INVARIANTS
    TwinsWereHidden
PROPERTIES
    StoredIsFoundLater
CHECK_DEADLOCK FALSE
