SPECIFICATION MCSpec
CONSTANTS
    BUFSZ = 4
    Codes = {"a", "b"}
    Keys <- AllKeys
    scantbl_set1 <- Set1
    scantbl_set1_ext <- Set1Ext
    NoKey = NoKey
    UserKeys <- AllPlaces
    Extras <- HasPause
    AltKeys <- Ctrl
    CtrlKeys <- Ctrl
    DelKey = "del"
    Typematic = TRUE
    Preempt = "room"
    MaxUnread = 8
    MaxPressed = 2
    MaxWire = 2
    Putbacks <- Ctrl
INVARIANTS
    AnyKeyHeld
