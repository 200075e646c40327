\* Three messages at most, each built or captured, cut before or at the slot.
SPECIFICATION Spec
CONSTANTS
    MaxPacket = 512
    MaxEntries = 64
    Fields = {1, 2}
    Lists <- MCLists
    Foreign <- MCForeign
    Cuts <- MCCuts
    MaxMessages = 3
INVARIANTS TypeOK DecodesWholeMessages CapNeverReached
CHECK_DEADLOCK FALSE
