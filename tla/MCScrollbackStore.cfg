SPECIFICATION Spec
CONSTANTS
    Channels = {1, 2}
    Tabs = {1}
    Messages <- MCMessages
    MaxId = 3
    MaxFaults = 1
    SB_ANCHOR_MAX = 2
    FTS_BACKFILL_CHUNK = 2
CONSTRAINT LostUnread
INVARIANTS CacheTrue ReadsTrue SearchTrue
PROPERTY BackfillEnds
CHECK_DEADLOCK FALSE
