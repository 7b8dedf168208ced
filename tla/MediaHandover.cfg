SPECIFICATION FairSpec
CHECK_DEADLOCK FALSE
CONSTANTS
    Messages = {"picture", "clip", "note"}
    Media = {"picture", "clip"}
    Threads = {t1, t2}
    SeenLimit = 2
    MaxAttempts = 1
    MaxItems = 2
    MaxMarks = 4
    MaxKills = 1
    NoMessage = NoMessage
INVARIANTS OncePerItem BodyReaches SeenOnce
PROPERTIES EveryItemHanded
