SPECIFICATION FairSpec
CONSTANTS
    p1 = p1
    p2 = p2
    p3 = p3
    Proc <- MCProc
    NoFile = NoFile
    MaxCrashes = 2
INVARIANTS TypeOK ExclusiveUnlessMisfire ReleaseIsOwn
PROPERTIES AbandonedLockIsTaken
