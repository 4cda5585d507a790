SPECIFICATION FairSpec
CONSTANTS
    Hosts = {"STD", "FreeRTOS", "Loop", "Arduino"}
    Clients = {c1, c2}
    Owner = Owner
    MayReleaseInside = FALSE
    MaxPosts = 3
INVARIANT ReleasedIsIdle
PROPERTIES ReleaseReturns EventsAreTaken
CHECK_DEADLOCK FALSE
