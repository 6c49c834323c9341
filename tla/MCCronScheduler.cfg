SPECIFICATION Spec
CONSTANTS
    Messages = {"m1"}
    MaxReplies = 2
    Jobs = {"wake", "backup"}
    Wake = "wake"
    NeedsApproval = {"backup"}
    MaxRetries = 1
    Threads = {1, 2}
    MaxEvents = 3
INVARIANTS
    ServerNeverOverlaps
    FiresOncePerMinute
    RepliesOnce

    
