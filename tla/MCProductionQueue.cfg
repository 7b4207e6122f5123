\* Two requests for jobs and one job of another client.
SPECIFICATION FairSpec
CONSTANTS
    Requests = {r1, r2}
    None = None
    MaxTaken = 1
INVARIANTS TypeOK RequestedOnce OneItemAtWork RunningIsFollowed
PROPERTIES QueueMovesUnlessForgotten
