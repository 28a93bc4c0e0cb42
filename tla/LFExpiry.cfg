SPECIFICATION FeedSpec
CONSTANTS
    Socket = {s1}
    Principal = {k1}
    Owners = {}
    KitchenStaff = {k1}
    FeedRequest = {j1}
    ExpiryMeetsJoin = TRUE
PROPERTIES
    FeedsEnd
CHECK_DEADLOCK FALSE
