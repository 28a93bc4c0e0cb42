SPECIFICATION Spec
CONSTANTS
    Owner = {e1}
    Business = {b1, b2}
    OwnerRequest = {r1, r2}
    MaxPasswords = 2
    Staff = {p1, m1}
    PinStaff = {p1}
    StaffRequest = {r1, r2}
    PinLockoutThreshold = 3
    Group = {g1}
    Modifier = {o1, o2}
    GroupRequest = {r1, r2}
    Product = {d1}
    Category = {c1}
    AttachedGroup = {g1}
    Page = {w1}
    MenuRequest = {r1, r2}
    Image = {k1, k2}
    Picture = {t1}
    ImageRequest = {r1, r2}
    v1 = v1
    v2 = v2
    o1 = o1
    o2 = o2
    m1 = m1
    Venue = {v1, v2}
    OwnerOf <- VenueOwner
    Member = {m1}
    EmployedAt <- MemberVenue
    Roles = {"MANAGER", "KITCHEN"}
    Switched = {"TABLES"}
    Call = {q1}
    Payment = {y1, y2}
    Round = {n1}
    Handler = {h1}
    BatchSize = 2
    MaxCrashes = 1
    Socket = {s1}
    Principal = {o1, k1, w1}
    Owners = {o1}
    KitchenStaff = {k1}
    FeedRequest = {j1, j2}
    ExpiryMeetsJoin = FALSE
    Display = {i1, i2}
    Screen = {x1}
    DisplayRequest = {r1, r2}
    MaxTokens = 3
CONSTRAINT SomethingIsClaimed
SYMMETRY Symmetric
INVARIANTS
    TypeOK
    BusinessFlagExact
    PinGuessesBounded
    LongTokenNeedsOwnSecret
    CallsStayAtTheirVenue
    JudgedByTheRows
    FixedOnlyInSingle
    PagesOfferWhatIsAvailable
    RowHasObject
    OneFollowsThePayment
    FollowersAreTimed
PROPERTIES
    VerifiedKeepsPassword
    LateAnswersKeepTheLock
    RemovedStaysRemoved
    DecidedPaymentsAreSettled
    FeedsEnd
    DeadTokensStayDead
CHECK_DEADLOCK FALSE
