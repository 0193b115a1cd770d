\* two drafts, deliveries prepared and not, reorganised out while reviewed
SPECIFICATION LiveSpec
CONSTANTS
    Submissions = {s1, s2}
    Contents = {c1, c2}
    Foreign = foreign
    MaxTx = 2
    MaxReviews = 1
INVARIANTS
    PreparedKept
    StatusFollowsChain
    ExternalNotReviewed
    ReviewOnDelivery
PROPERTIES
    RewindCompletes
CHECK_DEADLOCK FALSE
