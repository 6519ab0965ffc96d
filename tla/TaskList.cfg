\* Up to three tasks in the client's scope, with ids that another scope shares
\* and equal or missing timestamps among them; two saves between pages; pages
\* of one and of two, and a refused size.
CONSTANTS
    TaskId = {1, 2, 3}
    Scope = {mine, other}
    Mine = mine
    PageSize = {0, 1, 2}
    Start = 2
    MaxSaves = 2
SPECIFICATION Spec
INVARIANT
    ExactPages
PROPERTIES
    ListingEnds
\* the client has its list, and saves are bounded
CHECK_DEADLOCK FALSE
