SPECIFICATION FairSpec
CONSTANTS
  None = None
  Looks <- MCLooks
  Staff <- MCStaff
INVARIANTS  NothingRefused
PROPERTIES  ExpiredSessionLeaves
CHECK_DEADLOCK FALSE
