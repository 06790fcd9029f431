SPECIFICATION ServingSpec
CONSTANTS
  NumBuckets = 7
  NoBucket = NoBucket
  e1 = e1
  e2 = e2
  c1 = c1
  ExpIds = {e1, e2}
  GroupIds = {g1, g2, g3}
  Variants <- MCVariants
  Conditions = {c1}
  Context <- MCContext
  GroupContexts <- MCGroupContexts
  GroupTraffics = {3}
  None = None
  Deleted = Deleted
SYMMETRY GroupSymmetry
INVARIANTS
  TypeOK
  MembershipConsistent
  AllocationExact
  SystemGroupOwned
  MembersMatchContext
  OneVariantPerUser
  SystemGroupFairShare
PROPERTY StickyVariants
CHECK_DEADLOCK FALSE
