CONSTANTS
  V4Bits = 2
  V6Bits = 4
  MappedHead = 1
  ConnMod = 4
  Mbit = 2
  Listings <- MCListings
  MaxPort = 3
  MaxUsers = 2
  NodeMethod = "rc4-md5"
  Lower <- MCLower
  Supported = {"rc4-md5", "chacha20-ietf"}
SPECIFICATION Spec
INVARIANTS TypeOK TablesFollowRows PoliciesExact
PROPERTIES UserChangesAreSilent
