SPECIFICATION FairSpec
CONSTANTS
  c1 = c1
  c2 = c2
  plain = plain
  secure = secure
  other = other
  refused = refused
  outside = outside
  inside = inside
  Nobody = Nobody
  Calls <- MCCalls
  Urls <- MCUrls
  Allowed <- MCAllowed
  Secure <- MCSecure
  Addresses <- MCAddresses
  Public <- MCPublic
  MaxTunnels = 1
  MaxRedirects = 1
INVARIANTS
  PolicyKept
  PlacesCounted
PROPERTY EveryPlaceComesBack
CHECK_DEADLOCK FALSE
