\* Pages of one and of two keys while objects come and go and the settings change.
CONSTANTS
  ServiceHost <- TheHost
  Bucket <- TheBucket
  PublicBase <- ThePublicBase
  Keys <- ThreeKeys
  ListedPrefixes <- TwoPrefixes
  PageSizes = {0, 1}
  Endpoints <- OneEndpoint
  PublicUrls <- TwoSites
  PageLimit = 2
  MaxBody = 4
SPECIFICATION ListingSpec
INVARIANTS
  ListingTypeOK
  NothingAstray
  CompleteListing
