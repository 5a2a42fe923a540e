SPECIFICATION EitherSpec
CONSTANTS
  Devices <- MCSearchDevices
  LookupDevices <- MCLookupDevices
  Threads = 2
  TileCount = 3
  PipPlaces = 8
  StrCount = 7
  WireCount = 5
  NodeCount = 4
  SitePinsCount = 5
  Word <- MCWord
  Tables <- MCCacheTables
  MaxStops = 3
  NotLoaded = NotLoaded
INVARIANTS MadeAsItShould AllResolve DamageIsForGood
PROPERTY PlacesOwned
