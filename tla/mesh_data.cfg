SPECIFICATION Spec
CONSTANTS
  Versions = {1, 2}
  Digests = {"d1"}
  NoLedger = NoLedger
  NoAdvert = NoAdvert
  Devices = {"e1"}
  Spatials = {"s1"}
  NoSpatial = "none"
  Books <- BooksValue
  NoBook = NoBook
  MeshNets = {"m1", "m2"}
  MaxVersion = 3
  HandleMax = 2
  ChunksMax = 1
  Peers = {"p1", "p2", "self"}
  Self = "self"
  NoKey = NoKey
  Texts = {"d", "d1"}
  Prefixes <- PrefixesValue
  NoHost = NoHost
  Hosts <- HostsValue
  PeerMax = 1
  StaleAfter = 0
  OfflineAfter = 1
  TickMax = 2
  Unpaired = {"e1"}
  Fields = {"a", "b"}
  BookRows = 1
INVARIANTS AdvertIsCurrent BookIsTheAnswered OfferedPeersHold FreshPeerIsOnline BookIsSaved SyncedMeansSet
