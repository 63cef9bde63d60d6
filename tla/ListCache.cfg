SPECIFICATION FairSpec
CONSTANTS
  Writer = {w1, w2}
  Reader = {r1}
  Kinds = {"user", "client", "access"}
  Lists = {"users", "bound"}
INVARIANTS
  CacheInv
  ListsShowCountedWrites
PROPERTY StalePagesVanish
