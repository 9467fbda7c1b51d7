SPECIFICATION FairSpec
CONSTANTS
  k1 = k1  l1 = l1  none = none  p1 = p1  p2 = p2
  None = none
  Keys <- MC_Keys
  Links <- MC_Links
  Reqs <- MC_Reqs
  Expiry = 0
  TTL = 1
  Wait = 1
  Faulty <- MC_Faults
  MaxFaults = 1
  MaxBegun = 3
  MaxNow = 2
PROPERTIES Answered Indexed
INVARIANTS AnnounceHeard LinksFollow UrlBounded IndexComplete DeletionsTold
INVARIANTS CacheFollows TracesInv
CHECK_DEADLOCK FALSE
