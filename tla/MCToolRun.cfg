SPECIFICATION FairSpec
CONSTANTS
  evtx = evtx
  rdp = rdp
  pstree = pstree
  psscan = psscan
  iocs = iocs
  RawOrder <- MCRawOrder
  DerivedOrder <- MCDerivedOrder
  Resolved = {rdp}
  LocalFirst = {evtx}
  LocalFallback = {evtx, rdp}
  Pstree = pstree
  Psscan = psscan
  Investigating = {rdp}
  Workers = 2
CHECK_DEADLOCK FALSE
INVARIANTS
  TypeOK
  VerdictsMatch
  NeverOverstated
PROPERTIES
  KeepsCollection
  Step6Ends
