\* File data of several NFS proxies: packed places, moves, defragmentation
SPECIFICATION Spec
CONSTANTS
  Setups <- MCSetups
  VolMax = 4
  PlaceMax = 7
INVARIANT DataKept
PROPERTY RequestsEnd
