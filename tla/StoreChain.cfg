\* One process with up to two updates outstanding.
SPECIFICATION Spec
CONSTANTS
  p1 = p1
  NoDoc = NoDoc
  Clients <- MCClients
  Fields <- MCFields
  Values <- MCValues
  Initial <- MCInitial
  MaxPending = 2
PROPERTY ChainIsAtomic
