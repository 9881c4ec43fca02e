SPECIFICATION FairSpec
CONSTANTS
  g1 = g1
  g2 = g2
  a1 = a1
  Getters = {g1, g2}
  Adders = {a1}
  ChanLen = 2
  MaxAdds = 5
  NoChan = NoChan
INVARIANTS
  TypeOK
  NothingLost
PROPERTIES
  EverythingReceived
