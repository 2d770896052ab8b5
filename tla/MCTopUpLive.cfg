SPECIFICATION FairSpec
CONSTANTS
  h1 = h1
  h2 = h2
  t1 = t1
  t2 = t2
  x1 = x1
  m1 = m1
  m2 = m2
  Handlers = {h1, h2}
  Processes = {"p1"}
  Process <- OneProcess
  Trades = {t1}
  Mutexes = {m1, m2}
  NoMutex = NoMutex
  NoTrade = NoTrade
  Nobody = Nobody
  Methods = {"epay", "stripe", "creem", "pancake"}
  Astray = {}
  Hashes = {x1}
  NoHash = NoHash
  MaxFaults = 2
PROPERTIES
  PaidIsCredited
