CONSTANTS
  Conns = {c1, c2}
  Files = {f1, f2}
  Fds = {d1, d2, d3}
  Socket = Socket
  Nothing = Nothing
SPECIFICATION CacheFairSpec
INVARIANTS CacheMatchesTable RecentIsSentRight CacheInv
PROPERTIES IdleIsClosed
