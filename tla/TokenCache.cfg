SPECIFICATION CacheSpec
CONSTANTS
  Threads = {t1, t2, t3}
  Lifetimes = {4, 6}
  MINLIFE = 4
  MARGIN = 2
  FLOOR = 2
  TIMEOUT = 1
  MAXTIME = 8
SYMMETRY Alike
INVARIANTS TokensBounded
PROPERTY HandedOutFresh
