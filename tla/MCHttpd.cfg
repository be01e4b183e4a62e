CONSTANTS
  short = short
  long = long
  page = page
  a1 = a1
  b1 = b1
  b2 = b2
  Puts = {short, long}
  Block = {page, a1, b1, b2, Hole}
  Body <- Bodies
  Urls = {"/", "/other"}
  AllowFp = {"/"}
  Old <- OldPage
  Hole = Hole
  MaxSec = 1
SPECIFICATION FairSpec
INVARIANTS TypeOK FileIsThePuts ShownIsCurrent ExitIsGraceful
PROPERTY InterruptEnds
