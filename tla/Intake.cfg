CONSTANTS
  M = 2
  Tickets = {1, 2}
  Backoffs = 1
  MaxMishaps = 2
SPECIFICATION Spec
INVARIANTS
  TypeOK
  PicturesAreKept
PROPERTIES
  PictureKeepsTicket
  ListenerReturns
CHECK_DEADLOCK FALSE
