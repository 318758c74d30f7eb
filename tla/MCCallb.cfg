\* All daemons may be registered at once, so that the class list is walked, cut and
\* grown under the two suspends.
CONSTANTS
  d1 = d1
  d2 = d2
  d3 = d3
  Cpr = cpr
  NoThread = none
  Daemon = {d1, d2, d3}
  MaxSuspends = 2
SPECIFICATION FairSpec
INVARIANTS
  NoWorkWhileSuspended
  CalledIsRegistered
  SafeIsNoticed
PROPERTY NobodyStaysStopped
