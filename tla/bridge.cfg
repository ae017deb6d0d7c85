SPECIFICATION FairSpec
CONSTANTS
  RawTick = RawTick
  DirectTick = DirectTick
  d1 = d1
  d2 = d2
  d3 = d3
  NoEvent = NoEvent
  Events <- MCEvents
  OnInterrupt <- MCOnInterrupt
  OnEvent <- MCOnEvent
  Route <- MCRoute
  Capacity = 2
INVARIANT NoLostFire
INVARIANT BoundedWait
INVARIANT DropsOnlyWhenFull
PROPERTY RefinesQueue
PROPERTY EventuallyServed
