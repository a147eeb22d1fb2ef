CONSTANTS
  p1 = p1  p2 = p2  NoProc = NoProc  o1 = o1  m1 = m1  NoModel = NoModel
  r1 = r1  r2 = r2  key1 = key1  list1 = list1  LowNeed = LowNeed
  NoLease = NoLease  NoRow = NoRow  NoContext = NoContext
  NoCursor = NoCursor  NoMark = NoMark  NoId = NoId  NoEvent = NoEvent  Event0 = Event0
SPECIFICATION Spec
PROPERTIES IntentIsResumed InvocationEnds RunEnds EveryLoadObserved
CHECK_DEADLOCK FALSE
