SPECIFICATION FairSpec
CONSTANTS
  t1 = t1
  t2 = t2
  t3 = t3
  Timer <- MCTimer
  Setting <- MCSetting
  RT_TICK_MAX = 11
  MaxInit = 2
  MaxLate = 1
  RestartsItself = FALSE
PROPERTIES
    
    CheckEnds
