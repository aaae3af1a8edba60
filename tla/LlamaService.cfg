SPECIFICATION FairSpec
CONSTANTS
  c1 = c1
  c2 = c2
  c3 = c3
  Nobody = Nobody
  Calls <- ThreeCalls
INVARIANTS Undisturbed NoLeak
PROPERTIES Settles IsSerialQueue
CHECK_DEADLOCK FALSE
