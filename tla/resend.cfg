SPECIFICATION FairSpec
CONSTANTS
  s1 = s1
  Slot = {s1}
  MaxLeases = 2
  Purposes = {"SEARCH"}
  FetchAnswers = {"answered"}
  MaxLifecycles = 1
  MaxDrops = 1
  MaxPermits = 1
PROPERTIES PendingIsSettled 
CHECK_DEADLOCK FALSE
