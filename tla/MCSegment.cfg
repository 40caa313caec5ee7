SPECIFICATION FairSpec
CONSTANTS
  Router = {1, 2, 3}
  Id <- MCId
  MyPriority = 1
  Start <- MCStart
  MaxElecting = 1
INVARIANT JoinerKeepsDr
PROPERTY HangsHaveCause
PROPERTY RoutersAreInterfaces
PROPERTY ElectionsCease
PROPERTY EventuallyAgree
CHECK_DEADLOCK FALSE
