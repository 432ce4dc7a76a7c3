SPECIFICATION FairSpec
CONSTANTS
  MaxTime = 4
  Minutes = {1, 2}
  Days = {1, 3}
  DefaultDays = 2
  Grace = 1
CHECK_DEADLOCK FALSE
INVARIANTS
  TypeOK
  NeverInvalid
  SwitchHonest
PROPERTIES
  GrantedHere
  SwitchCatchesUp
