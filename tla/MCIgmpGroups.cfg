SPECIFICATION IgmpSpec
CONSTANTS
  Groups = {g1, g2}
  Me = 2
  Others = {1, 3}
  VifVersion = 2
  MembershipTimeout = 3
  LastMemberQueryInterval = 1
  LastMemberQueryCount = 1
  QuerierTimeout = 1
  Tmos = {1}
  MaxElapsed = 2
  MaxStops = 1
  MaxLeft = 1
INVARIANTS
  IgmpTypeOK
  TimersMatchGroups
  ModesEnd
  OneQuerier
PROPERTY MembershipSpec
SYMMETRY MCSymmetry
CHECK_DEADLOCK FALSE
