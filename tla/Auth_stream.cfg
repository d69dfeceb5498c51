CONSTANTS
  Users <- MCUsers
  Clients <- MCClients
  IvLen = 12
  UnitLen = 2
  IdMod = 4
  MaxRemote = 4
SPECIFICATION Spec
INVARIANTS TypeOK FragmentationIrrelevant PayloadIntact NothingPastAnError RightUser TransportsAgree ClientDecodes
CHECK_DEADLOCK FALSE
