SPECIFICATION Spec
CONSTANTS
  Lists <- SmallLists
  Entries = 1
  Vlan = {0, 2}
  MngVid = 2
  NoVid = 65535
INVARIANTS
  AddressesAgree
  VlansAgree
