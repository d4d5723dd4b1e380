CONSTANTS
  r1 = r1
  r2 = r2
  User <- MCUser
  NameOf <- MCNameOf
  IdPrefix <- MCIdPrefix
  Owner = "owner"
  Invite = {"i1"}
  InviteRole = {"player", "host"}
  Switched = {"dm_mention"}
  Request <- MCRequest
  Fill = {"f1"}
  Socket = {"s1"}
  MaxCrashes = 1
SPECIFICATION Spec
SYMMETRY MCSymmetry
INVARIANTS
  TypeOK
  SomeoneIsInCharge
  InviteAdmitsOnce
  HandlesAreUnique
  RoutesAsTheCampaignIs
  LiveSocketsAreMembers
CHECK_DEADLOCK FALSE
