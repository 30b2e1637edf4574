SPECIFICATION Spec
CONSTANTS
  Users <- MCUsers
  Owner = "u1"
  Addresses <- MCAddresses
  home <- MCHome
  Elsewhere <- MCElsewhere
  AdminWallet = "admin"
  Invitations = {i1, i2}
  Events = {e1, e2}
  None = None
INVARIANT RolesAgree
PROPERTY MembershipsAreGiven
CHECK_DEADLOCK FALSE
SYMMETRY MCIds
