SPECIFICATION Spec
CONSTANTS
  ann = ann
  bob = bob
  cat = cat
  home = home
  work = work
  Users = {ann, bob, cat}
  Founders = {ann}
  MfaUsers = {bob, cat}
  Emails = {home, work}
  FirstEmail <- HomeOfAnn
  Internal = {work}
  NoEmail = NoEmail
  RoleSets <- TwoRoleSets
  NoRoles = NoRoles
  Processes = {p1, p2}
  AccessTTL = 2
  MfaTTL = 1
  MaxCalls = 4
SYMMETRY Symmetry
INVARIANTS
  SharersBounded
  PromotionsHaveARoot
  TokensCatchUp
  VerifiedIsProven
  CommittedIsAnswered
