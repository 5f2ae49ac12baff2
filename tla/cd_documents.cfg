CONSTANTS
  lead = lead
  member = member
  boss = boss
  d1 = d1
  d2 = d2
  nobody = nobody
  Nobody = nobody
  Hierarchies <- MCUnit
  MaxChainDepth = 3
  Idle = Idle
  Desk = {d1, d2}
  Target = {"note", "case", "entity"}
  Tier = {0, 1}
  Name = {"A"}
  Officer = {lead, member, boss}
  Lead = lead
  Role <- MCRole
  Clearance <- MCClearance
  CaseTier = 0
  Visibility = {"private_author", "case_team", "supervisory_chain"}
  MaxChanges = 3
  MaxRows = 2
SPECIFICATION Spec
SYMMETRY Desks
INVARIANTS
  LastingPoliciesMask
  DocumentsAudited
  LabelCovers
  EntitledUnlessReshuffled
  RegistryAccounted
