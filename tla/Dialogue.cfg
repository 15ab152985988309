SPECIFICATION Spec
CONSTANTS
  Provinces = {"p"}
  Cities = {"c"}
  Years <- TwoAges
  PerUser = 2
  MaxPolicy = 3
INVARIANTS OncePerUpdate FormIsCoherent
PROPERTIES DraftSurvives
