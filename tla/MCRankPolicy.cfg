CONSTANTS
  Bad = Bad
  MAX_LAYER_ENTRIES = 3
  MAX_REAL_OPTIONS = 2
  Default <- MCDefault
  Skills = {1, 2, 3}
  Scores = {0, 1}
  UserLayers <- MCUser
  ProjectLayers <- MCProject
  Environment <- MCEnvironment
  Commands <- MCCommands
  Rosters <- MCRosters
  Snoozes <- MCSnoozes
  Priors <- MCPriors
  Overrides <- MCOverrides
  MaxEdits = 1
SPECIFICATION Spec
PROPERTIES PublishedUnderItsPolicy
CHECK_DEADLOCK FALSE
