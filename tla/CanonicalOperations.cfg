SPECIFICATION Spec
CHECK_DEADLOCK FALSE
CONSTANTS
  None = None
  Units <- MCUnits
  LabStatuses <- MCLabStatuses
INVARIANTS
  AutomaticSettingsResolve
  PanelIsToldTheTruth
  ManagerMirrorsDriver
