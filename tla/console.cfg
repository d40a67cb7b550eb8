SPECIFICATION FairSpec
CONSTANTS
  Tours <- PairsOfPages
  MaxWrites = 2
  MaxFaults = 1
  Slots = {s1, s2}
  Tabs = {t1}
  Values = {"seeded", "other"}
  Default = "seeded"
  Requests = {1, 2}
  MaxSaves = 2
  Projects = {p1, p2}
  NoProject = NoProject
  TailLines = 1
  Keep = 2
  MaxLog = 3
INVARIANTS TypeOK OwnWritesShown OneRowPerForm UntypedIsKept SettingsOfOneSave LinesOfSelected
PROPERTIES PollConverges
CHECK_DEADLOCK FALSE
