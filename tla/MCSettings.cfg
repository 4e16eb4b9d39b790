SPECIFICATION Spec
CONSTANTS
  Task = {t1}
  NoTask = NoTask
  Date <- Ends
  Other = {3}
  Gap = {110}
  Version <- Named
  MaxUptime = 220
  MaxUpdates = 2
  MaxBoots = 1
INVARIANTS TypeOK NeverBehind Bootable
PROPERTIES StampTimely TaskSurvives ImplementsUpgrades
