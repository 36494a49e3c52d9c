SPECIFICATION FairSpec
CONSTANTS
  MaxTasks = 3
  BackupSlots = 2
  MaxTroubles = 2
  KeepCount = 2
  Ageing = TRUE
  MaxRetries = 2
PROPERTIES BackupsStayRestorable TasksEnd ScheduleProceeds
CHECK_DEADLOCK FALSE
