SPECIFICATION FairSpec
CONSTANTS
  EventCap = 1
  Consumer = TRUE
  MaxJobs = 2
PROPERTIES
  JobsFinish
CHECK_DEADLOCK FALSE
