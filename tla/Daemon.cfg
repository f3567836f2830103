SPECIFICATION FairSpec
CONSTANTS
  EventCap = 2
  Consumer = TRUE
  MaxJobs = 2
PROPERTIES
  JobsFinish
CHECK_DEADLOCK FALSE
