\* One session; the settings of either node change twice while it runs.
CONSTANTS
  MaxChanges = 2
  MaxData = 2
SPECIFICATION FairSpec
 
PROPERTIES Converses Answers SessionEnds
CHECK_DEADLOCK FALSE
