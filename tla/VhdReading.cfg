SPECIFICATION ReadingSpec
CONSTANTS
  Depth = 3
  MaxTableEntries = 2
  NumSectors = 2
INVARIANT SectorsAreTheYoungest
PROPERTY StreamEnds
\* The stream has ended.
CHECK_DEADLOCK FALSE
