\* Two polling loops; writers of the row do not overlap a submission or a
\* notice.
CONSTANTS
  p1 = p1
  p2 = p2
  Pollers <- TwoPollers
  Price = 2
  MaxFaults = 3
  MaxNotices = 2
  Overlap = FALSE
SPECIFICATION FairSpec
 
PROPERTY MidjourneyEnds
CHECK_DEADLOCK FALSE
