CONSTANTS
  HeaderLengths <- MCHeaderLengths
  FileLengths <- MCFileLengths
SPECIFICATION FairSpec
INVARIANTS WirePrefix OffersRest
PROPERTY Completes
CHECK_DEADLOCK FALSE
