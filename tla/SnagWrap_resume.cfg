SPECIFICATION FairWrapSpec
CONSTANTS
    Sizes = {small, large}
    MaxOut = 1
PROPERTIES ResumesAsTold
CHECK_DEADLOCK FALSE
