SPECIFICATION FairWrapSpec
CONSTANTS
    Sizes = {small, large}
    MaxOut = 3
INVARIANTS WrapTypeOK ScreenInOrder ModeFollows SizeFollows EndsComplete
PROPERTIES Resumes
CHECK_DEADLOCK FALSE
