\* An issue closed and reopened, without a comment.
CONSTANTS
    MaxComments = 0
    MaxCloses = 1
    MaxCommits = 2
SPECIFICATION Spec
PROPERTIES
    ReopenedIsTriaged
CHECK_DEADLOCK FALSE
