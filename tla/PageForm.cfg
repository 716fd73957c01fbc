\* <hero-form> sends a blank power_level as "".
CONSTANTS
    Ids = {1}
    MaxActs = 1
    MaxReads = 1
SPECIFICATION Spec
PROPERTY FilledFormIsStored
CHECK_DEADLOCK FALSE
