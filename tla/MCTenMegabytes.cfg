\* The sizes around the largest buffer and around 10M are among the arguments.
CONSTANTS
    MaxString = 1
    MaxText = 1
    Sample = {0}
SPECIFICATION ArgumentSpec
INVARIANT TenMegabytesFit
CHECK_DEADLOCK FALSE
