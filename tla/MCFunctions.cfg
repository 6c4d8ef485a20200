\* Strings of seven characters: three items, or two with empty and repeated
\* parts.  Texts of five bytes whose bits differ at the borders of the 6-bit
\* groups: each kind of tail stands alone and behind a group.  Two clients share
\* a counter that wraps after eight packets; ids and sizes go past their limits.
CONSTANTS
    MaxString = 7
    MaxText = 5
    Sample = {0, 1, 85, 170, 207, 255}
    WORD = 8
    MaxSize = 6
    MaxMsgID = 5
    WordXor <- BitwiseXor
    Peers = {1, 2}
    IDs = {1, 5, 6}
    SIZEs = {3, 6, 7}
SPECIFICATION FunctionSpec
INVARIANTS SizesThatFit SplitChecked RoundTripChecked EncodeChecked NumberedAccepted
\* The longest arguments have no successor.
CHECK_DEADLOCK FALSE
