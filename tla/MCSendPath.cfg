\* A queue of two, three calls of SendMessageData and the answer: the queue
\* fills up, and both the answer and a message may be lost.  One size fits
\* DoSend's buf with its whole class, the other not even itself.
SPECIFICATION FairSpec
CONSTANTS
    CAPACITY = 2
    Sizes = {1023, 1025}
    AnswerSize = 200
    MaxSends = 3
INVARIANTS TypeOK NoStranded AnswerBeforeReplies OverrunsAreLong
PROPERTY ImplementsChannel
\* Everything has been sent and answered.
CHECK_DEADLOCK FALSE
