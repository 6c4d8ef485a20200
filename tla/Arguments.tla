------------------------------ MODULE Arguments ------------------------------
(***************************************************************************)
(* The pure functions, each on all arguments up to a bound: a state is one  *)
(* size, one parameter string or one text.                                  *)
(***************************************************************************)
EXTENDS SizeClasses, HttpParameter, Base64

CONSTANTS
    MaxString,    \* length of the strings over a, b and the two delimiters
    MaxText,      \* length of the texts over Sample
    Sample        \* bytes

ASSUME ArgumentAssumption == MaxString \in Nat /\ MaxText \in Nat /\ Sample \subseteq 0 .. 255

VARIABLES nSize, strParam, text

arguments == <<nSize, strParam, text>>

\* Past the largest class.
BeyondPools == 66000

Around(n) == (n - 2) .. (n + 2)

\* What the comment on CBufferManagerAny gives as its limit.
TenMegabytes == 10 * 1024 * 1024

\* Every size up to the end of the pools, and those around the largest buffer
\* and around 10M.
ArgumentInit ==
    /\ nSize \in 0 .. BeyondPools \cup Around(AnySize) \cup Around(TenMegabytes)
    /\ strParam = <<>>
    /\ text = <<>>

NextString ==
    /\ nSize = 0 /\ text = <<>> /\ Len(strParam) < MaxString
    /\ \E c \in {"a", "b", "&", "="} : strParam' = Append(strParam, c)
    /\ UNCHANGED <<nSize, text>>

NextText ==
    /\ nSize = 0 /\ strParam = <<>> /\ Len(text) < MaxText
    /\ \E b \in Sample : text' = Append(text, b)
    /\ UNCHANGED <<nSize, strParam>>

NextArgument == NextString \/ NextText

ArgumentSpec == ArgumentInit /\ [][NextArgument]_arguments

(***************************************************************************)
(* CBufferAllocator::AllocDataBuff gives a buffer that holds what was asked *)
(* for, the sizes at the strict comparisons included, up to the size of the *)
(* largest manager's buffers, and one that is too small for every size      *)
(* beyond: it never refuses.                                                *)
(***************************************************************************)
SizesThatFit == Fits(nSize) <=> nSize <= AnySize

(***************************************************************************)
(* The comment on m_BufferManagerAny (DataBuffer.h): it manages memory of   *)
(* up to 10M.                                                               *)
(***************************************************************************)
TenMegabytesFit == nSize <= TenMegabytes => Fits(nSize)

(* SpliteString against its reference definition, and where what            *)
(* ParseStringToMap does with its parts is undefined.                       *)
SplitChecked == SplitIsStretches(strParam) /\ OnlyEqualSigns(strParam)

(* ParseStringToMap reads what GetResultString has written.                 *)
RoundTripChecked == RoundTrip(strParam)

(* base64_encode against the bits of its argument.                          *)
EncodeChecked == EncodesBits(text)
=============================================================================
