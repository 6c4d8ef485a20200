--------------------------- MODULE HttpParameter ---------------------------
(***************************************************************************)
(* HttpParameter and the CommonFunc::SpliteString it is built on: between a  *)
(* string "k=v&k=v&" and m_ParameterMap.  A string is a sequence of          *)
(* characters.                                                              *)
(***************************************************************************)
EXTENDS Integers, SequencesExt

\* std::search for a delimiter of one character, the only ones there are.
First(s, c, from) ==
    LET hits == {i \in from .. Len(s) : s[i] = c}
    IN  IF hits = {} THEN Len(s) + 1 ELSE CHOOSE i \in hits : \A j \in hits : i <= j

\* Deliberately wrong: empty parts are kept.
Part_Empty(s, i, j) == <<SubSeq(s, i, j - 1)>>

\* What one turn of the loop puts in the vector: no empty part.
Part(s, i, j) == IF i = j THEN <<>> ELSE <<SubSeq(s, i, j - 1)>>

SpliteString(strSrc, strDelim) ==
    LET from[i \in 1 .. (Len(strSrc) + 1)] ==
            LET subEnd == First(strSrc, strDelim, i)
            IN  IF subEnd = Len(strSrc) + 1 THEN Part(strSrc, i, subEnd)
                ELSE Part(strSrc, i, subEnd) \o from[subEnd + 1]
    IN  from[1]

\* The map as a function; insert keeps what is there.
Insert(map, key, value) ==
    IF key \in DOMAIN map THEN map
    ELSE [k \in DOMAIN map \cup {key} |-> IF k = key THEN value ELSE map[k]]

\* An item without a part: begin() + 1 steps over the end of an empty vector.
Undefined(strParam) ==
    \E item \in ToSet(SpliteString(strParam, "&")) : SpliteString(item, "=") = <<>>

ParseStringToMap(strParam) ==
    LET items == SpliteString(strParam, "&")
        map[n \in 0 .. Len(items)] ==
            IF n = 0 THEN [k \in {} |-> <<>>]
            ELSE LET sub == SpliteString(items[n], "=")
                 IN  IF Len(sub) = 1 THEN map[n - 1] ELSE Insert(map[n - 1], sub[1], sub[2])
    IN  map[Len(items)]

\* Deliberately wrong: nothing ends an item.
End_Missing == <<>>

End == <<"&">>

\* In the order of the keys; no other property of it depends on the order.
GetResultString(map) ==
    FoldSeq(LAMBDA key, rest : key \o <<"=">> \o map[key] \o End \o rest, <<>>,
            SetToSeq(DOMAIN map))

-----------------------------------------------------------------------------
\* The element of S with n - 1 smaller ones.
Ranked(S, n) == {k \in S : Cardinality({m \in S : m < k}) = n - 1}
Only(S) == CHOOSE k \in S : TRUE

\* The longest stretches of s without c, first to last.
Stretch(s, c, i) == SubSeq(s, i, First(s, c, i) - 1)
Stretches(s, c) ==
    LET starts == {i \in DOMAIN s : s[i] # c /\ (i = 1 \/ s[i - 1] = c)}
    IN  [n \in 1 .. Cardinality(starts) |-> Stretch(s, c, Only(Ranked(starts, n)))]

(***************************************************************************)
(* SpliteString cuts a string into exactly its longest stretches without   *)
(* the delimiter, with delimiters at the ends and next to each other too.    *)
(***************************************************************************)
SplitIsStretches(s) == \A c \in {"&", "="} : SpliteString(s, c) = Stretches(s, c)

(***************************************************************************)
(* What has been read from any string is read again from the string made   *)
(* of it: GetResultString writes what ParseStringToMap understands.         *)
(***************************************************************************)
RoundTrip(s) ==
    ~Undefined(s) => ParseStringToMap(GetResultString(ParseStringToMap(s))) = ParseStringToMap(s)

(***************************************************************************)
(* ParseStringToMap leaves what C++ defines only at an item that consists   *)
(* of nothing but equal signs.                                              *)
(***************************************************************************)
OnlyEqualSigns(s) ==
    Undefined(s) <=> \E item \in ToSet(Stretches(s, "&")) : ToSet(item) = {"="}
=============================================================================
