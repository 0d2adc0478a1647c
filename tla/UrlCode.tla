------------------------------ MODULE UrlCode ------------------------------
(***************************************************************************)
(* UrlCodeSolution.h: the encoding of response data, and the decoding of   *)
(* request bodies.  A failing assert aborts the process.                   *)
(***************************************************************************)
EXTENDS StdString

Space == 32
Percent == 37
Plus == 43

\* A digit of 0 .. 15 as a character: '0' .. '9', 'A' .. 'F'.
ToHex(x) == IF x > 9 THEN x + 55 ELSE x + 48

Digits == 48 .. 57
UpperCase == 65 .. 90
LowerCase == 97 .. 122

\* FromHex takes any letter, not only A to F, and asserts on all else.
IsHex(c) == c \in Digits \cup UpperCase \cup LowerCase

FromHex(c) ==
  CASE c \in UpperCase -> c - 65 + 10
    [] c \in LowerCase -> c - 97 + 10
    [] c \in Digits    -> c - 48

\* isalnum, and - . _ ~
Unreserved == Digits \cup UpperCase \cup LowerCase \cup {45, 46, 95, 126}

EncodeByte(c) ==
  IF c \in Unreserved THEN <<c>>
  ELSE IF c = Space   THEN <<Plus>>
                      ELSE <<Percent, ToHex(c \div 16), ToHex(c % 16)>>

UrlEncode(str) == Concat([i \in DOMAIN str |-> EncodeByte(str[i])])

Percents(str) == {i \in DOMAIN str : str[i] = Percent}

\* An assert of UrlDecode or FromHex fails.
Aborts(str) ==
  \E i \in Percents(str) :
    ~(i + 2 <= Len(str) /\ IsHex(str[i + 1]) /\ IsHex(str[i + 2]))

\* What the loop of UrlDecode appends for position i of a text on which no
\* assert fails: every percent sign then begins an escape, because neither of
\* the two characters behind one is a percent sign.  The value is appended as
\* a char, which cuts it off to 8 bits.
DecodeAt(str, i) ==
  CASE str[i] = Percent ->
         <<(FromHex(str[i + 1]) * 16 + FromHex(str[i + 2])) % 256>>
    [] (i > 1 /\ str[i - 1] = Percent) \/ (i > 2 /\ str[i - 2] = Percent) -> <<>>
    [] str[i] = Plus -> <<Space>>
    [] OTHER -> <<str[i]>>

UrlDecode(str) == Concat([i \in DOMAIN str |-> DecodeAt(str, i)])
==============================================================================
