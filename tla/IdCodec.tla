-------------------------------- MODULE IdCodec --------------------------------
(***************************************************************************)
(* The ID of an element and its text (id.h): string() writes the bits of   *)
(* an ID, the lowest bit of each byte first, six at a time, as characters, *)
(* and fromString() reads them back.  Files are named by that text and     *)
(* refer to elements by it.                                                *)
(*                                                                         *)
(* A character is a pair of its class and its place in the class.  The     *)
(* texts that reach fromString() come from files and clients.              *)
(***************************************************************************)
EXTENDS Integers

CONSTANTS
    Bytes,      \* the bytes of an ID, 21 in the source
    Chars,      \* the characters of its text, 28
    Drawn,      \* the ids that randomID() draws
    Received    \* the texts that come from outside

Bit == {0, 1}

\* m_data, bit by bit, lowest bit first.
Ids == [0..(Bytes - 1) -> [0..7 -> Bit]]

Char ==
    ({"upper", "lower"} \X (0..25)) \cup ({"digit"} \X (0..9)) \cup ({"mark"} \X (0..1))

\* A character that is none of those.
Other == <<"other", 0>>

ASSUME SizesAssumption == Bytes \in Nat /\ Chars \in Nat /\ 8 * Bytes = 6 * Chars
ASSUME InputsAssumption == Drawn \subseteq Ids

VARIABLES
    id,         \* an ID
    text        \* a text

vars == <<id, text>>

-----------------------------------------------------------------------------
(* string() *)

\* Bit n of an ID.
BitAt(d, n) == d[n \div 8][n % 8]

\* Fault: the bits of a byte are taken from the highest on.
BitFromTop(d, n) == d[n \div 8][7 - (n % 8)]

Upper(r) == <<"upper", r>>
Lower(r) == <<"lower", r - 26>>
Digit(r) == <<"digit", r - 52>>

\* Fault: 111110 and 111111 give one character.
OneMark(r) == <<"mark", 0>>

\* 111110 is '_' and 111111 is '-'.
Mark(r) == <<"mark", r - 62>>

\* The place of six bits among the leaves of the nested ifs, the first bit decides first.
Rank(u) == 32 * u[0] + 16 * u[1] + 8 * u[2] + 4 * u[3] + 2 * u[4] + u[5]

base64(u) ==
    LET r == Rank(u)
    IN  CASE r <= 25            -> Upper(r)
          [] r > 25 /\ r <= 51  -> Lower(r)
          [] r > 51 /\ r <= 61  -> Digit(r)
          [] r > 61             -> Mark(r)

ToString(d) == [i \in 0..(Chars - 1) |-> base64([j \in 0..5 |-> BitAt(d, 6 * i + j)])]

-----------------------------------------------------------------------------
(* fromString() *)

UpperRank(c) == c[2]

\* Fault: a place off by one.
LowerRankOff(c) == c[2] + 25

LowerRank(c) == c[2] + 26
DigitRank(c) == c[2] + 52
MarkRank(c) == c[2] + 62

RankOf(c) ==
    CASE c[1] = "upper" -> UpperRank(c)
      [] c[1] = "lower" -> LowerRank(c)
      [] c[1] = "digit" -> DigitRank(c)
      [] c[1] = "mark"  -> MarkRank(c)

\* The six entries of boolArr written for a character of rank r.
SixBits(r) ==
    [j \in 0..5 |-> CASE j = 0 -> r \div 32
                      [] j = 1 -> (r \div 16) % 2
                      [] j = 2 -> (r \div 8) % 2
                      [] j = 3 -> (r \div 4) % 2
                      [] j = 4 -> (r \div 2) % 2
                      [] j = 5 -> r % 2]

\* boolArr[n].
BoolAt(s, n) == SixBits(RankOf(s[n \div 6]))[n % 6]

FromString(s) == [m \in 0..(Bytes - 1) |-> [k \in 0..7 |-> BoolAt(s, 8 * m + k)]]

\* Not WellFormed, fromString() throws: the wrong length or a character not in the table.
WellFormed(s) == s \in [0..(Chars - 1) -> Char]

-----------------------------------------------------------------------------

Null == [m \in 0..(Bytes - 1) |-> [k \in 0..7 |-> 0]]

Init ==
    /\ id = Null
    /\ text = <<>>

\* randomID(), or setBytes() with the bytes of a client.
RandomID ==
    /\ id' \in Drawn
    /\ text' = <<>>

\* string(): the text of an ID is written.
Written ==
    /\ text' = ToString(id)
    /\ UNCHANGED id

\* A text comes in, for an ID yet to be made.
Receive ==
    /\ text' \in Received
    /\ id' = Null

\* fromString().
Parsed ==
    /\ WellFormed(text)
    /\ id' = FromString(text)
    /\ UNCHANGED text

Next == RandomID \/ Written \/ Receive \/ Parsed

Spec == Init /\ [][Next]_vars

-----------------------------------------------------------------------------

\* The ID a text was written for is the one read back: a file is found again by the
\* name it was saved under.
IdComesBack == FromString(ToString(id)) = id

\* A text that can be read is the text of the ID read from it: two texts never name one
\* element, so ids that are not equal have texts that are not equal, and the reverse.
TextComesBack == WellFormed(text) => ToString(FromString(text)) = text

=============================================================================
