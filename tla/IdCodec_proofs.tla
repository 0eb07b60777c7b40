---------------------------- MODULE IdCodec_proofs ----------------------------
(***************************************************************************)
(* Proofs about IdCodec: for every size with 8 * Bytes = 6 * Chars, every  *)
(* ID comes back from its text and every well-formed text from its ID.     *)
(***************************************************************************)
EXTENDS IdCodec, TLAPS

-----------------------------------------------------------------------------
(* The table *)

\* Six bits are a rank below 64, and the rank has those bits.
LEMMA RankBits ==
    ASSUME NEW u \in [0..5 -> Bit]
    PROVE  Rank(u) \in 0..63 /\ \A j \in 0..5 : SixBits(Rank(u))[j] = u[j]
<1> DEFINE r == Rank(u)
<1>1. \A j \in 0..5 : u[j] \in {0, 1}
  BY DEF Bit
<1>2. r = 32 * u[0] + 16 * u[1] + 8 * u[2] + 4 * u[3] + 2 * u[4] + u[5]
  BY DEF Rank
<1>3. /\ u[0] \in {0, 1} /\ u[1] \in {0, 1} /\ u[2] \in {0, 1}
      /\ u[3] \in {0, 1} /\ u[4] \in {0, 1} /\ u[5] \in {0, 1}
  BY <1>1
<1>4. r \in 0..63
  BY <1>2, <1>3
<1>5. r \div 32 = u[0]
  BY <1>2, <1>3
<1>6. (r \div 16) % 2 = u[1]
  BY <1>2, <1>3
<1>7. (r \div 8) % 2 = u[2]
  BY <1>2, <1>3
<1>8. (r \div 4) % 2 = u[3]
  BY <1>2, <1>3
<1>9. (r \div 2) % 2 = u[4]
  BY <1>2, <1>3
<1>10. r % 2 = u[5]
  BY <1>2, <1>3
<1>11. ASSUME NEW j \in 0..5
       PROVE  SixBits(r)[j] = u[j]
  <2> HIDE DEF r
  <2>1. j \in {0, 1, 2, 3, 4, 5}
    OBVIOUS
  <2>2. QED
    BY <2>1, <1>5, <1>6, <1>7, <1>8, <1>9, <1>10 DEF SixBits
<1>12. QED
  BY <1>4, <1>11

\* The rank of the six bits of a number below 64 is that number.
LEMMA BitsRank ==
    ASSUME NEW r \in 0..63
    PROVE  SixBits(r) \in [0..5 -> Bit] /\ Rank(SixBits(r)) = r
<1> DEFINE u == SixBits(r)
<1>1. /\ u[0] = r \div 32 /\ u[1] = (r \div 16) % 2 /\ u[2] = (r \div 8) % 2
      /\ u[3] = (r \div 4) % 2 /\ u[4] = (r \div 2) % 2 /\ u[5] = r % 2
  BY DEF SixBits
<1>2. u[0] \in Bit /\ u[1] \in Bit /\ u[2] \in Bit
  BY <1>1 DEF Bit
<1>3. u[3] \in Bit /\ u[4] \in Bit /\ u[5] \in Bit
  BY <1>1 DEF Bit
<1>4. ASSUME NEW j \in 0..5
      PROVE  u[j] \in Bit
  <2>1. j \in {0, 1, 2, 3, 4, 5}
    OBVIOUS
  <2> HIDE DEF u
  <2>2. QED
    BY <2>1, <1>2, <1>3
<1>5. u = [j \in 0..5 |-> u[j]]
  BY DEF SixBits
<1>6. u \in [0..5 -> Bit]
  BY <1>4, <1>5
<1>7. Rank(u) = r
  BY <1>1 DEF Rank
<1>8. QED
  BY <1>6, <1>7

\* A rank is the rank of the character that stands for it.
LEMMA CodeRank ==
    ASSUME NEW u, Rank(u) \in 0..63
    PROVE  base64(u) \in Char /\ RankOf(base64(u)) = Rank(u)
<1> DEFINE r == Rank(u)
<1>1. CASE r <= 25
  <2>1. base64(u) = Upper(r)
    BY <1>1 DEF base64
  <2>2. QED
    BY <1>1, <2>1 DEF Upper, Char, RankOf, UpperRank
<1>2. CASE r > 25 /\ r <= 51
  <2>1. base64(u) = Lower(r)
    BY <1>2 DEF base64
  <2>2. QED
    BY <1>2, <2>1 DEF Lower, Char, RankOf, LowerRank
<1>3. CASE r > 51 /\ r <= 61
  <2>1. base64(u) = Digit(r)
    BY <1>3 DEF base64
  <2>2. QED
    BY <1>3, <2>1 DEF Digit, Char, RankOf, DigitRank
<1>4. CASE r > 61
  <2>1. base64(u) = Mark(r)
    BY <1>4 DEF base64
  <2>2. QED
    BY <1>4, <2>1 DEF Mark, Char, RankOf, MarkRank
<1>5. QED
  BY <1>1, <1>2, <1>3, <1>4

\* A character is the one that stands for its rank.
LEMMA RankCode ==
    ASSUME NEW c \in Char
    PROVE  RankOf(c) \in 0..63 /\ base64(SixBits(RankOf(c))) = c
<1> DEFINE r == RankOf(c)
<1>1. CASE c \in {"upper"} \X (0..25)
  <2>1. PICK n \in 0..25 : c = <<"upper", n>>
    BY <1>1
  <2>2. r = n
    BY <2>1 DEF RankOf, UpperRank
  <2>3. Rank(SixBits(r)) = n
    BY <2>2, BitsRank
  <2>4. base64(SixBits(r)) = Upper(n)
    BY <2>3 DEF base64
  <2>5. QED
    BY <2>1, <2>2, <2>4 DEF Upper
<1>2. CASE c \in {"lower"} \X (0..25)
  <2>1. PICK n \in 0..25 : c = <<"lower", n>>
    BY <1>2
  <2>2. r = n + 26
    BY <2>1 DEF RankOf, LowerRank
  <2>3. Rank(SixBits(r)) = n + 26
    BY <2>2, BitsRank
  <2>4. base64(SixBits(r)) = Lower(n + 26)
    BY <2>3 DEF base64
  <2>5. QED
    BY <2>1, <2>2, <2>4 DEF Lower
<1>3. CASE c \in {"digit"} \X (0..9)
  <2>1. PICK n \in 0..9 : c = <<"digit", n>>
    BY <1>3
  <2>2. r = n + 52
    BY <2>1 DEF RankOf, DigitRank
  <2>3. Rank(SixBits(r)) = n + 52
    BY <2>2, BitsRank
  <2>4. base64(SixBits(r)) = Digit(n + 52)
    BY <2>3 DEF base64
  <2>5. QED
    BY <2>1, <2>2, <2>4 DEF Digit
<1>4. CASE c \in {"mark"} \X (0..1)
  <2>1. PICK n \in 0..1 : c = <<"mark", n>>
    BY <1>4
  <2>2. r = n + 62
    BY <2>1 DEF RankOf, MarkRank
  <2>3. Rank(SixBits(r)) = n + 62
    BY <2>2, BitsRank
  <2>4. base64(SixBits(r)) = Mark(n + 62)
    BY <2>3 DEF base64
  <2>5. QED
    BY <2>1, <2>2, <2>4 DEF Mark
<1>5. QED
  BY <1>1, <1>2, <1>3, <1>4 DEF Char

-----------------------------------------------------------------------------
(* The two conversions *)

\* Six bits of an ID, wherever they are.
LEMMA BitsOfId ==
    ASSUME NEW d \in Ids, NEW i \in 0..(Chars - 1), NEW j \in 0..5
    PROVE  BitAt(d, 6 * i + j) \in Bit
<1> DEFINE n == 6 * i + j
<1>1. n \in Nat /\ n < 8 * Bytes
  BY SizesAssumption
<1>2. n \div 8 \in 0..(Bytes - 1) /\ n % 8 \in 0..7
  BY <1>1, SizesAssumption
<1>3. QED
  BY <1>2 DEF BitAt, Ids

\* The text of an ID is well formed, and its characters have the bits of the ID.
LEMMA TextOfId ==
    ASSUME NEW d \in Ids
    PROVE  /\ WellFormed(ToString(d))
           /\ \A i \in 0..(Chars - 1), j \in 0..5 :
                 SixBits(RankOf(ToString(d)[i]))[j] = BitAt(d, 6 * i + j)
<1> DEFINE U(i) == [j \in 0..5 |-> BitAt(d, 6 * i + j)]
<1>1. ASSUME NEW i \in 0..(Chars - 1)
      PROVE  U(i) \in [0..5 -> Bit]
  BY BitsOfId
<1>2. ASSUME NEW i \in 0..(Chars - 1)
      PROVE  /\ Rank(U(i)) \in 0..63
             /\ \A j \in 0..5 : SixBits(Rank(U(i)))[j] = U(i)[j]
  <2> HIDE DEF U
  <2>1. QED
    BY <1>1, RankBits
<1>3. ASSUME NEW i \in 0..(Chars - 1)
      PROVE  base64(U(i)) \in Char /\ RankOf(base64(U(i))) = Rank(U(i))
  <2> HIDE DEF U
  <2>1. QED
    BY <1>2, CodeRank
<1>4. ToString(d) = [i \in 0..(Chars - 1) |-> base64(U(i))]
  BY DEF ToString
<1>5. WellFormed(ToString(d))
  <2> HIDE DEF U
  <2>1. QED
    BY <1>3, <1>4 DEF WellFormed
<1>6. ASSUME NEW i \in 0..(Chars - 1), NEW j \in 0..5
      PROVE  SixBits(RankOf(ToString(d)[i]))[j] = BitAt(d, 6 * i + j)
  <2>1. U(i)[j] = BitAt(d, 6 * i + j)
    OBVIOUS
  <2> HIDE DEF U
  <2>2. ToString(d)[i] = base64(U(i))
    BY <1>4
  <2>3. QED
    BY <2>1, <2>2, <1>2, <1>3
<1>7. QED
  BY <1>5, <1>6

\* The ID of a well-formed text is an ID, whose bits are those of the characters.
LEMMA IdOfText ==
    ASSUME NEW s, WellFormed(s)
    PROVE  /\ FromString(s) \in Ids
           /\ \A i \in 0..(Chars - 1), j \in 0..5 :
                 BitAt(FromString(s), 6 * i + j) = SixBits(RankOf(s[i]))[j]
<1>1. ASSUME NEW i \in 0..(Chars - 1)
      PROVE  s[i] \in Char
  BY DEF WellFormed
<1>2. ASSUME NEW m \in 0..(Bytes - 1), NEW k \in 0..7
      PROVE  BoolAt(s, 8 * m + k) \in Bit
  <2> DEFINE n == 8 * m + k
  <2>1. n \in Nat /\ n < 6 * Chars
    BY SizesAssumption
  <2>2. n \div 6 \in 0..(Chars - 1) /\ n % 6 \in 0..5
    BY <2>1, SizesAssumption
  <2> HIDE DEF n
  <2>3. RankOf(s[n \div 6]) \in 0..63
    BY <2>2, <1>1, RankCode
  <2>4. SixBits(RankOf(s[n \div 6])) \in [0..5 -> Bit]
    BY <2>3, BitsRank
  <2>5. BoolAt(s, n) \in Bit
    BY <2>2, <2>4 DEF BoolAt
  <2>6. QED
    BY <2>5 DEF n
<1>3. FromString(s) \in Ids
  BY <1>2 DEF FromString, Ids
<1>4. ASSUME NEW i \in 0..(Chars - 1), NEW j \in 0..5
      PROVE  BitAt(FromString(s), 6 * i + j) = SixBits(RankOf(s[i]))[j]
  <2> DEFINE n == 6 * i + j
  <2>1. n \in Nat /\ n < 8 * Bytes /\ n \div 6 = i /\ n % 6 = j
    BY SizesAssumption
  <2>2. n \div 8 \in 0..(Bytes - 1) /\ n % 8 \in 0..7 /\ 8 * (n \div 8) + (n % 8) = n
    BY <2>1, SizesAssumption
  <2> HIDE DEF n
  <2>3. FromString(s)[n \div 8][n % 8] = BoolAt(s, n)
    BY <2>2 DEF FromString
  <2>4. BoolAt(s, n) = SixBits(RankOf(s[i]))[j]
    BY <2>1 DEF BoolAt
  <2>5. BitAt(FromString(s), n) = SixBits(RankOf(s[i]))[j]
    BY <2>3, <2>4 DEF BitAt
  <2>6. QED
    BY <2>5 DEF n
<1>5. QED
  BY <1>3, <1>4

\* fromString() gives back the ID that string() wrote.
THEOREM IdRoundTrip ==
    ASSUME NEW d \in Ids
    PROVE  FromString(ToString(d)) = d
<1> DEFINE e == FromString(ToString(d))
<1>1. WellFormed(ToString(d))
  BY TextOfId
<1>2. e \in Ids
  BY <1>1, IdOfText
<1>3. ASSUME NEW m \in 0..(Bytes - 1), NEW k \in 0..7
      PROVE  e[m][k] = d[m][k]
  <2> DEFINE n == 8 * m + k
  <2>1. n \in Nat /\ n < 6 * Chars /\ n \div 8 = m /\ n % 8 = k
    BY SizesAssumption
  <2>2. n \div 6 \in 0..(Chars - 1) /\ n % 6 \in 0..5 /\ 6 * (n \div 6) + (n % 6) = n
    BY <2>1, SizesAssumption
  <2> HIDE DEF n, e
  <2>3. BitAt(e, n) = SixBits(RankOf(ToString(d)[n \div 6]))[n % 6]
    BY <1>1, <2>2, IdOfText DEF e
  <2>4. SixBits(RankOf(ToString(d)[n \div 6]))[n % 6] = BitAt(d, n)
    BY <2>2, TextOfId
  <2>5. BitAt(e, n) = e[m][k] /\ BitAt(d, n) = d[m][k]
    BY <2>1 DEF BitAt
  <2>6. QED
    BY <2>3, <2>4, <2>5
<1>4. ASSUME NEW m \in 0..(Bytes - 1)
      PROVE  e[m] = d[m]
  <2> HIDE DEF e
  <2>1. e[m] \in [0..7 -> Bit] /\ d[m] \in [0..7 -> Bit]
    BY <1>2 DEF Ids
  <2>2. QED
    BY <2>1, <1>3
<1>5. QED
  <2> HIDE DEF e
  <2>1. e = [m \in 0..(Bytes - 1) |-> e[m]] /\ d = [m \in 0..(Bytes - 1) |-> d[m]]
    BY <1>2 DEF Ids
  <2>2. e = d
    BY <2>1, <1>4
  <2>3. QED
    BY <2>2 DEF e

\* string() gives back the text that fromString() read.
THEOREM TextRoundTrip ==
    ASSUME NEW s, WellFormed(s)
    PROVE  ToString(FromString(s)) = s
<1> DEFINE d == FromString(s)
<1>1. d \in Ids /\ s \in [0..(Chars - 1) -> Char]
  BY IdOfText DEF WellFormed
<1>2. ASSUME NEW i \in 0..(Chars - 1)
      PROVE  ToString(d)[i] = s[i]
  <2> DEFINE u == [j \in 0..5 |-> BitAt(d, 6 * i + j)]
  <2>1. RankOf(s[i]) \in 0..63 /\ base64(SixBits(RankOf(s[i]))) = s[i]
    BY <1>1, RankCode
  <2>2. SixBits(RankOf(s[i])) \in [0..5 -> Bit]
    BY <2>1, BitsRank
  <2>3. \A j \in 0..5 : u[j] = SixBits(RankOf(s[i]))[j]
    BY IdOfText
  <2>4. u = [j \in 0..5 |-> u[j]]
    OBVIOUS
  <2>5. ToString(d)[i] = base64(u)
    BY DEF ToString
  <2> HIDE DEF d, u
  <2>6. u = SixBits(RankOf(s[i]))
    BY <2>2, <2>3, <2>4
  <2>7. QED
    BY <2>1, <2>5, <2>6
<1>3. ToString(d) = [i \in 0..(Chars - 1) |-> ToString(d)[i]]
  BY DEF ToString
<1>4. QED
  <2> HIDE DEF d
  <2>1. ToString(d) = s
    BY <1>1, <1>2, <1>3
  <2>2. QED
    BY <2>1 DEF d

-----------------------------------------------------------------------------
(* The specification *)

\* Where an ID can come from: it is drawn, or blank, or read from a text that was let through.
LEMMA IdSources ==
    ASSUME Next
    PROVE  id' \in Drawn \cup {id, Null} \/ (WellFormed(text) /\ id' = FromString(text))
<1>1. RandomID => id' \in Drawn
  BY DEF RandomID
<1>2. Written \/ Receive => id' \in {id, Null}
  BY DEF Written, Receive
<1>3. Parsed => WellFormed(text) /\ id' = FromString(text)
  BY DEF Parsed
<1>4. QED
  BY <1>1, <1>2, <1>3 DEF Next

\* Every ID ever held is read back from its text.
THEOREM IdCorrect == Spec => []IdComesBack
<1> DEFINE IsId == id \in Ids
<1>1. Null \in Ids
  BY DEF Null, Ids, Bit
<1>2. Init => IsId
  BY <1>1 DEF Init
<1>3. ASSUME IsId, Next
      PROVE  IsId'
  <2>1. Drawn \cup {id, Null} \subseteq Ids
    BY <1>1, <1>3, InputsAssumption
  <2>2. WellFormed(text) => FromString(text) \in Ids
    BY IdOfText
  <2>3. QED
    BY <2>1, <2>2, <1>3, IdSources
<1>4. IsId /\ UNCHANGED vars => IsId'
  BY DEF vars
<1>5. IsId => IdComesBack
  BY IdRoundTrip DEF IdComesBack
<1>6. QED
  <2> HIDE DEF IsId
  <2>1. QED
    BY <1>2, <1>3, <1>4, <1>5, PTL DEF Spec

\* Every text that can be read, written here or not, is the text of what is read.
THEOREM TextCorrect == Spec => []TextComesBack
<1>1. TextComesBack
  BY TextRoundTrip DEF TextComesBack
<1>2. QED
  BY <1>1, PTL

=============================================================================
