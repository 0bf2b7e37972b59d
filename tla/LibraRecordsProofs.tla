------------------------- MODULE LibraRecordsProofs -------------------------
(***************************************************************************)
(* Proofs about modules LibraRecords and LibraReaders, for every good,      *)
(* every prefix and every number of the scale: how many bytes each record   *)
(* has, and that the reader of each device finds in it the fields of the    *)
(* good it was made from.                                                   *)
(***************************************************************************)
EXTENDS LibraReaders, Recursions, SequenceTheorems, TLAPS

-----------------------------------------------------------------------------
(***************************************************************************)
(* Numbers and text.                                                        *)
(***************************************************************************)

LEMMA TenTyped == \A k \in 1 .. 10 : Ten[k] \in Nat \ {0}
BY SMT DEF Ten

LEMMA Digits == \A n \in Written : NumDigits(n) \in 1 .. 9
<1> SUFFICES ASSUME NEW n \in Written PROVE \E k \in 1 .. 9 : n < Ten[k + 1] /\ (k = 1 \/ n >= Ten[k])
  BY DEF NumDigits
<1> QED
  BY SMT DEF Written, Ten

LEMMA DecimalLength ==
  ASSUME NEW n \in Written, NEW w \in 1 .. 9
  PROVE  Decimal(n, w) \in Seq(Int) /\ Len(Decimal(n, w)) = w
<1>1. \A j \in 1 .. w : Most(w, NumDigits(n)) - j + 1 \in 1 .. 10
  BY Digits DEF Most
<1>2. \A j \in 1 .. w : 48 + ((n \div Ten[Most(w, NumDigits(n)) - j + 1]) % 10) \in Int
  BY <1>1, TenTyped DEF Written
<1> QED
  BY <1>2 DEF Decimal

LEMMA HexLength ==
  ASSUME NEW b \in Seq(Int)
  PROVE  Hex(b) \in Seq(Int) /\ Len(Hex(b)) = 2 * Len(b)
BY DEF Hex, HexDigit

LEMMA BytesLength ==
  ASSUME NEW n \in Int, NEW k \in 1 .. 4
  PROVE  Bytes(n, k) \in Seq(Byte) /\ Len(Bytes(n, k)) = k
<1>1. \A m \in Nat, d \in Nat \ {0} : m \div d \in Nat
  OBVIOUS
<1>2. \A q \in Nat : q % 256 \in Byte /\ 255 - (q % 256) \in Byte
  BY DEF Byte
<1>3. \A j \in 1 .. k : Power[j] \in Nat \ {0}
  BY SMT DEF Power
<1>4. CASE n >= 0
  <2>1. \A j \in 1 .. k : n \div Power[j] \in Nat
    BY <1>1, <1>3, <1>4
  <2>2. \A j \in 1 .. k : (n \div Power[j]) % 256 \in Byte
    BY <1>2, <2>1
  <2>3. Bytes(n, k) = [j \in 1 .. k |-> (n \div Power[j]) % 256]
    BY <1>4 DEF Bytes
  <2> QED
    BY <2>2, <2>3
<1>5. CASE n < 0
  <2>1. -n - 1 \in Nat
    BY <1>5
  <2>2. \A j \in 1 .. k : (-n - 1) \div Power[j] \in Nat
    BY <1>1, <1>3, <2>1
  <2>3. \A j \in 1 .. k : 255 - (((-n - 1) \div Power[j]) % 256) \in Byte
    BY <1>2, <2>2
  <2>4. Bytes(n, k) = [j \in 1 .. k |-> 255 - (((-n - 1) \div Power[j]) % 256)]
    BY <1>5 DEF Bytes
  <2> QED
    BY <2>3, <2>4
<1> QED
  BY <1>4, <1>5

LEMMA ZerosLength == \A k \in Nat : Zeros(k) \in Seq(Byte) /\ Len(Zeros(k)) = k
BY DEF Zeros, Byte

\* The code tables give a byte for every byte.
LEMMA TableTyped == \A page \in 1 .. 2, c \in Byte : table(page, c) \in Byte
<1>1. High[1] \in Seq(Byte) /\ Len(High[1]) = 64
  BY SMTT(60) DEF High, Byte
<1>2. \A j \in 1 .. 64 : High[1][j] \in Byte
  BY <1>1, ElementOfSeq
<1>3. \A j \in 1 .. 64 : High[2][j] \in Byte
  BY DEF High, High2, Byte
<1>4. \A page \in 1 .. 2, c \in 128 .. 191 : High[page][c - 127] \in Byte
  <2> TAKE page \in 1 .. 2, c \in 128 .. 191
  <2>1. c - 127 \in 1 .. 64
    OBVIOUS
  <2> QED
    BY <1>2, <1>3, <2>1
<1> QED
  <2> TAKE page \in 1 .. 2, c \in Byte
  <2>1. CASE c \in 128 .. 191
    BY <1>4, <2>1 DEF table
  <2>2. CASE c \notin 128 .. 191
    <3>1. table(page, c) \in {c, c - 64, c - 16} /\ (c < 128 => table(page, c) = c)
      BY <2>2 DEF table, Byte
    <3> QED
      BY <2>2, <3>1 DEF Byte
  <2> QED
    BY <2>1, <2>2

LEMMA ConvertLength ==
  ASSUME NEW page \in 1 .. 2, NEW text \in Seq(Byte), NEW len \in Nat
  PROVE  /\ ConvertText(page, text, len) \in Seq(Byte)
         /\ Len(ConvertText(page, text, len)) = Least(len, Len(text))
BY TableTyped DEF ConvertText, Least

\* The texts of n characters.
Text(n) == {s \in Seq(Int) : Len(s) = n}

LEMMA Cat2 ==
  ASSUME NEW k \in Nat, NEW m \in Nat, NEW u \in Text(k), NEW v \in Text(m)
  PROVE  u \o v \in Text(k + m)
BY ConcatProperties DEF Text

LEMMA Cat4 ==
  ASSUME NEW k \in Nat, NEW l \in Nat, NEW m \in Nat, NEW n \in Nat,
         NEW u \in Text(k), NEW v \in Text(l), NEW w \in Text(m), NEW x \in Text(n)
  PROVE  u \o v \o w \o x \in Text(k + l + m + n)
<1>1. u \o v \in Text(k + l) /\ k + l \in Nat
  BY Cat2
<1>2. u \o v \o w \in Text(k + l + m) /\ k + l + m \in Nat
  BY <1>1, Cat2
<1> QED
  BY <1>2, Cat2

LEMMA BytesAreInts ==
  ASSUME NEW u \in Seq(Byte)
  PROVE  u \in Text(Len(u)) /\ Len(u) \in Nat
<1>1. Byte \subseteq Int
  BY DEF Byte
<1>2. u \in Seq(Int)
  BY <1>1, SeqMonotonic
<1> QED
  BY <1>2, LenProperties DEF Text

LEMMA BytesText == \A n \in Int, k \in 1 .. 4 : Bytes(n, k) \in Text(k)
BY BytesLength, BytesAreInts

LEMMA ZerosText == \A k \in Nat : Zeros(k) \in Text(k)
BY ZerosLength, BytesAreInts

LEMMA DecimalText == \A n \in Written, w \in 1 .. 9 : Decimal(n, w) \in Text(w)
BY DecimalLength DEF Text

LEMMA HexText == \A n \in Nat : \A s \in Text(n) : Hex(s) \in Text(2 * n)
BY HexLength DEF Text

\* Kopecks are at most half a kopeck from the price they come from, whichever way a half
\* goes.
LEMMA KopecksNear ==
  \A n \in Nat : \A up :
      InKopecks(n, up) \in Nat /\ 10 * InKopecks(n, up) - n \in -5 .. 5
<1> TAKE n \in Nat
<1> TAKE up
<1>1. \A d \in 0 .. 1 : /\ (n % 10 >= 5 \/ d = 0) /\ (n % 10 <= 5 \/ d = 1)
                        => (n \div 10) + d \in Nat /\ 10 * ((n \div 10) + d) - n \in -5 .. 5
  OBVIOUS
<1> DEFINE d == IF n % 10 > 5 \/ (n % 10 = 5 /\ n \in up) THEN 1 ELSE 0
<1>2. n % 10 \in Int
  OBVIOUS
<1>3. d \in 0 .. 1 /\ (n % 10 >= 5 \/ d = 0) /\ (n % 10 <= 5 \/ d = 1)
  BY <1>2
<1> HIDE DEF d
<1>4. (n \div 10) + d \in Nat /\ 10 * ((n \div 10) + d) - n \in -5 .. 5
  BY <1>1, <1>3
<1> QED
  BY <1>4 DEF InKopecks, d

LEMMA KopecksWritten == \A n \in Written : \A up : InKopecks(n, up) \in Written
<1> TAKE n \in Written
<1> TAKE up
<1>1. InKopecks(n, up) \in Nat /\ 10 * InKopecks(n, up) - n \in -5 .. 5
  BY KopecksNear DEF Written
<1> QED
  BY SMT, <1>1 DEF Written, Ten

LEMMA TovarFields ==
  ASSUME NEW t \in Tovar
  PROVE  /\ t.nomen_num \in Written /\ t.art_num \in Written /\ t.termin \in Written
         /\ t.price \in Written /\ Kopecks(t) \in Written
         /\ t.name \in Seq(Byte) /\ Len(t.name) \in Nat /\ Len(t.name) < 128
         /\ t.date[1] \in Byte /\ t.date[2] \in Byte /\ t.date[3] \in Byte
<1>1. t.price \in Written
  BY DEF Tovar
<1>2. Kopecks(t) \in Written
  BY <1>1, KopecksWritten DEF Kopecks
<1>5. t.name \in Seq(Byte) /\ Len(t.name) < 128
  BY DEF Tovar
<1>6. Len(t.name) \in Nat
  BY <1>5, LenProperties
<1> QED
  BY <1>1, <1>2, <1>5, <1>6 DEF Tovar

\* What every scale is sent as the price is the price to half a kopeck.
LEMMA KopecksPriced == \A t \in Tovar : t.price \in Nat /\ Priced(Kopecks(t), t)
<1> TAKE t \in Tovar
<1>1. t.price \in Nat
  BY TovarFields DEF Written
<1> QED
  BY <1>1, KopecksNear DEF Kopecks, Priced

-----------------------------------------------------------------------------
(***************************************************************************)
(* Records.                                                                 *)
(***************************************************************************)

\* A name in the format of the DIGI scale is a text of some length.
LEMMA FormatLength ==
  ASSUME NEW name \in Seq(Byte)
  PROVE  \E n \in Nat : StrFormat(name) \in Text(n)
<1> DEFINE len == Len(name)
           text == ConvertText(1, name, len)
           len0 == Least(len, 20)
           len1 == len - len0
<1>1. len \in Nat
  BY LenProperties
<1>2. len0 \in Nat /\ len1 \in Nat /\ (len1 # 0 => len > 20)
  <2> HIDE DEF len
  <2> QED
    BY <1>1 DEF Least
<1>3. text \in Text(len)
  <2>1. text \in Seq(Byte) /\ Len(text) = Least(len, len)
    BY <1>1, ConvertLength
  <2>2. Least(len, len) = len
    BY DEF Least
  <2> HIDE DEF text, len
  <2> QED
    BY <2>1, <2>2, BytesAreInts
<1>4. CASE len1 = 0
  <2>1. StrFormat(name) = <<8, len0>> \o text \o <<12, 0>>
    BY <1>4 DEF StrFormat
  <2>2. <<8, len0>> \in Text(2) /\ <<12, 0>> \in Text(2)
    BY <1>2 DEF Text
  <2> HIDE DEF text, len0, len1, len
  <2>3. <<8, len0>> \o text \in Text(2 + len)
    BY <1>1, <1>3, <2>2, Cat2
  <2>4. StrFormat(name) \in Text(2 + len + 2)
    BY <1>1, <2>1, <2>2, <2>3, Cat2
  <2> QED
    BY <1>1, <2>4
<1>5. CASE len1 # 0
  <2> DEFINE one == SubSeq(text, 1, 20)
             two == SubSeq(text, 21, len)
  <2>1. StrFormat(name) = <<4, len0>> \o one \o <<13, 4, len1>> \o two \o <<12, 0>>
    BY <1>5 DEF StrFormat
  <2>2. len > 20
    BY <1>2, <1>5
  <2> HIDE DEF text, len0, len1, len
  <2>3. \A j \in 1 .. len : text[j] \in Int
    BY <1>3, ElementOfSeq DEF Text
  <2>4. one \in Text(20)
    <3>1. \A j \in 1 .. 20 : text[j] \in Int
      BY <1>1, <2>2, <2>3
    <3> QED
      BY <3>1, SubSeqProperties DEF Text
  <2>5. two \in Text(len - 20) /\ len - 20 \in Nat
    <3>1. \A j \in 21 .. len : text[j] \in Int
      BY <1>1, <2>3
    <3>2. SubSeq(text, 21, len) \in Seq(Int) /\ Len(SubSeq(text, 21, len)) = len - 21 + 1
      BY <1>1, <2>2, <3>1, SubSeqProperties
    <3> QED
      BY <1>1, <2>2, <3>2 DEF Text
  <2>6. <<4, len0>> \in Text(2) /\ <<13, 4, len1>> \in Text(3) /\ <<12, 0>> \in Text(2)
    BY <1>2 DEF Text
  <2> HIDE DEF one, two
  <2>7. <<4, len0>> \o one \o <<13, 4, len1>> \o two \in Text(2 + 20 + 3 + (len - 20))
    BY <2>4, <2>6, <2>5, Cat4
  <2>8. 2 + 20 + 3 + (len - 20) = len + 5 /\ len + 5 \in Nat
    BY <1>1
  <2>9. StrFormat(name) \in Text(len + 5 + 2)
    BY <2>1, <2>6, <2>7, <2>8, Cat2
  <2> QED
    BY <1>1, <2>9
<1> QED
  BY <1>4, <1>5

\* The size the record of the DIGI scale states is its own: each byte of it is two
\* characters of the file, whatever the width of the numbers and the name.
THEOREM DigiStatesItsLength ==
  ASSUME NEW prefix \in Written, NEW t \in Tovar
  PROVE  Len(DigiRecord(prefix, t)) = 2 * DigiSize(Hex(StrFormat(t.name)))
<1> DEFINE name == Hex(StrFormat(t.name))
           len == Len(name)
           size == DigiSize(name)
           w0 == Most(2, NumDigits(prefix))
           w1 == Most(6, NumDigits(t.nomen_num))
           bcode == Decimal(prefix, w0) \o Decimal(t.nomen_num, w1) \o Decimal(0, 6)
           head == Hex(<<size \div 256, size % 256>>)
           code == SubSeq(bcode, 1, 14)
           first == Decimal(t.art_num, 8) \o head \o Hex(<<84, 0>>) \o Hex(<<13, 38, 1>>)
           second == first \o Decimal(Kopecks(t), 8) \o Hex(<<17>>) \o Hex(<<4>>)
           third == second \o code \o Decimal(t.termin, 4) \o Hex(<<1>>)
<1>1. DigiRecord(prefix, t) = third \o Hex(<<1>>) \o name
  BY DEF DigiRecord
<1>2. PICK n \in Nat : StrFormat(t.name) \in Text(n)
  BY TovarFields, FormatLength
<1>3. name \in Text(len) /\ len = 2 * n
  BY <1>2, HexText DEF Text
<1>4. size \in Nat /\ 2 * size = 56 + len
  BY <1>2, <1>3 DEF DigiSize
<1>5. code \in Text(14)
  <2>1. w0 \in 2 .. 9 /\ w1 \in 6 .. 9 /\ 0 \in Written
    <3>1. NumDigits(prefix) \in 1 .. 9 /\ NumDigits(t.nomen_num) \in 1 .. 9
      BY Digits, TovarFields
    <3>2. 0 \in Written
      BY SMT DEF Written, Ten
    <3> QED
      BY <3>1, <3>2 DEF Most
  <2> HIDE DEF w0, w1
  <2>2. /\ Decimal(prefix, w0) \in Text(w0) /\ Decimal(t.nomen_num, w1) \in Text(w1)
        /\ Decimal(0, 6) \in Text(6)
    BY <2>1, DecimalText, TovarFields
  <2>3. Decimal(prefix, w0) \o Decimal(t.nomen_num, w1) \in Text(w0 + w1)
    BY <2>1, <2>2, Cat2
  <2>4. bcode \in Text(w0 + w1 + 6)
    BY <2>1, <2>2, <2>3, Cat2
  <2> HIDE DEF bcode
  <2>5. \A j \in 1 .. 14 : bcode[j] \in Int
    BY <2>1, <2>4, ElementOfSeq DEF Text
  <2> QED
    BY <2>5, SubSeqProperties DEF Text
<1>6. Decimal(t.art_num, 8) \in Text(8)
  BY TovarFields, DecimalText
<1>7. Decimal(Kopecks(t), 8) \in Text(8)
  BY TovarFields, DecimalText
<1>8. Decimal(t.termin, 4) \in Text(4)
  BY TovarFields, DecimalText
<1>9. Hex(<<84, 0>>) \in Text(4)
  <2>1. <<84, 0>> \in Text(2)
    BY DEF Text
  <2> QED
    BY <2>1, HexText
<1>10. Hex(<<13, 38, 1>>) \in Text(6)
  <2>1. <<13, 38, 1>> \in Text(3)
    BY DEF Text
  <2> QED
    BY <2>1, HexText
<1>11. \A a \in Int : Hex(<<a>>) \in Text(2)
  <2> TAKE a \in Int
  <2>1. <<a>> \in Text(1)
    BY DEF Text
  <2>2. Hex(<<a>>) \in Text(2 * 1)
    BY <2>1, HexText
  <2> QED
    BY <2>2
<1>12. head \in Text(4)
  <2>1. size \div 256 \in Int /\ size % 256 \in Int
    BY <1>4
  <2> HIDE DEF size
  <2>2. <<size \div 256, size % 256>> \in Text(2)
    BY <2>1 DEF Text
  <2> QED
    BY <2>2, HexText
<1> HIDE DEF name, len, size, bcode, head, code
<1>13. first \in Text(22)
  BY <1>6, <1>9, <1>10, <1>12, Cat4
<1> HIDE DEF first
<1>14. second \in Text(34)
  <2>1. Hex(<<17>>) \in Text(2) /\ Hex(<<4>>) \in Text(2)
    BY <1>11
  <2> QED
    BY <1>7, <1>13, <2>1, Cat4
<1> HIDE DEF second
<1>15. third \in Text(54)
  <2>1. Hex(<<1>>) \in Text(2)
    BY <1>11
  <2> QED
    BY <1>5, <1>8, <1>14, <2>1, Cat4
<1> HIDE DEF third
<1>16. third \o Hex(<<1>>) \in Text(56)
  BY <1>11, <1>15, Cat2
<1>17. DigiRecord(prefix, t) \in Text(56 + len)
  BY <1>1, <1>2, <1>3, <1>16, Cat2
<1>18. Len(DigiRecord(prefix, t)) = 2 * size
  BY <1>4, <1>17 DEF Text
<1> QED
  BY <1>18 DEF size, name

\* A name of a scale on a COM line, or of a part of it, fits its field.
LEMMA ConvertedText ==
  ASSUME NEW name \in Seq(Byte), NEW len \in Nat
  PROVE  /\ ConvertText(2, name, len) \in Text(Len(ConvertText(2, name, len)))
         /\ Len(ConvertText(2, name, len)) \in 0 .. len
<1>1. 2 \in 1 .. 2
  OBVIOUS
<1>2. /\ ConvertText(2, name, len) \in Seq(Byte)
      /\ Len(ConvertText(2, name, len)) = Least(len, Len(name))
  BY <1>1, ConvertLength
<1>3. Len(name) \in Nat
  BY LenProperties
<1> QED
  BY <1>2, <1>3, BytesAreInts DEF Least

\* The record of the MASSA-K VP has the 60 bytes the driver sends, for a name of any length.
THEOREM VpRecordLength ==
  ASSUME NEW number \in Nat, NEW t \in Tovar
  PROVE  Len(VpRecord(number, t)) = 60
<1> DEFINE name == ConvertText(2, t.name, 40)
           len == Len(name)
           code == Short(t.nomen_num - number * 10000)
           date == <<t.date[3], t.date[2], t.date[1]>>
           first == <<0>> \o Bytes(code, 3) \o Bytes(Kopecks(t), 3) \o Zeros(2)
           gap == 48 - len
           pad == Zeros(gap)
           second == first \o date \o name \o pad
<1>1. VpRecord(number, t) = second
  BY DEF VpRecord
<1>2. name \in Text(len) /\ len \in 0 .. 40
  BY TovarFields, ConvertedText
<1>3. Bytes(code, 3) \in Text(3)
  <2>1. t.nomen_num - number * 10000 \in Int
    BY TovarFields DEF Written
  <2>2. code \in Int
    BY <2>1 DEF Short
  <2> HIDE DEF code
  <2> QED
    BY <2>2, BytesText
<1>4. Bytes(Kopecks(t), 3) \in Text(3)
  BY TovarFields, BytesText DEF Written
<1>5. <<0>> \in Text(1)
  BY DEF Text
<1>6. Zeros(2) \in Text(2)
  BY ZerosText
<1>7. date \in Text(3)
  <2>1. t.date[3] \in Byte /\ t.date[2] \in Byte /\ t.date[1] \in Byte
    BY TovarFields
  <2>2. \A b \in Byte : b \in Int
    BY DEF Byte
  <2> QED
    BY <2>1, <2>2 DEF Text
<1> HIDE DEF name, len, code, date
<1>8. first \in Text(9)
  BY <1>3, <1>4, <1>5, <1>6, Cat4
<1>9. gap \in Nat /\ len \in Nat /\ 9 + 3 + len + gap = 60
  BY <1>2
<1>10. pad \in Text(gap)
  BY <1>9, ZerosText
<1> HIDE DEF first, gap, pad
<1>11. second \in Text(9 + 3 + len + gap)
  BY <1>2, <1>7, <1>8, <1>9, <1>10, Cat4
<1> QED
  BY <1>1, <1>9, <1>11 DEF Text

\* The parameters of the command 0x82 of the CAS LP are the 83 bytes the driver sends.
THEOREM LpRecordLength ==
  ASSUME NEW t \in Tovar
  PROVE  Len(LpRecord(t)) = 83
<1> DEFINE name == ConvertText(2, t.name, 56)
           len == Len(name)
           code == t.nomen_num * 100
           digits == [j \in 1 .. 6 |-> (code \div Ten[j]) % 10]
           first == Bytes(t.nomen_num, 4) \o digits \o name \o Zeros(56 - len)
<1>1. LpRecord(t) = first \o Bytes(Kopecks(t), 4) \o Zeros(13)
  BY DEF LpRecord
<1>2. name \in Text(len) /\ len \in 0 .. 56
  BY TovarFields, ConvertedText
<1>3. Bytes(t.nomen_num, 4) \in Text(4)
  BY TovarFields, BytesText DEF Written
<1>4. Bytes(Kopecks(t), 4) \in Text(4)
  BY TovarFields, BytesText DEF Written
<1>5. digits \in Text(6)
  <2>1. code \in Int
    BY TovarFields DEF Written
  <2> HIDE DEF code
  <2>2. \A j \in 1 .. 6 : (code \div Ten[j]) % 10 \in Int
    BY <2>1, TenTyped
  <2> QED
    BY <2>2 DEF Text
<1> HIDE DEF name, len, code, digits
<1>6. 56 - len \in Nat /\ len \in Nat /\ 4 + 6 + len + (56 - len) = 66
  BY <1>2
<1>7. Zeros(56 - len) \in Text(56 - len)
  BY <1>6, ZerosText
<1>8. Zeros(13) \in Text(13)
  BY ZerosText
<1>9. first \in Text(4 + 6 + len + (56 - len))
  <2>1. Bytes(t.nomen_num, 4) \o digits \in Text(4 + 6)
    BY <1>3, <1>5, Cat2
  <2>2. Bytes(t.nomen_num, 4) \o digits \o name \in Text(4 + 6 + len)
    BY <1>2, <1>6, <2>1, Cat2
  <2>3. 4 + 6 + len \in Nat
    BY <1>6
  <2> QED
    BY <1>6, <1>7, <2>2, <2>3, Cat2
<1> HIDE DEF first
<1>10. first \o Bytes(Kopecks(t), 4) \in Text(70)
  BY <1>4, <1>6, <1>9, Cat2
<1>11. LpRecord(t) \in Text(83)
  BY <1>1, <1>10, <1>8, Cat2
<1> QED
  BY <1>11 DEF Text

\* The record of the MASSA-K VPM has the bytes it states, and the six of the code and
\* the size, whatever lies behind its variable.
THEOREM VpmStatesItsLength ==
  ASSUME NEW prefix \in Written, NEW t \in Tovar, NEW stray \in Byte \X Byte
  PROVE  Len(VpmTovar(prefix, t, stray)) = 6 + VpmSize(t.name)
<1> DEFINE len == Len(t.name)
           plu == t.nomen_num - prefix * 10000
           sell == Bytes(t.termin * 1440, 4) \o stray
           first == Bytes(plu, 4) \o Bytes(VpmSize(t.name), 2) \o <<0, 1>> \o <<1, 1, prefix % 256>>
           second == first \o Bytes(Kopecks(t), 4) \o Zeros(4) \o Bytes(plu, 4)
           third == second \o Zeros(6) \o sell \o <<32, 32, 32, 48>>
           fourth == third \o Zeros(4) \o <<6, len>> \o t.name
           body == fourth \o <<13>> \o <<0, 0, 13>> \o <<0, 0, 13>>
           sum == SumOf(body) % 256
<1>1. VpmTovar(prefix, t, stray) = Append(body, sum)
  BY DEF VpmTovar, VpmRecord
<1>2. t.name \in Text(len) /\ len \in Nat /\ VpmSize(t.name) = 47 + len
  BY TovarFields, BytesAreInts DEF VpmSize
<1>3. Bytes(plu, 4) \in Text(4)
  <2>1. plu \in Int
    BY TovarFields DEF Written
  <2> HIDE DEF plu
  <2> QED
    BY <2>1, BytesText
<1>4. Bytes(Kopecks(t), 4) \in Text(4)
  BY TovarFields, BytesText DEF Written
<1>5. Bytes(VpmSize(t.name), 2) \in Text(2)
  BY <1>2, BytesText
<1>6. sell \in Text(6)
  <2>1. t.termin * 1440 \in Int
    BY TovarFields DEF Written
  <2>2. Bytes(t.termin * 1440, 4) \in Text(4)
    BY <2>1, BytesText
  <2>3. stray \in Text(2)
    <3>1. PICK a \in Byte, b \in Byte : stray = <<a, b>>
      OBVIOUS
    <3> QED
      BY <3>1 DEF Text, Byte
  <2> QED
    BY <2>2, <2>3, Cat2
<1>7. <<0, 1>> \in Text(2) /\ <<1, 1, prefix % 256>> \in Text(3)
  BY DEF Text, Written
<1> HIDE DEF plu, len, sell
<1>8. first \in Text(11)
  BY <1>3, <1>5, <1>7, Cat4
<1> HIDE DEF first
<1>9. second \in Text(23)
  BY <1>3, <1>4, <1>8, ZerosText, Cat4
<1> HIDE DEF second
<1>10. <<32, 32, 32, 48>> \in Text(4)
  BY DEF Text
<1>11. third \in Text(39)
  <2>1. Zeros(6) \in Text(6)
    BY ZerosText
  <2> QED
    BY <1>6, <1>9, <1>10, <2>1, Cat4
<1> HIDE DEF third
<1>12. <<6, len>> \in Text(2)
  BY <1>2 DEF Text
<1>13. fourth \in Text(39 + 4 + 2 + len)
  <2>1. Zeros(4) \in Text(4)
    BY ZerosText
  <2> QED
    BY <1>2, <1>11, <1>12, <2>1, Cat4
<1> HIDE DEF fourth
<1>14. <<13>> \in Text(1) /\ <<0, 0, 13>> \in Text(3)
  BY DEF Text
<1>15. 39 + 4 + 2 + len = 45 + len /\ 45 + len \in Nat
  BY <1>2
<1>16. body \in Text(45 + len + 1 + 3 + 3)
  BY <1>13, <1>14, <1>15, Cat4
<1>17. Len(Append(body, sum)) = 45 + len + 1 + 3 + 3 + 1
  <2> HIDE DEF body, sum
  <2>1. body \in Seq(Int \cup {sum}) /\ Len(body) = 45 + len + 1 + 3 + 3
    BY <1>16, SeqMonotonic DEF Text
  <2> QED
    BY <2>1, AppendProperties
<1> HIDE DEF body, sum
<1> QED
  BY <1>1, <1>2, <1>17

-----------------------------------------------------------------------------
(***************************************************************************)
(* Sums, fields and numbers, as a reader gets them back.                    *)
(***************************************************************************)

\* The sum of a text grows by one number after the other.
LEMMA SumSteps ==
  ASSUME NEW b \in Seq(Int)
  PROVE  \E f \in [0 .. Len(b) -> Int] :
            /\ SumOf(b) = f[Len(b)] /\ f[0] = 0
            /\ \A j \in 1 .. Len(b) : f[j] = f[j - 1] + b[j]
<1> DEFINE n == Len(b)
           Rule(f) == [j \in 0 .. n |-> IF j = 0 THEN 0 ELSE f[j - 1] + b[j]]
           sum == CHOOSE f : f = Rule(f)
           g == [p \in Nat \X Int |-> IF p[1] \in 1 .. n THEN p[2] + b[p[1]] ELSE 0]
<1>1. n \in Nat /\ \A j \in 1 .. n : b[j] \in Int
  BY LenProperties, ElementOfSeq
<1>2. SumOf(b) = sum[n]
  BY DEF SumOf
<1> HIDE DEF n
<1>3. g \in Rules(Int)
  BY <1>1 DEF Rules
<1>4. PICK f \in [0 .. n -> Int] : Follows(f, 0, g, n)
  <2>1. 0 \in Int
    OBVIOUS
  <2> HIDE DEF g
  <2> QED
    BY <1>1, <1>3, <2>1, Recursion
<1>5. \A j \in 1 .. n : f[j] = f[j - 1] + b[j]
  <2> TAKE j \in 1 .. n
  <2>1. j - 1 \in 0 .. n /\ j \in Nat
    BY <1>1
  <2>2. <<j, f[j - 1]>> \in Nat \X Int
    BY <2>1
  <2>3. g[<<j, f[j - 1]>>] = f[j - 1] + b[j]
    BY <2>2
  <2> QED
    BY <1>4, <2>3 DEF Follows
<1>6. f = Rule(f)
  BY <1>4, <1>5 DEF Follows
<1>7. sum = Rule(sum)
  BY <1>6
<1> HIDE DEF sum
<1>8. sum[0] = 0 /\ \A j \in 1 .. n : sum[j] = sum[j - 1] + b[j]
  BY <1>1, <1>7
<1>9. \A j \in 0 .. n : sum[j] \in Int
  <2> DEFINE S == {j \in 0 .. n : sum[j] \in Int}
  <2>1. 0 \in S
    BY <1>1, <1>8
  <2>2. ASSUME NEW j \in 0 .. n, j \in S, j < n PROVE j + 1 \in S
    <3>1. j + 1 \in 1 .. n /\ j + 1 - 1 = j
      BY <1>1, <2>2
    <3>2. sum[j + 1] = sum[j] + b[j + 1]
      BY <1>8, <3>1
    <3> QED
      BY <1>1, <2>2, <3>1, <3>2
  <2> HIDE DEF S
  <2>3. \A j \in 0 .. n : j \in S
    BY <1>1, <2>1, <2>2, UpTo
  <2> QED
    BY <2>3 DEF S
<1>10. sum \in [0 .. n -> Int]
  BY <1>7, <1>9
<1> QED
  BY <1>2, <1>8, <1>10 DEF n

LEMMA SumTyped == \A b \in Seq(Int) : SumOf(b) \in Int
BY SumSteps, LenProperties

-----------------------------------------------------------------------------
(***************************************************************************)
(* Fields.  A record is a chain of texts; what a reader takes from it is a  *)
(* part at some offset.                                                     *)
(***************************************************************************)

Starts(r, u) == \A j \in 1 .. Len(u) : r[j] = u[j]
FieldAt(r, p, s) == \A j \in 1 .. Len(s) : r[p + j] = s[j]
Part(r, p, m) == SubSeq(r, p + 1, p + m)

\* A record that starts with u and then v starts with u and has v behind it.
LEMMA Peel ==
  ASSUME NEW r, NEW k \in Nat, NEW m \in Nat, NEW u \in Text(k), NEW v \in Text(m),
         Starts(r, u \o v)
  PROVE  Starts(r, u) /\ FieldAt(r, k, v)
<1>1. u \in Seq(Int) /\ v \in Seq(Int) /\ Len(u) = k /\ Len(v) = m
  BY DEF Text
<1>2. /\ Len(u \o v) = k + m
      /\ \A j \in 1 .. k + m : (u \o v)[j] = IF j <= k THEN u[j] ELSE v[j - k]
  BY <1>1, ConcatProperties
<1>3. \A j \in 1 .. k : r[j] = u[j]
  BY <1>2 DEF Starts
<1>4. ASSUME NEW j \in 1 .. m PROVE r[k + j] = v[j]
  <2>1. k + j \in 1 .. k + m /\ ~(k + j <= k) /\ k + j - k = j
    OBVIOUS
  <2>2. (u \o v)[k + j] = v[j]
    BY <1>2, <2>1
  <2> QED
    BY <1>2, <2>1, <2>2 DEF Starts
<1> QED
  BY <1>1, <1>3, <1>4 DEF Starts, FieldAt

\* A reader that takes the part of the length of a field at its offset has the field.
LEMMA FieldRead ==
  ASSUME NEW r, NEW p \in Nat, NEW m \in Nat, NEW s \in Text(m), FieldAt(r, p, s)
  PROVE  Part(r, p, m) = s
<1> DEFINE a == p + 1
           b == p + m
<1>1. s \in Seq(Int) /\ Len(s) = m /\ \A j \in 1 .. m : s[j] \in Int /\ r[p + j] = s[j]
  BY ElementOfSeq DEF Text, FieldAt
<1>2. \A j \in a .. b : r[j] \in Int
  <2> TAKE j \in a .. b
  <2>1. j - p \in 1 .. m /\ p + (j - p) = j
    OBVIOUS
  <2> QED
    BY <1>1, <2>1
<1>3. /\ SubSeq(r, a, b) \in Seq(Int)
      /\ Len(SubSeq(r, a, b)) = IF a <= b THEN b - a + 1 ELSE 0
      /\ \A j \in 1 .. b - a + 1 : SubSeq(r, a, b)[j] = r[a + j - 1]
  BY <1>2, SubSeqProperties
<1>4. b - a + 1 = m /\ (a <= b <=> m # 0) /\ \A j \in 1 .. m : a + j - 1 = p + j
  OBVIOUS
<1>5. Len(SubSeq(r, a, b)) = m
  BY <1>3, <1>4
<1>6. \A j \in 1 .. m : SubSeq(r, a, b)[j] = s[j]
  BY <1>1, <1>3, <1>4
<1>7. SubSeq(r, a, b) = s
  BY <1>1, <1>3, <1>5, <1>6, SeqEqual
<1> QED
  BY <1>7 DEF Part

-----------------------------------------------------------------------------
(***************************************************************************)
(* Numbers in bytes.                                                        *)
(***************************************************************************)

LEMMA BytesOf ==
  ASSUME NEW n \in Int
  PROVE  /\ \A k \in 1 .. 4 : Len(Bytes(n, k)) = k
         /\ \A k \in 1 .. 4 : \A j \in 1 .. k :
               Bytes(n, k)[j] = IF n >= 0 THEN (n \div Power[j]) % 256
                                          ELSE 255 - (((-n - 1) \div Power[j]) % 256)
BY BytesLength DEF Bytes

\* What a signed int of four bytes holds, and an unsigned one of three.
Int32 == {n \in Int : -2147483648 <= n /\ n < 2147483648}
Nat24 == {n \in Nat : n < 16777216}

LEMMA FourBytesRead ==
  ASSUME NEW n \in Int32
  PROVE  IntOf(Bytes(n, 4)) = n
<1> DEFINE b == Bytes(n, 4)
           m == -n - 1
           c == [j \in 1 .. 3 |-> 255 - b[j]]
<1>1. Power[1] = 1 /\ Power[2] = 256 /\ Power[3] = 65536 /\ Power[4] = 16777216
  BY SMT DEF Power
<1>2. n \in Int /\ m \in Int
  BY SMT DEF Int32
<1>3. Len(b) = 4
  BY <1>2, BytesOf
<1>4. \A j \in 1 .. 4 : b[j] = IF n >= 0 THEN (n \div Power[j]) % 256
                                        ELSE 255 - ((m \div Power[j]) % 256)
  BY <1>2, BytesOf
<1>5. IntOf(b) = IF b[4] < 128 THEN b[1] + 256 * b[2] + 65536 * b[3] + 16777216 * b[4]
                 ELSE -1 - ((c[1] + 256 * c[2] + 65536 * c[3]) + 16777216 * (255 - b[4]))
  BY SMT, <1>3 DEF IntOf
<1>6. c[1] = 255 - b[1] /\ c[2] = 255 - b[2] /\ c[3] = 255 - b[3]
  OBVIOUS
<1>7. m = -n - 1
  OBVIOUS
<1> HIDE DEF b, c, m
<1>8. CASE n >= 0
  <2>1. b[1] = (n \div 1) % 256 /\ b[2] = (n \div 256) % 256 /\ b[3] = (n \div 65536) % 256
        /\ b[4] = (n \div 16777216) % 256
    BY SMT, <1>1, <1>4, <1>8
  <2>2. b[4] < 128 /\ n = b[1] + 256 * b[2] + 65536 * b[3] + 16777216 * b[4]
    BY SMT, <1>8, <2>1 DEF Int32
  <2> QED
    BY SMT, <1>5, <2>2 DEF b
<1>9. CASE n < 0
  <2>1. /\ b[1] = 255 - ((m \div 1) % 256) /\ b[2] = 255 - ((m \div 256) % 256)
        /\ b[3] = 255 - ((m \div 65536) % 256) /\ b[4] = 255 - ((m \div 16777216) % 256)
    BY SMT, <1>1, <1>2, <1>4, <1>9
  <2>2. m \in Nat /\ m < 2147483648
    BY SMT, <1>7, <1>9 DEF Int32
  <2>3. ~(b[4] < 128)
    BY SMT, <2>1, <2>2
  <2>4. c[1] + 256 * c[2] + 65536 * c[3] + 16777216 * (255 - b[4]) = m
    BY SMT, <1>6, <2>1, <2>2
  <2>5. IntOf(b) = -1 - m
    BY SMT, <1>5, <2>3, <2>4
  <2>6. -1 - m = n
    BY SMT, <1>2, <1>7
  <2> QED
    BY <2>5, <2>6 DEF b
<1> QED
  BY <1>2, <1>8, <1>9

LEMMA ThreeBytesRead ==
  ASSUME NEW n \in Nat24
  PROVE  IntOf(Bytes(n, 3)) = n
<1> DEFINE b == Bytes(n, 3)
<1>1. Power[1] = 1 /\ Power[2] = 256 /\ Power[3] = 65536
  BY SMT DEF Power
<1>2. n \in Nat
  BY SMT DEF Nat24
<1>3. Len(b) = 3
  BY <1>2, BytesOf
<1>4. \A j \in 1 .. 3 : b[j] = (n \div Power[j]) % 256
  BY <1>2, BytesOf
<1>5. IntOf(b) = b[1] + 256 * b[2] + 65536 * b[3]
  BY SMT, <1>3 DEF IntOf
<1> HIDE DEF b
<1>6. b[1] = (n \div 1) % 256 /\ b[2] = (n \div 256) % 256 /\ b[3] = (n \div 65536) % 256
  BY SMT, <1>1, <1>4
<1>7. n = b[1] + 256 * b[2] + 65536 * b[3]
  BY SMT, <1>6 DEF Nat24
<1> QED
  BY <1>5, <1>7 DEF b

-----------------------------------------------------------------------------
(***************************************************************************)
(* Text.                                                                    *)
(***************************************************************************)

\* No two letters have the same byte in a code table, but for the Ukrainian I and the
\* Latin one; so what a scale shows for the byte of a letter is that letter.
LEMMA LetterShown ==
  ASSUME NEW page \in 1 .. 2, NEW c \in Letters
  PROVE  Shown(page, table(page, c)) = Drawn(c)
<1> DEFINE Plain == Letters \ {178, 179}
<1>1. CASE page = 1
  <2>1. /\ High[1][43] = 242 /\ High[1][48] = 244 /\ High[1][51] = 73
        /\ High[1][52] = 105 /\ High[1][59] = 243 /\ High[1][64] = 245
    BY SMT DEF High
  <2>2. \A d \in Letters : table(1, d) =
           IF d < 128 THEN d ELSE IF d = 170 THEN 242 ELSE IF d = 175 THEN 244
           ELSE IF d = 178 THEN 73 ELSE IF d = 179 THEN 105 ELSE IF d = 186 THEN 243
           ELSE IF d = 191 THEN 245 ELSE IF d < 240 THEN d - 64 ELSE d - 16
    BY SMT, <2>1 DEF table, Letters
  <2>3. \A d, e \in Plain : table(1, d) = table(1, e) => d = e
    BY SMT, <2>2 DEF Letters
  <2>4. Drawn(c) \in Plain /\ table(1, Drawn(c)) = table(1, c)
    BY SMT, <2>2 DEF Drawn, Letters
  <2> QED
    BY <1>1, <2>3, <2>4 DEF Shown
<1>2. CASE page = 2
  <2>1. /\ High[2][43] = 192 /\ High[2][48] = 194 /\ High[2][51] = 73
        /\ High[2][52] = 105 /\ High[2][59] = 193 /\ High[2][64] = 195
    BY SMT DEF High, High2
  <2>2. \A d \in Letters : table(2, d) =
           IF d < 128 THEN d ELSE IF d = 170 THEN 192 ELSE IF d = 175 THEN 194
           ELSE IF d = 178 THEN 73 ELSE IF d = 179 THEN 105 ELSE IF d = 186 THEN 193
           ELSE IF d = 191 THEN 195 ELSE IF d < 240 THEN d - 64 ELSE d - 16
    BY SMT, <2>1 DEF table, Letters
  <2>3. \A d, e \in Plain : table(2, d) = table(2, e) => d = e
    BY SMT, <2>2 DEF Letters
  <2>4. Drawn(c) \in Plain /\ table(2, Drawn(c)) = table(2, c)
    BY SMT, <2>2 DEF Drawn, Letters
  <2> QED
    BY <1>2, <2>3, <2>4 DEF Shown
<1> QED
  BY <1>1, <1>2

\* A converted name, or what of it has room, reads as the name.
LEMMA ConvertedRead ==
  ASSUME NEW page \in 1 .. 2, NEW name \in Seq(Byte), NEW len \in Nat
  PROVE  SameText(page, ConvertText(page, name, len), SubSeq(name, 1, Least(len, Len(name))))
<1> DEFINE n == Least(len, Len(name))
           text == ConvertText(page, name, len)
           part == SubSeq(name, 1, n)
<1>1. Len(name) \in Nat /\ \A j \in 1 .. Len(name) : name[j] \in Byte
  BY LenProperties, ElementOfSeq
<1>2. n \in Nat /\ n <= Len(name)
  BY <1>1 DEF Least
<1>3. /\ part \in Seq(Byte) /\ Len(part) = n
      /\ \A j \in 1 .. n : part[j] = name[j]
  <2> HIDE DEF n
  <2>1. \A j \in 1 .. n : name[j] \in Byte
    BY <1>1, <1>2
  <2>2. /\ part \in Seq(Byte) /\ Len(part) = IF 1 <= n THEN n - 1 + 1 ELSE 0
        /\ \A j \in 1 .. n - 1 + 1 : part[j] = name[1 + j - 1]
    BY <1>2, <2>1, SubSeqProperties
  <2>3. n - 1 + 1 = n /\ (~(1 <= n) => n = 0) /\ \A j \in 1 .. n : 1 + j - 1 = j
    BY <1>2
  <2> QED
    BY <2>2, <2>3
<1>4. Len(text) = n /\ \A j \in 1 .. n : text[j] = table(page, name[j])
  BY ConvertLength DEF ConvertText
<1>5. DOMAIN part = 1 .. n
  <2> HIDE DEF part, n
  <2> QED
    BY <1>3, LenProperties
<1> HIDE DEF n, text, part
<1>6. \A j \in 1 .. n : part[j] \in Letters => Shown(page, text[j]) = Drawn(part[j])
  BY <1>3, <1>4, LetterShown
<1>7. SameText(page, text, part)
  BY <1>3, <1>4, <1>5, <1>6 DEF SameText
<1> QED
  BY <1>7 DEF n, text, part

-----------------------------------------------------------------------------
(***************************************************************************)
(* The scales on a COM line.                                                *)
(***************************************************************************)

LEMMA RecordStartsItself == ASSUME NEW r PROVE Starts(r, r)
BY DEF Starts

\* The price of a good fits the four bytes of an int, and so does its code.
LEMMA WrittenIsInt32 == Written \subseteq Int32
<1>1. Ten[10] = 1000000000
  BY SMT DEF Ten
<1>2. \A n \in Written : n \in Int /\ 0 <= n /\ n <= Ten[10] - 1
  BY TenTyped DEF Written
<1> QED
  BY SMT, <1>1, <1>2 DEF Int32

\* The record of the MASSA-K VP reads back as the good: the code without the number of
\* the scale in sixteen bits, the price if it fits three bytes, the date, the name as
\* far as there is room.
THEOREM VpReads ==
  ASSUME NEW number \in Nat, NEW t \in Tovar
  PROVE  VpSays(VpRecord(number, t), number, t)
<1> DEFINE name == ConvertText(2, t.name, 40)
           len == Least(40, Len(t.name))
           code == Short(t.nomen_num - number * 10000)
           kop == Kopecks(t)
           date == <<t.date[3], t.date[2], t.date[1]>>
           r == VpRecord(number, t)
           upTo3 == <<0>> \o Bytes(code, 3) \o Bytes(kop, 3)
           upTo4 == upTo3 \o Zeros(2)
           upTo5 == upTo4 \o date
           upTo6 == upTo5 \o name
<1>1. r = upTo6 \o Zeros(48 - Len(name))
  BY DEF VpRecord
<1>2. name \in Text(len) /\ len \in 0 .. 40
  <2>1. t.name \in Seq(Byte) /\ 40 \in Nat /\ 2 \in 1 .. 2
    BY TovarFields
  <2>2. Len(name) = len
    BY <2>1, ConvertLength
  <2> QED
    BY <2>1, <2>2, ConvertedText
<1>3. code \in Nat24 /\ Bytes(code, 3) \in Text(3)
  <2>1. t.nomen_num - number * 10000 \in Int
    BY TovarFields DEF Written
  <2>2. code \in Nat /\ code < 65536
    BY <2>1 DEF Short
  <2> HIDE DEF code
  <2>3. code \in Nat24
    BY SMT, <2>2 DEF Nat24
  <2> QED
    BY <2>2, <2>3, BytesText
<1>4. kop \in Nat /\ Bytes(kop, 3) \in Text(3)
  BY TovarFields, BytesText DEF Written
<1>5. <<0>> \in Text(1)
  BY DEF Text
<1>6. date \in Text(3)
  <2>1. t.date[3] \in Byte /\ t.date[2] \in Byte /\ t.date[1] \in Byte
    BY TovarFields
  <2>2. \A b \in Byte : b \in Int
    BY DEF Byte
  <2> QED
    BY <2>1, <2>2 DEF Text
<1>7. Len(name) = len
  BY <1>2 DEF Text
<1>9. SameText(2, name, SubSeq(t.name, 1, len))
  BY TovarFields, ConvertedRead
<1>10. Len(r) = 60
  BY VpRecordLength
<1> HIDE DEF name, len, code, kop, date, r
<1>8. PICK z \in Nat : Zeros(2) \in Text(2) /\ Zeros(48 - len) \in Text(z)
  BY <1>2, ZerosText
<1>11. <<0>> \o Bytes(code, 3) \in Text(4) /\ upTo3 \in Text(7)
  BY <1>3, <1>4, <1>5, Cat2
<1> HIDE DEF upTo3
<1>12. upTo4 \in Text(9)
  BY <1>8, <1>11, Cat2
<1> HIDE DEF upTo4
<1>13. upTo5 \in Text(12)
  BY <1>6, <1>12, Cat2
<1> HIDE DEF upTo5
<1>14. PICK k \in Nat : upTo6 \in Text(k)
  BY <1>2, <1>13, Cat2
<1> HIDE DEF upTo6
<1>15. Starts(r, upTo6)
  <2>1. Starts(r, upTo6 \o Zeros(48 - len))
    BY <1>1, <1>7, RecordStartsItself
  <2> QED
    BY <1>8, <1>14, <2>1, Peel
<1>16. Starts(r, upTo5) /\ FieldAt(r, 12, name)
  <2>1. Starts(r, upTo5 \o name) /\ len \in Nat
    BY <1>2, <1>15 DEF upTo6
  <2> QED
    BY <1>2, <1>13, <2>1, Peel
<1>17. Starts(r, upTo4) /\ FieldAt(r, 9, date)
  BY <1>6, <1>12, <1>16, Peel DEF upTo5
<1>18. Starts(r, upTo3)
  BY <1>8, <1>11, <1>17, Peel DEF upTo4
<1>19. Starts(r, <<0>> \o Bytes(code, 3)) /\ FieldAt(r, 4, Bytes(kop, 3))
  BY <1>4, <1>11, <1>18, Peel DEF upTo3
<1>20. FieldAt(r, 1, Bytes(code, 3))
  BY <1>3, <1>5, <1>19, Peel
<1>21. /\ Part(r, 1, 3) = Bytes(code, 3) /\ Part(r, 4, 3) = Bytes(kop, 3)
       /\ Part(r, 9, 3) = date /\ Part(r, 12, len) = name
  BY <1>2, <1>3, <1>4, <1>6, <1>16, <1>17, <1>19, <1>20, FieldRead
<1>22. /\ SubSeq(r, 2, 4) = Bytes(code, 3) /\ SubSeq(r, 5, 7) = Bytes(kop, 3)
       /\ SubSeq(r, 10, 12) = date /\ SubSeq(r, 13, 12 + len) = name
  BY <1>21 DEF Part
<1>23. IntOf(SubSeq(r, 2, 4)) = code
  BY <1>3, <1>22, ThreeBytesRead
<1>24. t.price < 167772155 => Priced(IntOf(SubSeq(r, 5, 7)), t)
  <2>1. t.price \in Nat /\ Priced(kop, t)
    BY KopecksPriced DEF kop
  <2>2. t.price < 167772155 => kop \in Nat24
    BY SMT, <1>4, <2>1 DEF Nat24, Priced
  <2>3. kop \in Nat24 => IntOf(SubSeq(r, 5, 7)) = kop
    BY <1>22, ThreeBytesRead
  <2> QED
    BY SMT, <2>1, <2>2, <2>3
<1>25. SameText(2, SubSeq(r, 13, 12 + len), SubSeq(t.name, 1, len))
  BY <1>9, <1>22
<1> USE DEF len, code, kop, date, r
<1> QED
  BY SMT, <1>10, <1>22, <1>23, <1>24, <1>25 DEF VpSays

\* The parameters the CAS LP is sent read back as the good: the code, its last four
\* digits in the barcode, the price, the name as far as there is room.
THEOREM LpReads ==
  ASSUME NEW t \in Tovar
  PROVE  LpSays(LpRecord(t), t)
<1> DEFINE name == ConvertText(2, t.name, 56)
           len == Least(56, Len(t.name))
           code == t.nomen_num
           kop == Kopecks(t)
           digits == [j \in 1 .. 6 |-> ((code * 100) \div Ten[j]) % 10]
           r == LpRecord(t)
           upTo2 == Bytes(code, 4) \o digits
           upTo3 == upTo2 \o name
           upTo4 == upTo3 \o Zeros(56 - Len(name))
           upTo5 == upTo4 \o Bytes(kop, 4)
<1>1. r = upTo5 \o Zeros(13)
  BY DEF LpRecord
<1>2. name \in Text(len) /\ len \in 0 .. 56
  <2>1. t.name \in Seq(Byte) /\ 56 \in Nat /\ 2 \in 1 .. 2
    BY TovarFields
  <2>2. Len(name) = len
    BY <2>1, ConvertLength
  <2> QED
    BY <2>1, <2>2, ConvertedText
<1>3. code \in Int32 /\ code \in Nat /\ Bytes(code, 4) \in Text(4)
  <2>1. code \in Written
    BY TovarFields
  <2>2. code \in Nat
    BY <2>1 DEF Written
  <2> QED
    BY <2>1, <2>2, WrittenIsInt32, BytesText
<1>4. kop \in Int32 /\ Bytes(kop, 4) \in Text(4)
  <2>1. kop \in Written
    BY TovarFields
  <2>2. kop \in Nat
    BY <2>1 DEF Written
  <2> QED
    BY <2>1, <2>2, WrittenIsInt32, BytesText
<1>5. digits \in Text(6)
  <2>1. \A j \in 1 .. 6 : ((code * 100) \div Ten[j]) % 10 \in Int
    <3>1. code * 100 \in Nat
      BY <1>3
    <3> QED
      BY <3>1, TenTyped
  <2> QED
    BY <2>1 DEF Text
<1>6. Len(name) = len
  BY <1>2 DEF Text
<1>7. SameText(2, name, SubSeq(t.name, 1, len))
  BY TovarFields, ConvertedRead
<1>8. Len(r) = 83
  BY LpRecordLength
<1>9. code % 10000 = digits[3] + 10 * digits[4] + 100 * digits[5] + 1000 * digits[6]
  <2>1. Ten[3] = 100 /\ Ten[4] = 1000 /\ Ten[5] = 10000 /\ Ten[6] = 100000
    BY SMT DEF Ten
  <2>2. /\ digits[3] = ((code * 100) \div Ten[3]) % 10 /\ digits[4] = ((code * 100) \div Ten[4]) % 10
        /\ digits[5] = ((code * 100) \div Ten[5]) % 10 /\ digits[6] = ((code * 100) \div Ten[6]) % 10
    OBVIOUS
  <2> HIDE DEF digits, code
  <2> QED
    BY SMT, <1>3, <2>1, <2>2
<1> HIDE DEF name, len, code, kop, digits, r
<1>10. PICK z \in Nat : Zeros(56 - len) \in Text(z) /\ z = 56 - len
  BY <1>2, ZerosText
<1>11. upTo2 \in Text(10) /\ len \in Nat
  BY <1>2, <1>3, <1>5, Cat2
<1> HIDE DEF upTo2
<1>12. PICK k \in Nat : upTo3 \in Text(k) /\ k = 10 + len
  BY <1>2, <1>11, Cat2
<1> HIDE DEF upTo3
<1>13. upTo4 \in Text(66)
  <2>1. upTo4 = upTo3 \o Zeros(56 - len) /\ k + z = 66
    BY <1>2, <1>6, <1>10, <1>12
  <2>2. upTo3 \o Zeros(56 - len) \in Text(k + z)
    BY <1>10, <1>12, Cat2
  <2> QED
    BY <2>1, <2>2
<1> HIDE DEF upTo4
<1>14. upTo5 \in Text(70)
  BY <1>4, <1>13, Cat2
<1> HIDE DEF upTo5
<1>15. Starts(r, upTo5)
  <2>1. Starts(r, upTo5 \o Zeros(13)) /\ Zeros(13) \in Text(13)
    BY <1>1, RecordStartsItself, ZerosText
  <2> QED
    BY <1>14, <2>1, Peel
<1>16. Starts(r, upTo4) /\ FieldAt(r, 66, Bytes(kop, 4))
  <2>1. Starts(r, upTo4 \o Bytes(kop, 4))
    BY <1>15 DEF upTo5
  <2> QED
    BY <1>4, <1>13, <2>1, Peel
<1>17. Starts(r, upTo3)
  <2>1. Starts(r, upTo3 \o Zeros(56 - len))
    BY <1>6, <1>16 DEF upTo4
  <2>2. upTo3 \in Text(k) /\ Zeros(56 - len) \in Text(z)
    BY <1>10, <1>12
  <2> QED
    BY <2>1, <2>2, Peel
<1>18. Starts(r, upTo2) /\ FieldAt(r, 10, name)
  <2>1. Starts(r, upTo2 \o name)
    BY <1>17 DEF upTo3
  <2> QED
    BY <1>2, <1>11, <2>1, Peel
<1>19. Starts(r, Bytes(code, 4)) /\ FieldAt(r, 4, digits)
  <2>1. Starts(r, Bytes(code, 4) \o digits)
    BY <1>18 DEF upTo2
  <2> QED
    BY <1>3, <1>5, <2>1, Peel
<1>20. FieldAt(r, 0, Bytes(code, 4))
  BY <1>19 DEF Starts, FieldAt
<1>21. /\ Part(r, 0, 4) = Bytes(code, 4) /\ Part(r, 66, 4) = Bytes(kop, 4)
       /\ Part(r, 10, len) = name
  BY <1>2, <1>3, <1>4, <1>11, <1>16, <1>18, <1>20, FieldRead
<1>22. /\ SubSeq(r, 1, 4) = Bytes(code, 4) /\ SubSeq(r, 67, 70) = Bytes(kop, 4)
       /\ SubSeq(r, 11, 10 + len) = name
  BY <1>21 DEF Part
<1>23. r[7] = digits[3] /\ r[8] = digits[4] /\ r[9] = digits[5] /\ r[10] = digits[6]
  <2>1. Len(digits) = 6
    BY <1>5 DEF Text
  <2>2. 4 + 3 = 7 /\ 4 + 4 = 8 /\ 4 + 5 = 9 /\ 4 + 6 = 10
    OBVIOUS
  <2> QED
    BY <1>19, <2>1, <2>2 DEF FieldAt
<1>24. IntOf(SubSeq(r, 1, 4)) = code /\ IntOf(SubSeq(r, 67, 70)) = kop
  BY <1>3, <1>4, <1>22, FourBytesRead
<1>25. SameText(2, SubSeq(r, 11, 10 + len), SubSeq(t.name, 1, len))
  BY <1>7, <1>22
<1>26. r[7] + 10 * r[8] + 100 * r[9] + 1000 * r[10] = code % 10000
  BY SMT, <1>9, <1>23
<1>27. Priced(IntOf(SubSeq(r, 67, 70)), t)
  BY <1>24, KopecksPriced DEF kop
<1> USE DEF len, code, r
<1> QED
  BY SMT, <1>8, <1>24, <1>25, <1>26, <1>27 DEF LpSays

-----------------------------------------------------------------------------
(***************************************************************************)
(* MASSA-K VPM.                                                             *)
(***************************************************************************)

\* The layout of a record of the VPM, whoever makes it: the fields at their places, and
\* the sum of all bytes before it at the end.
VpmFields(r, plu, prefix, t, sell) ==
    /\ Len(r) = 53 + Len(t.name) /\ r \in Seq(Int)
    /\ FieldAt(r, 0, Bytes(plu, 4)) /\ FieldAt(r, 4, Bytes(VpmSize(t.name), 2))
    /\ FieldAt(r, 6, <<0, 1>>) /\ FieldAt(r, 8, <<1, 1, prefix % 256>>)
    /\ FieldAt(r, 11, Bytes(Kopecks(t), 4)) /\ FieldAt(r, 15, Zeros(4))
    /\ FieldAt(r, 19, Bytes(plu, 4)) /\ FieldAt(r, 23, Zeros(6))
    /\ FieldAt(r, 29, sell) /\ FieldAt(r, 35, <<32, 32, 32, 48>>) /\ FieldAt(r, 39, Zeros(4))
    /\ FieldAt(r, 43, <<6, Len(t.name)>>) /\ FieldAt(r, 45, t.name)
    /\ FieldAt(r, 45 + Len(t.name), <<13>>)
    /\ FieldAt(r, 46 + Len(t.name), <<0, 0, 13>>)
    /\ FieldAt(r, 49 + Len(t.name), <<0, 0, 13>>)
    /\ \E body \in Text(52 + Len(t.name)) :
          Starts(r, body) /\ r[53 + Len(t.name)] = SumOf(body) % 256

LEMMA VpmLayout ==
  ASSUME NEW plu \in Int, NEW prefix \in Nat, NEW t \in Tovar, NEW sell \in Text(6)
  PROVE  VpmFields(VpmRecord(plu, prefix, t, sell), plu, prefix, t, sell)
<1> DEFINE len == Len(t.name)
           code == Bytes(plu, 4)
           size == Bytes(VpmSize(t.name), 2)
           status == <<0, 1>>
           head == <<1, 1, prefix % 256>>
           price == Bytes(Kopecks(t), 4)
           dots == <<32, 32, 32, 48>>
           kinds == <<6, len>>
           last == <<0, 0, 13>>
           u2 == code \o size
           u3 == u2 \o status
           u4 == u3 \o head
           u5 == u4 \o price
           u6 == u5 \o Zeros(4)
           u7 == u6 \o code
           u8 == u7 \o Zeros(6)
           u9 == u8 \o sell
           u10 == u9 \o dots
           u11 == u10 \o Zeros(4)
           u12 == u11 \o kinds
           u13 == u12 \o t.name
           u14 == u13 \o <<13>>
           u15 == u14 \o last
           u16 == u15 \o last
           sum == SumOf(u16) % 256
           r == VpmRecord(plu, prefix, t, sell)
<1>1. r = Append(u16, sum)
  BY DEF VpmRecord
<1>2. t.name \in Text(len) /\ len \in Nat /\ VpmSize(t.name) = 47 + len
  BY TovarFields, BytesAreInts DEF VpmSize
<1>3. code \in Text(4)
  BY BytesText
<1>4. price \in Text(4)
  BY TovarFields, BytesText DEF Written
<1>5. size \in Text(2)
  BY <1>2, BytesText
<1>6. head \in Text(3) /\ status \in Text(2)
  BY DEF Text
<1>7. dots \in Text(4)
  BY DEF Text
<1>8. kinds \in Text(2)
  BY <1>2 DEF Text
<1>9. last \in Text(3) /\ <<13>> \in Text(1)
  BY DEF Text
<1>10. Zeros(4) \in Text(4) /\ Zeros(6) \in Text(6)
  BY ZerosText
<1> HIDE DEF len, code, size, status, head, price, dots, kinds, last, sum, r
<1>11. u2 \in Text(6)
  BY <1>3, <1>4, <1>5, <1>6, <1>7, <1>8, <1>10, Cat2
<1> HIDE DEF u2
<1>12. u3 \in Text(8)
  BY <1>3, <1>4, <1>5, <1>6, <1>7, <1>8, <1>10, <1>11, Cat2
<1> HIDE DEF u3
<1>13. u4 \in Text(11)
  BY <1>3, <1>4, <1>5, <1>6, <1>7, <1>8, <1>10, <1>12, Cat2
<1> HIDE DEF u4
<1>14. u5 \in Text(15)
  BY <1>3, <1>4, <1>5, <1>6, <1>7, <1>8, <1>10, <1>13, Cat2
<1> HIDE DEF u5
<1>15. u6 \in Text(19)
  BY <1>3, <1>4, <1>5, <1>6, <1>7, <1>8, <1>10, <1>14, Cat2
<1> HIDE DEF u6
<1>16. u7 \in Text(23)
  BY <1>3, <1>4, <1>5, <1>6, <1>7, <1>8, <1>10, <1>15, Cat2
<1> HIDE DEF u7
<1>17. u8 \in Text(29)
  BY <1>3, <1>4, <1>5, <1>6, <1>7, <1>8, <1>10, <1>16, Cat2
<1> HIDE DEF u8
<1>18. u9 \in Text(35)
  BY <1>3, <1>4, <1>5, <1>6, <1>7, <1>8, <1>10, <1>17, Cat2
<1> HIDE DEF u9
<1>19. u10 \in Text(39)
  BY <1>3, <1>4, <1>5, <1>6, <1>7, <1>8, <1>10, <1>18, Cat2
<1> HIDE DEF u10
<1>20. u11 \in Text(43)
  BY <1>3, <1>4, <1>5, <1>6, <1>7, <1>8, <1>10, <1>19, Cat2
<1> HIDE DEF u11
<1>21. u12 \in Text(45)
  BY <1>3, <1>4, <1>5, <1>6, <1>7, <1>8, <1>10, <1>20, Cat2
<1> HIDE DEF u12
<1>22. u13 \in Text(45 + len) /\ 45 + len \in Nat
  BY <1>2, <1>21, Cat2
<1> HIDE DEF u13
<1>23. u14 \in Text(46 + len) /\ 46 + len \in Nat
  <2>1. u14 \in Text(45 + len + 1)
    BY <1>9, <1>22, Cat2
  <2>2. 45 + len + 1 = 46 + len
    BY <1>2
  <2> QED
    BY <1>2, <2>1, <2>2
<1> HIDE DEF u14
<1>24. u15 \in Text(49 + len) /\ 49 + len \in Nat
  <2>1. u15 \in Text(46 + len + 3)
    BY <1>9, <1>23, Cat2
  <2>2. 46 + len + 3 = 49 + len
    BY <1>2
  <2> QED
    BY <1>2, <2>1, <2>2
<1> HIDE DEF u15
<1>25. u16 \in Text(52 + len)
  <2>1. u16 \in Text(49 + len + 3)
    BY <1>9, <1>24, Cat2
  <2>2. 49 + len + 3 = 52 + len
    BY <1>2
  <2> QED
    BY <2>1, <2>2
<1>26. /\ Len(r) = 53 + len /\ r \in Seq(Int) /\ r[53 + len] = sum /\ Starts(r, u16)
  <2>1. u16 \in Seq(Int) /\ Len(u16) = 52 + len
    BY <1>25 DEF Text
  <2> HIDE DEF u16
  <2>2. sum \in Int
    <3>1. SumOf(u16) \in Int
      BY <2>1, SumTyped
    <3> QED
      BY <3>1 DEF sum
  <2>3. /\ Append(u16, sum) \in Seq(Int) /\ Len(Append(u16, sum)) = Len(u16) + 1
        /\ \A j \in 1 .. Len(u16) : Append(u16, sum)[j] = u16[j]
        /\ Append(u16, sum)[Len(u16) + 1] = sum
    BY <2>1, <2>2, AppendProperties
  <2>4. 52 + len + 1 = 53 + len
    BY <1>2
  <2> QED
    BY <1>1, <2>1, <2>3, <2>4 DEF Starts
<1>27. Starts(r, u15) /\ FieldAt(r, 49 + len, last)
  <2>1. Starts(r, u15 \o last)
    BY <1>26
  <2> QED
    BY <1>9, <1>24, <2>1, Peel
<1> HIDE DEF u16
<1>28. Starts(r, u14) /\ FieldAt(r, 46 + len, last)
  <2>1. Starts(r, u14 \o last)
    BY <1>27 DEF u15
  <2> QED
    BY <1>9, <1>23, <2>1, Peel
<1>29. Starts(r, u13) /\ FieldAt(r, 45 + len, <<13>>)
  <2>1. Starts(r, u13 \o <<13>>)
    BY <1>28 DEF u14
  <2> QED
    BY <1>9, <1>22, <2>1, Peel
<1>30. Starts(r, u12) /\ FieldAt(r, 45, t.name)
  <2>1. Starts(r, u12 \o t.name)
    BY <1>29 DEF u13
  <2> QED
    BY <1>2, <1>21, <2>1, Peel
<1>31. Starts(r, u11) /\ FieldAt(r, 43, kinds)
  BY <1>3, <1>4, <1>5, <1>6, <1>7, <1>8, <1>10, <1>20, <1>30, Peel DEF u12
<1>32. Starts(r, u10) /\ FieldAt(r, 39, Zeros(4))
  BY <1>3, <1>4, <1>5, <1>6, <1>7, <1>8, <1>10, <1>19, <1>31, Peel DEF u11
<1>33. Starts(r, u9) /\ FieldAt(r, 35, dots)
  BY <1>3, <1>4, <1>5, <1>6, <1>7, <1>8, <1>10, <1>18, <1>32, Peel DEF u10
<1>34. Starts(r, u8) /\ FieldAt(r, 29, sell)
  BY <1>3, <1>4, <1>5, <1>6, <1>7, <1>8, <1>10, <1>17, <1>33, Peel DEF u9
<1>35. Starts(r, u7) /\ FieldAt(r, 23, Zeros(6))
  BY <1>3, <1>4, <1>5, <1>6, <1>7, <1>8, <1>10, <1>16, <1>34, Peel DEF u8
<1>36. Starts(r, u6) /\ FieldAt(r, 19, code)
  BY <1>3, <1>4, <1>5, <1>6, <1>7, <1>8, <1>10, <1>15, <1>35, Peel DEF u7
<1>37. Starts(r, u5) /\ FieldAt(r, 15, Zeros(4))
  BY <1>3, <1>4, <1>5, <1>6, <1>7, <1>8, <1>10, <1>14, <1>36, Peel DEF u6
<1>38. Starts(r, u4) /\ FieldAt(r, 11, price)
  BY <1>3, <1>4, <1>5, <1>6, <1>7, <1>8, <1>10, <1>13, <1>37, Peel DEF u5
<1>39. Starts(r, u3) /\ FieldAt(r, 8, head)
  BY <1>3, <1>4, <1>5, <1>6, <1>7, <1>8, <1>10, <1>12, <1>38, Peel DEF u4
<1>40. Starts(r, u2) /\ FieldAt(r, 6, status)
  BY <1>3, <1>4, <1>5, <1>6, <1>7, <1>8, <1>10, <1>11, <1>39, Peel DEF u3
<1>41. Starts(r, code) /\ FieldAt(r, 4, size)
  BY <1>3, <1>4, <1>5, <1>6, <1>7, <1>8, <1>10, <1>40, Peel DEF u2
<1>42. FieldAt(r, 0, code)
  BY <1>41 DEF Starts, FieldAt
<1>43. \E body \in Text(52 + len) : Starts(r, body) /\ r[53 + len] = SumOf(body) % 256
  BY <1>25, <1>26 DEF sum
<1> QED
  BY <1>26, <1>27, <1>28, <1>29, <1>30, <1>31, <1>32, <1>33, <1>34, <1>35, <1>36, <1>37, <1>38, <1>39, <1>40, <1>41, <1>42, <1>43
     DEF VpmFields, len, code, size, status, head, price, dots, kinds, last, r

\* The code without the prefix, and the time to sell.
Plu(prefix, t) == t.nomen_num - prefix * 10000
Sell(t, stray) == Bytes(t.termin * 1440, 4) \o stray

LEMMA VpmTovarLayout ==
  ASSUME NEW prefix \in 0 .. 99, NEW t \in Tovar, NEW stray \in Byte \X Byte
  PROVE  /\ Plu(prefix, t) \in Int32 /\ Sell(t, stray) \in Text(6)
         /\ VpmFields(VpmTovar(prefix, t, stray), Plu(prefix, t), prefix, t, Sell(t, stray))
<1> DEFINE plu == Plu(prefix, t)
           sell == Sell(t, stray)
<1>1. plu \in Int32
  <2>1. Ten[10] = 1000000000
    BY SMT DEF Ten
  <2>2. t.nomen_num \in Int /\ 0 <= t.nomen_num /\ t.nomen_num <= Ten[10] - 1
    BY TenTyped, TovarFields DEF Written
  <2>3. prefix \in Int /\ 0 <= prefix /\ prefix <= 99
    OBVIOUS
  <2> QED
    BY SMT, <2>1, <2>2, <2>3 DEF Int32, Plu
<1>2. plu \in Int
  BY <1>1, SMT DEF Int32
<1>3. sell \in Text(6)
  <2>1. t.termin * 1440 \in Int
    BY TovarFields DEF Written
  <2>2. Bytes(t.termin * 1440, 4) \in Text(4)
    BY <2>1, BytesText
  <2>3. stray \in Text(2)
    <3>1. PICK a \in Byte, b \in Byte : stray = <<a, b>>
      OBVIOUS
    <3> QED
      BY <3>1 DEF Text, Byte
  <2> QED
    BY <2>2, <2>3, Cat2 DEF Sell
<1>4. VpmTovar(prefix, t, stray) = VpmRecord(plu, prefix, t, sell)
  BY DEF VpmTovar, Plu, Sell
<1> HIDE DEF plu, sell
<1>5. VpmFields(VpmRecord(plu, prefix, t, sell), plu, prefix, t, sell)
  <2>1. prefix \in Nat
    OBVIOUS
  <2> QED
    BY <1>2, <1>3, <2>1, VpmLayout
<1> QED
  BY <1>1, <1>3, <1>4, <1>5 DEF plu, sell

\* The first four of six bytes.
LEMMA BytesAhead ==
  ASSUME NEW n \in Int, NEW stray \in Byte \X Byte
  PROVE  \A j \in 1 .. 4 : /\ j \in 1 .. Len(Bytes(n, 4) \o stray)
                           /\ (Bytes(n, 4) \o stray)[j] = Bytes(n, 4)[j]
<1> DEFINE b == Bytes(n, 4)
<1>1. b \in Seq(Int) /\ Len(b) = 4
  BY BytesText DEF Text
<1>2. stray \in Seq(Int) /\ Len(stray) = 2
  <2>1. PICK x \in Byte, y \in Byte : stray = <<x, y>>
    OBVIOUS
  <2> QED
    BY <2>1 DEF Byte
<1> HIDE DEF b
<1>3. /\ Len(b \o stray) = Len(b) + Len(stray)
      /\ \A j \in 1 .. Len(b) + Len(stray) :
            (b \o stray)[j] = IF j <= Len(b) THEN b[j] ELSE stray[j - Len(b)]
  BY <1>1, <1>2, ConcatProperties
<1> QED
  BY <1>1, <1>2, <1>3 DEF b

\* The record of the VPM reads back as the good: the sum is right, the code is freed of
\* the prefix and in both its places, the price is that of the good to half a kopeck, the
\* time to sell is in minutes, the name has the length that is stated.
THEOREM VpmReads ==
  ASSUME NEW prefix \in 0 .. 99, NEW t \in Tovar, NEW stray \in Byte \X Byte
  PROVE  VpmSays(VpmTovar(prefix, t, stray), prefix, t)
<1> DEFINE plu == Plu(prefix, t)
           sell == Sell(t, stray)
           name == t.name
           len == Len(name)
           kop == Kopecks(t)
           r == VpmTovar(prefix, t, stray)
<1>1. plu \in Int32 /\ VpmFields(r, plu, prefix, t, sell)
  <2> HIDE DEF plu, sell, r
  <2>1. plu = Plu(prefix, t) /\ sell = Sell(t, stray) /\ r = VpmTovar(prefix, t, stray)
    BY DEF plu, sell, r
  <2> QED
    BY Zenon, <2>1, VpmTovarLayout
<1>2. plu \in Int
  BY <1>1, SMT DEF Int32
<1>3. name \in Text(len) /\ len \in Nat
  BY TovarFields, BytesAreInts
<1>4. kop \in Int32 /\ kop \in Int
  BY TovarFields, WrittenIsInt32 DEF Written
<1>5. t.nomen_num \in Int /\ prefix \in Int
  BY TovarFields DEF Written
<1>6. plu + prefix * 10000 = t.nomen_num
  BY <1>5 DEF Plu
<1> DEFINE mins == t.termin * 1440
<1>61. mins \in Nat /\ (t.termin < 1491309 => mins = 1440 * t.termin /\ mins \in Int32)
  <2>1. t.termin \in Nat
    BY TovarFields DEF Written
  <2> QED
    BY SMT, <2>1 DEF Int32
<1>62. mins \in Int
  BY SMT, <1>61
<1>63. \A j \in 1 .. 4 : j \in 1 .. Len(sell) /\ sell[j] = Bytes(mins, 4)[j]
  <2>1. sell = Bytes(mins, 4) \o stray
    BY DEF Sell
  <2> HIDE DEF mins, sell
  <2> QED
    BY <1>62, <2>1, BytesAhead
<1> HIDE DEF plu, sell, name, len, kop, r, mins
<1>7. /\ Len(r) = 53 + len /\ FieldAt(r, 0, Bytes(plu, 4)) /\ FieldAt(r, 19, Bytes(plu, 4))
      /\ FieldAt(r, 11, Bytes(kop, 4)) /\ FieldAt(r, 45, name)
      /\ FieldAt(r, 8, <<1, 1, prefix % 256>>) /\ FieldAt(r, 43, <<6, len>>)
      /\ FieldAt(r, 29, sell)
  BY <1>1 DEF VpmFields, name, len, kop
<1>8. Bytes(plu, 4) \in Text(4) /\ Bytes(kop, 4) \in Text(4)
  BY <1>2, <1>4, BytesText
<1>9. /\ Part(r, 0, 4) = Bytes(plu, 4) /\ Part(r, 19, 4) = Bytes(plu, 4)
      /\ Part(r, 11, 4) = Bytes(kop, 4) /\ Part(r, 45, len) = name
  BY <1>3, <1>7, <1>8, FieldRead
<1>10. /\ SubSeq(r, 1, 4) = Bytes(plu, 4) /\ SubSeq(r, 20, 23) = Bytes(plu, 4)
       /\ SubSeq(r, 12, 15) = Bytes(kop, 4) /\ SubSeq(r, 46, 45 + len) = name
  BY <1>9 DEF Part
<1>11. IntOf(SubSeq(r, 1, 4)) = plu /\ IntOf(SubSeq(r, 12, 15)) = kop
  BY <1>1, <1>4, <1>10, FourBytesRead
<1>12. r[11] = prefix
  <2>1. r[8 + 3] = prefix % 256
    BY <1>7 DEF FieldAt
  <2> QED
    BY <2>1
<1>13. r[45] = len
  <2>1. r[43 + 2] = len
    BY <1>7 DEF FieldAt
  <2> QED
    BY <2>1
<1>14. SumOf(SubSeq(r, 1, 52 + len)) % 256 = r[53 + len]
  <2>1. PICK body \in Text(52 + len) : Starts(r, body) /\ r[53 + len] = SumOf(body) % 256
    BY <1>1 DEF VpmFields, len, name
  <2>2. PICK m \in Nat : m = 52 + len
    BY <1>3
  <2>3. FieldAt(r, 0, body) /\ body \in Text(m)
    BY <2>1, <2>2 DEF Starts, FieldAt
  <2>4. Part(r, 0, m) = body
    BY <2>3, FieldRead
  <2>5. SubSeq(r, 1, m) = body
    BY <2>4 DEF Part
  <2> QED
    BY <2>1, <2>2, <2>5
<1>15. Len(r) > 52 /\ Len(r) - 1 = 52 + len
  BY <1>3, <1>7
<1>16. IntOf(SubSeq(r, 1, 4)) + prefix * 10000 = t.nomen_num
  BY <1>6, <1>11
<1>17. Priced(IntOf(SubSeq(r, 12, 15)), t)
  BY <1>11, KopecksPriced DEF kop
<1>18. t.termin < 1491309 => IntOf(SubSeq(r, 30, 33)) = 1440 * t.termin
  <2>1. Bytes(mins, 4) \in Text(4) /\ Len(Bytes(mins, 4)) = 4
    BY <1>62, BytesText DEF Text
  <2>2. FieldAt(r, 29, Bytes(mins, 4))
    BY <1>7, <1>63, <2>1 DEF FieldAt
  <2>3. Part(r, 29, 4) = Bytes(mins, 4)
    BY <2>1, <2>2, FieldRead
  <2>4. SubSeq(r, 30, 33) = Bytes(mins, 4)
    BY <2>3 DEF Part
  <2>5. mins \in Int32 => IntOf(SubSeq(r, 30, 33)) = mins
    BY <2>4, FourBytesRead
  <2> QED
    BY SMT, <1>61, <2>5
<1> QED
  BY SMT, <1>7, <1>10, <1>12, <1>13, <1>14, <1>15, <1>16, <1>17, <1>18 DEF VpmSays, name, len, r

-----------------------------------------------------------------------------
(***************************************************************************)
(* DIGI SM: numbers in decimal and in hex.                                  *)
(***************************************************************************)

\* A function that follows the rule of DecimalValue gives the value of a text.
LEMMA ValueIs ==
  ASSUME NEW text, NEW n \in Nat, Len(text) = n, NEW g, g[0] = 0,
         \A j \in 1 .. n : g[j] = IF text[j] \in 48 .. 57 THEN 10 * g[j - 1] + text[j] - 48
                                  ELSE g[j - 1]
  PROVE  DecimalValue(text) = g[n]
<1> DEFINE Rule(f) == [j \in 0 .. n |->
                        IF j = 0 THEN 0
                        ELSE IF text[j] \in 48 .. 57 THEN 10 * f[j - 1] + text[j] - 48
                        ELSE f[j - 1]]
           value == CHOOSE f : f = Rule(f)
           f0 == [j \in 0 .. n |-> g[j]]
<1>1. DecimalValue(text) = value[n]
  BY DEF DecimalValue
<1>2. f0 = Rule(f0)
  <2>1. \A j \in 0 .. n : f0[j] = g[j]
    OBVIOUS
  <2>2. \A j \in 1 .. n : j - 1 \in 0 .. n
    OBVIOUS
  <2>3. \A j \in 0 .. n : g[j] = IF j = 0 THEN 0
                        ELSE IF text[j] \in 48 .. 57 THEN 10 * f0[j - 1] + text[j] - 48
                        ELSE f0[j - 1]
    BY <2>1, <2>2
  <2> QED
    BY <2>3
<1>3. value = Rule(value)
  BY <1>2
<1> HIDE DEF value
<1> DEFINE S == {j \in 0 .. n : value[j] = g[j]}
<1>4. 0 \in S
  BY <1>3
<1>5. ASSUME NEW j \in 0 .. n, j \in S, j < n PROVE j + 1 \in S
  <2>1. j + 1 \in 1 .. n /\ j + 1 - 1 = j /\ j + 1 \in 0 .. n /\ j + 1 # 0
    BY <1>5
  <2>2. value[j + 1] = IF text[j + 1] \in 48 .. 57 THEN 10 * value[j] + text[j + 1] - 48
                       ELSE value[j]
    BY <1>3, <2>1
  <2> QED
    BY <1>5, <2>1, <2>2
<1> HIDE DEF S
<1>6. \A j \in 0 .. n : j \in S
  BY <1>4, <1>5, UpTo
<1> QED
  BY <1>1, <1>6 DEF S

\* The next digit of a number.
LEMMA NextDigit ==
  ASSUME NEW n \in Nat, NEW k \in 1 .. 9
  PROVE  n \div Ten[k] = 10 * (n \div Ten[k + 1]) + ((n \div Ten[k]) % 10)
<1>1. /\ Ten[1] = 1 /\ Ten[2] = 10 /\ Ten[3] = 100 /\ Ten[4] = 1000 /\ Ten[5] = 10000
      /\ Ten[6] = 100000 /\ Ten[7] = 1000000 /\ Ten[8] = 10000000 /\ Ten[9] = 100000000
      /\ Ten[10] = 1000000000
  BY SMT DEF Ten
<1>2. /\ n \div 1 = 10 * (n \div 10) + ((n \div 1) % 10)
      /\ n \div 10 = 10 * (n \div 100) + ((n \div 10) % 10)
      /\ n \div 100 = 10 * (n \div 1000) + ((n \div 100) % 10)
  BY SMT
<1>3. /\ n \div 1000 = 10 * (n \div 10000) + ((n \div 1000) % 10)
      /\ n \div 10000 = 10 * (n \div 100000) + ((n \div 10000) % 10)
      /\ n \div 100000 = 10 * (n \div 1000000) + ((n \div 100000) % 10)
  BY SMT
<1>4. /\ n \div 1000000 = 10 * (n \div 10000000) + ((n \div 1000000) % 10)
      /\ n \div 10000000 = 10 * (n \div 100000000) + ((n \div 10000000) % 10)
      /\ n \div 100000000 = 10 * (n \div 1000000000) + ((n \div 100000000) % 10)
  BY SMT
<1> QED
  BY SMT, <1>1, <1>2, <1>3, <1>4

\* Reading the hexadecimal digits of bytes gives the bytes.
LEMMA HexRead ==
  ASSUME NEW b \in Seq(Byte)
  PROVE  HexBytes(Hex(b)) = b
<1> DEFINE n == Len(b)
           h == Hex(b)
<1>1. n \in Nat /\ \A j \in 1 .. n : b[j] \in Byte
  BY LenProperties, ElementOfSeq
<1>2. Len(h) = 2 * n /\ \A j \in 1 .. 2 * n :
         h[j] = HexDigit(IF j % 2 = 1 THEN b[(j + 1) \div 2] \div 16 ELSE b[j \div 2] % 16)
  <2> HIDE DEF n
  <2>1. h = [j \in 1 .. 2 * n |-> HexDigit(IF j % 2 = 1 THEN b[(j + 1) \div 2] \div 16 ELSE b[j \div 2] % 16)]
    BY DEF Hex, n
  <2> QED
    BY <1>1, <2>1
<1> HIDE DEF h
<1>3. \A c \in Byte : 16 * HexValue(HexDigit(c \div 16)) + HexValue(HexDigit(c % 16)) = c
  BY DEF Byte, HexValue, HexDigit
<1>4. ASSUME NEW j \in 1 .. n
      PROVE  16 * HexValue(h[2 * j - 1]) + HexValue(h[2 * j]) = b[j]
  <2>1. /\ 2 * j - 1 \in 1 .. 2 * n /\ 2 * j \in 1 .. 2 * n
        /\ (2 * j - 1) % 2 = 1 /\ (2 * j - 1 + 1) \div 2 = j
        /\ ~((2 * j) % 2 = 1) /\ (2 * j) \div 2 = j
    BY <1>1
  <2>2. h[2 * j - 1] = HexDigit(b[j] \div 16) /\ h[2 * j] = HexDigit(b[j] % 16)
    BY <1>2, <2>1
  <2> QED
    BY <1>1, <1>3, <2>2
<1>5. Len(h) \div 2 = n
  BY <1>1, <1>2
<1>6. HexBytes(h) = [j \in 1 .. n |-> b[j]]
  <2> HIDE DEF n
  <2> QED
    BY <1>4, <1>5 DEF HexBytes
<1>7. [j \in 1 .. n |-> b[j]] = b
  OBVIOUS
<1> QED
  BY <1>6, <1>7 DEF h

LEMMA TenOrdered == \A j, k \in 1 .. 10 : j <= k => Ten[j] <= Ten[k]
BY SMT DEF Ten

\* A number that has room in a field has no more digits than the field.
LEMMA DigitsFit ==
  ASSUME NEW n \in Written, NEW w \in 1 .. 9, n < Ten[w + 1]
  PROVE  NumDigits(n) \in 1 .. 9 /\ NumDigits(n) <= w
<1> DEFINE k == NumDigits(n)
<1>1. n \in Nat
  BY DEF Written
<1>2. \E j \in 1 .. 9 : n < Ten[j + 1] /\ (j = 1 \/ n >= Ten[j])
  BY SMT DEF Written, Ten
<1>3. k \in 1 .. 9 /\ (k = 1 \/ n >= Ten[k])
  BY <1>2 DEF NumDigits
<1> HIDE DEF k
<1>4. k > w => Ten[w + 1] <= Ten[k]
  <2>1. w + 1 \in 1 .. 10 /\ k \in 1 .. 10 /\ (k > w => w + 1 <= k)
    BY <1>3
  <2> QED
    BY <2>1, TenOrdered
<1>5. Ten[w + 1] \in Nat /\ Ten[k] \in Nat
  BY <1>3, TenTyped
<1> QED
  BY <1>1, <1>3, <1>4, <1>5 DEF k

\* A number that has room in a field reads back.
LEMMA DecimalRead ==
  ASSUME NEW n \in Written, NEW w \in 1 .. 9, n < Ten[w + 1]
  PROVE  DecimalValue(Decimal(n, w)) = n
<1> DEFINE text == Decimal(n, w)
           g == [j \in 0 .. w |-> n \div Ten[w - j + 1]]
<1>1. n \in Nat
  BY DEF Written
<1>2. Most(w, NumDigits(n)) = w
  BY DigitsFit DEF Most
<1>3. Len(text) = w /\ \A j \in 1 .. w : text[j] = 48 + ((n \div Ten[w - j + 1]) % 10)
  BY <1>2, DecimalLength DEF Decimal
<1>4. g[0] = 0
  <2>1. Ten[w + 1] \in Nat \ {0} /\ w - 0 + 1 = w + 1
    BY TenTyped
  <2>2. g[0] = n \div Ten[w + 1]
    BY <2>1
  <2> QED
    BY <1>1, <2>1, <2>2
<1>5. g[w] = n
  <2>1. Ten[1] = 1 /\ w - w + 1 = 1
    BY SMT DEF Ten
  <2>2. g[w] = n \div Ten[1]
    BY <2>1
  <2> QED
    BY <1>1, <2>1, <2>2
<1>6. ASSUME NEW j \in 1 .. w
      PROVE  g[j] = IF text[j] \in 48 .. 57 THEN 10 * g[j - 1] + text[j] - 48 ELSE g[j - 1]
  <2> DEFINE k == w - j + 1
  <2>1. k \in 1 .. 9 /\ w - (j - 1) + 1 = k + 1 /\ j - 1 \in 0 .. w
    OBVIOUS
  <2>2. g[j] = n \div Ten[k] /\ g[j - 1] = n \div Ten[k + 1]
    BY <2>1
  <2>3. Ten[k] \in Nat \ {0} /\ Ten[k + 1] \in Nat \ {0}
    BY <2>1, TenTyped
  <2>4. text[j] = 48 + ((n \div Ten[k]) % 10)
    BY <1>3
  <2> HIDE DEF k, g, text
  <2>5. n \div Ten[k] = 10 * (n \div Ten[k + 1]) + ((n \div Ten[k]) % 10)
    BY <1>1, <2>1, NextDigit
  <2>6. n \div Ten[k] \in Nat /\ n \div Ten[k + 1] \in Nat
    BY <1>1, <2>3
  <2>7. (n \div Ten[k]) % 10 \in 0 .. 9
    BY <2>6
  <2> QED
    BY <2>2, <2>4, <2>5, <2>6, <2>7
<1> HIDE DEF g, text
<1>7. DecimalValue(text) = g[w]
  <2>1. w \in Nat
    OBVIOUS
  <2> QED
    BY <1>3, <1>4, <1>6, <2>1, ValueIs
<1> QED
  BY <1>5, <1>7 DEF text

\* A text is what it is joined of.
LEMMA JoinIs ==
  ASSUME NEW k \in Nat, NEW m \in Nat, NEW n \in Nat, n = k + m,
         NEW u \in Text(k), NEW v \in Text(m), NEW d \in Text(n),
         Starts(d, u), FieldAt(d, k, v)
  PROVE  u \o v = d
<1>1. /\ u \in Seq(Int) /\ v \in Seq(Int) /\ Len(u) = k /\ Len(v) = m
      /\ d \in Seq(Int) /\ Len(d) = k + m
      /\ \A j \in 1 .. k : u[j] = d[j]
      /\ \A j \in 1 .. m : v[j] = d[k + j]
  BY DEF Text, Starts, FieldAt
<1>2. /\ u \o v \in Seq(Int) /\ Len(u \o v) = k + m
      /\ \A j \in 1 .. k + m : (u \o v)[j] = IF j <= k THEN u[j] ELSE v[j - k]
  BY <1>1, ConcatProperties
<1>3. ASSUME NEW j \in 1 .. k + m PROVE (u \o v)[j] = d[j]
  <2>1. CASE j <= k
    BY <1>1, <1>2, <2>1
  <2>2. CASE ~(j <= k)
    <3>1. j - k \in 1 .. m /\ k + (j - k) = j
      BY <2>2
    <3> QED
      BY <1>1, <1>2, <2>2, <3>1
  <2> QED
    BY <2>1, <2>2
<1> QED
  BY <1>1, <1>2, <1>3, SeqEqual

\* Two digits and six are one number of eight.
LEMMA DecimalJoined ==
  ASSUME NEW p \in 0 .. 99, NEW n \in Written, n < Ten[7]
  PROVE  /\ p \in Written /\ p * Ten[7] + n \in Written /\ p * Ten[7] + n < Ten[9]
         /\ Decimal(p, 2) \o Decimal(n, 6) = Decimal(p * Ten[7] + n, 8)
<1> DEFINE m == p * Ten[7] + n
<1>1. /\ Ten[1] = 1 /\ Ten[2] = 10 /\ Ten[3] = 100 /\ Ten[4] = 1000 /\ Ten[5] = 10000
      /\ Ten[6] = 100000 /\ Ten[7] = 1000000 /\ Ten[8] = 10000000 /\ Ten[9] = 100000000
      /\ Ten[10] = 1000000000
  BY SMT DEF Ten
<1>2. n \in Nat /\ p \in Nat /\ p < 100 /\ p < Ten[3]
  <2>1. n \in Nat
    BY DEF Written
  <2>2. p \in Nat /\ p < 100
    OBVIOUS
  <2> QED
    BY <1>1, <2>1, <2>2
<1>3. \A x : x \in Written <=> x \in Nat /\ x <= Ten[10] - 1
  BY TenTyped DEF Written
<1>4. p \in Written /\ m \in Written /\ m < Ten[9] /\ m = 1000000 * p + n /\ n < 1000000
  BY SMT, <1>1, <1>2, <1>3
<1> HIDE DEF m
<1>5. Most(2, NumDigits(p)) = 2 /\ Most(6, NumDigits(n)) = 6 /\ Most(8, NumDigits(m)) = 8
  <2>1. 2 \in 1 .. 9 /\ 6 \in 1 .. 9 /\ 8 \in 1 .. 9 /\ 2 + 1 = 3 /\ 6 + 1 = 7 /\ 8 + 1 = 9
    OBVIOUS
  <2>2. NumDigits(p) \in 1 .. 2 /\ NumDigits(n) \in 1 .. 6 /\ NumDigits(m) \in 1 .. 8
    BY <1>2, <1>4, <2>1, DigitsFit
  <2> QED
    BY <2>2 DEF Most
<1>6. /\ Decimal(p, 2) = [j \in 1 .. 2 |-> 48 + ((p \div Ten[2 - j + 1]) % 10)]
      /\ Decimal(n, 6) = [j \in 1 .. 6 |-> 48 + ((n \div Ten[6 - j + 1]) % 10)]
      /\ Decimal(m, 8) = [j \in 1 .. 8 |-> 48 + ((m \div Ten[8 - j + 1]) % 10)]
  BY <1>5 DEF Decimal
<1>7. /\ Decimal(p, 2) \in Text(2) /\ Decimal(n, 6) \in Text(6) /\ Decimal(m, 8) \in Text(8)
  BY <1>4, DecimalText
<1>8. /\ Decimal(p, 2)[1] = 48 + ((p \div Ten[2]) % 10) /\ Decimal(p, 2)[2] = 48 + ((p \div Ten[1]) % 10)
      /\ Decimal(m, 8)[1] = 48 + ((m \div Ten[8]) % 10) /\ Decimal(m, 8)[2] = 48 + ((m \div Ten[7]) % 10)
  BY <1>6
<1>9. /\ p \div Ten[2] = m \div Ten[8] /\ p \div Ten[1] = m \div Ten[7]
  BY SMT, <1>1, <1>2, <1>4
<1>10. \A k \in 1 .. 6 : (n \div Ten[k]) % 10 = (m \div Ten[k]) % 10
  <2>1. (n \div 1) % 10 = (m \div 1) % 10 /\ (n \div 10) % 10 = (m \div 10) % 10
    BY SMT, <1>2, <1>4
  <2>2. (n \div 100) % 10 = (m \div 100) % 10 /\ (n \div 1000) % 10 = (m \div 1000) % 10
    BY SMT, <1>2, <1>4
  <2>3. (n \div 10000) % 10 = (m \div 10000) % 10 /\ (n \div 100000) % 10 = (m \div 100000) % 10
    BY SMT, <1>2, <1>4
  <2> QED
    BY SMT, <1>1, <2>1, <2>2, <2>3
<1> DEFINE u == Decimal(p, 2)
           v == Decimal(n, 6)
           d == Decimal(m, 8)
<1>11. \A j \in 1 .. 6 : v[j] = d[2 + j]
  <2> TAKE j \in 1 .. 6
  <2>1. 6 - j + 1 \in 1 .. 6 /\ 8 - (2 + j) + 1 = 6 - j + 1 /\ 2 + j \in 1 .. 8
    OBVIOUS
  <2>2. v[j] = 48 + ((n \div Ten[6 - j + 1]) % 10)
    BY <1>6
  <2>3. d[2 + j] = 48 + ((m \div Ten[6 - j + 1]) % 10)
    BY <1>6, <2>1
  <2> QED
    BY <1>10, <2>1, <2>2, <2>3
<1>12. u[1] = d[1] /\ u[2] = d[2]
  BY <1>8, <1>9
<1> HIDE DEF u, v, d
<1>13. u \o v = d
  <2>1. u \in Text(2) /\ v \in Text(6) /\ d \in Text(8)
    BY <1>7 DEF u, v, d
  <2>2. Starts(d, u) /\ FieldAt(d, 2, v)
    <3>1. Len(u) = 2 /\ Len(v) = 6
      BY <2>1 DEF Text
    <3>2. \A j \in 1 .. 2 : d[j] = u[j]
      BY <1>12
    <3> QED
      BY <1>11, <3>1, <3>2 DEF Starts, FieldAt
  <2>3. 2 \in Nat /\ 6 \in Nat /\ 8 \in Nat /\ 8 = 2 + 6
    OBVIOUS
  <2> QED
    BY <2>1, <2>2, <2>3, JoinIs
<1> QED
  BY <1>4, <1>13 DEF m, u, v, d

\* The tools find in a name in the format of the DIGI scale the whole converted name, on
\* one line or on two.
LEMMA NameRead ==
  ASSUME NEW name \in Seq(Byte), Len(name) < 128
  PROVE  /\ StrFormat(name) \in Seq(Byte) /\ Len(StrFormat(name)) \in Nat
         /\ 4 <= Len(StrFormat(name)) /\ Len(StrFormat(name)) <= 134
         /\ DigiName(StrFormat(name)) = ConvertText(1, name, Len(name))
<1> DEFINE len == Len(name)
           text == ConvertText(1, name, len)
           len0 == Least(len, 20)
           len1 == len - len0
           s == StrFormat(name)
<1>1. len \in Nat /\ len < 128
  BY LenProperties
<1>2. text \in Seq(Byte) /\ text \in Text(len)
  <2>1. text \in Seq(Byte) /\ Len(text) = Least(len, len)
    BY <1>1, ConvertLength
  <2>2. Least(len, len) = len
    BY DEF Least
  <2> HIDE DEF text, len
  <2> QED
    BY <2>1, <2>2, BytesAreInts
<1> HIDE DEF len, text, s
<1>3. \A b \in 0 .. 255 : b \in Byte
  BY DEF Byte
<1>4. <<12, 0>> \in Text(2) /\ <<12, 0>> \in Seq(Byte)
  BY <1>3 DEF Text
<1>5. CASE len <= 20
  <2> DEFINE head == <<8, len>>
             one == head \o text
  <2>1. s = one \o <<12, 0>>
    <3>1. len0 = len /\ len1 = 0
      BY <1>1, <1>5 DEF Least
    <3> QED
      BY <3>1 DEF StrFormat, s, text, len
  <2>2. head \in Text(2) /\ head \in Seq(Byte)
    <3>1. 8 \in Byte /\ len \in Byte
      BY <1>1, <1>5 DEF Byte
    <3>2. head \in Seq(Byte) /\ Len(head) = 2
      BY <3>1
    <3> QED
      BY <3>2, BytesAreInts
  <2> HIDE DEF head
  <2>3. PICK k \in Nat : one \in Text(k) /\ one \in Seq(Byte) /\ k = 2 + len
    BY <1>1, <1>2, <2>2, Cat2, ConcatProperties
  <2> HIDE DEF one
  <2>4. s \in Text(k + 2) /\ s \in Seq(Byte)
    BY <1>4, <2>1, <2>3, Cat2, ConcatProperties
  <2>5. Starts(s, one \o <<12, 0>>)
    BY <2>1, RecordStartsItself
  <2>6. Starts(s, one) /\ FieldAt(s, k, <<12, 0>>)
    <3>1. one \in Text(k)
      BY <2>3
    <3> QED
      BY <1>4, <2>5, <3>1, Peel
  <2>7. Starts(s, head) /\ FieldAt(s, 2, text)
    <3>1. Starts(s, head \o text)
      BY <2>6 DEF one
    <3> QED
      BY <1>1, <1>2, <2>2, <3>1, Peel
  <2>8. Part(s, 2, len) = text
    BY <1>1, <1>2, <2>7, FieldRead
  <2>9. SubSeq(s, 3, 2 + len) = text
    BY <2>8 DEF Part
  <2>10. s[2] = len /\ s[len + 3] = 12
    <3>1. s[k + 1] = 12 /\ k + 1 = len + 3
      BY <1>1, <2>3, <2>6 DEF FieldAt
    <3>2. s[2] = len
      BY <2>7 DEF Starts, head
    <3> QED
      BY <3>1, <3>2
  <2>11. Len(s) = len + 4 /\ Len(s) \in Nat /\ 4 <= Len(s) /\ Len(s) <= 134
    <3>1. Len(s) = k + 2
      BY <2>4 DEF Text
    <3> QED
      BY <1>1, <2>3, <3>1
  <2>12. DigiName(s) = text
    <3>1. ~(Len(s) > len + 6)
      BY <1>1, <2>11
    <3> QED
      BY <2>9, <2>10, <2>11, <3>1 DEF DigiName
  <2> QED
    BY <2>4, <2>11, <2>12 DEF s, text, len
<1>6. CASE ~(len <= 20)
  <2> DEFINE rest == len - 20
             head == <<4, 20>>
             mid == <<13, 4, rest>>
             one == SubSeq(text, 1, 20)
             two == SubSeq(text, 21, len)
             u2 == head \o one
             u3 == u2 \o mid
             u4 == u3 \o two
  <2>1. s = u4 \o <<12, 0>>
    <3>1. len0 = 20 /\ len1 = rest /\ len1 # 0
      BY <1>1, <1>6 DEF Least
    <3> QED
      BY <3>1 DEF StrFormat, s, text, len
  <2>2. rest \in Nat /\ rest \in 1 .. 107 /\ len = 20 + rest
    BY <1>1, <1>6
  <2>3. head \in Text(2) /\ head \in Seq(Byte)
    BY <1>3 DEF Text
  <2>4. mid \in Text(3) /\ mid \in Seq(Byte)
    <3>1. 13 \in Byte /\ 4 \in Byte /\ rest \in Byte
      BY <2>2 DEF Byte
    <3> HIDE DEF rest
    <3>2. mid \in Seq(Byte) /\ Len(mid) = 3
      BY <3>1
    <3> QED
      BY <3>2, BytesAreInts
  <2>5. \A j \in 1 .. len : text[j] \in Byte
    BY <1>2, ElementOfSeq DEF Text
  <2>6. /\ one \in Text(20) /\ one \in Seq(Byte)
        /\ \A j \in 1 .. 20 : one[j] = text[j]
    <3>1. \A j \in 1 .. 20 : text[j] \in Byte
      BY <1>1, <1>6, <2>5
    <3>2. /\ one \in Seq(Byte) /\ Len(one) = 20 /\ \A j \in 1 .. 20 : one[j] = text[1 + j - 1]
      BY <3>1, SubSeqProperties
    <3>3. \A j \in 1 .. 20 : 1 + j - 1 = j
      OBVIOUS
    <3> HIDE DEF one
    <3> QED
      BY <3>2, <3>3, BytesAreInts
  <2>7. /\ two \in Text(rest) /\ two \in Seq(Byte)
        /\ \A j \in 1 .. rest : two[j] = text[20 + j]
    <3>1. \A j \in 21 .. len : text[j] \in Byte
      BY <1>1, <2>5
    <3>2. /\ two \in Seq(Byte) /\ Len(two) = IF 21 <= len THEN len - 21 + 1 ELSE 0
          /\ \A j \in 1 .. len - 21 + 1 : two[j] = text[21 + j - 1]
      BY <1>1, <3>1, SubSeqProperties
    <3>3. len - 21 + 1 = rest /\ 21 <= len /\ \A j \in 1 .. rest : 21 + j - 1 = 20 + j
      BY <1>1, <1>6
    <3>4. Len(two) = rest
      BY <3>2, <3>3
    <3> HIDE DEF two, rest
    <3> QED
      BY <3>2, <3>3, <3>4, BytesAreInts
  <2> HIDE DEF head, mid, one, two, rest
  <2>8. one \o two = text
    <3>1. Starts(text, one) /\ FieldAt(text, 20, two)
      BY <2>6, <2>7 DEF Starts, FieldAt, Text
    <3>2. 20 \in Nat
      OBVIOUS
    <3> QED
      BY <1>1, <1>2, <2>2, <2>6, <2>7, <3>1, <3>2, JoinIs
  <2>9. u2 \in Text(22) /\ u2 \in Seq(Byte)
    BY <2>3, <2>6, Cat2, ConcatProperties
  <2> HIDE DEF u2
  <2>10. u3 \in Text(25) /\ u3 \in Seq(Byte)
    BY <2>4, <2>9, Cat2, ConcatProperties
  <2> HIDE DEF u3
  <2>11. PICK k \in Nat : u4 \in Text(k) /\ u4 \in Seq(Byte) /\ k = 25 + rest
    BY <2>2, <2>7, <2>10, Cat2, ConcatProperties
  <2> HIDE DEF u4
  <2>12. s \in Text(k + 2) /\ s \in Seq(Byte)
    BY <1>4, <2>1, <2>11, Cat2, ConcatProperties
  <2>13. Starts(s, u4)
    <3>1. Starts(s, u4 \o <<12, 0>>) /\ u4 \in Text(k)
      BY <2>1, <2>11, RecordStartsItself
    <3> QED
      BY <1>4, <3>1, Peel
  <2>14. Starts(s, u3) /\ FieldAt(s, 25, two)
    <3>1. Starts(s, u3 \o two) /\ rest \in Nat
      BY <2>2, <2>13 DEF u4
    <3> QED
      BY <2>7, <2>10, <3>1, Peel
  <2>15. Starts(s, u2) /\ FieldAt(s, 22, mid)
    BY <2>4, <2>9, <2>14, Peel DEF u3
  <2>16. Starts(s, head) /\ FieldAt(s, 2, one)
    BY <2>3, <2>6, <2>15, Peel DEF u2
  <2>17. Part(s, 2, 20) = one /\ Part(s, 25, rest) = two
    BY <2>2, <2>6, <2>7, <2>14, <2>16, FieldRead
  <2>18. SubSeq(s, 3, 22) = one /\ SubSeq(s, 26, 25 + rest) = two
    BY <2>17 DEF Part
  <2>19. s[2] = 20
    BY <2>16 DEF Starts, head
  <2>20. s[23] = 13 /\ s[25] = rest
    <3>1. s[22 + 1] = 13 /\ s[22 + 3] = rest
      BY <2>15 DEF FieldAt, mid
    <3> QED
      BY <3>1
  <2>21. Len(s) = 27 + rest /\ Len(s) \in Nat /\ 4 <= Len(s) /\ Len(s) <= 134
    <3>1. Len(s) = k + 2
      BY <2>12 DEF Text
    <3> QED
      BY <2>2, <2>11, <3>1
  <2>22. DigiName(s) = one \o two
    <3>1. ~(Len(s) = s[2] + 4) /\ Len(s) > s[2] + 6
      BY <2>2, <2>19, <2>21
    <3>2. s[s[2] + 3] = 13 /\ s[s[2] + 5] = rest
      BY <2>19, <2>20
    <3>3. Len(s) = s[2] + 7 + s[s[2] + 5]
      BY <2>2, <2>19, <2>21, <3>2
    <3>4. SubSeq(s, 3, 2 + s[2]) = one
      BY <2>18, <2>19
    <3>5. SubSeq(s, s[2] + 6, s[2] + 5 + s[s[2] + 5]) = two
      BY <2>18, <2>19, <3>2
    <3> QED
      BY <3>1, <3>2, <3>3, <3>4, <3>5, Zenon DEF DigiName
  <2> QED
    BY <2>8, <2>12, <2>21, <2>22 DEF s, text, len
<1> QED
  BY <1>1, <1>5, <1>6

\* The name of a good in hex, the two bytes of a size, and the barcode.
NameHex(t) == Hex(StrFormat(t.name))
SizeBytes(n) == <<n \div 256, n % 256>>
Barcode(prefix, t) ==
    SubSeq(Decimal(prefix, Most(2, NumDigits(prefix)))
             \o Decimal(t.nomen_num, Most(6, NumDigits(t.nomen_num))) \o Decimal(0, 6), 1, 14)

\* The layout of a DIGI record: the fields a reader takes, at their places.
DigiFields(r, prefix, t) ==
    /\ r \in Seq(Int) /\ Len(r) = 56 + Len(NameHex(t))
    /\ FieldAt(r, 0, Decimal(t.art_num, 8))
    /\ FieldAt(r, 8, Hex(SizeBytes(DigiSize(NameHex(t)))))
    /\ FieldAt(r, 22, Decimal(Kopecks(t), 8))
    /\ FieldAt(r, 34, Barcode(prefix, t))
    /\ FieldAt(r, 48, Decimal(t.termin, 4))
    /\ FieldAt(r, 56, NameHex(t))

\* The name in hex has two characters a byte, and the size of a record fits two bytes.
LEMMA NameHexSize ==
  ASSUME NEW t \in Tovar
  PROVE  /\ NameHex(t) \in Text(Len(NameHex(t))) /\ Len(NameHex(t)) \in Nat
         /\ 8 <= Len(NameHex(t)) /\ Len(NameHex(t)) <= 268
         /\ DigiSize(NameHex(t)) \in Nat /\ 2 * DigiSize(NameHex(t)) = 56 + Len(NameHex(t))
         /\ HexBytes(NameHex(t)) = StrFormat(t.name)
<1> DEFINE b == StrFormat(t.name)
           h == NameHex(t)
<1>1. b \in Seq(Byte) /\ Len(b) \in Nat /\ 4 <= Len(b) /\ Len(b) <= 134
  BY TovarFields, NameRead
<1>2. HexBytes(h) = b
  BY <1>1, HexRead DEF NameHex
<1>3. h \in Seq(Int) /\ Len(h) = 2 * Len(b)
  <2>1. b \in Seq(Int)
    BY <1>1, BytesAreInts DEF Text
  <2> HIDE DEF b
  <2> QED
    BY <2>1, HexLength DEF NameHex, b
<1> HIDE DEF b, h
<1>4. DigiSize(h) = (56 + Len(h)) \div 2
  BY DEF DigiSize
<1>5. DigiSize(h) \in Nat /\ 2 * DigiSize(h) = 56 + Len(h)
  BY <1>1, <1>3, <1>4
<1> QED
  BY <1>1, <1>2, <1>3, <1>5 DEF Text, h, b

LEMMA HexOfTwo ==
  ASSUME NEW b \in Seq(Byte), Len(b) = 2
  PROVE  Hex(b) \in Text(4)
<1>1. b \in Text(Len(b))
  BY BytesAreInts
<1>2. b \in Text(2)
  BY <1>1
<1>3. Hex(b) \in Text(2 * 2)
  BY <1>2, HexText
<1>4. 2 * 2 = 4
  OBVIOUS
<1> QED
  BY <1>3, <1>4

LEMMA SizeHex ==
  ASSUME NEW n \in Nat, n < 65536
  PROVE  /\ Hex(SizeBytes(n)) \in Text(4)
         /\ HexBytes(Hex(SizeBytes(n))) = SizeBytes(n)
         /\ 256 * SizeBytes(n)[1] + SizeBytes(n)[2] = n
<1>1. n \div 256 \in Byte /\ n % 256 \in Byte
  BY SMT DEF Byte
<1>2. SizeBytes(n) \in Seq(Byte) /\ Len(SizeBytes(n)) = 2
  BY <1>1 DEF SizeBytes
<1>3. Hex(SizeBytes(n)) \in Text(4)
  BY <1>2, HexOfTwo
<1>4. 256 * (n \div 256) + (n % 256) = n
  OBVIOUS
<1>5. SizeBytes(n)[1] = n \div 256 /\ SizeBytes(n)[2] = n % 256
  BY DEF SizeBytes
<1> QED
  BY <1>2, <1>3, <1>4, <1>5, HexRead

LEMMA BarcodeText ==
  ASSUME NEW prefix \in 0 .. 99, NEW t \in Tovar
  PROVE  /\ prefix \in Written
         /\ Barcode(prefix, t) \in Text(14)
         /\ t.nomen_num < Ten[7] =>
              FieldAt(Barcode(prefix, t), 0, Decimal(prefix * Ten[7] + t.nomen_num, 8))
<1> DEFINE n == t.nomen_num
           w == Most(6, NumDigits(n))
           u == Decimal(prefix, 2)
           v == Decimal(n, w)
           z == Decimal(0, 6)
           uv == u \o v
           all == uv \o z
           code == Barcode(prefix, t)
<1>1. n \in Written
  BY TovarFields
<1>2. 0 \in Written /\ prefix \in Written /\ prefix < Ten[3]
  <2>1. Ten[10] = 1000000000 /\ Ten[3] = 100
    BY SMT DEF Ten
  <2>2. \A x : x \in Written <=> x \in Nat /\ x <= Ten[10] - 1
    BY TenTyped DEF Written
  <2> QED
    BY SMT, <2>1, <2>2
<1>3. code = SubSeq(all, 1, 14)
  <2>1. 2 \in 1 .. 9 /\ 2 + 1 = 3
    OBVIOUS
  <2>2. NumDigits(prefix) \in 1 .. 2
    BY <1>2, <2>1, DigitsFit
  <2>3. Most(2, NumDigits(prefix)) = 2
    BY <2>2 DEF Most
  <2> QED
    BY <2>3 DEF Barcode
<1>4. w \in 6 .. 9
  BY <1>1, Digits DEF Most
<1> HIDE DEF w, n, code
<1>5. u \in Text(2) /\ v \in Text(w) /\ z \in Text(6)
  <2>1. 2 \in 1 .. 9 /\ w \in 1 .. 9 /\ 6 \in 1 .. 9
    BY <1>4
  <2> QED
    BY <1>1, <1>2, <2>1, DecimalText
<1> HIDE DEF u, v, z
<1>6. PICK k \in Nat : uv \in Text(k) /\ k = 2 + w
  BY <1>4, <1>5, Cat2
<1> HIDE DEF uv
<1>7. PICK m \in Nat : all \in Text(m) /\ m = k + 6
  BY <1>5, <1>6, Cat2
<1>8. Starts(all, uv)
  <2>1. uv \in Text(k) /\ Starts(all, uv \o z)
    BY <1>6, RecordStartsItself
  <2> HIDE DEF all
  <2> QED
    BY <1>5, <2>1, Peel
<1> HIDE DEF all
<1>9. \A j \in 1 .. 14 : all[j] \in Int
  BY <1>4, <1>6, <1>7, ElementOfSeq DEF Text
<1>10. code \in Text(14) /\ \A j \in 1 .. 14 : code[j] = all[j]
  <2>1. /\ SubSeq(all, 1, 14) \in Seq(Int) /\ Len(SubSeq(all, 1, 14)) = 14
        /\ \A j \in 1 .. 14 : SubSeq(all, 1, 14)[j] = all[1 + j - 1]
    BY <1>9, SubSeqProperties
  <2>2. \A j \in 1 .. 14 : 1 + j - 1 = j
    OBVIOUS
  <2> QED
    BY <1>3, <2>1, <2>2 DEF Text
<1>11. ASSUME n < Ten[7] PROVE FieldAt(code, 0, Decimal(prefix * Ten[7] + n, 8))
  <2>1. w = 6
    <3>1. 6 \in 1 .. 9 /\ 6 + 1 = 7
      OBVIOUS
    <3>2. NumDigits(n) \in 1 .. 6
      BY <1>1, <1>11, <3>1, DigitsFit
    <3> QED
      BY <3>2 DEF Most, w
  <2>2. uv = Decimal(prefix * Ten[7] + n, 8)
    BY <1>1, <1>11, <2>1, DecimalJoined DEF uv, u, v
  <2>3. Len(uv) = 8
    BY <1>6, <2>1 DEF Text
  <2>4. FieldAt(code, 0, uv)
    BY <1>8, <1>10, <2>3 DEF Starts, FieldAt
  <2> QED
    BY <2>2, <2>4
<1> QED
  BY <1>2, <1>10, <1>11 DEF code, n

LEMMA DigiLayout ==
  ASSUME NEW prefix \in 0 .. 99, NEW t \in Tovar
  PROVE  DigiFields(DigiRecord(prefix, t), prefix, t)
<1> DEFINE name == NameHex(t)
           len == Len(name)
           art == Decimal(t.art_num, 8)
           size == Hex(SizeBytes(DigiSize(name)))
           kop == Decimal(Kopecks(t), 8)
           code == Barcode(prefix, t)
           sell == Decimal(t.termin, 4)
           f3 == Hex(<<84, 0>>)
           f4 == Hex(<<13, 38, 1>>)
           f6 == Hex(<<17>>)
           f7 == Hex(<<4>>)
           one == Hex(<<1>>)
           u2 == art \o size
           u3 == u2 \o f3
           u4 == u3 \o f4
           u5 == u4 \o kop
           u6 == u5 \o f6
           u7 == u6 \o f7
           u8 == u7 \o code
           u9 == u8 \o sell
           u10 == u9 \o one
           u11 == u10 \o one
           r == DigiRecord(prefix, t)
<1>1. r = u11 \o name
  BY DEF DigiRecord, NameHex, SizeBytes, Barcode
<1>2. name \in Text(len) /\ len \in Nat /\ size \in Text(4)
  BY NameHexSize, SizeHex
<1>3. art \in Text(8) /\ kop \in Text(8) /\ sell \in Text(4)
  BY TovarFields, DecimalText
<1>4. code \in Text(14)
  BY BarcodeText
<1>5. f3 \in Text(4)
  <2>1. <<84, 0>> \in Text(2)
    BY DEF Text
  <2> QED
    BY <2>1, HexText
<1>6. f4 \in Text(6)
  <2>1. <<13, 38, 1>> \in Text(3)
    BY DEF Text
  <2> QED
    BY <2>1, HexText
<1>7. f6 \in Text(2) /\ f7 \in Text(2) /\ one \in Text(2)
  <2>1. \A a \in Int : Hex(<<a>>) \in Text(2)
    <3> TAKE a \in Int
    <3>1. <<a>> \in Text(1)
      BY DEF Text
    <3>2. Hex(<<a>>) \in Text(2 * 1)
      BY <3>1, HexText
    <3> QED
      BY <3>2
  <2> QED
    BY <2>1
<1> HIDE DEF name, len, art, size, kop, code, sell, f3, f4, f6, f7, one, r
<1>8. u2 \in Text(12)
  BY <1>2, <1>3, <1>4, <1>5, <1>6, <1>7, Cat2
<1> HIDE DEF u2
<1>9. u3 \in Text(16)
  BY <1>2, <1>3, <1>4, <1>5, <1>6, <1>7, <1>8, Cat2
<1> HIDE DEF u3
<1>10. u4 \in Text(22)
  BY <1>2, <1>3, <1>4, <1>5, <1>6, <1>7, <1>9, Cat2
<1> HIDE DEF u4
<1>11. u5 \in Text(30)
  BY <1>2, <1>3, <1>4, <1>5, <1>6, <1>7, <1>10, Cat2
<1> HIDE DEF u5
<1>12. u6 \in Text(32)
  BY <1>2, <1>3, <1>4, <1>5, <1>6, <1>7, <1>11, Cat2
<1> HIDE DEF u6
<1>13. u7 \in Text(34)
  BY <1>2, <1>3, <1>4, <1>5, <1>6, <1>7, <1>12, Cat2
<1> HIDE DEF u7
<1>14. u8 \in Text(48)
  BY <1>2, <1>3, <1>4, <1>5, <1>6, <1>7, <1>13, Cat2
<1> HIDE DEF u8
<1>15. u9 \in Text(52)
  BY <1>2, <1>3, <1>4, <1>5, <1>6, <1>7, <1>14, Cat2
<1> HIDE DEF u9
<1>16. u10 \in Text(54)
  BY <1>2, <1>3, <1>4, <1>5, <1>6, <1>7, <1>15, Cat2
<1> HIDE DEF u10
<1>17. u11 \in Text(56)
  BY <1>2, <1>3, <1>4, <1>5, <1>6, <1>7, <1>16, Cat2
<1> HIDE DEF u11
<1>18. r \in Seq(Int) /\ Len(r) = 56 + len
  <2>1. r \in Text(56 + len)
    BY <1>1, <1>2, <1>17, Cat2
  <2> QED
    BY <2>1 DEF Text
<1>19. Starts(r, u11) /\ FieldAt(r, 56, name)
  <2>1. Starts(r, u11 \o name)
    BY <1>1, RecordStartsItself
  <2> QED
    BY <1>2, <1>17, <2>1, Peel
<1>20. Starts(r, u10) /\ FieldAt(r, 54, one)
  BY <1>2, <1>3, <1>4, <1>5, <1>6, <1>7, <1>16, <1>19, Peel DEF u11
<1>21. Starts(r, u9) /\ FieldAt(r, 52, one)
  BY <1>2, <1>3, <1>4, <1>5, <1>6, <1>7, <1>15, <1>20, Peel DEF u10
<1>22. Starts(r, u8) /\ FieldAt(r, 48, sell)
  BY <1>2, <1>3, <1>4, <1>5, <1>6, <1>7, <1>14, <1>21, Peel DEF u9
<1>23. Starts(r, u7) /\ FieldAt(r, 34, code)
  BY <1>2, <1>3, <1>4, <1>5, <1>6, <1>7, <1>13, <1>22, Peel DEF u8
<1>24. Starts(r, u6) /\ FieldAt(r, 32, f7)
  BY <1>2, <1>3, <1>4, <1>5, <1>6, <1>7, <1>12, <1>23, Peel DEF u7
<1>25. Starts(r, u5) /\ FieldAt(r, 30, f6)
  BY <1>2, <1>3, <1>4, <1>5, <1>6, <1>7, <1>11, <1>24, Peel DEF u6
<1>26. Starts(r, u4) /\ FieldAt(r, 22, kop)
  BY <1>2, <1>3, <1>4, <1>5, <1>6, <1>7, <1>10, <1>25, Peel DEF u5
<1>27. Starts(r, u3) /\ FieldAt(r, 16, f4)
  BY <1>2, <1>3, <1>4, <1>5, <1>6, <1>7, <1>9, <1>26, Peel DEF u4
<1>28. Starts(r, u2) /\ FieldAt(r, 12, f3)
  BY <1>2, <1>3, <1>4, <1>5, <1>6, <1>7, <1>8, <1>27, Peel DEF u3
<1>29. Starts(r, art) /\ FieldAt(r, 8, size)
  BY <1>2, <1>3, <1>4, <1>5, <1>6, <1>7, <1>28, Peel DEF u2
<1>30. FieldAt(r, 0, art)
  BY <1>29 DEF Starts, FieldAt
<1> QED
  BY <1>18, <1>19, <1>20, <1>21, <1>22, <1>23, <1>24, <1>25, <1>26, <1>27, <1>28, <1>29, <1>30
     DEF DigiFields, name, len, art, size, kop, code, sell, r

\* The record of the DIGI scale reads back as the good: the article, the price to half a
\* kopeck, the prefix and the code of the barcode, the time to sell as far as they have
\* room, and the whole name, on one line or on two.
THEOREM DigiReads ==
  ASSUME NEW prefix \in 0 .. 99, NEW t \in Tovar
  PROVE  DigiSays(DigiRecord(prefix, t), prefix, t)
<1> DEFINE r == DigiRecord(prefix, t)
           name == NameHex(t)
           len == Len(name)
           art == Decimal(t.art_num, 8)
           kop == Decimal(Kopecks(t), 8)
           code == Barcode(prefix, t)
           sell == Decimal(t.termin, 4)
           full == prefix * Ten[7] + t.nomen_num
<1>1. /\ Len(r) = 56 + len
      /\ FieldAt(r, 0, art) /\ FieldAt(r, 22, kop) /\ FieldAt(r, 34, code)
      /\ FieldAt(r, 48, sell) /\ FieldAt(r, 56, name)
  BY DigiLayout DEF DigiFields
<1>2. name \in Text(len) /\ len \in Nat /\ 8 <= len /\ HexBytes(name) = StrFormat(t.name)
  BY NameHexSize
<1>3. art \in Text(8) /\ kop \in Text(8) /\ sell \in Text(4)
  BY TovarFields, DecimalText
<1>4. code \in Text(14) /\ (t.nomen_num < Ten[7] => FieldAt(code, 0, Decimal(full, 8)))
  BY BarcodeText
<1>5. 8 \in 1 .. 9 /\ 8 + 1 = 9 /\ 4 \in 1 .. 9 /\ 4 + 1 = 5
  OBVIOUS
<1>6. /\ t.art_num < Ten[9] => DecimalValue(art) = t.art_num
      /\ Kopecks(t) < Ten[9] => DecimalValue(kop) = Kopecks(t)
      /\ t.termin < Ten[5] => DecimalValue(sell) = t.termin
  BY <1>5, TovarFields, DecimalRead
<1>7. ASSUME t.nomen_num < Ten[7]
      PROVE  DecimalValue(Decimal(full, 8)) = full /\ Decimal(full, 8) \in Text(8)
  <2>1. full \in Written /\ full < Ten[9]
    BY <1>7, TovarFields, DecimalJoined
  <2> HIDE DEF full
  <2> QED
    BY <1>5, <2>1, DecimalRead, DecimalText
<1>8. SameText(1, DigiName(StrFormat(t.name)), t.name)
  <2>1. DigiName(StrFormat(t.name)) = ConvertText(1, t.name, Len(t.name))
    BY TovarFields, NameRead
  <2>2. 1 \in 1 .. 2 /\ Least(Len(t.name), Len(t.name)) = Len(t.name)
    BY DEF Least
  <2>3. SubSeq(t.name, 1, Len(t.name)) = t.name
    BY TovarFields
  <2>4. SameText(1, ConvertText(1, t.name, Len(t.name)),
                 SubSeq(t.name, 1, Least(Len(t.name), Len(t.name))))
    BY <2>2, TovarFields, ConvertedRead
  <2> QED
    BY <2>1, <2>2, <2>3, <2>4
<1>81. t.price < Ten[10] - 5 => Priced(DecimalValue(kop), t)
  <2>1. t.price \in Nat /\ Priced(Kopecks(t), t) /\ Kopecks(t) \in Nat
    BY KopecksPriced, TovarFields DEF Written
  <2>2. Ten[9] = 100000000 /\ Ten[10] = 1000000000
    BY SMT DEF Ten
  <2> HIDE DEF kop
  <2>3. t.price < Ten[10] - 5 => Kopecks(t) < Ten[9]
    BY SMT, <2>1, <2>2 DEF Priced
  <2> QED
    BY <1>6, <2>1, <2>3
<1> HIDE DEF r, name, len, art, kop, code, sell, full
<1>9. /\ Part(r, 0, 8) = art /\ Part(r, 22, 8) = kop /\ Part(r, 48, 4) = sell
      /\ Part(r, 56, len) = name
  BY <1>1, <1>2, <1>3, FieldRead
<1>10. /\ SubSeq(r, 1, 8) = art /\ SubSeq(r, 23, 30) = kop /\ SubSeq(r, 49, 52) = sell
       /\ SubSeq(r, 57, 56 + len) = name
  BY <1>9 DEF Part
<1>11. ASSUME t.nomen_num < Ten[7]
       PROVE  DecimalValue(SubSeq(r, 35, 42)) = full
  <2> DEFINE d == Decimal(full, 8)
  <2>1. FieldAt(code, 0, d) /\ d \in Text(8) /\ DecimalValue(d) = full
    BY <1>4, <1>7, <1>11
  <2> HIDE DEF d
  <2>2. FieldAt(r, 34, d)
    <3>1. Len(d) = 8 /\ Len(code) = 14
      BY <1>4, <2>1 DEF Text
    <3>2. \A j \in 1 .. 8 : code[0 + j] = d[j]
      BY <2>1, <3>1 DEF FieldAt
    <3>3. \A j \in 1 .. 14 : r[34 + j] = code[j]
      BY <1>1, <3>1 DEF FieldAt
    <3>4. \A j \in 1 .. 8 : 0 + j = j /\ j \in 1 .. 14
      OBVIOUS
    <3> QED
      BY <3>1, <3>2, <3>3, <3>4 DEF FieldAt
  <2>3. Part(r, 34, 8) = d
    BY <2>1, <2>2, FieldRead
  <2>4. SubSeq(r, 35, 42) = d
    BY <2>3 DEF Part
  <2> QED
    BY <2>1, <2>4
<1>12. SubSeq(r, 57, Len(r)) = name /\ Len(r) > 60
  BY <1>1, <1>2, <1>10
<1> QED
  BY <1>2, <1>6, <1>8, <1>81, <1>10, <1>11, <1>12 DEF DigiSays, full, r

-----------------------------------------------------------------------------
(***************************************************************************)
(* The files of records.  A reader that finds the end of every record in a  *)
(* file reads the records one after the other, and no other.                *)
(***************************************************************************)

Bites == Seq(Seq(Int))
Cut(file, p, q) == SubSeq(file, p, q)
Ahead(s, rest) == <<s>> \o rest

LEMMA CutTyped ==
  ASSUME NEW file \in Seq(Int), NEW p \in Nat, NEW q \in Nat, 1 <= p, q <= Len(file)
  PROVE  Cut(file, p, q) \in Seq(Int)
<1>1. \A j \in p .. q : file[j] \in Int
  BY ElementOfSeq
<1>2. SubSeq(file, p, q) \in Seq(Int)
  BY <1>1, SubSeqProperties
<1> QED
  BY <1>2 DEF Cut

LEMMA AheadTyped ==
  ASSUME NEW s \in Seq(Int), NEW rest \in Bites
  PROVE  Ahead(s, rest) \in Bites
BY ConcatProperties DEF Ahead, Bites

LEMMA NothingTyped == <<>> \in Bites /\ << <<>> >> \in Bites
<1>1. <<>> \in Seq(Int)
  BY EmptySeq
<1> QED
  BY <1>1 DEF Bites

\* What Records makes of the rest of a file at p, when f says what it makes of it later.
Rest(f, file, next, p) ==
    IF p > Len(file) THEN <<>>
    ELSE IF next[p] \notin p + 1 .. Len(file) + 1 THEN << <<>> >>
    ELSE Ahead(Cut(file, p, next[p] - 1), f[next[p]])

LEMMA RestTyped ==
  ASSUME NEW file \in Seq(Int), NEW next, NEW p \in Nat, 1 <= p, NEW f,
         \A q \in p + 1 .. Len(file) + 1 : f[q] \in Bites
  PROVE  Rest(f, file, next, p) \in Bites
<1>1. CASE p <= Len(file) /\ next[p] \in p + 1 .. Len(file) + 1
  <2>1. next[p] - 1 \in Nat /\ next[p] - 1 <= Len(file)
    BY <1>1
  <2>2. Cut(file, p, next[p] - 1) \in Seq(Int) /\ f[next[p]] \in Bites
    BY <1>1, <2>1, CutTyped
  <2>3. Ahead(Cut(file, p, next[p] - 1), f[next[p]]) \in Bites
    BY <2>2, AheadTyped
  <2> QED
    BY <1>1, <2>3 DEF Rest
<1>2. CASE ~(p <= Len(file) /\ next[p] \in p + 1 .. Len(file) + 1)
  BY <1>2, NothingTyped DEF Rest
<1> QED
  BY <1>1, <1>2


LEMMA RestSame ==
  ASSUME NEW file, NEW next, NEW p, NEW f, NEW e,
         \A k \in p + 1 .. Len(file) + 1 : e[k] = f[k]
  PROVE  Rest(e, file, next, p) = Rest(f, file, next, p)
<1>1. CASE next[p] \in p + 1 .. Len(file) + 1
  <2>1. e[next[p]] = f[next[p]]
    BY <1>1
  <2> QED
    BY <2>1 DEF Rest
<1>2. CASE next[p] \notin p + 1 .. Len(file) + 1
  BY <1>2 DEF Rest
<1> QED
  BY <1>1, <1>2

Rests(f, file, next, m) ==
    \A p \in Len(file) + 1 - m .. Len(file) + 1 : f[p] = Rest(f, file, next, p)

\* There is a function that does so at every place of the file.
LEMMA RestsExist ==
  ASSUME NEW file \in Seq(Int), NEW next
  PROVE  \E f \in [1 .. Len(file) + 1 -> Bites] : Rests(f, file, next, Len(file))
<1> DEFINE n == Len(file)
           S == {m \in Nat : \E f \in [n + 1 - m .. n + 1 -> Bites] : Rests(f, file, next, m)}
<1>1. n \in Nat
  OBVIOUS
<1>2. 0 \in S
  <2> DEFINE f == [p \in n + 1 - 0 .. n + 1 |-> <<>>]
  <2>1. f \in [n + 1 - 0 .. n + 1 -> Bites]
    BY NothingTyped
  <2>2. Rests(f, file, next, 0)
    BY <1>1 DEF Rests, Rest
  <2> QED
    BY <2>1, <2>2
<1>3. \A m \in 0 .. n : m \in S /\ m < n => m + 1 \in S
  <2> SUFFICES ASSUME NEW m \in 0 .. n, m \in S, m < n PROVE m + 1 \in S
    OBVIOUS
  <2> DEFINE q == n - m
  <2>1. PICK f \in [n + 1 - m .. n + 1 -> Bites] : Rests(f, file, next, m)
    OBVIOUS
  <2> DEFINE v == Rest(f, file, next, q)
             e == [p \in q .. n + 1 |-> IF p = q THEN v ELSE f[p]]
  <2>2. q \in Nat /\ 1 <= q /\ q <= n /\ q + 1 = n + 1 - m /\ n + 1 - (m + 1) = q
    BY <1>1
  <2>3. v \in Bites
    <3>1. \A p \in q + 1 .. n + 1 : f[p] \in Bites
      BY <2>1, <2>2
    <3> QED
      BY <2>2, <3>1, RestTyped
  <2>4. e \in [q .. n + 1 -> Bites]
    <3> HIDE DEF v
    <3> QED
      BY <1>1, <2>1, <2>2, <2>3
  <2>5. \A p \in q + 1 .. n + 1 : e[p] = f[p]
    BY <2>2
  <2>6. \A p \in q .. n + 1 : Rest(e, file, next, p) = Rest(f, file, next, p)
    <3> HIDE DEF e, q
    <3> TAKE p \in q .. n + 1
    <3>1. \A k \in p + 1 .. n + 1 : k \in q + 1 .. n + 1
      BY <1>1, <2>2
    <3> QED
      BY <2>5, <3>1, RestSame
  <2>7. e[q] = v
    BY <2>2
  <2>8. \A p \in q .. n + 1 : e[p] = Rest(e, file, next, p)
    <3>1. \A p \in q + 1 .. n + 1 : f[p] = Rest(f, file, next, p)
      BY <2>1, <2>2 DEF Rests
    <3>2. \A p \in q .. n + 1 : p = q \/ p \in q + 1 .. n + 1
      <4> HIDE DEF q, n, S
      <4> QED
        BY <1>1, <2>2
    <3> HIDE DEF e, q
    <3> QED
      BY <2>5, <2>6, <2>7, <3>1, <3>2
  <2>9. m + 1 \in Nat /\ e \in [n + 1 - (m + 1) .. n + 1 -> Bites]
    BY <2>2, <2>4
  <2>10. Rests(e, file, next, m + 1)
    BY <2>2, <2>8 DEF Rests
  <2> HIDE DEF e, n
  <2> QED
    BY <2>9, <2>10
<1> HIDE DEF S
<1>4. n \in S
  <2> HIDE DEF n
  <2>1. \A m \in 0 .. n : m \in S
    BY <1>1, <1>2, <1>3, UpTo
  <2> QED
    BY <1>1, <2>1
<1>5. n + 1 - n = 1
  BY <1>1
<1> QED
  BY <1>4, <1>5 DEF S

\* Records is given by such a function.
LEMMA RecordsFollow ==
  ASSUME NEW file \in Seq(Int), NEW next
  PROVE  \E from \in [1 .. Len(file) + 1 -> Bites] :
           /\ Records(file, next) = from[1]
           /\ \A p \in 1 .. Len(file) + 1 : from[p] = Rest(from, file, next, p)
<1> DEFINE n == Len(file)
           Rule(h) == [p \in 1 .. n + 1 |->
                         IF p > n THEN <<>>
                         ELSE IF next[p] \notin p + 1 .. n + 1 THEN << <<>> >>
                         ELSE << SubSeq(file, p, next[p] - 1) >> \o h[next[p]]]
           from == CHOOSE h : h = Rule(h)
<1>1. n \in Nat /\ n + 1 - n = 1
  OBVIOUS
<1>2. PICK f \in [1 .. n + 1 -> Bites] : \A p \in 1 .. n + 1 : f[p] = Rest(f, file, next, p)
  <2>1. PICK f \in [1 .. n + 1 -> Bites] : Rests(f, file, next, n)
    BY RestsExist
  <2> QED
    BY <1>1, <2>1 DEF Rests
<1>3. \A h : Rule(h) = [p \in 1 .. n + 1 |-> Rest(h, file, next, p)]
  BY DEF Rest, Ahead, Cut
<1>4. Records(file, next) = from[1]
  BY DEF Records
<1> HIDE DEF Rule
<1>5. f = Rule(f)
  BY <1>2, <1>3
<1>6. from = Rule(from)
  BY <1>5
<1> HIDE DEF from
<1>7. \A p \in 1 .. n + 1 : from[p] = Rest(from, file, next, p)
  BY <1>3, <1>6
<1>8. \A p \in 1 .. n + 1 : from[p] \in Bites
  <2> DEFINE S == {m \in 0 .. n : \A p \in n + 1 - m .. n + 1 : from[p] \in Bites}
  <2>1. 0 \in S
    BY <1>1, <1>7, NothingTyped DEF Rest
  <2>2. \A m \in 0 .. n : m \in S /\ m < n => m + 1 \in S
    <3> SUFFICES ASSUME NEW m \in 0 .. n, m \in S, m < n PROVE m + 1 \in S
      OBVIOUS
    <3> DEFINE q == n - m
    <3>1. q \in Nat /\ 1 <= q /\ q <= n /\ q + 1 = n + 1 - m /\ n + 1 - (m + 1) = q
      BY <1>1
    <3>2. from[q] \in Bites
      <4>1. \A p \in q + 1 .. n + 1 : from[p] \in Bites
        BY <3>1
      <4>2. Rest(from, file, next, q) \in Bites
        BY <3>1, <4>1, RestTyped
      <4>3. q \in 1 .. n + 1
        BY <1>1, <3>1
      <4> HIDE DEF q
      <4> QED
        BY <1>7, <4>2, <4>3
    <3>3. \A p \in q .. n + 1 : p = q \/ p \in q + 1 .. n + 1
      <4> HIDE DEF q, n, S
      <4> QED
        BY <1>1, <3>1
    <3> QED
      BY <1>1, <3>1, <3>2, <3>3
  <2> HIDE DEF S, n
  <2>3. \A m \in 0 .. n : m \in S
    BY <1>1, <2>1, <2>2, UpTo
  <2>4. n \in S
    BY <1>1, <2>3
  <2> QED
    BY <1>1, <2>4 DEF S
<1>9. from \in [1 .. n + 1 -> Bites]
  <2>1. from = [p \in 1 .. n + 1 |-> Rest(from, file, next, p)]
    BY <1>3, <1>6
  <2> QED
    BY <1>7, <1>8, <2>1
<1> QED
  BY <1>4, <1>7, <1>9

Joined(u, v) == u \o v
More(u, s) == Append(u, s)

LEMMA JoinedNothing ==
  ASSUME NEW u \in Bites
  PROVE  Joined(u, <<>>) = u /\ Joined(<<>>, u) = u
BY ConcatEmptySeq DEF Joined, Bites

LEMMA MoreTyped ==
  ASSUME NEW T, NEW u \in Seq(T), NEW s \in T
  PROVE  /\ More(u, s) \in Seq(T) /\ Len(More(u, s)) = Len(u) + 1
         /\ \A k \in 1 .. Len(u) : More(u, s)[k] = u[k]
         /\ More(u, s)[Len(u) + 1] = s
BY AppendProperties DEF More

LEMMA AheadMoves ==
  ASSUME NEW u \in Bites, NEW s \in Seq(Int), NEW rest \in Bites
  PROVE  Joined(u, Ahead(s, rest)) = Joined(More(u, s), rest)
<1>1. <<s>> \in Seq(Seq(Int))
  OBVIOUS
<1>2. Append(u, s) = u \o <<s>>
  BY AppendIsConcat DEF Bites
<1>3. (u \o <<s>>) \o rest = u \o (<<s>> \o rest)
  BY <1>1, ConcatAssociative DEF Bites
<1>4. Append(u, s) \o rest = u \o (<<s>> \o rest)
  BY <1>2, <1>3, Zenon
<1> QED
  BY <1>4, Zenon DEF Ahead, Joined, More

\* The first j goods are read: the records before the place of the next one are theirs.
ReadUpTo(from, off, taken, Says, j) ==
    \E u \in Bites :
        /\ from[1] = Joined(u, from[off[j] + 1])
        /\ Len(u) = Len(taken[j])
        /\ \A k \in 1 .. Len(u) : <<u[k], taken[j][k]>> \in Says

\* What a step from one good to the next adds: no byte and no good, or a record that the
\* reader finds the end of, and a good it says.
Lies(file, next, off, taken, T, Says, j) ==
    \/ taken[j] = taken[j - 1] /\ off[j] = off[j - 1]
    \/ \E t \in T :
          /\ taken[j] = More(taken[j - 1], t)
          /\ off[j - 1] < off[j] /\ off[j] <= Len(file) /\ next[off[j - 1] + 1] = off[j] + 1
          /\ <<Cut(file, off[j - 1] + 1, off[j]), t>> \in Says

LEMMA RestIs ==
  ASSUME NEW f, NEW file \in Seq(Int), NEW next, NEW p \in Nat, NEW q \in Nat,
         p <= Len(file), q + 1 \in p + 1 .. Len(file) + 1, next[p] = q + 1
  PROVE  Rest(f, file, next, p) = Ahead(Cut(file, p, q), f[q + 1])
<1>1. q + 1 - 1 = q /\ ~(p > Len(file))
  OBVIOUS
<1> QED
  BY <1>1 DEF Rest

\* from says what Records makes of the rest of the file at every place of it.
Reading(from, file, next) ==
    \A p \in 1 .. Len(file) + 1 : from[p] \in Bites /\ from[p] = Rest(from, file, next, p)

\* What it makes of the rest at the byte after a: the record up to b, and the rest there.
NextIs(from, file, a, b) ==
    /\ from[b + 1] \in Bites /\ Cut(file, a + 1, b) \in Seq(Int)
    /\ from[a + 1] = Ahead(Cut(file, a + 1, b), from[b + 1])
Ends(next, a, b) == next[a + 1] = b + 1

\* The record from a to b is the next one that is read, if the reader finds its end.
LEMMA NextRead ==
  ASSUME NEW file \in Seq(Int), NEW next, NEW from, Reading(from, file, next),
         NEW a \in Nat, NEW b \in Nat, a < b, b <= Len(file), Ends(next, a, b)
  PROVE  NextIs(from, file, a, b)
<1> USE DEF Reading, Ends, NextIs
<1> DEFINE c == a + 1
<1>1. /\ c \in Nat /\ 1 <= c /\ c <= Len(file) /\ c \in 1 .. Len(file) + 1
      /\ b + 1 \in c + 1 .. Len(file) + 1 /\ b + 1 \in 1 .. Len(file) + 1 /\ next[c] = b + 1
  OBVIOUS
<1> HIDE DEF c
<1>2. Cut(file, c, b) \in Seq(Int)
  BY <1>1, CutTyped
<1>3. Rest(from, file, next, c) = Ahead(Cut(file, c, b), from[b + 1])
  BY <1>1, RestIs
<1>4. from[c] = Ahead(Cut(file, c, b), from[b + 1]) /\ from[b + 1] \in Bites
  BY <1>1, <1>3
<1> QED
  BY <1>2, <1>4 DEF c

LEMMA ReadStep ==
  ASSUME NEW from, NEW off, NEW taken, NEW Says, NEW T, NEW m, NEW j,
         taken[m] \in Seq(T), ReadUpTo(from, off, taken, Says, m),
         NEW t \in T, taken[j] = More(taken[m], t),
         NEW s \in Seq(Int), <<s, t>> \in Says, from[off[j] + 1] \in Bites,
         from[off[m] + 1] = Ahead(s, from[off[j] + 1])
  PROVE  ReadUpTo(from, off, taken, Says, j)
<1> DEFINE rest == from[off[j] + 1]
           old == taken[m]
           new == taken[j]
<1>1. PICK u \in Bites :
         /\ from[1] = Joined(u, from[off[m] + 1]) /\ Len(u) = Len(old)
         /\ \A k \in 1 .. Len(u) : <<u[k], old[k]>> \in Says
  BY DEF ReadUpTo
<1> DEFINE v == More(u, s)
<1>2. v \in Bites /\ Len(v) = Len(u) + 1 /\ v[Len(u) + 1] = s
      /\ \A k \in 1 .. Len(u) : v[k] = u[k]
  BY MoreTyped DEF Bites
<1>3. Len(new) = Len(old) + 1 /\ new[Len(old) + 1] = t
      /\ \A k \in 1 .. Len(old) : new[k] = old[k]
  <2> DEFINE more == More(old, t)
  <2>1. old \in Seq(T)
    OBVIOUS
  <2>2. new = more
    OBVIOUS
  <2> HIDE DEF old, new
  <2>3. Len(more) = Len(old) + 1 /\ more[Len(old) + 1] = t
        /\ \A k \in 1 .. Len(old) : more[k] = old[k]
    BY <2>1, MoreTyped
  <2> HIDE DEF more
  <2> QED
    BY <2>2, <2>3
<1>4. from[1] = Joined(v, rest)
  BY <1>1, AheadMoves, Zenon
<1>5. Len(v) = Len(new) /\ Len(u) \in Nat
  BY <1>1, <1>2, <1>3 DEF Bites
<1>6. \A k \in 1 .. Len(v) : k \in 1 .. Len(u) \/ k = Len(u) + 1
  BY <1>2, <1>5
<1> HIDE DEF v, new, old, rest
<1>7. \A k \in 1 .. Len(v) : <<v[k], new[k]>> \in Says
  <2> TAKE k \in 1 .. Len(v)
  <2>1. CASE k \in 1 .. Len(u)
    BY <1>1, <1>2, <1>3, <2>1
  <2>2. CASE k = Len(u) + 1
    BY <1>1, <1>2, <1>3, <2>2
  <2> QED
    BY <1>6, <2>1, <2>2
<1> QED
  BY <1>2, <1>4, <1>5, <1>7 DEF ReadUpTo, rest, new

LEMMA RecordsRead ==
  ASSUME NEW file \in Seq(Int), NEW next, NEW n \in Nat, NEW off \in [0 .. n -> Nat],
         NEW T, NEW taken \in [0 .. n -> Seq(T)], NEW Says,
         off[0] = 0, off[n] = Len(file), taken[0] = <<>>,
         \A j \in 1 .. n : Lies(file, next, off, taken, T, Says, j)
  PROVE  LET r == Records(file, next) IN
         /\ Len(r) = Len(taken[n])
         /\ \A k \in DOMAIN r : <<r[k], taken[n][k]>> \in Says
<1>1. PICK from \in [1 .. Len(file) + 1 -> Bites] :
         /\ Records(file, next) = from[1]
         /\ \A p \in 1 .. Len(file) + 1 : from[p] = Rest(from, file, next, p)
  BY RecordsFollow
<1>9. Len(file) \in Nat /\ 1 \in 1 .. Len(file) + 1 /\ Len(file) + 1 \in 1 .. Len(file) + 1
  OBVIOUS
<1>10. Reading(from, file, next)
  BY <1>1 DEF Reading
<1> DEFINE S == {k \in 0 .. n : off[k] <= Len(file) /\ ReadUpTo(from, off, taken, Says, k)}
<1>2. 0 \in S
  <2>1. from[1] = Joined(<<>>, from[1]) /\ <<>> \in Bites /\ Len(<<>>) = 0
    <3>1. from[1] \in Bites
      BY <1>1, <1>9
    <3> QED
      BY <3>1, JoinedNothing, NothingTyped
  <2>2. off[0] + 1 = 1
    OBVIOUS
  <2>3. ReadUpTo(from, off, taken, Says, 0)
    BY <2>1, <2>2 DEF ReadUpTo
  <2>4. 0 \in 0 .. n /\ off[0] <= Len(file)
    OBVIOUS
  <2> QED
    BY <2>3, <2>4
<1>3. \A m \in 0 .. n : m \in S /\ m < n => m + 1 \in S
  <2> SUFFICES ASSUME NEW m \in 0 .. n, m \in S, m < n PROVE m + 1 \in S
    OBVIOUS
  <2> DEFINE j == m + 1
             a == off[m]
             b == off[j]
  <2>1. j \in 1 .. n /\ j \in 0 .. n /\ j - 1 = m /\ a \in Nat /\ b \in Nat /\ a <= Len(file)
    <3>1. j \in 1 .. n /\ j \in 0 .. n /\ j - 1 = m
      OBVIOUS
    <3> HIDE DEF j
    <3> QED
      BY <3>1
  <2>2. ReadUpTo(from, off, taken, Says, m) /\ taken[m] \in Seq(T)
    OBVIOUS
  <2>3. Lies(file, next, off, taken, T, Says, j)
    BY <2>1
  <2> HIDE DEF j
  <2>4. ASSUME taken[j] = taken[m] /\ off[j] = off[m] PROVE j \in S
    <3>1. ReadUpTo(from, off, taken, Says, j)
      <4> HIDE DEF S
      <4> QED
        BY <2>2, <2>4, Zenon DEF ReadUpTo
    <3> QED
      BY <2>1, <2>4, <3>1
  <2>5. ASSUME NEW t \in T, taken[j] = More(taken[m], t), off[m] < off[j], off[j] <= Len(file),
               next[off[m] + 1] = off[j] + 1, <<Cut(file, off[m] + 1, off[j]), t>> \in Says
        PROVE  j \in S
    <3>1. ReadUpTo(from, off, taken, Says, j)
      <4> HIDE DEF S
      <4>1. a \in Nat /\ b \in Nat /\ a < b /\ b <= Len(file) /\ Ends(next, a, b)
        BY <2>1, <2>5 DEF Ends
      <4>2. NextIs(from, file, a, b)
        <5> HIDE DEF a, b
        <5> QED
          BY <1>10, <4>1, NextRead
      <4> QED
        BY <2>2, <2>5, <4>2, ReadStep DEF NextIs
    <3> QED
      BY <2>1, <2>5, <3>1
  <2>6. \/ taken[j] = taken[m] /\ off[j] = off[m]
        \/ \E t \in T :
              /\ taken[j] = More(taken[m], t)
              /\ off[m] < off[j] /\ off[j] <= Len(file) /\ next[off[m] + 1] = off[j] + 1
              /\ <<Cut(file, off[m] + 1, off[j]), t>> \in Says
    <3> HIDE DEF S
    <3> QED
      BY <2>1, <2>3, Zenon DEF Lies
  <2>7. j \in S
    <3> HIDE DEF S, a, b
    <3> QED
      BY <2>4, <2>5, <2>6, Zenon
  <2> QED
    BY <2>7 DEF j
<1>4. ReadUpTo(from, off, taken, Says, n)
  <2> HIDE DEF S
  <2>1. \A m \in 0 .. n : m \in S
    BY <1>2, <1>3, UpTo
  <2>2. n \in S
    BY <2>1
  <2> QED
    BY <2>2 DEF S
<1>5. PICK u \in Bites :
         /\ from[1] = Joined(u, from[Len(file) + 1]) /\ Len(u) = Len(taken[n])
         /\ \A k \in 1 .. Len(u) : <<u[k], taken[n][k]>> \in Says
  BY <1>4 DEF ReadUpTo
<1>6. from[Len(file) + 1] = <<>>
  <2>1. Len(file) + 1 > Len(file)
    BY <1>9
  <2>2. Rest(from, file, next, Len(file) + 1) = <<>>
    BY <2>1, Zenon DEF Rest
  <2> QED
    BY <1>1, <1>9, <2>2
<1>7. Records(file, next) = u
  BY <1>1, <1>5, <1>6, JoinedNothing
<1>8. DOMAIN u = 1 .. Len(u)
  BY DEF Bites
<1> QED
  BY <1>5, <1>7, <1>8, Zenon

\* A record that lies in a file at a, and no byte of it behind the end.
LiesAt(file, a, r) == FieldAt(file, a, r) /\ a + Len(r) <= Len(file)

FieldIn(file, a, p, s) == FieldAt(file, a + p, s)

\* A field of a record that lies in a file is in the file.
LEMMA FieldOf ==
  ASSUME NEW file, NEW a \in Nat, NEW r, Len(r) \in Nat, NEW p \in Nat, NEW m \in Nat,
         NEW s \in Text(m), FieldAt(file, a, r), FieldAt(r, p, s), p + m <= Len(r)
  PROVE  FieldIn(file, a, p, s)
<1>1. Len(s) = m
  BY DEF Text
<1> SUFFICES ASSUME NEW j \in 1 .. m PROVE file[a + p + j] = s[j]
  BY <1>1 DEF FieldAt, FieldIn
<1>2. p + j \in 1 .. Len(r) /\ a + (p + j) = a + p + j
  OBVIOUS
<1>3. file[a + (p + j)] = r[p + j]
  BY <1>2 DEF FieldAt
<1>4. r[p + j] = s[j]
  BY <1>1 DEF FieldAt
<1> QED
  BY <1>2, <1>3, <1>4

\* The reader cuts out of the file the record that lies there.
LEMMA CutIs ==
  ASSUME NEW file, NEW a \in Nat, NEW m \in Nat, NEW r \in Text(m), FieldAt(file, a, r)
  PROVE  Cut(file, a + 1, a + m) = r
<1>1. Part(file, a, m) = r
  BY FieldRead
<1> QED
  BY <1>1 DEF Part, Cut

\* The reader of the DIGI scale finds the end of a record in the size it states.
LEMMA DigiEnds ==
  ASSUME NEW prefix \in 0 .. 99, NEW t \in Tovar, NEW file \in Seq(Int), NEW a \in Nat,
         LiesAt(file, a, DigiRecord(prefix, t))
  PROVE  /\ Len(DigiRecord(prefix, t)) \in Nat /\ 0 < Len(DigiRecord(prefix, t))
         /\ DigiRecord(prefix, t) \in Text(Len(DigiRecord(prefix, t)))
         /\ Ends(DigiNext(file), a, a + Len(DigiRecord(prefix, t)))
<1> DEFINE r == DigiRecord(prefix, t)
           len == Len(r)
           n == DigiSize(NameHex(t))
           size == Hex(SizeBytes(n))
<1>1. /\ r \in Seq(Int) /\ len = 56 + Len(NameHex(t)) /\ FieldAt(r, 8, size)
  BY DigiLayout DEF DigiFields
<1>2. n \in Nat /\ 2 * n = len /\ len \in Nat /\ 64 <= len /\ len <= 324
  BY <1>1, NameHexSize
<1> HIDE DEF r, len, n
<1>3. n < 65536
  BY <1>2
<1>4. /\ size \in Text(4) /\ HexBytes(size) = SizeBytes(n)
      /\ 256 * SizeBytes(n)[1] + SizeBytes(n)[2] = n
  BY <1>2, <1>3, SizeHex
<1> HIDE DEF size
<1>5. a + len <= Len(file) /\ FieldAt(file, a, r) /\ Len(r) = len
  BY DEF LiesAt, r, len
<1>6. Part(file, a + 8, 4) = size
  <2>1. FieldAt(file, a + 8, size)
    <3>1. Len(r) \in Nat /\ 8 + 4 <= Len(r)
      BY <1>2, <1>5
    <3>2. FieldIn(file, a, 8, size)
      BY <1>1, <1>4, <1>5, <3>1, FieldOf
    <3> QED
      BY <3>2 DEF FieldIn
  <2>2. a + 8 \in Nat
    OBVIOUS
  <2> QED
    BY <1>4, <2>1, <2>2, FieldRead
<1>7. SubSeq(file, a + 1 + 8, a + 1 + 11) = size
  <2>1. a + 8 + 1 = a + 1 + 8 /\ a + 8 + 4 = a + 1 + 11
    OBVIOUS
  <2> QED
    BY <1>6, <2>1 DEF Part
<1>8. a + 1 \in DOMAIN file /\ ~(a + 1 + 11 > Len(file))
  BY <1>2, <1>5
<1>9. DigiNext(file)[a + 1] = a + 1 + 2 * n
  BY <1>4, <1>7, <1>8 DEF DigiNext
<1>10. Ends(DigiNext(file), a, a + len)
  BY <1>2, <1>9 DEF Ends
<1> QED
  BY <1>1, <1>2, <1>10 DEF Text, r, len

\* That of the VPM adds the six bytes of the code and the size.
LEMMA VpmEnds ==
  ASSUME NEW prefix \in 0 .. 99, NEW t \in Tovar, NEW stray \in Byte \X Byte,
         NEW file \in Seq(Int), NEW a \in Nat, LiesAt(file, a, VpmTovar(prefix, t, stray))
  PROVE  /\ Len(VpmTovar(prefix, t, stray)) \in Nat /\ 0 < Len(VpmTovar(prefix, t, stray))
         /\ VpmTovar(prefix, t, stray) \in Text(Len(VpmTovar(prefix, t, stray)))
         /\ Ends(VpmNext(file), a, a + Len(VpmTovar(prefix, t, stray)))
<1> DEFINE r == VpmTovar(prefix, t, stray)
           len == Len(r)
           n == VpmSize(t.name)
           size == Bytes(n, 2)
<1>1. r \in Seq(Int) /\ len = 53 + Len(t.name) /\ FieldAt(r, 4, size)
  <2> HIDE DEF r
  <2>1. VpmFields(r, Plu(prefix, t), prefix, t, Sell(t, stray))
    BY Zenon, VpmTovarLayout DEF r
  <2> QED
    BY <2>1 DEF VpmFields
<1>2. n = 47 + Len(t.name) /\ Len(t.name) \in Nat /\ Len(t.name) < 128
  BY TovarFields DEF VpmSize
<1>3. n \in Nat /\ n < 256 /\ len = 6 + n /\ len \in Nat
  BY <1>1, <1>2
<1> HIDE DEF r, len, n
<1>4. size[1] = n /\ size[2] = 0 /\ Len(size) = 2
  <2>1. size[1] = (n \div Power[1]) % 256 /\ size[2] = (n \div Power[2]) % 256 /\ Len(size) = 2
    BY <1>3, BytesOf
  <2>2. Power[1] = 1 /\ Power[2] = 256
    BY DEF Power
  <2>3. (n \div 1) % 256 = n /\ (n \div 256) % 256 = 0
    BY <1>3
  <2> HIDE DEF size
  <2> QED
    BY <2>1, <2>2, <2>3
<1> HIDE DEF size
<1>5. a + len <= Len(file) /\ \A j \in 1 .. len : file[a + j] = r[j]
  BY DEF LiesAt, FieldAt, r, len
<1>6. r[5] = n /\ r[6] = 0
  <2>1. r[4 + 1] = size[1] /\ r[4 + 2] = size[2]
    BY <1>1, <1>4 DEF FieldAt
  <2> QED
    BY <1>4, <2>1
<1>7. file[a + 1 + 4] = n /\ file[a + 1 + 5] = 0
  <2>1. file[a + 5] = r[5] /\ file[a + 6] = r[6]
    BY <1>3, <1>5
  <2> QED
    BY <1>6, <2>1
<1>8. a + 1 \in DOMAIN file /\ ~(a + 1 + 5 > Len(file))
  BY <1>3, <1>5
<1>9. VpmNext(file)[a + 1] = a + 1 + 6 + n + 256 * 0
  BY <1>7, <1>8 DEF VpmNext
<1>10. Ends(VpmNext(file), a, a + len)
  BY <1>3, <1>9 DEF Ends
<1> QED
  BY <1>1, <1>3, <1>10 DEF Text, r, len

-----------------------------------------------------------------------------
(***************************************************************************)
(* Texts that grow by one character after the other.                        *)
(***************************************************************************)

\* What holds of the empty text, and of a text with one more, holds of every text.
LEMMA ByCharacter ==
  ASSUME NEW T, NEW S, <<>> \in S, \A u \in Seq(T), c \in T : u \in S => More(u, c) \in S
  PROVE  \A w \in Seq(T) : w \in S
<1> SUFFICES ASSUME NEW w \in Seq(T) PROVE w \in S
  OBVIOUS
<1> DEFINE n == Len(w)
           Up(k) == SubSeq(w, 1, k)
           K == {k \in 0 .. n : Up(k) \in S}
<1>1. n \in Nat /\ \A k \in 1 .. n : w[k] \in T
  BY LenProperties, ElementOfSeq
<1>2. \A k \in 0 .. n : /\ Up(k) \in Seq(T) /\ Len(Up(k)) = k
                        /\ \A j \in 1 .. k : Up(k)[j] = w[j]
  <2> TAKE k \in 0 .. n
  <2> HIDE DEF n
  <2>1. /\ Up(k) \in Seq(T) /\ Len(Up(k)) = IF 1 <= k THEN k - 1 + 1 ELSE 0
        /\ \A j \in 1 .. k - 1 + 1 : Up(k)[j] = w[1 + j - 1]
    BY <1>1, SubSeqProperties
  <2>2. k - 1 + 1 = k /\ (~(1 <= k) => k = 0) /\ \A j \in 1 .. k : 1 + j - 1 = j
    BY <1>1
  <2> QED
    BY <2>1, <2>2
<1> HIDE DEF n, Up
<1>3. Up(0) = <<>>
  <2>1. Up(0) \in Seq(T) /\ Len(Up(0)) = 0
    BY <1>1, <1>2
  <2> QED
    BY <2>1, EmptySeq
<1>4. Up(n) = w
  <2>1. Up(n) \in Seq(T) /\ Len(Up(n)) = Len(w) /\ \A j \in 1 .. Len(w) : Up(n)[j] = w[j]
    BY <1>1, <1>2 DEF n
  <2> QED
    BY <2>1, SeqEqual
<1>5. \A k \in 0 .. n : k < n => Up(k + 1) = More(Up(k), w[k + 1])
  <2> SUFFICES ASSUME NEW k \in 0 .. n, k < n PROVE Up(k + 1) = More(Up(k), w[k + 1])
    OBVIOUS
  <2>1. k + 1 \in 0 .. n /\ k + 1 \in 1 .. n
    BY <1>1
  <2>2. /\ More(Up(k), w[k + 1]) \in Seq(T) /\ Len(More(Up(k), w[k + 1])) = k + 1
        /\ \A j \in 1 .. k : More(Up(k), w[k + 1])[j] = w[j]
        /\ More(Up(k), w[k + 1])[k + 1] = w[k + 1]
    <3> DEFINE u == Up(k)
               c == w[k + 1]
    <3>1. u \in Seq(T) /\ Len(u) = k /\ c \in T /\ \A j \in 1 .. k : u[j] = w[j]
      BY <1>1, <1>2, <2>1
    <3> HIDE DEF u, c
    <3>2. /\ More(u, c) \in Seq(T) /\ Len(More(u, c)) = Len(u) + 1
          /\ \A j \in 1 .. Len(u) : More(u, c)[j] = u[j]
          /\ More(u, c)[Len(u) + 1] = c
      BY <3>1, MoreTyped
    <3> QED
      BY <3>1, <3>2 DEF u, c
  <2>3. \A j \in 1 .. k + 1 : j \in 1 .. k \/ j = k + 1
    BY <1>1
  <2>4. /\ Up(k + 1) \in Seq(T) /\ Len(Up(k + 1)) = k + 1
        /\ \A j \in 1 .. k + 1 : Up(k + 1)[j] = w[j]
    BY <1>2, <2>1
  <2>5. \A j \in 1 .. k + 1 : Up(k + 1)[j] = More(Up(k), w[k + 1])[j]
    BY <2>2, <2>3, <2>4
  <2> QED
    BY <2>2, <2>4, <2>5, SeqEqual
<1>6. 0 \in K
  BY <1>1, <1>3
<1>7. \A k \in 0 .. n : k \in K /\ k < n => k + 1 \in K
  <2> SUFFICES ASSUME NEW k \in 0 .. n, Up(k) \in S, k < n PROVE k + 1 \in K
    OBVIOUS
  <2>1. k + 1 \in 0 .. n /\ w[k + 1] \in T
    BY <1>1
  <2>2. Up(k + 1) \in S
    BY <1>2, <1>5, <2>1
  <2> QED
    BY <2>1, <2>2
<1> HIDE DEF K
<1>8. n \in K
  <2>1. \A k \in 0 .. n : k \in K
    BY <1>1, <1>6, <1>7, UpTo
  <2> QED
    BY <1>1, <2>1
<1> QED
  BY <1>4, <1>8 DEF K

\* A text behind another grows as it does alone.
LEMMA JoinedMore ==
  ASSUME NEW u \in Seq(Int), NEW w \in Seq(Int), NEW c \in Int
  PROVE  u \o w \in Seq(Int) /\ u \o More(w, c) = More(u \o w, c)
<1>1. <<c>> \in Seq(Int)
  OBVIOUS
<1>2. More(w, c) = w \o <<c>>
  BY AppendIsConcat DEF More
<1>3. u \o w \in Seq(Int)
  BY ConcatProperties
<1>4. More(u \o w, c) = (u \o w) \o <<c>>
  BY <1>3, AppendIsConcat DEF More
<1>5. (u \o w) \o <<c>> = u \o (w \o <<c>>)
  BY <1>1, ConcatAssociative
<1> QED
  BY <1>2, <1>3, <1>4, <1>5

-----------------------------------------------------------------------------
(***************************************************************************)
(* PartsOf between separators, one character after the other.                 *)
(***************************************************************************)

\* The last part of some gets a character more.
Longer(p, c) == [p EXCEPT ![Len(p)] = More(@, c)]

\* What a character does to the parts before it.
Parted(p, c, separator) == IF c = separator THEN More(p, <<>>) ELSE Longer(p, c)

LEMMA LongerTyped ==
  ASSUME NEW q \in Bites, NEW s \in Seq(Int), NEW c \in Int
  PROVE  Longer(More(q, s), c) = More(q, More(s, c))
<1> DEFINE p == More(q, s)
           n == Len(q)
           z == More(s, c)
           e == More(q, z)
<1>1. /\ p \in Bites /\ Len(p) = n + 1 /\ p[n + 1] = s /\ \A k \in 1 .. n : p[k] = q[k]
      /\ n \in Nat
  BY MoreTyped, LenProperties DEF Bites
<1>2. z \in Seq(Int)
  BY MoreTyped
<1>3. /\ e \in Bites /\ Len(e) = n + 1 /\ e[n + 1] = z /\ \A k \in 1 .. n : e[k] = q[k]
  <2> HIDE DEF z
  <2> QED
    BY <1>2, MoreTyped DEF Bites
<1>4. Longer(p, c) = [p EXCEPT ![n + 1] = z]
  BY <1>1 DEF Longer
<1> HIDE DEF p, n, z, e
<1>5. /\ [p EXCEPT ![n + 1] = z] \in Bites /\ Len([p EXCEPT ![n + 1] = z]) = n + 1
      /\ \A k \in 1 .. n + 1 : [p EXCEPT ![n + 1] = z][k] = IF k = n + 1 THEN z ELSE p[k]
  <2>1. n + 1 \in 1 .. Len(p)
    BY <1>1
  <2> QED
    BY <1>1, <1>2, <2>1, ExceptSeq DEF Bites
<1>6. \A k \in 1 .. n + 1 : [p EXCEPT ![n + 1] = z][k] = e[k]
  <2> TAKE k \in 1 .. n + 1
  <2>1. CASE k = n + 1
    BY <1>3, <1>5, <2>1
  <2>2. CASE k # n + 1
    <3>1. k \in 1 .. n
      BY <1>1, <2>2
    <3> QED
      BY <1>1, <1>3, <1>5, <2>2, <3>1
  <2> QED
    BY <2>1, <2>2
<1>7. [p EXCEPT ![n + 1] = z] = e
  BY <1>3, <1>5, <1>6, SeqEqual DEF Bites
<1> QED
  BY <1>4, <1>7 DEF p, e, z

LEMMA PartedTyped ==
  ASSUME NEW p \in Bites, NEW c \in Int, NEW separator
  PROVE  Parted(p, c, separator) \in Bites
<1>1. <<>> \in Seq(Int)
  BY EmptySeq
<1>2. More(p, <<>>) \in Bites
  BY <1>1, MoreTyped DEF Bites
<1>3. Longer(p, c) \in Bites
  <2>1. CASE p = <<>>
    <3>1. DOMAIN p = {}
      BY <2>1
    <3>2. Longer(p, c) = p
      BY <2>1, <3>1 DEF Longer
    <3> QED
      BY <3>2
  <2>2. CASE p # <<>>
    <3>1. Len(p) \in Nat \ {0} /\ Len(p) \in 1 .. Len(p)
      BY <2>2, EmptySeq DEF Bites
    <3>2. p[Len(p)] \in Seq(Int)
      BY <3>1, ElementOfSeq DEF Bites
    <3>3. More(p[Len(p)], c) \in Seq(Int)
      BY <3>2, MoreTyped
    <3>4. Longer(p, c) = [p EXCEPT ![Len(p)] = More(p[Len(p)], c)]
      BY DEF Longer
    <3> QED
      BY <3>1, <3>3, <3>4, ExceptSeq DEF Bites
  <2> QED
    BY <2>1, <2>2
<1> QED
  BY <1>2, <1>3 DEF Parted

\* A function that follows the rule of Split gives the parts of a text.
PartsOf(g, text, n, separator) ==
    /\ g[0] = << <<>> >>
    /\ \A j \in 1 .. n : g[j] = Parted(g[j - 1], text[j], separator)

LEMMA SplitIs ==
  ASSUME NEW text, NEW n \in Nat, Len(text) = n, NEW separator, NEW g,
         PartsOf(g, text, n, separator)
  PROVE  Split(text, separator) = g[n]
<1> USE DEF PartsOf
<1> DEFINE Old(p, c) == IF c = separator THEN Append(p, <<>>)
                        ELSE [p EXCEPT ![Len(p)] = Append(@, c)]
           Rule(f) == [j \in 0 .. n |->
                        IF j = 0 THEN << <<>> >>
                        ELSE LET p == f[j - 1]
                             IN  IF text[j] = separator THEN Append(p, <<>>)
                                 ELSE [p EXCEPT ![Len(p)] = Append(@, text[j])]]
           parts == CHOOSE f : f = Rule(f)
           f0 == [j \in 0 .. n |-> g[j]]
<1>1. Split(text, separator) = parts[n]
  BY DEF Split
<1>2. \A f : Rule(f) = [j \in 0 .. n |-> IF j = 0 THEN << <<>> >>
                                         ELSE Parted(f[j - 1], text[j], separator)]
  BY DEF Parted, Longer, More
<1> HIDE DEF Rule
<1>3. f0 = Rule(f0)
  <2>1. \A j \in 0 .. n : f0[j] = g[j]
    OBVIOUS
  <2>2. \A j \in 1 .. n : j - 1 \in 0 .. n
    OBVIOUS
  <2>3. \A j \in 0 .. n : g[j] = IF j = 0 THEN << <<>> >>
                                 ELSE Parted(f0[j - 1], text[j], separator)
    <3> TAKE j \in 0 .. n
    <3>1. CASE j = 0
      BY <3>1
    <3>2. CASE j # 0
      <4>1. j \in 1 .. n
        BY <3>2
      <4>2. f0[j - 1] = g[j - 1]
        BY <2>1, <2>2, <4>1
      <4> QED
        BY <3>2, <4>1, <4>2
    <3> QED
      BY <3>1, <3>2
  <2> QED
    BY <1>2, <2>3
<1>4. parts = Rule(parts)
  BY <1>3
<1> HIDE DEF parts
<1>5. \A j \in 0 .. n : parts[j] = IF j = 0 THEN << <<>> >>
                                   ELSE Parted(parts[j - 1], text[j], separator)
  BY <1>2, <1>4
<1> DEFINE S == {j \in 0 .. n : parts[j] = g[j]}
<1>6. 0 \in S
  BY <1>5
<1>7. ASSUME NEW j \in 0 .. n, j \in S, j < n PROVE j + 1 \in S
  <2>1. j + 1 \in 1 .. n /\ j + 1 - 1 = j /\ j + 1 \in 0 .. n /\ j + 1 # 0
    BY <1>7
  <2>2. parts[j + 1] = Parted(parts[j], text[j + 1], separator)
    BY <1>5, <2>1
  <2> QED
    BY <1>7, <2>1, <2>2
<1> HIDE DEF S
<1>8. \A j \in 0 .. n : j \in S
  BY <1>6, <1>7, UpTo
<1> QED
  BY <1>1, <1>8 DEF S

\* There is such a function.
LEMMA SplitSteps ==
  ASSUME NEW text \in Seq(Int), NEW separator
  PROVE  \E f \in [0 .. Len(text) -> Bites] : PartsOf(f, text, Len(text), separator)
<1> DEFINE n == Len(text)
           g == [p \in Nat \X Bites |->
                   IF p[1] \in 1 .. n THEN Parted(p[2], text[p[1]], separator) ELSE p[2]]
<1>1. n \in Nat /\ \A j \in 1 .. n : text[j] \in Int
  BY LenProperties, ElementOfSeq
<1> HIDE DEF n
<1>2. g \in Rules(Bites)
  <2>1. \A p \in Nat \X Bites :
           (IF p[1] \in 1 .. n THEN Parted(p[2], text[p[1]], separator) ELSE p[2]) \in Bites
    BY <1>1, PartedTyped
  <2> QED
    BY <2>1 DEF Rules
<1>3. << <<>> >> \in Bites
  BY NothingTyped
<1>4. PICK f \in [0 .. n -> Bites] : Follows(f, << <<>> >>, g, n)
  <2> DEFINE z == << <<>> >>
  <2>1. z \in Bites
    BY <1>3
  <2> HIDE DEF g, z
  <2>2. \E f \in [0 .. n -> Bites] : Follows(f, z, g, n)
    BY <1>1, <1>2, <2>1, Recursion
  <2> QED
    BY <2>2 DEF z
<1>5. ASSUME NEW j \in 1 .. n PROVE f[j] = Parted(f[j - 1], text[j], separator)
  <2>1. f[j] = g[<<j, f[j - 1]>>]
    BY <1>4 DEF Follows
  <2>2. <<j, f[j - 1]>> \in Nat \X Bites
    BY <1>1
  <2> QED
    BY <2>1, <2>2
<1>6. f[0] = << <<>> >>
  BY <1>4 DEF Follows
<1> QED
  BY <1>5, <1>6 DEF n, PartsOf

LEMMA SplitNothing ==
  ASSUME NEW separator
  PROVE  Split(<<>>, separator) = << <<>> >>
<1> DEFINE g == [j \in 0 .. 0 |-> << <<>> >>]
<1>1. g[0] = << <<>> >> /\ Len(<<>>) = 0 /\ 0 \in Nat
  BY EmptySeq
<1>2. PartsOf(g, <<>>, 0, separator)
  BY <1>1 DEF PartsOf
<1> HIDE DEF g
<1>3. Split(<<>>, separator) = g[0]
  BY <1>1, <1>2, SplitIs
<1> QED
  BY <1>1, <1>3

\* One character more.
LEMMA SplitMore ==
  ASSUME NEW text \in Seq(Int), NEW c \in Int, NEW separator
  PROVE  Split(More(text, c), separator) = Parted(Split(text, separator), c, separator)
<1> DEFINE n == Len(text)
           new == More(text, c)
<1>1. n \in Nat /\ Len(new) = n + 1 /\ new[n + 1] = c /\ \A j \in 1 .. n : new[j] = text[j]
  <2>1. n \in Nat
    BY LenProperties
  <2>2. /\ More(text, c) \in Seq(Int) /\ Len(More(text, c)) = Len(text) + 1
        /\ \A k \in 1 .. Len(text) : More(text, c)[k] = text[k]
        /\ More(text, c)[Len(text) + 1] = c
    BY MoreTyped
  <2> QED
    BY <2>1, <2>2
<1>2. PICK f \in [0 .. n -> Bites] : PartsOf(f, text, n, separator)
  BY SplitSteps
<1> HIDE DEF new
<1>3. Split(text, separator) = f[n]
  BY <1>1, <1>2, SplitIs
<1> HIDE DEF n
<1> DEFINE last == Parted(f[n], c, separator)
           g == [j \in 0 .. n + 1 |-> IF j = n + 1 THEN last ELSE f[j]]
<1>4. g[0] = << <<>> >> /\ g[n + 1] = last
  BY <1>1, <1>2 DEF PartsOf
<1>5. ASSUME NEW j \in 1 .. n + 1 PROVE g[j] = Parted(g[j - 1], new[j], separator)
  <2> HIDE DEF last
  <2>1. j - 1 \in 0 .. n + 1 /\ j - 1 # n + 1
    BY <1>1
  <2>2. g[j - 1] = f[j - 1]
    BY <2>1
  <2>3. CASE j = n + 1
    <3>1. j - 1 = n /\ g[j] = last
      BY <1>1, <2>3
    <3> QED
      BY <1>1, <2>2, <2>3, <3>1 DEF last
  <2>4. CASE j # n + 1
    <3>1. j \in 1 .. n /\ g[j] = f[j]
      BY <1>1, <2>4
    <3> QED
      BY <1>1, <1>2, <2>2, <3>1 DEF PartsOf
  <2> QED
    BY <2>3, <2>4
<1> HIDE DEF g, last
<1>6. Split(new, separator) = g[n + 1]
  <2>1. n + 1 \in Nat
    BY <1>1
  <2> QED
    <3>1. PartsOf(g, new, n + 1, separator)
      BY <1>4, <1>5 DEF PartsOf
    <3> QED
      BY <1>1, <2>1, <3>1, SplitIs
<1> QED
  BY <1>3, <1>4, <1>6 DEF last, new

\* A text has no character of a set.
Without(w, S) == \A k \in 1 .. Len(w) : w[k] \notin S

LEMMA WithoutMore ==
  ASSUME NEW u \in Seq(Int), NEW c \in Int, NEW S
  PROVE  Without(More(u, c), S) <=> Without(u, S) /\ c \notin S
<1>1. Len(u) \in Nat
  BY LenProperties
<1>2. /\ Len(More(u, c)) = Len(u) + 1
      /\ \A k \in 1 .. Len(u) : More(u, c)[k] = u[k]
      /\ More(u, c)[Len(u) + 1] = c
  BY MoreTyped
<1>3. \A k \in 1 .. Len(u) + 1 : k \in 1 .. Len(u) \/ k = Len(u) + 1
  BY <1>1
<1>4. \A k \in 1 .. Len(u) : k \in 1 .. Len(u) + 1
  BY <1>1
<1>5. Len(u) + 1 \in 1 .. Len(u) + 1
  BY <1>1
<1> QED
  BY <1>2, <1>3, <1>4, <1>5 DEF Without

LEMMA WithoutJoined ==
  ASSUME NEW u \in Seq(Int), NEW w \in Seq(Int), NEW S, Without(u, S), Without(w, S)
  PROVE  u \o w \in Seq(Int) /\ Without(u \o w, S)
<1> DEFINE k == Len(u)
           m == Len(w)
<1>1. k \in Nat /\ m \in Nat
  BY LenProperties
<1>2. /\ u \o w \in Seq(Int) /\ Len(u \o w) = k + m
      /\ \A j \in 1 .. k + m : (u \o w)[j] = IF j <= k THEN u[j] ELSE w[j - k]
  BY ConcatProperties
<1>3. ASSUME NEW j \in 1 .. k + m PROVE (u \o w)[j] \notin S
  <2>1. CASE j <= k
    <3>1. j \in 1 .. k
      BY <1>1, <2>1
    <3> QED
      BY <1>2, <2>1, <3>1 DEF Without
  <2>2. CASE ~(j <= k)
    <3>1. j - k \in 1 .. m
      BY <1>1, <2>2
    <3> QED
      BY <1>2, <2>2, <3>1 DEF Without
  <2> QED
    BY <2>1, <2>2
<1> QED
  BY <1>2, <1>3 DEF Without

LEMMA WithoutNothing == \A S : Without(<<>>, S)
BY EmptySeq DEF Without

\* What comes behind a separator is a part, up to the next one.
LEMMA SplitOver ==
  ASSUME NEW text \in Seq(Int), NEW separator \in Int, NEW q \in Bites,
         Split(text, separator) = More(q, <<>>),
         NEW w \in Seq(Int), Without(w, {separator})
  PROVE  Split(text \o w, separator) = More(q, w)
<1> DEFINE S == {u \in Seq(Int) :
                   Without(u, {separator}) => Split(text \o u, separator) = More(q, u)}
<1>1. <<>> \in S
  <2>1. text \o <<>> = text /\ <<>> \in Seq(Int)
    BY ConcatEmptySeq, EmptySeq
  <2> QED
    BY <2>1
<1>2. ASSUME NEW u \in Seq(Int), NEW c \in Int, u \in S PROVE More(u, c) \in S
  <2>1. More(u, c) \in Seq(Int)
    BY MoreTyped
  <2> SUFFICES ASSUME Without(More(u, c), {separator})
               PROVE  Split(text \o More(u, c), separator) = More(q, More(u, c))
    BY <2>1
  <2>2. Without(u, {separator}) /\ c # separator
    BY WithoutMore
  <2>3. Split(text \o u, separator) = More(q, u)
    BY <1>2, <2>2
  <2>4. text \o More(u, c) = More(text \o u, c) /\ text \o u \in Seq(Int)
    BY JoinedMore
  <2>5. Split(More(text \o u, c), separator) = Parted(Split(text \o u, separator), c, separator)
    BY <2>4, SplitMore
  <2>6. Parted(More(q, u), c, separator) = Longer(More(q, u), c)
    BY <2>2 DEF Parted
  <2>7. Longer(More(q, u), c) = More(q, More(u, c))
    BY LongerTyped
  <2> QED
    BY <2>3, <2>4, <2>5, <2>6, <2>7
<1> HIDE DEF S
<1>3. w \in S
  BY <1>1, <1>2, ByCharacter
<1> QED
  BY <1>3 DEF S

LEMMA SplitAt ==
  ASSUME NEW text \in Seq(Int), NEW separator \in Int, NEW q \in Bites,
         Split(text, separator) = More(q, <<>>),
         NEW w \in Seq(Int), Without(w, {separator})
  PROVE  Split((text \o w) \o <<separator>>, separator) = More(More(q, w), <<>>)
<1>1. text \o w \in Seq(Int)
  BY ConcatProperties
<1>2. (text \o w) \o <<separator>> = More(text \o w, separator)
  BY <1>1, AppendIsConcat DEF More
<1>3. Split(text \o w, separator) = More(q, w)
  BY SplitOver
<1>4. Split(More(text \o w, separator), separator)
        = Parted(Split(text \o w, separator), separator, separator)
  BY <1>1, SplitMore
<1> QED
  BY <1>2, <1>3, <1>4 DEF Parted

-----------------------------------------------------------------------------
(***************************************************************************)
(* The value of a text, one character after the other.                      *)
(***************************************************************************)

Valued(v, c) == IF c \in 48 .. 57 THEN 10 * v + c - 48 ELSE v

Values(g, text, n) == g[0] = 0 /\ \A j \in 1 .. n : g[j] = Valued(g[j - 1], text[j])

LEMMA ValueFollows ==
  ASSUME NEW text, NEW n \in Nat, Len(text) = n, NEW g, Values(g, text, n)
  PROVE  DecimalValue(text) = g[n]
<1>1. \A j \in 1 .. n : g[j] = IF text[j] \in 48 .. 57 THEN 10 * g[j - 1] + text[j] - 48
                               ELSE g[j - 1]
  BY DEF Values, Valued
<1>2. g[0] = 0
  BY DEF Values
<1> QED
  BY <1>1, <1>2, ValueIs

LEMMA ValueSteps ==
  ASSUME NEW text \in Seq(Int)
  PROVE  \E f \in [0 .. Len(text) -> Int] : Values(f, text, Len(text))
<1> DEFINE n == Len(text)
           g == [p \in Nat \X Int |-> IF p[1] \in 1 .. n THEN Valued(p[2], text[p[1]]) ELSE p[2]]
<1>1. n \in Nat /\ \A j \in 1 .. n : text[j] \in Int
  BY LenProperties, ElementOfSeq
<1> HIDE DEF n
<1>2. g \in Rules(Int)
  <2>1. \A v \in Int, c \in Int : Valued(v, c) \in Int
    BY DEF Valued
  <2>2. \A p \in Nat \X Int : (IF p[1] \in 1 .. n THEN Valued(p[2], text[p[1]]) ELSE p[2]) \in Int
    BY <1>1, <2>1
  <2> QED
    BY <2>2 DEF Rules
<1>3. PICK f \in [0 .. n -> Int] : Follows(f, 0, g, n)
  <2>1. 0 \in Int
    OBVIOUS
  <2> HIDE DEF g
  <2> QED
    BY <1>1, <1>2, <2>1, Recursion
<1>4. ASSUME NEW j \in 1 .. n PROVE f[j] = Valued(f[j - 1], text[j])
  <2>1. f[j] = g[<<j, f[j - 1]>>]
    BY <1>3 DEF Follows
  <2>2. <<j, f[j - 1]>> \in Nat \X Int
    BY <1>1
  <2> QED
    BY <2>1, <2>2
<1>5. f[0] = 0
  BY <1>3 DEF Follows
<1> QED
  BY <1>4, <1>5 DEF n, Values

\* One character more.
LEMMA ValueMore ==
  ASSUME NEW text \in Seq(Int), NEW c \in Int
  PROVE  /\ DecimalValue(text) \in Int
         /\ DecimalValue(More(text, c)) = Valued(DecimalValue(text), c)
<1> DEFINE n == Len(text)
           new == More(text, c)
<1>1. /\ n \in Nat /\ Len(text) = n
      /\ Len(new) = n + 1 /\ new[n + 1] = c /\ \A j \in 1 .. n : new[j] = text[j]
  <2>1. n \in Nat
    BY LenProperties
  <2>2. /\ More(text, c) \in Seq(Int) /\ Len(More(text, c)) = Len(text) + 1
        /\ \A k \in 1 .. Len(text) : More(text, c)[k] = text[k]
        /\ More(text, c)[Len(text) + 1] = c
    BY MoreTyped
  <2> QED
    BY <2>1, <2>2
<1>2. PICK f \in [0 .. n -> Int] : Values(f, text, n)
  BY ValueSteps
<1> HIDE DEF new, n
<1>3. DecimalValue(text) = f[n]
  BY <1>1, <1>2, ValueFollows
<1> DEFINE last == Valued(f[n], c)
           g == [j \in 0 .. n + 1 |-> IF j = n + 1 THEN last ELSE f[j]]
<1>4. g[0] = 0 /\ g[n + 1] = last
  BY <1>1, <1>2 DEF Values
<1>5. ASSUME NEW j \in 1 .. n + 1 PROVE g[j] = Valued(g[j - 1], new[j])
  <2> HIDE DEF last
  <2>1. j - 1 \in 0 .. n + 1 /\ j - 1 # n + 1
    BY <1>1
  <2>2. g[j - 1] = f[j - 1]
    BY <2>1
  <2>3. CASE j = n + 1
    <3>1. j - 1 = n /\ g[j] = last
      BY <1>1, <2>3
    <3> QED
      BY <1>1, <2>2, <2>3, <3>1 DEF last
  <2>4. CASE j # n + 1
    <3>1. j \in 1 .. n /\ g[j] = f[j]
      BY <1>1, <2>4
    <3> QED
      BY <1>1, <1>2, <2>2, <3>1 DEF Values
  <2> QED
    BY <2>3, <2>4
<1> HIDE DEF g, last
<1>6. DecimalValue(new) = g[n + 1]
  <2>1. Values(g, new, n + 1)
    BY <1>4, <1>5 DEF Values
  <2>2. n + 1 \in Nat
    BY <1>1
  <2> QED
    BY <1>1, <2>1, <2>2, ValueFollows
<1> QED
  BY <1>1, <1>2, <1>3, <1>4, <1>6 DEF last, new

LEMMA NoValue == DecimalValue(<<>>) = 0
<1> DEFINE g == [j \in 0 .. 0 |-> 0]
<1>1. g[0] = 0 /\ Len(<<>>) = 0 /\ 0 \in Nat
  BY EmptySeq
<1>2. \A j \in 1 .. 0 : g[j] = IF <<>>[j] \in 48 .. 57 THEN 10 * g[j - 1] + <<>>[j] - 48
                               ELSE g[j - 1]
  OBVIOUS
<1> HIDE DEF g
<1> QED
  BY <1>1, <1>2, ValueIs

\* What has no value may come before a number.
LEMMA ValueBehind ==
  ASSUME NEW u \in Seq(Int), DecimalValue(u) = 0, NEW w \in Seq(Int)
  PROVE  DecimalValue(u \o w) = DecimalValue(w)
<1> DEFINE S == {v \in Seq(Int) : DecimalValue(u \o v) = DecimalValue(v)}
<1>1. <<>> \in S
  <2>1. u \o <<>> = u /\ <<>> \in Seq(Int)
    BY ConcatEmptySeq, EmptySeq
  <2> QED
    BY <2>1, NoValue
<1>2. ASSUME NEW v \in Seq(Int), NEW c \in Int, v \in S PROVE More(v, c) \in S
  <2>1. More(v, c) \in Seq(Int)
    BY MoreTyped
  <2>2. u \o More(v, c) = More(u \o v, c) /\ u \o v \in Seq(Int)
    BY JoinedMore
  <2>3. DecimalValue(More(u \o v, c)) = Valued(DecimalValue(u \o v), c)
    BY <2>2, ValueMore
  <2>4. DecimalValue(More(v, c)) = Valued(DecimalValue(v), c)
    BY ValueMore
  <2>5. DecimalValue(u \o v) = DecimalValue(v)
    BY <1>2
  <2> QED
    BY <2>1, <2>2, <2>3, <2>4, <2>5
<1> HIDE DEF S
<1>3. w \in S
  BY <1>1, <1>2, ByCharacter
<1> QED
  BY <1>3 DEF S

\* A text of blanks has no value.
Blank(w) == \A k \in 1 .. Len(w) : w[k] = 32

LEMMA BlankHasNoValue ==
  ASSUME NEW w \in Seq(Int), Blank(w)
  PROVE  DecimalValue(w) = 0
<1> DEFINE S == {v \in Seq(Int) : Without(v, 48 .. 57) => DecimalValue(v) = 0}
<1>1. <<>> \in S
  BY EmptySeq, NoValue
<1>2. ASSUME NEW v \in Seq(Int), NEW c \in Int, v \in S PROVE More(v, c) \in S
  <2>1. More(v, c) \in Seq(Int) /\ DecimalValue(More(v, c)) = Valued(DecimalValue(v), c)
    BY MoreTyped, ValueMore
  <2>2. Without(More(v, c), 48 .. 57) => Without(v, 48 .. 57) /\ c \notin 48 .. 57
    BY WithoutMore
  <2> QED
    BY <1>2, <2>1, <2>2 DEF Valued
<1> HIDE DEF S
<1>3. w \in S
  BY <1>1, <1>2, ByCharacter
<1>4. Without(w, 48 .. 57)
  BY DEF Without, Blank
<1> QED
  BY <1>3, <1>4 DEF S

-----------------------------------------------------------------------------
(***************************************************************************)
(* METLER Tiger D: the columns of a line.                                   *)
(***************************************************************************)

\* The characters that end a column and a line.
Marks == {10, 44}

Blanks(n) == [k \in 1 .. n |-> 32]

LEMMA BlanksTyped ==
  ASSUME NEW n \in Nat
  PROVE  /\ Blanks(n) \in Seq(Int) /\ Len(Blanks(n)) = n /\ Blank(Blanks(n))
         /\ DecimalValue(Blanks(n)) = 0 /\ Without(Blanks(n), Marks)
<1>1. Blanks(n) \in Seq(Int) /\ Len(Blanks(n)) = n /\ \A k \in 1 .. n : Blanks(n)[k] = 32
  BY DEF Blanks
<1>2. Blank(Blanks(n)) /\ Without(Blanks(n), Marks)
  BY <1>1 DEF Blank, Without, Marks
<1> QED
  BY <1>1, <1>2, BlankHasNoValue

\* Blanks on the left change no value.
LEMMA PaddedText ==
  ASSUME NEW text \in Seq(Int), NEW len \in Nat
  PROVE  /\ PadLeft(text, len) \in Seq(Int)
         /\ DecimalValue(PadLeft(text, len)) = DecimalValue(text)
         /\ Without(text, Marks) => Without(PadLeft(text, len), Marks)
<1> DEFINE n == Most(0, len - Len(text))
<1>1. n \in Nat
  <2>1. Len(text) \in Nat
    BY LenProperties
  <2> QED
    BY <2>1 DEF Most
<1>2. PadLeft(text, len) = Blanks(n) \o text
  BY DEF PadLeft, Blanks
<1> HIDE DEF n
<1>3. /\ Blanks(n) \in Seq(Int) /\ DecimalValue(Blanks(n)) = 0 /\ Without(Blanks(n), Marks)
  BY <1>1, BlanksTyped
<1>4. DecimalValue(Blanks(n) \o text) = DecimalValue(text)
  BY <1>3, ValueBehind
<1>5. Blanks(n) \o text \in Seq(Int)
  BY <1>3, ConcatProperties
<1>6. Without(text, Marks) => Without(Blanks(n) \o text, Marks)
  BY <1>3, WithoutJoined
<1> QED
  BY <1>2, <1>4, <1>5, <1>6

LEMMA DigitsOnly ==
  ASSUME NEW n \in Written, NEW w \in 1 .. 9
  PROVE  Decimal(n, w) \in Seq(Int) /\ Without(Decimal(n, w), Marks)
<1>1. Decimal(n, w) \in Seq(Int) /\ Len(Decimal(n, w)) = w
  BY DecimalLength
<1>2. \A j \in 1 .. w : Decimal(n, w)[j] \in 48 .. 57
  <2> TAKE j \in 1 .. w
  <2> DEFINE k == Most(w, NumDigits(n)) - j + 1
  <2>1. k \in 1 .. 10
    BY Digits DEF Most
  <2>2. Decimal(n, w)[j] = 48 + ((n \div Ten[k]) % 10)
    BY DEF Decimal
  <2>3. Ten[k] \in Nat \ {0} /\ n \in Nat
    BY <2>1, TenTyped DEF Written
  <2> HIDE DEF k
  <2>4. n \div Ten[k] \in Nat
    BY <2>3
  <2>5. (n \div Ten[k]) % 10 \in 0 .. 9
    BY <2>4
  <2> QED
    BY <2>2, <2>5
<1> QED
  BY <1>1, <1>2 DEF Without, Marks

\* A blank and the digits of a number.
Numeral(n) == <<32>> \o Decimal(n, NumDigits(n))

LEMMA NumeralRead ==
  ASSUME NEW n \in Written
  PROVE  Numeral(n) \in Seq(Int) /\ Without(Numeral(n), Marks) /\ DecimalValue(Numeral(n)) = n
<1> DEFINE w == NumDigits(n)
           d == Decimal(n, w)
<1>1. w \in 1 .. 9 /\ n < Ten[w + 1]
  <2>1. \E k \in 1 .. 9 : n < Ten[k + 1] /\ (k = 1 \/ n >= Ten[k])
    BY SMT DEF Written, Ten
  <2> QED
    BY <2>1 DEF NumDigits
<1> HIDE DEF w
<1>2. d \in Seq(Int) /\ Without(d, Marks) /\ DecimalValue(d) = n
  BY <1>1, DigitsOnly, DecimalRead
<1> HIDE DEF d
<1>3. <<32>> \in Seq(Int) /\ Len(<<32>>) = 1 /\ <<32>>[1] = 32
  OBVIOUS
<1>4. DecimalValue(<<32>>) = 0 /\ Without(<<32>>, Marks)
  <2>1. Blank(<<32>>)
    BY <1>3 DEF Blank
  <2>2. Without(<<32>>, Marks)
    BY <1>3 DEF Without, Marks
  <2> QED
    BY <1>3, <2>1, <2>2, BlankHasNoValue
<1>5. DecimalValue(<<32>> \o d) = DecimalValue(d)
  BY <1>2, <1>3, <1>4, ValueBehind
<1>6. <<32>> \o d \in Seq(Int) /\ Without(<<32>> \o d, Marks)
  BY <1>2, <1>3, <1>4, WithoutJoined
<1> QED
  BY <1>2, <1>5, <1>6 DEF Numeral, d, w

\* A column with a number reads as the number.
LEMMA NumberColumn ==
  ASSUME NEW n \in Written, NEW len \in Nat
  PROVE  /\ IntToSpaseStr(n, len) \in Seq(Int) /\ Without(IntToSpaseStr(n, len), Marks)
         /\ DecimalValue(IntToSpaseStr(n, len)) = n
<1>1. IntToSpaseStr(n, len) = PadLeft(Numeral(n), len)
  BY DEF IntToSpaseStr, Numeral
<1> QED
  BY <1>1, NumeralRead, PaddedText

LEMMA OneBehind ==
  ASSUME NEW u \in Seq(Int), NEW c \in Int
  PROVE  /\ More(u, c) \in Seq(Int) /\ Len(More(u, c)) = Len(u) + 1
         /\ More(u, c)[Len(u) + 1] = c
         /\ \A k \in 1 .. Len(u) : More(u, c)[k] = u[k]
BY AppendProperties DEF More

\* Two characters behind a text.
LEMMA TwoBehind ==
  ASSUME NEW u \in Seq(Int), NEW d \in Seq(Int), Len(d) = 2,
         NEW a \in Int, NEW b \in Int, d[1] = a, d[2] = b
  PROVE  u \o d = More(More(u, a), b)
<1> DEFINE n == Len(u)
           v == More(u, a)
           e == More(v, b)
           f == u \o d
<1>1. n \in Nat
  BY LenProperties
<1>2. /\ f \in Seq(Int) /\ Len(f) = n + 2
      /\ \A j \in 1 .. n + 2 : f[j] = IF j <= n THEN u[j] ELSE d[j - n]
  <2>1. /\ u \o d \in Seq(Int) /\ Len(u \o d) = Len(u) + Len(d)
        /\ \A j \in 1 .. Len(u) + Len(d) : (u \o d)[j] = IF j <= Len(u) THEN u[j] ELSE d[j - Len(u)]
    BY ConcatProperties
  <2> QED
    BY <2>1
<1>3. v \in Seq(Int) /\ Len(v) = n + 1 /\ v[n + 1] = a /\ \A j \in 1 .. n : v[j] = u[j]
  BY OneBehind
<1> HIDE DEF v
<1>4. e \in Seq(Int) /\ Len(e) = Len(v) + 1 /\ e[Len(v) + 1] = b
      /\ \A j \in 1 .. Len(v) : e[j] = v[j]
  BY <1>3, OneBehind
<1> HIDE DEF n, e, f
<1>5. \A j \in 1 .. n + 2 : f[j] = e[j]
  <2> TAKE j \in 1 .. n + 2
  <2>1. CASE j = n + 2
    <3>1. ~(j <= n) /\ j - n = 2 /\ j = Len(v) + 1
      BY <1>1, <1>3, <2>1
    <3> QED
      BY <1>2, <1>4, <3>1
  <2>2. CASE j = n + 1
    <3>1. ~(j <= n) /\ j - n = 1 /\ j \in 1 .. Len(v)
      BY <1>1, <1>3, <2>2
    <3> QED
      BY <1>2, <1>3, <1>4, <2>2, <3>1
  <2>3. CASE j \in 1 .. n
    <3>1. j <= n /\ j \in 1 .. Len(v)
      BY <1>1, <1>3, <2>3
    <3> QED
      BY <1>2, <1>3, <1>4, <2>3, <3>1
  <2> QED
    BY <1>1, <2>1, <2>2, <2>3
<1>6. Len(e) = n + 2
  BY <1>1, <1>3, <1>4
<1>7. f = e
  BY <1>2, <1>4, <1>5, <1>6, SeqEqual
<1> QED
  BY <1>7 DEF e, f, v

\* Two digits behind a number.
LEMMA TwoDigits ==
  ASSUME NEW u \in Seq(Int), NEW k \in 0 .. 99
  PROVE  DecimalValue(u \o Decimal(k, 2)) = 100 * DecimalValue(u) + k
<1> DEFINE d == Decimal(k, 2)
           a == 48 + (k \div 10)
           b == 48 + (k % 10)
<1>1. k \in Written /\ k < Ten[3]
  BY SMT DEF Written, Ten
<1>2. Most(2, NumDigits(k)) = 2
  BY <1>1, DigitsFit DEF Most
<1>3. d \in Seq(Int) /\ Len(d) = 2
  BY <1>1, DecimalLength
<1>4. d[1] = a /\ d[2] = b
  <2>1. Ten[1] = 1 /\ Ten[2] = 10
    BY SMT DEF Ten
  <2>2. d[1] = 48 + ((k \div Ten[2]) % 10) /\ d[2] = 48 + ((k \div Ten[1]) % 10)
    BY <1>2 DEF Decimal
  <2>3. (k \div 10) % 10 = k \div 10 /\ k \div 1 = k
    OBVIOUS
  <2> QED
    BY <2>1, <2>2, <2>3
<1>5. a \in 48 .. 57 /\ b \in 48 .. 57 /\ 10 * (a - 48) + (b - 48) = k
  OBVIOUS
<1> HIDE DEF a, b, d
<1>6. a \in Int /\ b \in Int
  BY <1>5
<1>7. u \o d = More(More(u, a), b)
  BY <1>3, <1>4, <1>6, TwoBehind
<1>8. DecimalValue(u) \in Int /\ DecimalValue(More(u, a)) = Valued(DecimalValue(u), a)
  BY <1>6, ValueMore
<1>9. More(u, a) \in Seq(Int)
  BY <1>6, MoreTyped
<1> DEFINE v == More(u, a)
<1>10. DecimalValue(More(v, b)) = Valued(DecimalValue(v), b)
  <2> HIDE DEF v
  <2>1. v \in Seq(Int)
    BY <1>9 DEF v
  <2> QED
    BY <1>6, <2>1, ValueMore
<1>11. DecimalValue(v) = 10 * DecimalValue(u) + a - 48
  BY <1>5, <1>8 DEF Valued
<1>12. DecimalValue(More(v, b)) = 10 * DecimalValue(v) + b - 48
  BY <1>5, <1>10 DEF Valued
<1> DEFINE x == DecimalValue(u)
           y == DecimalValue(v)
<1> HIDE DEF x, y
<1>13. x \in Int /\ y = 10 * x + a - 48
  BY <1>8, <1>11 DEF x, y
<1>14. 10 * y + b - 48 = 100 * x + k
  BY <1>5, <1>13
<1> QED
  BY <1>7, <1>12, <1>14 DEF x, y, d

\* A price in hryvnias and kopecks.
Amount(kop) == Numeral(kop \div 100) \o <<46>> \o Decimal(kop % 100, 2)

LEMMA WrittenBelow ==
  /\ Written \subseteq Nat /\ 0 \in Written
  /\ \A n \in Written, m \in Nat : m <= n => m \in Written
<1>1. Ten[10] \in Nat /\ Ten[10] > 0
  BY SMT DEF Ten
<1> QED
  BY SMT, <1>1 DEF Written

LEMMA AmountRead ==
  ASSUME NEW kop \in Written
  PROVE  Amount(kop) \in Seq(Int) /\ Without(Amount(kop), Marks) /\ DecimalValue(Amount(kop)) = kop
<1> DEFINE h == kop \div 100
           k == kop % 100
           u == Numeral(h)
           v == u \o <<46>>
           d == Decimal(k, 2)
<1>1. h \in Written /\ k \in 0 .. 99 /\ k \in Written /\ 100 * h + k = kop
  <2>1. kop \in Nat /\ \A n \in Nat : n <= kop => n \in Written
    BY WrittenBelow
  <2>2. h \in Nat /\ h <= kop /\ k \in 0 .. 99 /\ k <= kop /\ 100 * h + k = kop
    BY <2>1
  <2> QED
    BY <2>1, <2>2
<1> HIDE DEF h, k
<1>2. u \in Seq(Int) /\ Without(u, Marks) /\ DecimalValue(u) = h
  BY <1>1, NumeralRead
<1>3. d \in Seq(Int) /\ Without(d, Marks)
  BY <1>1, DigitsOnly
<1> HIDE DEF u
<1>10. v = u \o <<46>>
  OBVIOUS
<1> HIDE DEF v
<1>4. v = More(u, 46) /\ v \in Seq(Int)
  <2>1. 46 \in Int
    OBVIOUS
  <2>2. More(u, 46) = u \o <<46>>
    BY <1>2, <2>1, AppendIsConcat DEF More
  <2>3. More(u, 46) \in Seq(Int)
    BY <1>2, <2>1, OneBehind
  <2> QED
    BY <1>10, <2>2, <2>3
<1>5. Without(v, Marks)
  BY <1>2, <1>4, WithoutMore DEF Marks
<1>6. DecimalValue(v) = h
  <2>1. DecimalValue(More(u, 46)) = Valued(DecimalValue(u), 46)
    BY <1>2, ValueMore
  <2> QED
    BY <1>2, <1>4, <2>1 DEF Valued
<1>7. DecimalValue(v \o d) = 100 * DecimalValue(v) + k
  BY <1>1, <1>4, TwoDigits
<1> HIDE DEF d
<1>8. v \o d \in Seq(Int) /\ Without(v \o d, Marks)
  BY <1>3, <1>4, <1>5, WithoutJoined
<1>9. DecimalValue(v \o d) = kop
  BY <1>1, <1>6, <1>7
<1> QED
  BY <1>8, <1>9 DEF Amount, v, d, u, h, k

\* A column with a price reads as the price to half a kopeck, within the limits of the driver.
LEMMA PriceColumn ==
  ASSUME NEW price \in Written, NEW len \in Nat
  PROVE  /\ DoubleToSpaseStr(price, len) \in Seq(Int)
         /\ Without(DoubleToSpaseStr(price, len), Marks)
         /\ price \in 2 .. MaxPrice => 10 * DecimalValue(DoubleToSpaseStr(price, len)) - price \in -5 .. 5
<1> DEFINE val == IF price < 2 THEN 0 ELSE Least(price, MaxPrice)
           kop == InKopecks(val, PrintedUp)
<1>1. DoubleToSpaseStr(price, len) = PadLeft(Amount(kop), len)
  BY DEF DoubleToSpaseStr, Amount, Numeral
<1>2. val \in Written /\ (price \in 2 .. MaxPrice => val = price)
  <2>1. price \in Nat /\ 0 \in Written /\ \A m \in Nat : m <= price => m \in Written
    BY WrittenBelow
  <2>2. MaxPrice \in Nat
    BY SMT DEF MaxPrice
  <2>3. val \in Nat /\ val <= price /\ (price \in 2 .. MaxPrice => val = price)
    BY <2>1, <2>2 DEF Least
  <2> QED
    BY <2>1, <2>3
<1> HIDE DEF val
<1>3. kop \in Written
  BY <1>2, KopecksWritten
<1>4. price \in 2 .. MaxPrice => 10 * kop - price \in -5 .. 5
  BY <1>2, KopecksNear DEF Written
<1> HIDE DEF kop
<1>5. Amount(kop) \in Seq(Int) /\ Without(Amount(kop), Marks) /\ DecimalValue(Amount(kop)) = kop
  BY <1>3, AmountRead
<1>6. /\ PadLeft(Amount(kop), len) \in Seq(Int)
      /\ DecimalValue(PadLeft(Amount(kop), len)) = kop
      /\ Without(PadLeft(Amount(kop), len), Marks)
  BY <1>5, PaddedText
<1> QED
  BY <1>1, <1>4, <1>6

\* A comma of a name becomes a point.
Dotted(c) == IF c = 44 THEN 46 ELSE c

LEMMA DottedShown ==
  ASSUME NEW c \in Byte
  PROVE  /\ Dotted(table(2, c)) \in Int /\ Dotted(table(2, c)) # 44
         /\ Dotted(table(2, c)) = 10 => c = 10
         /\ Dotted(c) \in Letters => Shown(2, Dotted(table(2, c))) = Drawn(Dotted(c))
<1>1. \A k \in 1 .. 64 : High[2][k] \in Int /\ High[2][k] # 44 /\ High[2][k] # 10
  <2> SUFFICES ASSUME NEW k \in 1 .. 64 PROVE High[2][k] \in Int /\ High[2][k] > 72
    BY SMT
  <2>1. High[2] = High2
    BY SMT DEF High
  <2>2. /\ k = 41 => High2[k] = 133
        /\ k = 43 => High2[k] = 192
        /\ k = 48 => High2[k] = 194
        /\ k = 51 => High2[k] = 73
        /\ k = 52 => High2[k] = 105
        /\ k = 57 => High2[k] = 165
        /\ k = 59 => High2[k] = 193
        /\ k = 64 => High2[k] = 195
        /\ k \notin {41, 43, 48, 51, 52, 57, 59, 64} => High2[k] = 127 + k
    BY DEF High2
  <2> QED
    BY SMT, <2>1, <2>2
<1>2. table(2, c) \in Int /\ (table(2, c) = 44 <=> c = 44) /\ (table(2, c) = 10 => c = 10)
  BY SMT, <1>1 DEF table, Byte
<1>3. Dotted(table(2, c)) \in Int /\ Dotted(table(2, c)) # 44
  BY <1>2 DEF Dotted
<1>4. Dotted(table(2, c)) = 10 => c = 10
  BY <1>2 DEF Dotted
<1>5. ASSUME Dotted(c) \in Letters PROVE Shown(2, Dotted(table(2, c))) = Drawn(Dotted(c))
  <2>1. \A d \in Letters : Shown(2, table(2, d)) = Drawn(d)
    BY LetterShown
  <2>2. Dotted(table(2, c)) = table(2, Dotted(c))
    <3>1. table(2, 46) = 46
      BY DEF table
    <3> QED
      BY <1>2, <3>1 DEF Dotted
  <2> QED
    BY <1>5, <2>1, <2>2
<1> QED
  BY <1>3, <1>4, <1>5

\* A text behind enough blanks, character by character.
LEMMA PaddedAt ==
  ASSUME NEW text \in Seq(Int), NEW n \in Nat, Len(text) = n, NEW len \in Nat
  PROVE  /\ PadLeft(text, len) \in Seq(Int)
         /\ Len(PadLeft(text, len)) = Most(len, n)
         /\ \A k \in 1 .. Most(len, n) :
               PadLeft(text, len)[k] = IF k <= Most(len, n) - n THEN 32
                                       ELSE text[k - (Most(len, n) - n)]
<1> DEFINE b == Most(0, len - n)
<1>1. b \in Nat /\ b = Most(len, n) - n /\ Most(len, n) = b + n
  BY DEF Most
<1>2. PadLeft(text, len) = Blanks(b) \o text
  BY DEF PadLeft, Blanks
<1> HIDE DEF b
<1>3. Blanks(b) \in Seq(Int) /\ Len(Blanks(b)) = b
  BY <1>1, BlanksTyped
<1>4. \A k \in 1 .. b : Blanks(b)[k] = 32
  BY DEF Blanks
<1> DEFINE x == Blanks(b)
<1> HIDE DEF x
<1>5. x \in Seq(Int) /\ Len(x) = b /\ \A k \in 1 .. b : x[k] = 32
  BY <1>3, <1>4 DEF x
<1> DEFINE y == x \o text
<1>6. /\ y \in Seq(Int) /\ Len(y) = b + n
      /\ \A k \in 1 .. b + n : y[k] = IF k <= b THEN x[k] ELSE text[k - b]
  <2>1. /\ x \o text \in Seq(Int) /\ Len(x \o text) = Len(x) + Len(text)
        /\ \A k \in 1 .. Len(x) + Len(text) :
              (x \o text)[k] = IF k <= Len(x) THEN x[k] ELSE text[k - Len(x)]
    BY <1>5, ConcatProperties
  <2> QED
    BY <1>5, <2>1
<1> HIDE DEF y
<1>7. \A k \in 1 .. b + n : y[k] = IF k <= b THEN 32 ELSE text[k - b]
  <2>1. \A k \in 1 .. b + n : k <= b => k \in 1 .. b
    BY <1>1
  <2> QED
    BY <1>5, <1>6, <2>1
<1>8. PadLeft(text, len) = y
  BY <1>2 DEF x, y
<1> QED
  BY <1>1, <1>6, <1>7, <1>8

\* The thirty characters a line has for a name.
LEMMA TitleAt ==
  ASSUME NEW name \in Seq(Byte)
  PROVE  LET n == Least(30, Len(name))
             title == Titled(SubSeq(name, 1, n))
         IN  /\ n \in 0 .. 30 /\ n <= Len(name)
             /\ Len(title) = 30 /\ DOMAIN title = 1 .. 30
             /\ \A k \in 1 .. 30 : title[k] = IF k <= 30 - n THEN 32
                                              ELSE Dotted(name[k - (30 - n)])
<1> DEFINE n == Least(30, Len(name))
           part == SubSeq(name, 1, n)
           w == [k \in DOMAIN part |-> IF part[k] = 44 THEN 46 ELSE part[k]]
           title == PadLeft(w, 30)
<1>0. Titled(part) = title
  BY DEF Titled
<1>1. Len(name) \in Nat /\ \A j \in 1 .. Len(name) : name[j] \in Byte
  BY LenProperties, ElementOfSeq
<1> HIDE DEF part, w, title
<1>2. n \in 0 .. 30 /\ n <= Len(name) /\ n \in Nat
  <2>1. \A l \in Nat : Least(30, l) \in 0 .. 30 /\ Least(30, l) <= l /\ Least(30, l) \in Nat
    BY DEF Least
  <2> QED
    BY <1>1, <2>1 DEF n
<1> HIDE DEF n
<1>3. part \in Seq(Byte) /\ Len(part) = n /\ \A j \in 1 .. n : part[j] = name[j]
  <2>1. \A j \in 1 .. n : name[j] \in Byte
    BY <1>1, <1>2
  <2>2. /\ part \in Seq(Byte) /\ Len(part) = IF 1 <= n THEN n - 1 + 1 ELSE 0
        /\ \A j \in 1 .. n - 1 + 1 : part[j] = name[1 + j - 1]
    BY <1>2, <2>1, SubSeqProperties DEF part
  <2>3. n - 1 + 1 = n /\ (~(1 <= n) => n = 0) /\ \A j \in 1 .. n : 1 + j - 1 = j
    BY <1>2
  <2> QED
    BY <2>2, <2>3
<1>4. DOMAIN part = 1 .. n
  BY <1>3, LenProperties
<1>5. w = [j \in 1 .. n |-> Dotted(name[j])]
  BY <1>3, <1>4 DEF Dotted, w
<1>6. \A j \in 1 .. n : Dotted(name[j]) \in Int
  <2>1. \A c \in Byte : Dotted(c) \in Int
    BY DEF Dotted, Byte
  <2>2. \A j \in 1 .. n : j \in 1 .. Len(name)
    BY <1>1, <1>2
  <2> QED
    BY <1>1, <2>1, <2>2
<1>7. w \in Seq(Int) /\ Len(w) = n
  <2>1. w \in [1 .. n -> Int]
    BY <1>5, <1>6
  <2> QED
    BY <1>2, <2>1, SeqDef, LenProperties
<1>8. \A j \in 1 .. n : w[j] = Dotted(name[j])
  BY <1>5
<1>9. Most(30, n) = 30 /\ 30 \in Nat
  BY <1>2 DEF Most
<1>10. /\ title \in Seq(Int) /\ Len(title) = Most(30, n)
       /\ \A k \in 1 .. Most(30, n) :
             title[k] = IF k <= Most(30, n) - n THEN 32 ELSE w[k - (Most(30, n) - n)]
  BY <1>2, <1>7, <1>9, PaddedAt DEF title
<1>11. DOMAIN title = 1 .. 30
  BY <1>9, <1>10, LenProperties
<1>12. \A k \in 1 .. 30 : ~(k <= 30 - n) => k - (30 - n) \in 1 .. n
  BY <1>2
<1>13. \A k \in 1 .. 30 : title[k] = IF k <= 30 - n THEN 32 ELSE Dotted(name[k - (30 - n)])
  BY <1>8, <1>9, <1>10, <1>12
<1> QED
  BY <1>0, <1>2, <1>9, <1>10, <1>11, <1>13 DEF n, part

\* The column of a name: the name as far as there is room, no commas, and a line feed
\* only where the name has one.
LEMMA NameColumn ==
  ASSUME NEW name \in Seq(Byte)
  PROVE  LET n == Least(30, Len(name))
             column == StrToSpaseStr(ConvertText(2, name, 40), 30)
         IN  /\ column \in Seq(Int) /\ Without(column, {44})
             /\ (\A k \in 1 .. n : name[k] # 10) => Without(column, Marks)
             /\ SameText(2, column, Titled(SubSeq(name, 1, n)))
<1> DEFINE l == Len(name)
           n == Least(30, l)
           m == Least(40, l)
           b == 30 - n
           text == ConvertText(2, name, 40)
           w == [j \in DOMAIN text |-> IF text[j] = 44 THEN 46 ELSE text[j]]
           p == PadLeft(w, 30)
           column == SubSeq(p, 1, 30)
           title == Titled(SubSeq(name, 1, n))
<1>0. column = StrToSpaseStr(text, 30)
  BY DEF StrToSpaseStr
<1>1. l \in Nat /\ \A j \in 1 .. l : name[j] \in Byte
  BY LenProperties, ElementOfSeq
<1>2. /\ n \in 0 .. 30 /\ n <= l /\ Len(title) = 30 /\ DOMAIN title = 1 .. 30
      /\ \A k \in 1 .. 30 : title[k] = IF k <= b THEN 32 ELSE Dotted(name[k - b])
  BY TitleAt
<1>3. Len(text) = m
  <2>1. 2 \in 1 .. 2 /\ 40 \in Nat
    OBVIOUS
  <2> HIDE DEF w, p, column, title, b, n
  <2> QED
    BY <2>1, ConvertLength
<1>4. DOMAIN text = 1 .. m /\ \A j \in 1 .. m : text[j] = table(2, name[j])
  BY DEF ConvertText
<1> HIDE DEF text, title, column, p, w
<1>5. m \in Nat /\ m <= l /\ Most(30, m) - m = b /\ Most(30, m) \in Nat /\ 30 <= Most(30, m)
  <2> HIDE DEF l
  <2>1. l \in Nat
    BY <1>1
  <2> QED
    BY <2>1 DEF Least, Most
<1>6. \A j \in 1 .. l : Dotted(table(2, name[j])) \in Int
  BY <1>1, DottedShown
<1> HIDE DEF m, n, l
<1>7. w = [j \in 1 .. m |-> Dotted(table(2, name[j]))]
  BY <1>4 DEF Dotted, w
<1>8. \A j \in 1 .. m : j \in 1 .. l
  BY <1>1, <1>5
<1>9. w \in Seq(Int) /\ Len(w) = m
  <2>1. w \in [1 .. m -> Int]
    BY <1>6, <1>7, <1>8
  <2> QED
    BY <1>5, <2>1, SeqDef, LenProperties
<1>10. \A j \in 1 .. m : w[j] = Dotted(table(2, name[j]))
  BY <1>7
<1>11. /\ p \in Seq(Int) /\ Len(p) = Most(30, m)
       /\ \A k \in 1 .. Most(30, m) :
             p[k] = IF k <= Most(30, m) - m THEN 32 ELSE w[k - (Most(30, m) - m)]
  <2> HIDE DEF b
  <2>1. \A x \in Nat : /\ PadLeft(w, x) \in Seq(Int) /\ Len(PadLeft(w, x)) = Most(x, m)
                        /\ \A k \in 1 .. Most(x, m) :
                              PadLeft(w, x)[k] = IF k <= Most(x, m) - m THEN 32
                                                 ELSE w[k - (Most(x, m) - m)]
    BY <1>5, <1>9, PaddedAt
  <2> QED
    BY <2>1 DEF p
<1> DEFINE e == Most(30, m)
<1> HIDE DEF e, b
<1>12. b \in Int /\ b <= 30 /\ b >= 0 /\ 30 - b = n /\ e \in Nat /\ 30 <= e /\ e - m = b
  BY <1>2, <1>5 DEF b, e
<1>13. /\ p \in Seq(Int) /\ Len(p) = e
       /\ \A k \in 1 .. e : p[k] = IF k <= b THEN 32 ELSE w[k - b]
  BY <1>5, <1>11 DEF e
<1>14. \A k \in 1 .. 30 : k \in 1 .. e /\ (~(k <= b) => k - b \in 1 .. m /\ k - b \in 1 .. n)
  BY <1>2, <1>5, <1>12
<1>15. /\ column \in Seq(Int) /\ Len(column) = 30
       /\ \A k \in 1 .. 30 : column[k] = p[k]
  <2>1. \A k \in 1 .. 30 : p[k] \in Int
    BY <1>13, <1>14, ElementOfSeq
  <2>2. /\ column \in Seq(Int) /\ Len(column) = IF 1 <= 30 THEN 30 - 1 + 1 ELSE 0
        /\ \A j \in 1 .. 30 - 1 + 1 : column[j] = p[1 + j - 1]
    BY <2>1, SubSeqProperties DEF column
  <2>3. \A j \in 1 .. 30 : 1 + j - 1 = j
    OBVIOUS
  <2> QED
    BY <2>2, <2>3
<1>16. \A k \in 1 .. 30 : column[k] = IF k <= b THEN 32 ELSE Dotted(table(2, name[k - b]))
  BY <1>10, <1>13, <1>14, <1>15
<1>17. \A k \in 1 .. 30 : ~(k <= b) => k - b \in 1 .. n /\ k - b \in 1 .. l /\ name[k - b] \in Byte
  BY <1>1, <1>8, <1>14
<1>18. ASSUME \A k \in 1 .. n : name[k] # 10
       PROVE  Without(column, Marks)
  <2>1. \A c \in Byte : c # 10 => Dotted(table(2, c)) \notin Marks
    BY DottedShown DEF Marks
  <2>2. 32 \notin Marks
    BY DEF Marks
  <2>3. \A k \in 1 .. 30 : column[k] \notin Marks
    BY <1>16, <1>17, <1>18, <2>1, <2>2
  <2> QED
    BY <1>15, <2>3 DEF Without
<1>20. Without(column, {44})
  <2>1. \A c \in Byte : Dotted(table(2, c)) # 44
    BY DottedShown
  <2>2. 32 # 44
    OBVIOUS
  <2>3. \A k \in 1 .. 30 : column[k] # 44
    <3> SUFFICES ASSUME NEW k \in 1 .. 30 PROVE column[k] # 44
      OBVIOUS
    <3>1. CASE k <= b
      BY <1>16, <2>2, <3>1
    <3>2. CASE ~(k <= b)
      BY <1>16, <1>17, <2>1, <3>2
    <3> QED
      BY <3>1, <3>2
  <2> QED
    BY <1>15, <2>3 DEF Without
<1>19. SameText(2, column, title)
  <2>1. Shown(2, 32) = Drawn(32)
    <3>1. 32 \in Letters /\ table(2, 32) = 32
      BY DEF Letters, table
    <3>2. \A d \in Letters : Shown(2, table(2, d)) = Drawn(d)
      BY LetterShown
    <3> QED
      BY <3>1, <3>2
  <2>2. \A c \in Byte : Dotted(c) \in Letters => Shown(2, Dotted(table(2, c))) = Drawn(Dotted(c))
    BY DottedShown
  <2>3. ASSUME NEW k \in 1 .. 30, title[k] \in Letters
        PROVE  Shown(2, column[k]) = Drawn(title[k])
    <3>1. CASE k <= b
      BY <1>2, <1>16, <2>1, <3>1
    <3>2. CASE ~(k <= b)
      BY <1>2, <1>16, <1>17, <2>2, <2>3, <3>2
    <3> QED
      BY <3>1, <3>2
  <2> QED
    BY <1>2, <1>15, <2>3 DEF SameText
<1> QED
  BY <1>0, <1>15, <1>18, <1>19, <1>20 DEF n, l, title, text

\* The text u is the first n of the columns c, each with the comma behind it.
Columns(u, n, c) ==
    /\ u \in Seq(Int) /\ Without(u, {10})
    /\ \E q \in Bites : /\ Len(q) = n /\ \A j \in 1 .. n : q[j] = c[j]
                        /\ Split(u, 44) = More(q, <<>>)

LEMMA OnePartBehind ==
  ASSUME NEW q \in Bites, NEW s \in Seq(Int)
  PROVE  /\ More(q, s) \in Bites /\ Len(More(q, s)) = Len(q) + 1
         /\ More(q, s)[Len(q) + 1] = s
         /\ \A k \in 1 .. Len(q) : More(q, s)[k] = q[k]
BY AppendProperties DEF More, Bites

LEMMA MarkIsAText == \A c \in Int : <<c>> \in Seq(Int) /\ Len(<<c>>) = 1 /\ <<c>>[1] = c
OBVIOUS

LEMMA JoinedTwice ==
  ASSUME NEW u \in Seq(Int), NEW v \in Seq(Int), NEW w \in Seq(Int)
  PROVE  (u \o v) \o w = u \o (v \o w)
BY ConcatAssociative

LEMMA AddColumn ==
  ASSUME NEW u, NEW n \in Nat, NEW c, Columns(u, n, c),
         NEW m, m = n + 1, NEW w \in Seq(Int), w = c[m], Without(w, Marks)
  PROVE  Columns(u \o (w \o <<44>>), m, c)
<1>1. /\ u \in Seq(Int) /\ Without(u, {10})
  BY DEF Columns
<1>2. PICK q \in Bites : /\ Len(q) = n /\ \A j \in 1 .. n : q[j] = c[j]
                         /\ Split(u, 44) = More(q, <<>>)
  BY DEF Columns
<1>3. Without(w, {10}) /\ Without(w, {44})
  BY DEF Without, Marks
<1>4. <<44>> \in Seq(Int) /\ Without(<<44>>, {10}) /\ 44 \in Int
  BY MarkIsAText DEF Without
<1> DEFINE comma == <<44>>
<1> HIDE DEF comma
<1>5. comma \in Seq(Int) /\ Without(comma, {10})
  BY <1>4 DEF comma
<1>6. u \o w \in Seq(Int) /\ Without(u \o w, {10})
  BY <1>1, <1>3, WithoutJoined
<1>7. (u \o w) \o comma \in Seq(Int) /\ Without((u \o w) \o comma, {10})
  BY <1>5, <1>6, WithoutJoined
<1>8. (u \o w) \o comma = u \o (w \o comma)
  BY <1>1, <1>5, JoinedTwice
<1>9. Split((u \o w) \o comma, 44) = More(More(q, w), <<>>)
  BY <1>1, <1>2, <1>3, <1>4, SplitAt DEF comma
<1>10. /\ More(q, w) \in Bites /\ Len(More(q, w)) = n + 1
       /\ \A j \in 1 .. n + 1 : More(q, w)[j] = c[j]
  <2>1. /\ More(q, w) \in Bites /\ Len(More(q, w)) = Len(q) + 1
        /\ More(q, w)[Len(q) + 1] = w
        /\ \A k \in 1 .. Len(q) : More(q, w)[k] = q[k]
    BY OnePartBehind
  <2>2. \A j \in 1 .. n + 1 : j \in 1 .. n \/ j = n + 1
    OBVIOUS
  <2> QED
    BY <1>2, <2>1, <2>2
<1> QED
  BY <1>7, <1>8, <1>9, <1>10 DEF Columns, comma

LEMMA NoColumns == ASSUME NEW c PROVE Columns(<<>>, 0, c)
<1>1. <<>> \in Seq(Int) /\ Without(<<>>, {10})
  BY WithoutNothing
<1>2. <<>> \in Bites /\ Len(<<>>) = 0
  BY NothingTyped
<1>3. Split(<<>>, 44) = More(<<>>, <<>>)
  <2>1. Split(<<>>, 44) = << <<>> >>
    BY SplitNothing
  <2>2. << <<>> >> = More(<<>>, <<>>)
    BY DEF More
  <2> QED
    BY <2>1, <2>2
<1> QED
  BY <1>1, <1>2, <1>3 DEF Columns

\* A line without the line feed.
TigerText(prefix, mod, t) ==
    LET int(n, len) == IntToSpaseStr(n, len) \o <<44>>
    IN  int(Short(t.nomen_num - prefix * 10000), 6) \o int(t.nomen_num, 13) \o int(0, 2)
          \o DoubleToSpaseStr(t.price, 8) \o <<44>> \o int(0, 2) \o int(0, 3) \o int(0, 1)
          \o int(0, 3) \o int(t.termin, 3) \o int(0, 8) \o int(0, 1) \o int(0, 1) \o int(0, 1)
          \o StrToSpaseStr(ConvertText(2, t.name, 40), 30)
          \o (IF mod = 1 THEN <<44>> ELSE <<>>)

LEMMA TigerLineIs ==
  ASSUME NEW prefix, NEW mod, NEW t
  PROVE  TigerLine(prefix, mod, t) = TigerText(prefix, mod, t) \o <<10>>
BY DEF TigerLine, TigerText

\* The columns c, of which the text u has those before the name, make the line of t.
LineOf(u, c, prefix, mod, t) ==
    /\ TigerText(prefix, mod, t) = (u \o c[14]) \o (IF mod = 1 THEN <<44>> ELSE <<>>)
    /\ DecimalValue(c[1]) = Short(t.nomen_num - prefix * 10000)
    /\ DecimalValue(c[2]) = t.nomen_num
    /\ t.price \in 2 .. MaxPrice => Priced(DecimalValue(c[4]), t)
    /\ DecimalValue(c[9]) = t.termin
    /\ c[14] = StrToSpaseStr(ConvertText(2, t.name, 40), 30)

\* A column that reads as a number.
NumberIn(a, x) == a \in Seq(Int) /\ Without(a, Marks) /\ DecimalValue(a) = x

LEMMA NumbersIn ==
  /\ \A x \in Written : /\ NumberIn(IntToSpaseStr(x, 6), x)
                         /\ NumberIn(IntToSpaseStr(x, 13), x)
                         /\ NumberIn(IntToSpaseStr(x, 1), x)
                         /\ NumberIn(IntToSpaseStr(x, 2), x)
                         /\ NumberIn(IntToSpaseStr(x, 3), x)
                         /\ NumberIn(IntToSpaseStr(x, 8), x)
<1>1. \A x \in Written, len \in Nat : NumberIn(IntToSpaseStr(x, len), x)
  BY NumberColumn DEF NumberIn
<1>2. 6 \in Nat /\ 13 \in Nat /\ 1 \in Nat /\ 2 \in Nat /\ 3 \in Nat /\ 8 \in Nat
  OBVIOUS
<1> QED
  BY <1>1, <1>2

\* The thirteen columns with a number, and the name.
LEMMA TigerColumns ==
  ASSUME NEW prefix \in Nat, NEW mod \in {0, 1}, NEW t \in Tovar
  PROVE  \E u, c : Columns(u, 13, c) /\ LineOf(u, c, prefix, mod, t)
<1>1. /\ t.nomen_num \in Written /\ t.price \in Written /\ t.termin \in Written
      /\ t.name \in Seq(Byte)
  BY DEF Tovar
<1>2. Short(t.nomen_num - prefix * 10000) \in Written /\ 0 \in Written
  <2>1. t.nomen_num - prefix * 10000 \in Int
    <3>1. \A x \in Written : x \in Nat
      BY WrittenBelow
    <3>2. \A x, y \in Nat : x - y * 10000 \in Int
      BY SMT
    <3> QED
      BY <1>1, <3>1, <3>2
  <2>2. \A n \in Int : Short(n) \in Nat /\ Short(n) < 65536
    BY SMT DEF Short
  <2>3. \A n \in Nat : n < 65536 => n \in Written
    <3>1. Ten[10] \in Int /\ Ten[10] > 65536
      BY SMT DEF Ten
    <3> DEFINE ten == Ten[10]
    <3> HIDE DEF ten
    <3>2. ten \in Int /\ ten > 65536
      BY <3>1 DEF ten
    <3>3. \A n \in Nat : n < 65536 => n \in 0 .. ten - 1
      BY SMT, <3>2
    <3> QED
      BY <3>3 DEF Written, ten
  <2> DEFINE rest == t.nomen_num - prefix * 10000
  <2> HIDE DEF rest
  <2>4. rest \in Int
    BY <2>1 DEF rest
  <2>5. Short(rest) \in Written
    BY <2>2, <2>3, <2>4
  <2> QED
    BY <2>5, WrittenBelow DEF rest
<1> DEFINE code == Short(t.nomen_num - prefix * 10000)
           a1 == IntToSpaseStr(code, 6)
           a2 == IntToSpaseStr(t.nomen_num, 13)
           a3 == IntToSpaseStr(0, 2)
           a4 == DoubleToSpaseStr(t.price, 8)
           a5 == IntToSpaseStr(0, 2)
           a6 == IntToSpaseStr(0, 3)
           a7 == IntToSpaseStr(0, 1)
           a8 == IntToSpaseStr(0, 3)
           a9 == IntToSpaseStr(t.termin, 3)
           a10 == IntToSpaseStr(0, 8)
           a11 == IntToSpaseStr(0, 1)
           a12 == IntToSpaseStr(0, 1)
           a13 == IntToSpaseStr(0, 1)
           a14 == StrToSpaseStr(ConvertText(2, t.name, 40), 30)
           c == <<a1, a2, a3, a4, a5, a6, a7,
                 a8, a9, a10, a11, a12, a13, a14>>
           u1 == a1 \o <<44>>
           u2 == u1 \o (a2 \o <<44>>)
           u3 == u2 \o (a3 \o <<44>>)
           u4 == (u3 \o a4) \o <<44>>
           u5 == u4 \o (a5 \o <<44>>)
           u6 == u5 \o (a6 \o <<44>>)
           u7 == u6 \o (a7 \o <<44>>)
           u8 == u7 \o (a8 \o <<44>>)
           u9 == u8 \o (a9 \o <<44>>)
           u10 == u9 \o (a10 \o <<44>>)
           u11 == u10 \o (a11 \o <<44>>)
           u12 == u11 \o (a12 \o <<44>>)
           u13 == u12 \o (a13 \o <<44>>)
<1>3. TigerText(prefix, mod, t) = (u13 \o a14) \o (IF mod = 1 THEN <<44>> ELSE <<>>)
  BY DEF TigerText
<1>301. u1 = a1 \o <<44>>
  OBVIOUS
<1>302. u2 = u1 \o (a2 \o <<44>>)
  OBVIOUS
<1>303. u3 = u2 \o (a3 \o <<44>>)
  OBVIOUS
<1>304. u4 = (u3 \o a4) \o <<44>>
  OBVIOUS
<1>305. u5 = u4 \o (a5 \o <<44>>)
  OBVIOUS
<1>306. u6 = u5 \o (a6 \o <<44>>)
  OBVIOUS
<1>307. u7 = u6 \o (a7 \o <<44>>)
  OBVIOUS
<1>308. u8 = u7 \o (a8 \o <<44>>)
  OBVIOUS
<1>309. u9 = u8 \o (a9 \o <<44>>)
  OBVIOUS
<1>310. u10 = u9 \o (a10 \o <<44>>)
  OBVIOUS
<1>311. u11 = u10 \o (a11 \o <<44>>)
  OBVIOUS
<1>312. u12 = u11 \o (a12 \o <<44>>)
  OBVIOUS
<1>313. u13 = u12 \o (a13 \o <<44>>)
  OBVIOUS
<1> HIDE DEF u1, u2, u3, u4, u5, u6, u7, u8, u9, u10, u11, u12, u13
<1> HIDE DEF c, code, a1, a2, a3, a4, a5, a6, a7, a8, a9, a10, a11, a12, a13, a14
<1>101. NumberIn(a1, code)
  BY <1>1, <1>2, NumbersIn DEF a1, code
<1>102. NumberIn(a2, t.nomen_num)
  BY <1>1, <1>2, NumbersIn DEF a2
<1>103. NumberIn(a3, 0)
  BY <1>1, <1>2, NumbersIn DEF a3
<1>104. /\ a4 \in Seq(Int) /\ Without(a4, Marks)
        /\ t.price \in 2 .. MaxPrice => 10 * DecimalValue(a4) - t.price \in -5 .. 5
  BY <1>1, PriceColumn DEF a4
<1>105. NumberIn(a5, 0)
  BY <1>1, <1>2, NumbersIn DEF a5
<1>106. NumberIn(a6, 0)
  BY <1>1, <1>2, NumbersIn DEF a6
<1>107. NumberIn(a7, 0)
  BY <1>1, <1>2, NumbersIn DEF a7
<1>108. NumberIn(a8, 0)
  BY <1>1, <1>2, NumbersIn DEF a8
<1>109. NumberIn(a9, t.termin)
  BY <1>1, <1>2, NumbersIn DEF a9
<1>110. NumberIn(a10, 0)
  BY <1>1, <1>2, NumbersIn DEF a10
<1>111. NumberIn(a11, 0)
  BY <1>1, <1>2, NumbersIn DEF a11
<1>112. NumberIn(a12, 0)
  BY <1>1, <1>2, NumbersIn DEF a12
<1>113. NumberIn(a13, 0)
  BY <1>1, <1>2, NumbersIn DEF a13
<1>4. /\ c[1] = a1 /\ c[2] = a2 /\ c[3] = a3 /\ c[4] = a4 /\ c[5] = a5 /\ c[6] = a6 /\ c[7] = a7
      /\ c[8] = a8 /\ c[9] = a9 /\ c[10] = a10 /\ c[11] = a11 /\ c[12] = a12 /\ c[13] = a13 /\ c[14] = a14
  BY SMT DEF c
<1>201. Columns(u1, 1, c)
  <2>1. 1 = 0 + 1 /\ 0 \in Nat
    OBVIOUS
  <2>2. Columns(<<>> \o (a1 \o <<44>>), 1, c)
    BY <1>4, <1>101, <2>1, NoColumns, AddColumn DEF NumberIn
  <2>3. <<44>> \in Seq(Int)
    BY MarkIsAText
  <2>4. a1 \o <<44>> \in Seq(Int)
    BY <1>101, <2>3, ConcatProperties DEF NumberIn
  <2>5. <<>> \o (a1 \o <<44>>) = a1 \o <<44>>
    BY <2>4, ConcatEmptySeq
  <2> QED
    BY <1>301, <2>2, <2>5
<1>202. Columns(u2, 2, c)
  <2>1. 2 = 1 + 1 /\ 1 \in Nat
    OBVIOUS
  <2> QED
    BY <1>4, <1>102, <1>201, <1>302, <2>1, AddColumn DEF NumberIn
<1>203. Columns(u3, 3, c)
  <2>1. 3 = 2 + 1 /\ 2 \in Nat
    OBVIOUS
  <2> QED
    BY <1>4, <1>103, <1>202, <1>303, <2>1, AddColumn DEF NumberIn
<1>204. Columns(u4, 4, c)
  <2>1. 4 = 3 + 1 /\ 3 \in Nat
    OBVIOUS
  <2>2. Columns(u3 \o (a4 \o <<44>>), 4, c)
    BY <1>4, <1>104, <1>203, <2>1, AddColumn DEF NumberIn
  <2>3. u3 \in Seq(Int) /\ <<44>> \in Seq(Int)
    BY <1>203, MarkIsAText DEF Columns
  <2>4. (u3 \o a4) \o <<44>> = u3 \o (a4 \o <<44>>)
    BY <1>104, <2>3, JoinedTwice
  <2> QED
    BY <1>304, <2>2, <2>4
<1>205. Columns(u5, 5, c)
  <2>1. 5 = 4 + 1 /\ 4 \in Nat
    OBVIOUS
  <2> QED
    BY <1>4, <1>105, <1>204, <1>305, <2>1, AddColumn DEF NumberIn
<1>206. Columns(u6, 6, c)
  <2>1. 6 = 5 + 1 /\ 5 \in Nat
    OBVIOUS
  <2> QED
    BY <1>4, <1>106, <1>205, <1>306, <2>1, AddColumn DEF NumberIn
<1>207. Columns(u7, 7, c)
  <2>1. 7 = 6 + 1 /\ 6 \in Nat
    OBVIOUS
  <2> QED
    BY <1>4, <1>107, <1>206, <1>307, <2>1, AddColumn DEF NumberIn
<1>208. Columns(u8, 8, c)
  <2>1. 8 = 7 + 1 /\ 7 \in Nat
    OBVIOUS
  <2> QED
    BY <1>4, <1>108, <1>207, <1>308, <2>1, AddColumn DEF NumberIn
<1>209. Columns(u9, 9, c)
  <2>1. 9 = 8 + 1 /\ 8 \in Nat
    OBVIOUS
  <2> QED
    BY <1>4, <1>109, <1>208, <1>309, <2>1, AddColumn DEF NumberIn
<1>210. Columns(u10, 10, c)
  <2>1. 10 = 9 + 1 /\ 9 \in Nat
    OBVIOUS
  <2> QED
    BY <1>4, <1>110, <1>209, <1>310, <2>1, AddColumn DEF NumberIn
<1>211. Columns(u11, 11, c)
  <2>1. 11 = 10 + 1 /\ 10 \in Nat
    OBVIOUS
  <2> QED
    BY <1>4, <1>111, <1>210, <1>311, <2>1, AddColumn DEF NumberIn
<1>212. Columns(u12, 12, c)
  <2>1. 12 = 11 + 1 /\ 11 \in Nat
    OBVIOUS
  <2> QED
    BY <1>4, <1>112, <1>211, <1>312, <2>1, AddColumn DEF NumberIn
<1>213. Columns(u13, 13, c)
  <2>1. 13 = 12 + 1 /\ 12 \in Nat
    OBVIOUS
  <2> QED
    BY <1>4, <1>113, <1>212, <1>313, <2>1, AddColumn DEF NumberIn
<1>5. t.price \in 2 .. MaxPrice => Priced(DecimalValue(a4), t)
  BY <1>104 DEF Priced
<1>6. LineOf(u13, c, prefix, mod, t)
  <2>1. TigerText(prefix, mod, t) = (u13 \o c[14]) \o (IF mod = 1 THEN <<44>> ELSE <<>>)
    BY <1>3, <1>4
  <2>2. DecimalValue(c[1]) = Short(t.nomen_num - prefix * 10000)
    BY <1>4, <1>101 DEF code, NumberIn
  <2>3. DecimalValue(c[2]) = t.nomen_num
    BY <1>4, <1>102 DEF NumberIn
  <2>4. t.price \in 2 .. MaxPrice => Priced(DecimalValue(c[4]), t)
    BY <1>4, <1>5
  <2>5. DecimalValue(c[9]) = t.termin
    BY <1>4, <1>109 DEF NumberIn
  <2>6. c[14] = StrToSpaseStr(ConvertText(2, t.name, 40), 30)
    BY <1>4 DEF a14
  <2> QED
    BY <2>1, <2>2, <2>3, <2>4, <2>5, <2>6 DEF LineOf
<1> QED
  BY <1>6, <1>213

\* A line of plu.txt reads back as the good: fourteen or fifteen columns whatever is in
\* the name, the number without its prefix in sixteen bits, the code, the price within
\* the limits of the driver, the days, the name in its column.
THEOREM TigerReads ==
  ASSUME NEW prefix \in Nat, NEW mod \in {0, 1}, NEW t \in Tovar
  PROVE  /\ TigerSays(TigerText(prefix, mod, t), prefix, mod, t)
         /\ TigerText(prefix, mod, t) \in Seq(Int)
         /\ OneLine(t.name) => Without(TigerText(prefix, mod, t), {10})
<1> DEFINE r == TigerText(prefix, mod, t)
           n == Least(30, Len(t.name))
           title == Titled(SubSeq(t.name, 1, n))
<1> HIDE DEF r, n, title
<1>1. PICK u, c : Columns(u, 13, c) /\ LineOf(u, c, prefix, mod, t)
  BY TigerColumns
<1>2. /\ u \in Seq(Int) /\ Without(u, {10})
  BY <1>1 DEF Columns
<1>3. PICK q \in Bites : /\ Len(q) = 13 /\ \A j \in 1 .. 13 : q[j] = c[j]
                         /\ Split(u, 44) = More(q, <<>>)
  BY <1>1 DEF Columns
<1> DEFINE w == c[14]
<1> HIDE DEF w
<1>4. t.name \in Seq(Byte)
  BY DEF Tovar
<1>5. /\ w \in Seq(Int) /\ Without(w, {44}) /\ SameText(2, w, title)
      /\ OneLine(t.name) => Without(w, {10})
  <2> DEFINE v == StrToSpaseStr(ConvertText(2, t.name, 40), 30)
  <2> HIDE DEF v
  <2>1. /\ v \in Seq(Int) /\ Without(v, {44}) /\ SameText(2, v, title)
        /\ OneLine(t.name) => Without(v, Marks)
    BY <1>4, NameColumn DEF v, title, n, OneLine
  <2>2. w = v
    BY <1>1 DEF w, v, LineOf
  <2>3. Without(v, Marks) => Without(v, {10})
    BY DEF Without, Marks
  <2> QED
    BY <2>1, <2>2, <2>3
<1>6. u \o w \in Seq(Int) /\ (OneLine(t.name) => Without(u \o w, {10}))
  <2>1. u \o w \in Seq(Int)
    BY <1>2, <1>5, ConcatProperties
  <2>2. Without(w, {10}) => Without(u \o w, {10})
    BY <1>2, <1>5, WithoutJoined
  <2> QED
    BY <1>5, <2>1, <2>2
<1>7. 44 \in Int /\ 13 \in Nat
  OBVIOUS
<1>8. Split(u \o w, 44) = More(q, w)
  BY <1>2, <1>3, <1>5, <1>7, SplitOver
<1> DEFINE part == More(q, w)
<1> HIDE DEF part
<1>9. /\ part \in Bites /\ Len(part) = 14 /\ part[14] = w
      /\ \A j \in 1 .. 13 : part[j] = c[j]
  <2>1. /\ More(q, w) \in Bites /\ Len(More(q, w)) = Len(q) + 1
        /\ More(q, w)[Len(q) + 1] = w
        /\ \A k \in 1 .. Len(q) : More(q, w)[k] = q[k]
    BY <1>5, OnePartBehind
  <2>2. 13 + 1 = 14
    OBVIOUS
  <2> QED
    BY <1>3, <2>1, <2>2 DEF part
<1>10. ASSUME NEW e \in Bites, Split(r, 44) = e, Len(e) = 14 + mod,
              \A j \in 1 .. 14 : e[j] = part[j]
       PROVE  TigerSays(r, prefix, mod, t)
  <2>1. 1 \in 1 .. 14 /\ 2 \in 1 .. 14 /\ 4 \in 1 .. 14 /\ 9 \in 1 .. 14 /\ 14 \in 1 .. 14
    OBVIOUS
  <2>2. e[14] = w /\ e[1] = part[1] /\ e[2] = part[2] /\ e[4] = part[4] /\ e[9] = part[9]
    BY <1>9, <1>10, <2>1
  <2>3. 1 \in 1 .. 13 /\ 2 \in 1 .. 13 /\ 4 \in 1 .. 13 /\ 9 \in 1 .. 13
    OBVIOUS
  <2>4. e[1] = c[1] /\ e[2] = c[2] /\ e[4] = c[4] /\ e[9] = c[9]
    BY <1>9, <2>2, <2>3
  <2>5. SameText(2, e[14], Titled(SubSeq(t.name, 1, Least(30, Len(t.name)))))
    BY <1>5, <2>2 DEF title, n
  <2>6. /\ DecimalValue(c[1]) = Short(t.nomen_num - prefix * 10000)
        /\ DecimalValue(c[2]) = t.nomen_num
        /\ t.price \in 2 .. MaxPrice => Priced(DecimalValue(c[4]), t)
        /\ DecimalValue(c[9]) = t.termin
    BY <1>1 DEF LineOf
  <2>7. /\ DecimalValue(e[1]) = Short(t.nomen_num - prefix * 10000)
        /\ DecimalValue(e[2]) = t.nomen_num
        /\ t.price \in 2 .. MaxPrice => Priced(DecimalValue(e[4]), t)
        /\ DecimalValue(e[9]) = t.termin
    BY <2>4, <2>6
  <2> DEFINE Said(column) ==
                /\ Len(column) = 14 + mod
                /\ DecimalValue(column[1]) = Short(t.nomen_num - prefix * 10000)
                /\ DecimalValue(column[2]) = t.nomen_num
                /\ t.price \in 2 .. MaxPrice => Priced(DecimalValue(column[4]), t)
                /\ DecimalValue(column[9]) = t.termin
                /\ SameText(2, column[14], Titled(SubSeq(t.name, 1, Least(30, Len(t.name)))))
  <2>8. TigerSays(r, prefix, mod, t) <=> Said(Split(r, 44))
    BY DEF TigerSays
  <2>9. Said(e)
    BY <1>10, <2>5, <2>7
  <2> HIDE DEF Said
  <2> QED
    BY <1>10, <2>8, <2>9
<1>11. CASE mod = 0
  <2>1. r = u \o w
    <3>1. mod # 1
      BY <1>11
    <3>2. r = (u \o w) \o <<>>
      BY <1>1, <3>1 DEF r, w, LineOf
    <3> QED
      BY <1>6, <3>2, ConcatEmptySeq
  <2>2. Split(r, 44) = part
    BY <1>8, <2>1 DEF part
  <2>3. Len(part) = 14 + mod
    BY <1>9, <1>11
  <2>4. TigerSays(r, prefix, mod, t)
    BY <1>9, <1>10, <2>2, <2>3
  <2> QED
    BY <1>6, <2>1, <2>4 DEF r
<1>12. CASE mod = 1
  <2> DEFINE comma == <<44>>
  <2> HIDE DEF comma
  <2>1. comma \in Seq(Int) /\ Without(comma, {10})
    BY MarkIsAText DEF comma, Without
  <2>2. r = (u \o w) \o comma
    BY <1>1, <1>12 DEF r, w, LineOf, comma
  <2>3. Split(r, 44) = More(part, <<>>)
    <3>1. Split((u \o w) \o <<44>>, 44) = More(More(q, w), <<>>)
      BY <1>2, <1>3, <1>5, <1>7, SplitAt
    <3> QED
      BY <2>2, <3>1 DEF comma, part
  <2>4. <<>> \in Seq(Int)
    OBVIOUS
  <2>5. /\ More(part, <<>>) \in Bites /\ Len(More(part, <<>>)) = Len(part) + 1
        /\ \A j \in 1 .. Len(part) : More(part, <<>>)[j] = part[j]
    BY <1>9, <2>4, OnePartBehind
  <2>6. Len(More(part, <<>>)) = 14 + mod
    BY <1>9, <1>12, <2>5
  <2>7. TigerSays(r, prefix, mod, t)
    BY <1>9, <1>10, <2>3, <2>5, <2>6
  <2>8. r \in Seq(Int)
    BY <1>6, <2>1, <2>2, ConcatProperties
  <2>9. Without(u \o w, {10}) => Without(r, {10})
    BY <1>6, <2>1, <2>2, WithoutJoined
  <2> QED
    BY <1>6, <2>7, <2>8, <2>9 DEF r
<1> QED
  BY <1>11, <1>12

-----------------------------------------------------------------------------
(***************************************************************************)
(* METLER Tiger D: the lines of a file.                                     *)
(***************************************************************************)

\* The lines q, each with the line feed behind it, make the file f.
LinesOf(f, q) == f \in Seq(Int) /\ Split(f, 10) = More(q, <<>>)

LEMMA NoLines == LinesOf(<<>>, <<>>)
<1>1. Split(<<>>, 10) = << <<>> >>
  BY SplitNothing
<1>2. << <<>> >> = More(<<>>, <<>>)
  BY DEF More
<1>3. <<>> \in Seq(Int)
  OBVIOUS
<1> QED
  BY <1>1, <1>2, <1>3 DEF LinesOf

LEMMA AddLine ==
  ASSUME NEW f, NEW q \in Bites, LinesOf(f, q), NEW w \in Seq(Int), Without(w, {10})
  PROVE  LinesOf(f \o (w \o <<10>>), More(q, w)) /\ More(q, w) \in Bites
<1>1. f \in Seq(Int) /\ Split(f, 10) = More(q, <<>>)
  BY DEF LinesOf
<1>2. 10 \in Int /\ <<10>> \in Seq(Int)
  BY MarkIsAText
<1>3. Split((f \o w) \o <<10>>, 10) = More(More(q, w), <<>>)
  BY <1>1, <1>2, SplitAt
<1> DEFINE feed == <<10>>
<1> HIDE DEF feed
<1>4. feed \in Seq(Int)
  BY <1>2 DEF feed
<1>5. (f \o w) \o feed = f \o (w \o feed)
  BY <1>1, <1>4, JoinedTwice
<1>6. w \o feed \in Seq(Int)
  BY <1>4, ConcatProperties
<1>7. f \o (w \o feed) \in Seq(Int)
  BY <1>1, <1>6, ConcatProperties
<1>8. More(q, w) \in Bites
  BY OnePartBehind
<1> QED
  BY <1>3, <1>5, <1>7, <1>8 DEF LinesOf, feed

\* The lines are what the reader of a file gets.
LEMMA LinesRead ==
  ASSUME NEW f, NEW q \in Bites, LinesOf(f, q)
  PROVE  TigerLines(f) = q
<1> DEFINE n == Len(q)
           e == More(q, <<>>)
<1>1. <<>> \in Seq(Int) /\ n \in Nat
  BY LenProperties DEF Bites
<1>2. e \in Bites /\ Len(e) = n + 1 /\ \A k \in 1 .. n : e[k] = q[k]
  BY <1>1, OnePartBehind
<1> HIDE DEF e
<1>3. TigerLines(f) = SubSeq(e, 1, Len(e) - 1)
  BY DEF TigerLines, LinesOf, e
<1>4. Len(e) - 1 = n
  BY <1>1, <1>2
<1>5. \A k \in 1 .. n : e[k] \in Seq(Int)
  BY <1>1, <1>2, ElementOfSeq DEF Bites
<1> HIDE DEF n
<1>6. /\ SubSeq(e, 1, n) \in Seq(Seq(Int)) /\ Len(SubSeq(e, 1, n)) = IF 1 <= n THEN n - 1 + 1 ELSE 0
      /\ \A k \in 1 .. n - 1 + 1 : SubSeq(e, 1, n)[k] = e[1 + k - 1]
  BY <1>1, <1>5, SubSeqProperties
<1> DEFINE s == SubSeq(e, 1, n)
<1> HIDE DEF s
<1>7. /\ s \in Seq(Seq(Int)) /\ Len(s) = n /\ \A k \in 1 .. n : s[k] = e[k]
  <2>1. n - 1 + 1 = n /\ (~(1 <= n) => n = 0) /\ \A k \in 1 .. n : 1 + k - 1 = k
    BY <1>1
  <2> QED
    BY <1>6, <2>1 DEF s
<1>8. \A k \in 1 .. n : s[k] = q[k]
  BY <1>2, <1>7
<1>9. s = q
  BY <1>7, <1>8, SeqEqual DEF n, Bites
<1> QED
  BY <1>3, <1>4, <1>9 DEF s

=============================================================================
