---------------------------- MODULE LibraRecords ----------------------------
(***************************************************************************)
(* What the scale drivers of libra.dll write for one good: numbers and text *)
(* as sprintf, memcpy and the code tables make them, and the record of each *)
(* driver as a sequence of bytes.                                           *)
(*                                                                          *)
(* A price is a number of thousandths of a hryvnia, a byte a number, a text *)
(* a sequence of bytes of the code page 1251 without the final NUL.         *)
(* A number has nine digits at most and a name less than 128 characters.    *)
(*                                                                          *)
(* The programs multiply and print prices as doubles, and most prices of a  *)
(* half kopeck are not doubles: 2.675 times 100 is 267.5, though 2.675 is   *)
(* printed as 2.67, and 1.005 times 100 is below 100.5.  Which of them go   *)
(* up is a parameter of the module; any other price is too far from a half  *)
(* for the error of a double to matter.                                     *)
(***************************************************************************)
EXTENDS Integers, Sequences

CONSTANTS RoundedUp,  \* the prices of a half kopeck whose product with 100 is not below it
          PrintedUp   \* those that sprintf("%.2f") prints upwards

Byte == 0 .. 255
Least(a, b) == IF a < b THEN a ELSE b
Most(a, b) == IF a < b THEN b ELSE a

\* Ten[k + 1] is 10^k.
Ten == <<1, 10, 100, 1000, 10000, 100000, 1000000, 10000000, 100000000, 1000000000>>
Written == 0 .. Ten[10] - 1

\* struct XLibraTovar; the date is <<day, month, the last two digits of the year>>.
Tovar == [nomen_num : Written, art_num : Written, name : {s \in Seq(Byte) : Len(s) < 128},
          price : Written, date : Byte \X Byte \X Byte, termin : Written]

-----------------------------------------------------------------------------
(***************************************************************************)
(* Numbers.                                                                 *)
(***************************************************************************)

\* A price in kopecks, the next one when the rest is above a half, or a half that goes up.
InKopecks(price, up) ==
    (price \div 10) + (IF price % 10 > 5 \/ (price % 10 = 5 /\ price \in up) THEN 1 ELSE 0)

\* Around_0 of the product of the price and 100.
Kopecks(tovar) == InKopecks(tovar.price, RoundedUp)

NumDigits(n) == CHOOSE k \in 1 .. 9 : n < Ten[k + 1] /\ (k = 1 \/ n >= Ten[k])

\* The first w characters of sprintf("%0*d", w, n): a longer number loses its end.
Decimal(n, w) ==
    [i \in 1 .. w |-> 48 + ((n \div Ten[Most(w, NumDigits(n)) - i + 1]) % 10)]

HexDigit(d) == IF d < 10 THEN 48 + d ELSE 55 + d

\* sprintf("%02X") of every byte.
Hex(bytes) ==
    [i \in 1 .. 2 * Len(bytes) |->
        HexDigit(IF i % 2 = 1 THEN bytes[(i + 1) \div 2] \div 16 ELSE bytes[i \div 2] % 16)]

\* memcpy of the first k bytes of an int; Power[i] is 256^(i-1).
Power == <<1, 256, 65536, 16777216>>
Bytes(n, k) ==
    [i \in 1 .. k |-> IF n >= 0 THEN (n \div Power[i]) % 256
                                ELSE 255 - (((-n - 1) \div Power[i]) % 256)]
Zeros(k) == [i \in 1 .. k |-> 0]

-----------------------------------------------------------------------------
(***************************************************************************)
(* Text.                                                                    *)
(***************************************************************************)

\* The second half of the code table 2 (of all but DIGI) up to 0xBF, where it follows
\* no rule.
High2 ==
    [i \in 1 .. 64 |->
        CASE i = 41 -> 133 [] i = 43 -> 192 [] i = 48 -> 194 [] i = 51 -> 73
          [] i = 52 -> 105 [] i = 57 -> 165 [] i = 59 -> 193 [] i = 64 -> 195
          [] OTHER -> 127 + i]

\* The same of both tables; the first is that of DIGI.
High ==
    << << 63, 63, 39, 63, 34, 58, 197, 216, 63, 37, 63, 60, 63, 63, 63, 63,
          63, 39, 39, 34, 34, 7, 45, 45, 63, 84, 63, 62, 63, 63, 63, 63,
          255, 246, 247, 63, 253, 63, 179, 21, 240, 99, 242, 60, 191, 45, 82, 244,
          248, 43, 73, 105, 63, 231, 20, 250, 241, 252, 243, 62, 63, 63, 63, 245 >>,
       High2 >>

\* table[code_page][c]
table(page, c) ==
    IF c < 128 THEN c
    ELSE IF c < 192 THEN High[page][c - 127]
    ELSE IF c < 240 THEN c - 64
    ELSE c - 16

ConvertText(page, text, len) ==
    [i \in 1 .. Least(len, Len(text)) |-> table(page, text[i])]

PadLeft(text, len) == [i \in 1 .. Most(0, len - Len(text)) |-> 32] \o text

\* sprintf("% *d"): the blank for the sign makes " 0" of a width of one.
IntToSpaseStr(n, len) == PadLeft(<<32>> \o Decimal(n, NumDigits(n)), len)

\* The greatest price of a record of Tiger D.
MaxPrice == 99999990

\* sprintf("% *.2f") of a price in thousandths, within the limits of the driver.
DoubleToSpaseStr(price, len) ==
    LET val == IF price < 2 THEN 0 ELSE Least(price, MaxPrice)
        kop == InKopecks(val, PrintedUp)
    IN  PadLeft(<<32>> \o Decimal(kop \div 100, NumDigits(kop \div 100))
                  \o <<46>> \o Decimal(kop % 100, 2), len)

\* (a plausible bug: the commas of a name stay)
StrToSpaseStr_Commas(text, len) == SubSeq(PadLeft(text, len), 1, len)

\* A comma separates the columns of a line, so one in a name becomes a point.
StrToSpaseStr(text, len) ==
    SubSeq(PadLeft([i \in DOMAIN text |-> IF text[i] = 44 THEN 46 ELSE text[i]], len), 1, len)

-----------------------------------------------------------------------------
(***************************************************************************)
(* Records.                                                                 *)
(***************************************************************************)

\* The name of a DIGI record, before it is written in hex: one line in a large font,
\* or two lines in a small one, the first of twenty characters.
StrFormat(name) ==
    LET text == ConvertText(1, name, Len(name))
        len0 == Least(Len(name), 20)
        len1 == Len(name) - len0
    IN  IF len1 = 0 THEN <<8, len0>> \o text \o <<12, 0>>
        ELSE <<4, len0>> \o SubSeq(text, 1, 20) \o <<13, 4, len1>>
               \o SubSeq(text, 21, Len(name)) \o <<12, 0>>

\* (a plausible bug: the size without its own four characters)
DigiSize_NoSelf(name) == (52 + Len(name)) \div 2

\* nSize: the bytes of a record, two characters each, of which 56 precede the name.
DigiSize(name) == (56 + Len(name)) \div 2

\* XLibraDIGI_SM::ProgrammingTovar.
DigiRecord(prefix, t) ==
    LET name == Hex(StrFormat(t.name))
        bcode == Decimal(prefix, Most(2, NumDigits(prefix)))
                   \o Decimal(t.nomen_num, Most(6, NumDigits(t.nomen_num))) \o Decimal(0, 6)
    IN  Decimal(t.art_num, 8) \o Hex(<<DigiSize(name) \div 256, DigiSize(name) % 256>>)
          \o Hex(<<84, 0>>) \o Hex(<<13, 38, 1>>)
          \o Decimal(Kopecks(t), 8) \o Hex(<<17>>) \o Hex(<<4>>) \o SubSeq(bcode, 1, 14)
          \o Decimal(t.termin, 4) \o Hex(<<1>>) \o Hex(<<1>>) \o name

SumOf(bytes) ==
    LET sum[i \in 0 .. Len(bytes)] == IF i = 0 THEN 0 ELSE sum[i - 1] + bytes[i]
    IN  sum[Len(bytes)]

\* nSize: the bytes behind it, the sum included.
VpmSize(name) == 47 + Len(name)

\* The record of the MASSA-K VPM, but for the number of the good and the time to sell.
VpmRecord(plu, prefix, t, sell) ==
    LET body == Bytes(plu, 4) \o Bytes(VpmSize(t.name), 2) \o <<0, 1>>
                  \o <<1, 1, prefix % 256>> \o Bytes(Kopecks(t), 4) \o Zeros(4)
                  \o Bytes(plu, 4) \o Zeros(6) \o sell \o <<32, 32, 32, 48>> \o Zeros(4)
                  \o <<6, Len(t.name)>> \o t.name \o <<13>> \o <<0, 0, 13>> \o <<0, 0, 13>>
    IN  Append(body, SumOf(body) % 256)

\* XLibraMassaK_VPM::ProgrammingTovar.  The last two bytes of nDate1 are copied from
\* behind a variable of four.
VpmTovar(prefix, t, stray) ==
    VpmRecord(t.nomen_num - prefix * 10000, prefix, t, Bytes(t.termin * 1440, 4) \o stray)

\* An unsigned short: the low sixteen bits.
Short(n) == n % 65536

\* XLibraTigerD::ProgrammingTovar: a line of plu.txt.
TigerLine(prefix, mod, t) ==
    LET int(n, len) == IntToSpaseStr(n, len) \o <<44>>
    IN  int(Short(t.nomen_num - prefix * 10000), 6) \o int(t.nomen_num, 13) \o int(0, 2)
          \o DoubleToSpaseStr(t.price, 8) \o <<44>> \o int(0, 2) \o int(0, 3) \o int(0, 1)
          \o int(0, 3) \o int(t.termin, 3) \o int(0, 8) \o int(0, 1) \o int(0, 1) \o int(0, 1)
          \o StrToSpaseStr(ConvertText(2, t.name, 40), 30)
          \o (IF mod = 1 THEN <<44>> ELSE <<>>) \o <<10>>

\* (a plausible bug: the code is not freed of the number of the scale)
VpRecord_Whole(number, t) ==
    LET name == ConvertText(2, t.name, 40)
    IN  <<0>> \o Bytes(Short(t.nomen_num), 3) \o Bytes(Kopecks(t), 3) \o Zeros(2)
          \o <<t.date[3], t.date[2], t.date[1]>> \o name \o Zeros(48 - Len(name))

\* XLibraMassaK_VP::ProgrammingTovar: the last of the four messages.
VpRecord(number, t) ==
    LET name == ConvertText(2, t.name, 40)
    IN  <<0>> \o Bytes(Short(t.nomen_num - number * 10000), 3) \o Bytes(Kopecks(t), 3) \o Zeros(2)
          \o <<t.date[3], t.date[2], t.date[1]>> \o name \o Zeros(48 - Len(name))

\* XLibraLP::ProgrammingTovar: the parameters of the command 0x82, with the six low
\* digits of the code times a hundred, the lowest first.
LpRecord(t) ==
    LET name == ConvertText(2, t.name, 56)
        code == t.nomen_num * 100
    IN  Bytes(t.nomen_num, 4) \o [i \in 1 .. 6 |-> (code \div Ten[i]) % 10]
          \o name \o Zeros(56 - Len(name)) \o Bytes(Kopecks(t), 4) \o Zeros(13)

=============================================================================
