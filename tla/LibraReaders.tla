---------------------------- MODULE LibraReaders ----------------------------
(***************************************************************************)
(* How the records of libra.dll are read: by the tools and the scales that  *)
(* get them, which are not part of the repository.  A reader follows the    *)
(* sizes and separators that are in the data and knows the layout only, so  *)
(* it is the reference the writers of LibraRecords are compared with.       *)
(***************************************************************************)
EXTENDS LibraRecords

\* The value of the digits of a text; blanks and the point are passed over.
DecimalValue(text) ==
    LET value[i \in 0 .. Len(text)] ==
            IF i = 0 THEN 0
            ELSE IF text[i] \in 48 .. 57 THEN 10 * value[i - 1] + text[i] - 48
            ELSE value[i - 1]
    IN  value[Len(text)]

HexValue(c) == IF c < 58 THEN c - 48 ELSE c - 55
HexBytes(text) ==
    [i \in 1 .. Len(text) \div 2 |-> 16 * HexValue(text[2 * i - 1]) + HexValue(text[2 * i])]

\* An int of three or four bytes.
IntOf(b) ==
    LET low(c) == c[1] + 256 * c[2] + 65536 * c[3]
    IN  IF Len(b) = 3 THEN low(b)
        ELSE IF b[4] < 128 THEN low(b) + 16777216 * b[4]
        ELSE -1 - (low([i \in 1 .. 3 |-> 255 - b[i]]) + 16777216 * (255 - b[4]))

\* The characters names are made of: Latin, Russian and Ukrainian, but for the
\* letter that neither code table of the scales has.
Letters == (32 .. 126) \cup (192 .. 255) \cup {170, 175, 178, 179, 186, 191}

\* The Ukrainian I is drawn as the Latin one.
Drawn(c) == CASE c = 178 -> 73 [] c = 179 -> 105 [] OTHER -> c

\* What a scale shows for a byte of its code page.
Shown(page, b) == CHOOSE c \in Letters \ {178, 179} : table(page, c) = b
SameText(page, text, name) ==
    /\ Len(text) = Len(name)
    /\ \A i \in DOMAIN name : name[i] \in Letters => Shown(page, text[i]) = Drawn(name[i])

\* The parts of a text between separators.
Split(text, separator) ==
    LET parts[i \in 0 .. Len(text)] ==
            IF i = 0 THEN << <<>> >>
            ELSE LET p == parts[i - 1]
                 IN  IF text[i] = separator THEN Append(p, <<>>)
                     ELSE [p EXCEPT ![Len(p)] = Append(@, text[i])]
    IN  parts[Len(text)]

\* A number of kopecks is the price of a good, to half a kopeck.
Priced(kopecks, t) == 10 * kopecks - t.price \in -5 .. 5

-----------------------------------------------------------------------------
(***************************************************************************)
(* DIGI SM.                                                                 *)
(***************************************************************************)

\* The records of a file of records that begin with their length: next[p] is where
\* the record at p ends, 0 when there is none.
Records(file, next) ==
    LET from[p \in 1 .. Len(file) + 1] ==
            IF p > Len(file) THEN <<>>
            ELSE IF next[p] \notin p + 1 .. Len(file) + 1 THEN << <<>> >>
            ELSE << SubSeq(file, p, next[p] - 1) >> \o from[next[p]]
    IN  from[1]

DigiNext(file) ==
    [p \in DOMAIN file |->
        IF p + 11 > Len(file) THEN 0
        ELSE LET size == HexBytes(SubSeq(file, p + 8, p + 11))
             IN  p + 2 * (256 * size[1] + size[2])]
DigiRecords(file) == Records(file, DigiNext(file))

\* The one or two lines of a name; the empty text when the lengths do not fit.
DigiName(b) ==
    LET len0 == b[2]
        line0 == SubSeq(b, 3, 2 + len0)
    IN  CASE Len(b) = len0 + 4 /\ b[len0 + 3] = 12 -> line0
          [] Len(b) > len0 + 6 /\ b[len0 + 3] = 13 /\ Len(b) = len0 + 7 + b[len0 + 5] ->
                line0 \o SubSeq(b, len0 + 6, len0 + 5 + b[len0 + 5])
          [] OTHER -> <<>>

\* The record r says what is known of the good t, field by field; a number only if it
\* has room, since a longer one loses digits.
DigiSays(r, prefix, t) ==
    /\ Len(r) > 60
    /\ t.art_num < Ten[9] => DecimalValue(SubSeq(r, 1, 8)) = t.art_num
    /\ t.price < Ten[10] - 5 => Priced(DecimalValue(SubSeq(r, 23, 30)), t)
    /\ t.nomen_num < Ten[7] => DecimalValue(SubSeq(r, 35, 42)) = prefix * Ten[7] + t.nomen_num
    /\ t.termin < Ten[5] => DecimalValue(SubSeq(r, 49, 52)) = t.termin
    /\ SameText(1, DigiName(HexBytes(SubSeq(r, 57, Len(r)))), t.name)

-----------------------------------------------------------------------------
(***************************************************************************)
(* MASSA-K VPM.                                                             *)
(***************************************************************************)

VpmNext(file) ==
    [p \in DOMAIN file |->
        IF p + 5 > Len(file) THEN 0 ELSE p + 6 + file[p + 4] + 256 * file[p + 5]]
VpmRecords(file) == Records(file, VpmNext(file))

\* The sum is right, the text has the length it states and ends where the sum begins.
\* The time to sell is in minutes, if they are an int.
VpmSays(r, prefix, t) ==
    LET len == Len(r) IN
    /\ len > 52
    /\ SumOf(SubSeq(r, 1, len - 1)) % 256 = r[len]
    /\ IntOf(SubSeq(r, 1, 4)) + prefix * 10000 = t.nomen_num
    /\ SubSeq(r, 20, 23) = SubSeq(r, 1, 4)
    /\ Priced(IntOf(SubSeq(r, 12, 15)), t)
    /\ t.termin < 1491309 => IntOf(SubSeq(r, 30, 33)) = 1440 * t.termin
    /\ r[11] = prefix
    /\ r[45] = Len(t.name) /\ len = 53 + r[45]
    /\ SubSeq(r, 46, 45 + r[45]) = t.name

-----------------------------------------------------------------------------
(***************************************************************************)
(* METLER Tiger D.                                                          *)
(***************************************************************************)

TigerLines(file) == LET lines == Split(file, 10) IN SubSeq(lines, 1, Len(lines) - 1)

\* A name has no line feed where a line has room for it.
OneLine(name) == \A k \in 1 .. Least(30, Len(name)) : name[k] # 10

\* A name has points for commas, and blanks before it.
Titled(name) == PadLeft([k \in DOMAIN name |-> IF name[k] = 44 THEN 46 ELSE name[k]], 30)

\* Fourteen columns, fifteen in the other modification.  The price stops at
\* 99999.99; of the name thirty characters stay.
TigerSays(line, prefix, mod, t) ==
    LET column == Split(line, 44)
    IN  /\ Len(column) = 14 + mod
        /\ DecimalValue(column[1]) = Short(t.nomen_num - prefix * 10000)
        /\ DecimalValue(column[2]) = t.nomen_num
        /\ t.price \in 2 .. MaxPrice => Priced(DecimalValue(column[4]), t)
        /\ DecimalValue(column[9]) = t.termin
        /\ SameText(2, column[14], Titled(SubSeq(t.name, 1, Least(30, Len(t.name)))))

-----------------------------------------------------------------------------
(***************************************************************************)
(* The scales on a COM line.                                                *)
(***************************************************************************)

\* The price is read if it has room in three bytes.
VpSays(r, number, t) ==
    LET len == Least(40, Len(t.name)) IN
    /\ Len(r) = 60
    /\ IntOf(SubSeq(r, 2, 4)) = Short(t.nomen_num - number * 10000)
    /\ t.price < 167772155 => Priced(IntOf(SubSeq(r, 5, 7)), t)
    /\ SubSeq(r, 10, 12) = <<t.date[3], t.date[2], t.date[1]>>
    /\ SameText(2, SubSeq(r, 13, 12 + len), SubSeq(t.name, 1, len))

\* The digits of the barcode are the low four digits of the code and two zeros, if the
\* code times a hundred is an int.
LpSays(r, t) ==
    LET len == Least(56, Len(t.name)) IN
    /\ Len(r) = 83
    /\ IntOf(SubSeq(r, 1, 4)) = t.nomen_num
    /\ t.nomen_num < 21474837 =>
          r[7] + 10 * r[8] + 100 * r[9] + 1000 * r[10] = t.nomen_num % 10000
    /\ Priced(IntOf(SubSeq(r, 67, 70)), t)
    /\ SameText(2, SubSeq(r, 11, 10 + len), SubSeq(t.name, 1, len))

=============================================================================
