------------------------------- MODULE Libra -------------------------------
(***************************************************************************)
(* The library of the scales, libra.dll, with all its drivers: DIGI SM,     *)
(* MASSA-K VPM and METLER Tiger D, which write a file and have a tool of    *)
(* the vendor send it, and MASSA-K VP and CAS LP, which talk to the scale.  *)
(*                                                                          *)
(* One program loads one scale again and again, as SyncCurrentScale of      *)
(* scales.dll does: connect, hand over the goods, program them, disconnect. *)
(* It looks at no result and has no try/finally: after an exception the     *)
(* object is gone from sight, with the port and the directory it took.      *)
(*                                                                          *)
(* Nothing limits three waits: for the operator before the message boxes    *)
(* of the LP, for the tool of the vendor, and for the port when it is       *)
(* written to or flushed.                                                   *)
(*                                                                          *)
(* A new object has members that nothing sets: result.critical, and in the  *)
(* VP driver ret.error, are whatever the memory held.  The list of          *)
(* connection strings has no end: what follows the four lines may be read   *)
(* as "mod=1".                                                              *)
(***************************************************************************)
EXTENDS LibraLine

CONSTANTS Drivers,    \* the types of the scale, of those below
          FileLists,  \* the lists of goods for the drivers that write a file
          LineLists,  \* those for the drivers that talk to the scale
          Prefix,     \* of the barcodes: 22 or 28, in any case two digits
          Strays      \* what may lie behind a variable of VPM: two bytes

FileDrivers == {"DIGI_SM", "VPM", "TigerD"}

ASSUME LibraAssumption ==
    /\ Drivers \subseteq FileDrivers \cup Serial
    /\ FileLists \subseteq Seq(Goods) /\ LineLists \subseteq Seq(Goods)
    /\ Prefix \in 0 .. 99 /\ Strays \subseteq Byte \X Byte

VARIABLES
    conn,        \* connection_type: "COM" or "Eithernet"
    at,          \* where the session is
    l_tovar,     \* the goods the object was given
    i,           \* the one that is being programmed
    part,        \* the message of it that is being sent
    critical,    \* result.critical
    error,       \* ret.error
    mod,         \* connection_descriptor->mod
    back_dir,    \* the directory Tiger D found and goes back to
    cwd,         \* the current directory of the program
    file,        \* tovar.dat or plu.txt of the driver
    unlucky,     \* history: the members of the object nothing set say: stop
    abandoned,   \* history: this program has left a session by an exception
    trusted      \* history: the good last reported as programmed under each number

object == <<l_tovar, i, part, critical, error, mod, back_dir, unlucky>>
vars == <<drv, conn, at, object, cwd, file, abandoned, trusted, line, faults>>

Interfaces(d) == CASE d = "LP" -> {"COM", "Eithernet"}
                   [] d = "VP" -> {"COM"}
                   [] OTHER    -> {"Eithernet"}
Lists == IF drv \in FileDrivers THEN FileLists ELSE LineLists
Errors == {"CLEAR", "TIMEOUT", "PROT"}

\* The LP has shown a message and waits for the operator: the scale did not answer to its
\* number, or a good failed.
Boxes == {"box_number", "box_result"}

TypeOK ==
    /\ drv \in Drivers /\ conn \in Interfaces(drv)
    /\ at \in Boxes \cup {"idle", "fill", "begin", "good", "write", "listen", "result", "send",
                        "close"}
    /\ l_tovar \in Seq(Goods)
    /\ i \in 1 .. Len(l_tovar) + 1 /\ (at = "fill" => i = 1)
    /\ at \in {"write", "listen", "box_number", "result"} => i <= Len(l_tovar)
    /\ part \in 1 .. 4
    /\ at \in {"write", "listen"} => drv \in Serial /\ part <= Parts(drv)
    /\ at \in Boxes => drv = "LP" /\ (at = "box_number" => part = 2)
    /\ at = "send" => drv \in FileDrivers
    /\ critical \in {0, 2} /\ error \in Errors /\ mod \in {0, 1}
    /\ back_dir \in {"home", "tiger"} /\ cwd \in {"home", "tiger"}
    /\ unlucky \in BOOLEAN /\ abandoned \in BOOLEAN
    /\ trusted \in [Numbers -> Goods \cup {NoTovar}]
    /\ LineTypeOK

Init ==
    /\ drv \in Drivers /\ conn \in Interfaces(drv)
    /\ at = "idle" /\ l_tovar = <<>> /\ i = 1 /\ part = 1
    /\ critical = 0 /\ error = "CLEAR" /\ mod = 0 /\ unlucky = FALSE
    /\ back_dir = "home" /\ cwd = "home" /\ file = <<>> /\ abandoned = FALSE
    /\ trusted = [n \in Numbers |-> NoTovar]
    /\ LineInit

-----------------------------------------------------------------------------
(***************************************************************************)
(* The session.                                                             *)
(***************************************************************************)

\* The members no constructor sets, as far as the driver reads them before it does.
NewObject ==
    /\ l_tovar' = <<>> /\ i' = 1 /\ part' = 1
    /\ critical' \in (IF drv \in FileDrivers THEN {0, 2} ELSE {0})
    /\ error' \in (IF drv = "VP" THEN Errors ELSE {"CLEAR"})
    /\ mod' \in (IF drv = "TigerD" THEN {0, 1} ELSE {0})
    /\ unlucky' = (critical' = 2 \/ error' # "CLEAR")

\* Tiger D goes to the directory of its tool and makes its files anew.
TigerConnect ==
    /\ drv = "TigerD"
    /\ back_dir' = cwd /\ cwd' = "tiger" /\ file' = <<>>
    /\ UNCHANGED <<line, faults>>

VpConnect == drv = "VP" /\ Open /\ UNCHANGED <<back_dir, cwd, file>>

LpConnect ==
    /\ drv = "LP"
    /\ IF conn = "COM" THEN Open ELSE UNCHANGED <<line, faults>>
    /\ UNCHANGED <<back_dir, cwd, file>>

\* DIGI SM and VPM do nothing before they have a file.
NoConnect == drv \in {"DIGI_SM", "VPM"} /\ UNCHANGED <<back_dir, cwd, file, line, faults>>

\* (a plausible bug: the counter of the loop outlives the object)
LibraConnect_KeepCounter ==
    /\ at = "idle" /\ at' = "fill"
    /\ l_tovar' = <<>> /\ part' = 1 /\ UNCHANGED i
    /\ critical' = 0 /\ error' = "CLEAR" /\ mod' = 0 /\ unlucky' = FALSE
    /\ TigerConnect \/ VpConnect \/ LpConnect \/ NoConnect
    /\ UNCHANGED <<drv, conn, abandoned, trusted>>

\* LibraConnect: the object of the type, and its Connect.
LibraConnect ==
    /\ at = "idle" /\ at' = "fill"
    /\ NewObject
    /\ TigerConnect \/ VpConnect \/ LpConnect \/ NoConnect
    /\ UNCHANGED <<drv, conn, abandoned, trusted>>

\* LibraTovarAdd for every row of the query.
LibraTovarAdd ==
    /\ at = "fill" /\ at' = "begin"
    /\ \E list \in Lists : l_tovar' = list
    /\ UNCHANGED <<drv, conn, i, part, critical, error, mod, back_dir, unlucky, cwd, file,
                   abandoned, trusted, line, faults>>

\* (a plausible bug: the file goes on where the last one ended)
ProgrammingAllTovar_Append ==
    /\ at = "begin" /\ at' = "good"
    /\ UNCHANGED <<drv, conn, object, cwd, file, abandoned, trusted, line, faults>>

\* ProgrammingAllTovar, up to its loop: tovar.dat is made anew.
ProgrammingAllTovar ==
    /\ at = "begin" /\ at' = "good"
    /\ file' = IF drv \in {"DIGI_SM", "VPM"} THEN <<>> ELSE file
    /\ UNCHANGED <<drv, conn, object, cwd, abandoned, trusted, line, faults>>

\* The loop is over.
LoopEnds ==
    /\ at = "good" /\ i > Len(l_tovar)
    /\ at' = IF drv \in FileDrivers THEN "send" ELSE "close"
    /\ UNCHANGED <<drv, conn, object, cwd, file, abandoned, trusted, line, faults>>

\* The numbers the drivers take.
Accepted(d, t) ==
    CASE d = "DIGI_SM" -> t.art_num <= 9999
      [] d = "VPM"     -> t.nomen_num - Prefix * 10000 <= 9999
      [] d = "TigerD"  -> Short(t.nomen_num - Prefix * 10000) <= 9999
      [] d = "VP"      -> NumberOf("VP", t) <= 999
      [] d = "LP"      -> TRUE

\* ProgrammingTovar refuses a good: nothing is sent, and ret.error stays as it is.
Refuse ==
    /\ at = "good" /\ i <= Len(l_tovar) /\ ~Accepted(drv, l_tovar[i])
    /\ critical' = 0 /\ at' = "result"
    /\ UNCHANGED <<drv, conn, l_tovar, i, part, error, mod, back_dir, unlucky, cwd, file,
                   abandoned, trusted, line, faults>>

\* What ProgrammingTovar may add to the file.
Records_Of(d, t) ==
    CASE d = "DIGI_SM" -> {DigiRecord(Prefix, t)}
      [] d = "VPM"     -> {VpmTovar(Prefix, t, stray) : stray \in Strays}
      [] d = "TigerD"  -> {TigerLine(Prefix, mod, t)}

\* ProgrammingTovar of the drivers that write a file.
WriteRecord ==
    /\ at = "good" /\ i <= Len(l_tovar) /\ Accepted(drv, l_tovar[i])
    /\ drv \in FileDrivers
    /\ \E record \in Records_Of(drv, l_tovar[i]) : file' = file \o record
    /\ at' = "result"
    /\ UNCHANGED <<drv, conn, object, cwd, abandoned, trusted, line, faults>>

\* ProgrammingTovar of the others: the first message.  Over Eithernet the LP does not
\* send the number of the scale.
StartGood ==
    /\ at = "good" /\ i <= Len(l_tovar) /\ Accepted(drv, l_tovar[i])
    /\ drv \in Serial
    /\ part' = IF conn = "COM" THEN 1 ELSE 2
    /\ at' = "write"
    /\ UNCHANGED <<drv, conn, l_tovar, i, critical, error, mod, back_dir, unlucky, cwd, file,
                   abandoned, trusted, line, faults>>

\* The last message of a good overwrites what the scale has under its number.
WriteMessage ==
    LET t == l_tovar[i] IN
    /\ at = "write" /\ at' = "listen"
    /\ IF conn = "COM" THEN Send(part, t) ELSE UNCHANGED <<line, faults>>
    /\ trusted' = IF part = Parts(drv)
                  THEN [trusted EXCEPT ![NumberOf(drv, t)] = NoTovar] ELSE trusted
    /\ UNCHANGED <<drv, conn, object, cwd, file, abandoned>>

\* Read of an answer; over Eithernet it reads nothing and returns what the stack held.
Answer(answer) ==
    IF conn = "COM" THEN Read(answer) ELSE UNCHANGED <<line, faults>>

ErrorOf(answer) ==
    CASE answer = "ok" -> "CLEAR" [] answer = "bad" -> "PROT" [] answer = "none" -> "TIMEOUT"

\* (a plausible bug: the byte that stands for an error is not known)
Listen_AnyByte(answer) ==
    LET e == IF answer = "none" THEN "TIMEOUT" ELSE "CLEAR" IN
    /\ at = "listen" /\ ~(drv = "LP" /\ part = 1)
    /\ Answer(answer)
    /\ error' = e
    /\ IF e = "CLEAR" /\ part < Parts(drv)
       THEN part' = part + 1 /\ at' = "write" ELSE UNCHANGED part /\ at' = "result"
    /\ trusted' = IF e = "CLEAR" /\ part = Parts(drv) /\ ~late' /\ conn = "COM"
                  THEN [trusted EXCEPT ![NumberOf(drv, l_tovar[i])] = l_tovar[i]] ELSE trusted
    /\ UNCHANGED <<drv, conn, l_tovar, i, critical, mod, back_dir, unlucky, cwd, file, abandoned>>

\* Listen: an error ends the good, and so does the answer to its last message.
Listen(answer) ==
    LET e == ErrorOf(answer) IN
    /\ at = "listen" /\ ~(drv = "LP" /\ part = 1)
    /\ Answer(answer)
    /\ error' = e
    /\ IF e = "CLEAR" /\ part < Parts(drv)
       THEN part' = part + 1 /\ at' = "write" ELSE UNCHANGED part /\ at' = "result"
    /\ trusted' = IF e = "CLEAR" /\ part = Parts(drv) /\ ~late' /\ conn = "COM"
                  THEN [trusted EXCEPT ![NumberOf(drv, l_tovar[i])] = l_tovar[i]] ELSE trusted
    /\ UNCHANGED <<drv, conn, l_tovar, i, critical, mod, back_dir, unlucky, cwd, file, abandoned>>

\* (a plausible bug: the number is sent until the scale answers)
SendLibraNum_Retry(answer) ==
    /\ at = "listen" /\ drv = "LP" /\ part = 1
    /\ Answer(answer)
    /\ part' = (IF answer = "none" THEN 1 ELSE 2)
    /\ at' = IF answer = "none" THEN "box_number" ELSE "write"
    /\ UNCHANGED <<drv, conn, l_tovar, i, critical, error, mod, back_dir, unlucky, cwd, file,
                   abandoned, trusted>>

\* SendLibraNum of the LP: a lost answer is shown, and forgotten.
SendLibraNum(answer) ==
    /\ at = "listen" /\ drv = "LP" /\ part = 1
    /\ Answer(answer)
    /\ part' = 2
    /\ at' = IF answer = "none" THEN "box_number" ELSE "write"
    /\ UNCHANGED <<drv, conn, l_tovar, i, critical, error, mod, back_dir, unlucky, cwd, file,
                   abandoned, trusted>>

\* (a plausible bug: a good that was refused counts as a failure)
GetResult_Refused ==
    IF drv \in FileDrivers THEN critical
    ELSE IF error = "CLEAR" /\ Accepted(drv, l_tovar[i]) THEN 0 ELSE 2

\* GetResult: result.critical.  The drivers that write a file leave it as it is; that of
\* the LP shows a failure, which is why NextTovar goes to a box.
GetResult ==
    IF drv \in FileDrivers THEN critical ELSE IF error = "CLEAR" THEN 0 ELSE 2

\* The loop of ProgrammingAllTovar, after a good.  The LP shows a failure twice in a row,
\* in DoCmd and here, which is one wait.
NextTovar ==
    /\ at = "result"
    /\ critical' = GetResult
    /\ \/ /\ critical' = 2
          /\ at' = CASE drv \in FileDrivers -> "send"
                     [] drv = "VP"         -> "close"
                     [] drv = "LP"         -> "box_result"
          /\ UNCHANGED i
       \/ /\ critical' # 2
          /\ at' = "good" /\ i' = i + 1
    /\ UNCHANGED <<drv, conn, l_tovar, part, error, mod, back_dir, unlucky, cwd, file,
                   abandoned, trusted, line, faults>>

\* The operator closes the message, and the function that shows it returns.
PressOk ==
    /\ at \in Boxes
    /\ at' = IF at = "box_number" THEN "write" ELSE "close"
    /\ UNCHANGED <<drv, conn, object, cwd, file, abandoned, trusted, line, faults>>

\* The rest of ProgrammingAllTovar: the tool of the vendor gets the file.
SendFile ==
    /\ at = "send" /\ at' = "close"
    /\ UNCHANGED <<drv, conn, object, cwd, file, abandoned, trusted, line, faults>>

\* (a plausible bug: the directory is not set back)
TigerDisconnect_Stay == drv = "TigerD" /\ UNCHANGED <<cwd, line, faults>>

TigerDisconnect == drv = "TigerD" /\ cwd' = back_dir /\ UNCHANGED <<line, faults>>
SerialDisconnect == drv \in Serial /\ conn = "COM" /\ Close /\ UNCHANGED cwd
NoDisconnect ==
    /\ drv \in {"DIGI_SM", "VPM"} \/ (drv = "LP" /\ conn = "Eithernet")
    /\ UNCHANGED <<cwd, line, faults>>

\* LibraDisconnect.  The object is deleted through a void pointer: no destructor
\* runs, so Disconnect is called once.
LibraDisconnect ==
    /\ at = "close" /\ at' = "idle"
    /\ TigerDisconnect \/ SerialDisconnect \/ NoDisconnect
    /\ UNCHANGED <<drv, conn, object, file, abandoned, trusted>>

\* An exception: the query fails, the library of a tool is missing.
Raise ==
    /\ at \notin Boxes \cup {"idle"} /\ at' = "idle"
    /\ Abandon /\ abandoned' = TRUE
    /\ UNCHANGED <<drv, conn, object, cwd, file, trusted>>

\* The program is ended, wherever it is, and started again.
Restart ==
    /\ \/ at # "idle" /\ Fault
       \/ at = "idle" /\ abandoned /\ UNCHANGED faults
    /\ at' = "idle"
    /\ Release /\ abandoned' = FALSE /\ cwd' = "home"
    /\ UNCHANGED <<drv, conn, object, file, trusted>>

ScaleAnswers ==
    /\ Arrive
    /\ UNCHANGED <<drv, conn, at, object, cwd, file, abandoned, trusted>>

-----------------------------------------------------------------------------
Progress ==
    \/ LibraTovarAdd \/ ProgrammingAllTovar \/ LoopEnds \/ Refuse \/ WriteRecord \/ StartGood
    \/ WriteMessage \/ NextTovar \/ PressOk \/ SendFile \/ LibraDisconnect
    \/ \E answer \in {"ok", "bad", "none"} : Listen(answer) \/ SendLibraNum(answer)
    \/ ScaleAnswers

Next == LibraConnect \/ Progress \/ Raise \/ Restart

\* The load stands where nothing limits the wait: before the operator, for the tool of the
\* vendor, or for a port that is written to or flushed.
Waiting ==
    \/ at \in Boxes \cup {"send"}
    \/ at \in {"write", "close"} /\ fd = "port"

Spec == Init /\ [][Next]_vars

\* Only what has a limit of time, or waits for nothing, is sure to go on.
FairSpec == Spec /\ WF_vars(~Waiting /\ Progress)

-----------------------------------------------------------------------------
(***************************************************************************)
(* Properties.                                                              *)
(***************************************************************************)

\* How many goods of the list ProgrammingTovar has had so far, in a loop or after it.
Done == IF at = "good" THEN i - 1 ELSE Least(i, Len(l_tovar))

\* Those of them it has accepted.
Programmed ==
    LET taken[j \in 0 .. Done] ==
            IF j = 0 THEN <<>>
            ELSE IF Accepted(drv, l_tovar[j]) THEN Append(taken[j - 1], l_tovar[j])
            ELSE taken[j - 1]
    IN  taken[Done]

HasFile(d) == drv = d /\ at \in {"good", "result", "send", "close"}

\* tovar.dat of the DIGI scale, read by its own lengths, holds the goods of this load
\* and no other, record by record, whatever a field that is too narrow has lost.
DigiFileReads ==
    HasFile("DIGI_SM") =>
        LET r == DigiRecords(file) IN
        /\ Len(r) = Len(Programmed)
        /\ \A k \in DOMAIN r : DigiSays(r[k], Prefix, Programmed[k])

\* The same of the file of the VPM, with the sum at the end of each record, whatever
\* the two bytes behind the variable were.
VpmFileReads ==
    HasFile("VPM") =>
        LET r == VpmRecords(file) IN
        /\ Len(r) = Len(Programmed)
        /\ \A k \in DOMAIN r : VpmSays(r[k], Prefix, Programmed[k])

\* The same of plu.txt: no number, however long, and no name moves a column, unless
\* the name of a programmed good has a line feed.
TigerFileReads ==
    HasFile("TigerD") /\ (\A j \in 1 .. Done : Accepted(drv, l_tovar[j]) => OneLine(l_tovar[j].name)) =>
        LET r == TigerLines(file) IN
        /\ Len(r) = Len(Programmed)
        /\ \A k \in DOMAIN r : TigerSays(r[k], Prefix, mod, Programmed[k])

\* The record a scale on a COM line is being sent reads back, for a code of any size.
LineRecordReads ==
    at = "listen" /\ part = Parts(drv) =>
        LET t == l_tovar[i] IN
        IF drv = "VP" THEN VpSays(VpRecord(Number, t), Number, t) ELSE LpSays(LpRecord(t), t)

\* A good a scale on a COM line reported as programmed is in its memory under its
\* number, whatever messages were lost or refused before and since, unless an answer
\* came after its reader had given up: it may then pass for the answer to another
\* message.
ReportedIsStored == \A n \in Numbers : trusted[n] # NoTovar => plu[n] = trusted[n]

\* Goods of a list are left out only after an exchange with the scale has failed, or
\* when the members nothing set happen to say so; a refused good stops nothing.
NothingSkipped ==
    at \in {"send", "box_result", "close"} /\ i < Len(l_tovar) =>
        \/ unlucky
        \/ drv \in Serial /\ error # "CLEAR" /\ Accepted(drv, l_tovar[i])

\* Between two loads the port is free and the program is where it was, unless an
\* exception has left a session since the program was started.
GivenBack == at = "idle" /\ ~abandoned => port = "free" /\ cwd = "home"

\* A load that never ends stands still for ever where it waits for an operator, a tool or
\* a port: no answer that is lost, refused or late keeps it going round.
LoadEnds == <>[](at # "idle") => <>[]Waiting

=============================================================================
