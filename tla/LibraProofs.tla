---------------------------- MODULE LibraProofs ----------------------------
(***************************************************************************)
(* Proofs about module Libra: what a session holds and gives back, why a    *)
(* load stops, and what the answer of a scale on a COM line stands for, for *)
(* any goods, any lists of them, any drivers and any number of faults.      *)
(***************************************************************************)
EXTENDS Libra, LibraRecordsProofs

LEMMA Constants ==
  /\ Goods \subseteq Tovar /\ NoTovar \notin Goods
  /\ FileLists \subseteq Seq(Goods) /\ LineLists \subseteq Seq(Goods)
  /\ Drivers \subseteq FileDrivers \cup Serial
  /\ MaxFaults \in Nat
BY LineAssumption, LibraAssumption

USE DEF Boxes

-----------------------------------------------------------------------------
(***************************************************************************)
(* Types.                                                                   *)
(***************************************************************************)

Answers == {"ok", "bad"}
Memory == [Numbers -> Goods \cup {NoTovar}]

LEMMA FaultTyped == TypeOK /\ (Fault \/ UNCHANGED faults) => faults' \in 0 .. MaxFaults
BY Constants DEF TypeOK, LineTypeOK, Fault

LEMMA OpenTyped ==
  ASSUME TypeOK, Open
  PROVE  LineTypeOK'
<1>1. late' \in BOOLEAN
  BY Zenon DEF TypeOK, LineTypeOK, Open
<1>2. faults' \in 0 .. MaxFaults
  BY FaultTyped DEF Open
<1>3. rx' \in Seq(Answers)
  BY EmptySeq DEF TypeOK, LineTypeOK, Open, Answers
<1> QED
  BY <1>1, <1>2, <1>3 DEF TypeOK, LineTypeOK, Open, Answers

LEMMA CloseTyped ==
  ASSUME TypeOK, Close
  PROVE  LineTypeOK'
BY DEF TypeOK, LineTypeOK, Close

LEMMA TakeTyped ==
  ASSUME TypeOK, NEW p \in 1 .. 4, NEW t \in Goods, Take(p, t), drv \in Serial
  PROVE  heard' \in 0 .. 3 /\ plu' \in Memory
<1>1. heard' \in 0 .. 3
  BY DEF Take, Parts, VpParts, LpParts
<1>2. NumberOf(drv, t) \in Numbers
  BY DEF Numbers
<1> QED
  BY <1>1, <1>2 DEF Take, TypeOK, LineTypeOK, Memory

LEMMA SendTyped ==
  ASSUME TypeOK, NEW p \in 1 .. 4, NEW t \in Goods, Send(p, t), drv \in Serial
  PROVE  LineTypeOK'
<1> USE DEF Answers, Memory
<1>1. rx' \in Seq(Answers)
  BY EmptySeq DEF TypeOK, LineTypeOK, Send
<1>2. faults' \in 0 .. MaxFaults
  BY FaultTyped DEF Send
<1>3. owed' \in Seq(Answers)
  <2>1. owed \in Seq(Answers)
    BY DEF TypeOK, LineTypeOK
  <2>2. Append(owed, "ok") \in Seq(Answers) /\ Append(owed, "bad") \in Seq(Answers)
    BY <2>1, AppendProperties
  <2> QED
    BY <2>1, <2>2 DEF Send
<1>4. heard' \in 0 .. 3 /\ plu' \in Memory
  <2>1. heard \in 0 .. 3 /\ plu \in Memory
    BY DEF TypeOK, LineTypeOK
  <2> QED
    BY <2>1, TakeTyped DEF Send
<1> QED
  BY <1>1, <1>2, <1>3, <1>4 DEF TypeOK, LineTypeOK, Send

LEMMA ArriveTyped ==
  ASSUME TypeOK, Arrive
  PROVE  LineTypeOK'
<1> USE DEF Answers
<1>1. rx \in Seq(Answers) /\ owed \in Seq(Answers) /\ owed # <<>>
  BY DEF TypeOK, LineTypeOK, Arrive
<1>2. Head(owed) \in Answers /\ Tail(owed) \in Seq(Answers)
  BY <1>1, HeadTailProperties
<1>3. rx' \in Seq(Answers) /\ owed' \in Seq(Answers)
  BY <1>1, <1>2, AppendProperties DEF Arrive
<1> QED
  BY <1>3 DEF TypeOK, LineTypeOK, Arrive

LEMMA ReadTyped ==
  ASSUME TypeOK, NEW answer, Read(answer)
  PROVE  LineTypeOK'
<1> USE DEF Answers
<1>1. late' \in BOOLEAN
  BY Zenon DEF TypeOK, LineTypeOK, Read
<1>2. faults' \in 0 .. MaxFaults
  BY FaultTyped DEF Read
<1>3. rx' \in Seq(Answers)
  BY HeadTailProperties DEF TypeOK, LineTypeOK, Read
<1> QED
  BY <1>1, <1>2, <1>3 DEF TypeOK, LineTypeOK, Read

LEMMA ReleaseTyped ==
  ASSUME TypeOK, Release, Fault \/ UNCHANGED faults
  PROVE  LineTypeOK'
<1>1. rx' \in Seq(Answers)
  BY EmptySeq DEF Release
<1>2. faults' \in 0 .. MaxFaults
  BY FaultTyped
<1> QED
  BY <1>1, <1>2 DEF TypeOK, LineTypeOK, Release, Answers

LEMMA AbandonTyped ==
  ASSUME TypeOK, Abandon
  PROVE  LineTypeOK'
<1>1. faults' \in 0 .. MaxFaults
  BY FaultTyped DEF Abandon
<1> QED
  BY <1>1 DEF TypeOK, LineTypeOK, Abandon

LEMMA SameLine ==
  ASSUME TypeOK, UNCHANGED <<line, faults>>, UNCHANGED drv
  PROVE  LineTypeOK'
BY DEF TypeOK, LineTypeOK, line

-----------------------------------------------------------------------------
LEMMA TypeInit == Init => TypeOK
<1> SUFFICES ASSUME Init PROVE TypeOK
  OBVIOUS
<1>1. unlucky \in BOOLEAN /\ abandoned \in BOOLEAN /\ late \in BOOLEAN
  BY Zenon DEF Init, LineInit
<1>2. rx \in Seq({"ok", "bad"}) /\ owed \in Seq({"ok", "bad"}) /\ faults \in 0 .. MaxFaults
  BY EmptySeq, Constants DEF Init, LineInit
<1>3. LineTypeOK
  BY <1>1, <1>2 DEF Init, LineInit, LineTypeOK
<1>4. l_tovar \in Seq(Goods) /\ i \in 1 .. Len(l_tovar) + 1 /\ part \in 1 .. 4
  BY EmptySeq DEF Init
<1> QED
  BY <1>1, <1>3, <1>4 DEF Init, TypeOK, Errors

\* The good of the loop is one of the list.
LEMMA GoodTyped ==
  ASSUME TypeOK, i <= Len(l_tovar)
  PROVE  l_tovar[i] \in Goods
BY ElementOfSeq DEF TypeOK

LEMMA ConnectTyped == TypeOK /\ LibraConnect => TypeOK'
<1> SUFFICES ASSUME TypeOK, LibraConnect PROVE TypeOK'
  OBVIOUS
<1>1. LineTypeOK'
  <2>1. CASE TigerConnect \/ NoConnect
    BY <2>1, SameLine DEF LibraConnect, TigerConnect, NoConnect
  <2>2. CASE VpConnect \/ LpConnect
    BY <2>2, OpenTyped, SameLine DEF LibraConnect, VpConnect, LpConnect
  <2> QED
    BY <2>1, <2>2 DEF LibraConnect
<1>2. unlucky' \in BOOLEAN /\ abandoned' \in BOOLEAN
  BY Zenon DEF LibraConnect, NewObject, TypeOK
<1>3. back_dir' \in {"home", "tiger"} /\ cwd' \in {"home", "tiger"}
  BY DEF LibraConnect, TigerConnect, VpConnect, LpConnect, NoConnect, TypeOK
<1>4. l_tovar' \in Seq(Goods) /\ i' \in 1 .. Len(l_tovar') + 1
  BY EmptySeq DEF LibraConnect, NewObject
<1> QED
  BY <1>1, <1>2, <1>3, <1>4 DEF LibraConnect, NewObject, TypeOK, Errors

\* Where the loop goes after a good.
LEMMA LoopGoes ==
  ASSUME TypeOK, NextTovar
  PROVE  \/ /\ critical' = 2 /\ i' = i
            /\ at' \in {"send", "close", "box_result"}
            /\ at' = "send" => drv \in FileDrivers
            /\ at' = "box_result" => drv = "LP"
         \/ critical' # 2 /\ i' = i + 1 /\ at' = "good"
<1>1. drv \in FileDrivers \/ drv = "VP" \/ drv = "LP"
  BY Constants DEF TypeOK, Serial
<1> QED
  BY <1>1 DEF NextTovar, FileDrivers

LEMMA FileTyped ==
  ASSUME TypeOK,
         LibraTovarAdd \/ ProgrammingAllTovar \/ LoopEnds \/ Refuse \/ WriteRecord \/ StartGood
           \/ NextTovar \/ PressOk \/ SendFile
  PROVE  TypeOK'
<1>1. LineTypeOK'
  BY SameLine DEF LibraTovarAdd, ProgrammingAllTovar, LoopEnds, Refuse, WriteRecord, StartGood,
                  NextTovar, PressOk, SendFile, object
<1>2. CASE LibraTovarAdd
  <2>1. l_tovar' \in Seq(Goods)
    BY <1>2, Constants DEF LibraTovarAdd, Lists
  <2>2. i' \in 1 .. Len(l_tovar') + 1
    BY <1>2, <2>1 DEF LibraTovarAdd, TypeOK
  <2> QED
    BY <1>1, <1>2, <2>1, <2>2 DEF LibraTovarAdd, TypeOK
<1>3. CASE ProgrammingAllTovar \/ LoopEnds \/ WriteRecord \/ SendFile
  BY <1>1, <1>3 DEF ProgrammingAllTovar, LoopEnds, WriteRecord, SendFile, TypeOK, object
<1>4. CASE Refuse
  BY <1>1, <1>4 DEF Refuse, TypeOK
<1>5. CASE StartGood
  BY <1>1, <1>5 DEF StartGood, TypeOK, Parts, VpParts, LpParts
<1>6. CASE NextTovar
  <2>1. critical' \in {0, 2}
    BY <1>6 DEF NextTovar, GetResult, TypeOK
  <2>2. /\ at' \in {"send", "close", "box_result", "good"}
        /\ (at' = "send" => drv \in FileDrivers) /\ (at' = "box_result" => drv = "LP")
        /\ i' \in 1 .. Len(l_tovar) + 1
    <3>1. i <= Len(l_tovar) /\ i \in Nat \ {0} /\ Len(l_tovar) \in Nat
      BY <1>6 DEF NextTovar, TypeOK
    <3>2. i \in 1 .. Len(l_tovar) + 1 /\ i + 1 \in 1 .. Len(l_tovar) + 1
      BY <3>1
    <3>3. CASE at' = "good" /\ i' = i + 1
      BY <3>2, <3>3
    <3>4. CASE /\ i' = i /\ at' \in {"send", "close", "box_result"}
               /\ at' = "send" => drv \in FileDrivers
               /\ at' = "box_result" => drv = "LP"
      BY <3>2, <3>4
    <3> QED
      BY <1>6, <3>3, <3>4, LoopGoes
  <2> QED
    BY <1>1, <1>6, <2>1, <2>2 DEF NextTovar, TypeOK
<1>7. CASE PressOk
  BY <1>1, <1>7 DEF PressOk, TypeOK, object, Serial, Parts, LpParts
<1> QED
  BY <1>2, <1>3, <1>4, <1>5, <1>6, <1>7

LEMMA MessageTyped == TypeOK /\ WriteMessage => TypeOK'
<1> SUFFICES ASSUME TypeOK, WriteMessage PROVE TypeOK'
  OBVIOUS
<1>1. l_tovar[i] \in Goods /\ drv \in Serial /\ part \in 1 .. 4 /\ part <= Parts(drv)
  BY GoodTyped DEF WriteMessage, TypeOK
<1>2. LineTypeOK'
  BY <1>1, SendTyped, SameLine DEF WriteMessage
<1>3. trusted' \in Memory
  BY <1>1 DEF WriteMessage, TypeOK, Memory
<1> QED
  BY <1>1, <1>2, <1>3 DEF WriteMessage, TypeOK, object, Memory

LEMMA ListenTyped ==
  ASSUME TypeOK, NEW answer \in {"ok", "bad", "none"}, Listen(answer) \/ SendLibraNum(answer)
  PROVE  TypeOK'
<1>1. LineTypeOK'
  BY ReadTyped, SameLine DEF Listen, SendLibraNum, Answer
<1>2. l_tovar[i] \in Goods /\ NumberOf(drv, l_tovar[i]) \in Numbers
  BY GoodTyped DEF Listen, SendLibraNum, TypeOK, Numbers
<1>3. CASE Listen(answer)
  <2>1. error' \in Errors
    BY <1>3 DEF Listen, ErrorOf, Errors
  <2>2. trusted' \in Memory
    BY <1>2, <1>3 DEF Listen, TypeOK, Memory
  <2>3. /\ part' \in 1 .. 4 /\ at' \in {"write", "result"}
        /\ at' = "write" => part' <= Parts(drv)
    BY <1>3 DEF Listen, TypeOK, Parts, VpParts, LpParts
  <2> QED
    BY <1>1, <1>3, <2>1, <2>2, <2>3 DEF Listen, TypeOK, Memory
<1>4. CASE SendLibraNum(answer)
  BY <1>1, <1>4 DEF SendLibraNum, TypeOK, Parts, VpParts, LpParts
<1> QED
  BY <1>3, <1>4

LEMMA EndTyped ==
  ASSUME TypeOK, LibraDisconnect \/ Raise \/ Restart \/ ScaleAnswers
  PROVE  TypeOK'
<1>1. CASE LibraDisconnect
  <2>1. LineTypeOK'
    BY <1>1, CloseTyped, SameLine DEF LibraDisconnect, TigerDisconnect, SerialDisconnect,
                                      NoDisconnect
  <2>2. cwd' \in {"home", "tiger"}
    BY <1>1 DEF LibraDisconnect, TigerDisconnect, SerialDisconnect, NoDisconnect, TypeOK
  <2> QED
    BY <1>1, <2>1, <2>2 DEF LibraDisconnect, TypeOK, object
<1>2. CASE Raise
  <2>1. abandoned' \in BOOLEAN
    BY <1>2, Zenon DEF Raise
  <2> QED
    BY <1>2, <2>1, AbandonTyped DEF Raise, TypeOK, object
<1>3. CASE Restart
  <2>1. abandoned' \in BOOLEAN
    BY <1>3, Zenon DEF Restart
  <2> QED
    BY <1>3, <2>1, ReleaseTyped DEF Restart, TypeOK, object
<1>4. CASE ScaleAnswers
  BY <1>4, ArriveTyped DEF ScaleAnswers, TypeOK, object
<1> QED
  BY <1>1, <1>2, <1>3, <1>4

LEMMA TypeStep == TypeOK /\ [Next]_vars => TypeOK'
<1> SUFFICES ASSUME TypeOK, [Next]_vars PROVE TypeOK'
  OBVIOUS
<1>1. CASE UNCHANGED vars
  BY <1>1, SameLine DEF TypeOK, vars, object
<1>2. CASE \E answer \in {"ok", "bad", "none"} : Listen(answer) \/ SendLibraNum(answer)
  BY <1>2, ListenTyped
<1>3. CASE LibraConnect \/ WriteMessage
  BY <1>3, ConnectTyped, MessageTyped
<1>4. CASE LibraDisconnect \/ Raise \/ Restart \/ ScaleAnswers
  BY <1>4, EndTyped
<1>5. CASE LibraTovarAdd \/ ProgrammingAllTovar \/ LoopEnds \/ Refuse \/ WriteRecord
             \/ StartGood \/ NextTovar \/ PressOk \/ SendFile
  BY <1>5, FileTyped
<1> QED
  BY <1>1, <1>2, <1>3, <1>4, <1>5, Zenon DEF Next, Progress

\* The session, the line and the memory of the scale keep their types for any goods,
\* any lists of them and any drivers.
THEOREM TypeCorrect == Spec => []TypeOK
<1> QED
  BY TypeInit, TypeStep, PTL DEF Spec

-----------------------------------------------------------------------------
(***************************************************************************)
(* What a session holds.  An object has a handle only inside a session, the *)
(* port is held by the object or by one an exception has left, and so it is *)
(* with the directory of Tiger D.                                           *)
(***************************************************************************)

SessionHolds ==
    /\ at = "idle" => fd = "none"
    /\ fd # "none" => drv \in Serial /\ conn = "COM"
    /\ port = "held" => fd = "port" \/ abandoned
    /\ cwd = "tiger" => abandoned \/ (drv = "TigerD" /\ at # "idle")
    /\ drv = "TigerD" /\ back_dir = "tiger" /\ at # "idle" => abandoned

SessionInv == TypeOK /\ SessionHolds

LEMMA SessionInit == Init => SessionHolds
BY DEF Init, LineInit, SessionHolds

LEMMA SessionStep == SessionInv /\ [Next]_vars => SessionHolds'
<1> SUFFICES ASSUME SessionInv, [Next]_vars PROVE SessionHolds'
  OBVIOUS
<1> USE DEF SessionInv, SessionHolds, Serial
<1>1. CASE UNCHANGED vars
  BY <1>1 DEF vars, line, object
<1>2. CASE \E answer \in {"ok", "bad", "none"} : Listen(answer) \/ SendLibraNum(answer)
  <2>1. PICK answer \in {"ok", "bad", "none"} : Listen(answer) \/ SendLibraNum(answer)
    BY <1>2
  <2>2. UNCHANGED <<port, fd>>
    BY <2>1 DEF Listen, SendLibraNum, Answer, Read, line
  <2>3. UNCHANGED <<drv, conn, cwd, back_dir, abandoned>> /\ at # "idle" /\ at' # "idle"
    BY <2>1 DEF Listen, SendLibraNum
  <2> QED
    BY <2>2, <2>3
<1>3. CASE LibraConnect
  <2>1. at = "idle" /\ at' = "fill" /\ UNCHANGED <<drv, conn, abandoned>>
    BY <1>3 DEF LibraConnect
  <2>2. CASE TigerConnect
    BY <2>1, <2>2 DEF TigerConnect, line, TypeOK
  <2>3. CASE NoConnect
    BY <2>1, <2>3 DEF NoConnect, line
  <2>4. CASE UNCHANGED <<back_dir, cwd>> /\ drv \in Serial /\ Open /\ conn = "COM"
    BY <2>1, <2>4 DEF Open, TypeOK, LineTypeOK
  <2>5. CASE LpConnect /\ conn # "COM"
    BY <2>1, <2>5 DEF LpConnect, line
  <2>6. drv = "VP" => conn = "COM"
    BY DEF TypeOK, Interfaces
  <2> QED
    BY <1>3, <2>2, <2>3, <2>4, <2>5, <2>6 DEF LibraConnect, VpConnect, LpConnect
<1>4. CASE WriteMessage
  <2>1. UNCHANGED <<port, fd>>
    BY <1>4 DEF WriteMessage, Send, line
  <2> QED
    BY <1>4, <2>1 DEF WriteMessage, object
<1>5. CASE LibraDisconnect
  <2>1. at = "close" /\ at' = "idle" /\ UNCHANGED <<drv, conn, abandoned, back_dir>>
    BY <1>5 DEF LibraDisconnect, object
  <2>2. CASE TigerDisconnect
    BY <2>1, <2>2 DEF TigerDisconnect, line
  <2>3. CASE SerialDisconnect
    BY <2>1, <2>3 DEF SerialDisconnect, Close
  <2>4. CASE NoDisconnect
    BY <2>1, <2>4 DEF NoDisconnect, line
  <2> QED
    BY <1>5, <2>2, <2>3, <2>4 DEF LibraDisconnect
<1>6. CASE Raise
  <2>1. abandoned' /\ at' = "idle" /\ fd' = "none"
    BY <1>6, Zenon DEF Raise, Abandon
  <2> QED
    BY <2>1
<1>7. CASE Restart
  BY <1>7 DEF Restart, Release, object
<1>8. CASE ScaleAnswers
  BY <1>8 DEF ScaleAnswers, Arrive, object
<1>9. CASE LibraTovarAdd \/ ProgrammingAllTovar \/ LoopEnds \/ Refuse \/ WriteRecord
             \/ StartGood \/ NextTovar \/ PressOk \/ SendFile
  <2>1. UNCHANGED <<drv, conn, cwd, back_dir, abandoned, port, fd>>
    BY <1>9 DEF LibraTovarAdd, ProgrammingAllTovar, LoopEnds, Refuse, WriteRecord, StartGood,
                NextTovar, PressOk, SendFile, line, object
  <2>2. at # "idle" /\ at' # "idle"
    BY <1>9, LoopGoes DEF LibraTovarAdd, ProgrammingAllTovar, LoopEnds, Refuse, WriteRecord, StartGood,
                NextTovar, PressOk, SendFile
  <2> QED
    BY <2>1, <2>2
<1> QED
  BY <1>1, <1>2, <1>3, <1>4, <1>5, <1>6, <1>7, <1>8, <1>9, Zenon DEF Next, Progress

LEMMA SessionCorrect == Spec => []SessionInv
<1>1. Init => SessionInv
  BY TypeInit, SessionInit DEF SessionInv
<1>2. SessionInv /\ [Next]_vars => SessionInv'
  BY TypeStep, SessionStep DEF SessionInv
<1> QED
  BY <1>1, <1>2, PTL DEF Spec

\* Between two loads the port is free and the program is where it was, unless an
\* exception has left a session.
THEOREM GivenBackCorrect == Spec => []GivenBack
<1>1. SessionInv => GivenBack
  BY DEF SessionInv, SessionHolds, GivenBack, TypeOK, LineTypeOK
<1> QED
  BY <1>1, SessionCorrect, PTL

-----------------------------------------------------------------------------
(***************************************************************************)
(* Why a load stops.                                                        *)
(***************************************************************************)

\* critical of a driver with a file is 2 only when it was so from the beginning;
\* ret.error of another is what the last exchange said, or what it was.
FailureIsKnown ==
    /\ at \in {"write", "listen", "box_number"} => Accepted(drv, l_tovar[i])
    /\ drv \in FileDrivers /\ at # "idle" /\ critical = 2 => unlucky
    /\ drv \in Serial /\ at \in {"fill", "begin", "good", "write", "listen", "box_number"}
          => error = "CLEAR" \/ unlucky
    /\ drv \in Serial /\ at = "result"
          => error = "CLEAR" \/ unlucky \/ Accepted(drv, l_tovar[i])
    /\ NothingSkipped

LEMMA FailureInit == Init => FailureIsKnown
BY DEF Init, FailureIsKnown, NothingSkipped

LEMMA FailureStep == TypeOK /\ FailureIsKnown /\ [Next]_vars => FailureIsKnown'
<1> SUFFICES ASSUME TypeOK, FailureIsKnown, [Next]_vars PROVE FailureIsKnown'
  OBVIOUS
<1>1. drv \in FileDrivers \/ drv \in Serial
  BY Constants DEF TypeOK
<1>2. ~(drv \in FileDrivers /\ drv \in Serial)
  BY DEF FileDrivers, Serial
<1> USE DEF FailureIsKnown, NothingSkipped
<1>3. CASE UNCHANGED vars
  BY <1>3 DEF vars, object
<1>4. CASE LibraConnect
  <2>1. at' = "fill" /\ UNCHANGED drv /\ NewObject
    BY <1>4 DEF LibraConnect
  <2>2. critical' = 2 \/ error' # "CLEAR" => unlucky'
    BY <2>1, Zenon DEF NewObject
  <2> QED
    BY <2>1, <2>2
<1>5. CASE \E answer \in {"ok", "bad", "none"} : Listen(answer) \/ SendLibraNum(answer)
  <2>1. PICK answer \in {"ok", "bad", "none"} : Listen(answer) \/ SendLibraNum(answer)
    BY <1>5
  <2>2. /\ UNCHANGED <<drv, l_tovar, i, critical, unlucky>>
        /\ at = "listen" /\ at' \in {"write", "box_number", "result"}
    BY <2>1 DEF Listen, SendLibraNum
  <2>3. Accepted(drv', l_tovar'[i'])
    BY <2>2
  <2>4. at' # "result" => error' = "CLEAR" \/ UNCHANGED error
    BY <2>1 DEF Listen, SendLibraNum
  <2> QED
    BY <1>1, <1>2, <2>2, <2>3, <2>4
<1>6. CASE LibraTovarAdd \/ ProgrammingAllTovar
  <2>1. at' \in {"begin", "good"} /\ at \in {"fill", "begin"}
        /\ UNCHANGED <<drv, critical, error, unlucky>>
    BY <1>6 DEF LibraTovarAdd, ProgrammingAllTovar, object
  <2> QED
    BY <2>1
<1>7. CASE LoopEnds
  <2>1. /\ at = "good" /\ at' \in {"send", "close"} /\ ~(i' < Len(l_tovar'))
        /\ UNCHANGED <<drv, critical, error, unlucky>>
    BY <1>7 DEF LoopEnds, object, TypeOK
  <2> QED
    BY <2>1
<1>8. CASE Refuse
  <2>1. /\ at = "good" /\ at' = "result" /\ critical' = 0
        /\ UNCHANGED <<drv, error, unlucky>>
    BY <1>8 DEF Refuse
  <2> QED
    BY <2>1
<1>9. CASE WriteRecord \/ StartGood
  <2>1. /\ at = "good" /\ at' \in {"result", "write"} /\ Accepted(drv, l_tovar[i])
        /\ UNCHANGED <<drv, l_tovar, i, critical, error, unlucky>>
    BY <1>9 DEF WriteRecord, StartGood, object
  <2> QED
    BY <2>1
<1>10. CASE WriteMessage
  <2>1. /\ at = "write" /\ at' = "listen"
        /\ UNCHANGED <<drv, l_tovar, i, critical, error, unlucky>>
    BY <1>10 DEF WriteMessage, object
  <2> QED
    BY <2>1
<1>11. CASE NextTovar
  <2>1. /\ at = "result" /\ UNCHANGED <<drv, l_tovar, error, unlucky>>
        /\ critical' = GetResult
    BY <1>11 DEF NextTovar
  <2>2. CASE critical' = 2
    <3>1. at' \in {"send", "box_result", "close"} /\ i' = i
      BY <1>11, <2>2, LoopGoes
    <3>2. CASE drv \in FileDrivers
      <4>1. critical = 2
        BY <2>1, <2>2, <3>2 DEF GetResult
      <4> QED
        BY <1>2, <2>1, <3>1, <3>2, <4>1
    <3>3. CASE drv \in Serial
      <4>1. error # "CLEAR"
        BY <1>2, <2>1, <2>2, <3>3 DEF GetResult
      <4> QED
        BY <1>2, <2>1, <3>1, <3>3, <4>1
    <3> QED
      BY <1>1, <3>2, <3>3
  <2>3. CASE critical' # 2
    <3>1. at' = "good"
      BY <1>11, <2>3 DEF NextTovar
    <3>2. drv \in Serial => error = "CLEAR"
      BY <1>2, <2>1, <2>3 DEF GetResult
    <3> QED
      BY <1>2, <2>1, <2>3, <3>1, <3>2
  <2> QED
    BY <2>2, <2>3
<1>12. CASE SendFile
  <2>1. /\ at = "send" /\ at' = "close"
        /\ UNCHANGED <<drv, l_tovar, i, critical, error, unlucky>>
    BY <1>12 DEF SendFile, object
  <2> QED
    BY <2>1
<1>13. CASE LibraDisconnect \/ Raise \/ Restart
  <2>1. at' = "idle"
    BY <1>13 DEF LibraDisconnect, Raise, Restart
  <2> QED
    BY <2>1
<1>14. CASE ScaleAnswers
  <2>1. UNCHANGED <<drv, at, l_tovar, i, critical, error, unlucky>>
    BY <1>14 DEF ScaleAnswers, object
  <2> QED
    BY <2>1
<1>15. CASE PressOk
  <2>1. /\ \/ at = "box_number" /\ at' = "write"
           \/ at = "box_result" /\ at' = "close"
        /\ UNCHANGED <<drv, l_tovar, i, critical, error, unlucky>>
    BY <1>15 DEF PressOk, Boxes, object
  <2> QED
    BY <2>1
<1> QED
  BY <1>3, <1>4, <1>5, <1>6, <1>7, <1>8, <1>9, <1>10, <1>11, <1>12, <1>13, <1>14, <1>15, Zenon
     DEF Next, Progress

\* Goods are left out only after an exchange with the scale has failed, or when the
\* members nothing set happen to say so.
THEOREM NothingSkippedCorrect == Spec => []NothingSkipped
<1>1. Init => TypeOK /\ FailureIsKnown
  BY TypeInit, FailureInit
<1>2. TypeOK /\ FailureIsKnown /\ [Next]_vars => TypeOK' /\ FailureIsKnown'
  BY TypeStep, FailureStep
<1>3. FailureIsKnown => NothingSkipped
  BY DEF FailureIsKnown
<1> QED
  BY <1>1, <1>2, <1>3, PTL DEF Spec

-----------------------------------------------------------------------------
(***************************************************************************)
(* What a scale on a COM line reports.  As long as no answer has come after *)
(* its reader had given up, the line holds the answer to the message just   *)
(* sent and no other, so the answer the driver reads is the one it takes it *)
(* for; and when it says "ok" to the last message, the good is stored.      *)
(***************************************************************************)

Quiet == rx = <<>> /\ owed = <<>>
OneAnswer(a) == (rx = <<a>> /\ owed = <<>>) \/ (rx = <<>> /\ owed = <<a>>)
Stored == plu[NumberOf(drv, l_tovar[i])] = l_tovar[i]
OwnAnswer(a) == OneAnswer(a) /\ (a = "ok" /\ part = Parts(drv) => Stored)

LineAnswers ==
    fd = "port" /\ ~late => Quiet \/ (at = "listen" /\ \E a \in Answers : OwnAnswer(a))

StoredInv == LineAnswers /\ ReportedIsStored

LEMMA StoredInit == Init => StoredInv
BY DEF Init, LineInit, StoredInv, LineAnswers, ReportedIsStored

\* An answer that reaches the port is the one that was owed.
LEMMA OneAnswerArrives ==
  ASSUME NEW a, OneAnswer(a), Arrive
  PROVE  OneAnswer(a)'
<1>1. rx = <<>> /\ owed = <<a>>
  BY DEF OneAnswer, Arrive
<1>2. rx' = Append(<<>>, a) /\ owed' = Tail(<<a>>)
  BY <1>1 DEF Arrive
<1>3. rx' = <<a>> /\ owed' = <<>>
  BY <1>2
<1> QED
  BY <1>3 DEF OneAnswer

LEMMA WriteStored == SessionInv /\ StoredInv /\ WriteMessage => StoredInv'
<1> SUFFICES ASSUME SessionInv, StoredInv, WriteMessage PROVE StoredInv'
  OBVIOUS
<1> DEFINE t == l_tovar[i]
           n == NumberOf(drv, t)
<1>1. /\ at = "write" /\ at' = "listen" /\ UNCHANGED <<drv, conn, l_tovar, i, part>>
  BY DEF WriteMessage, object
<1>2. t \in Goods /\ drv \in Serial /\ n \in Numbers
  BY GoodTyped DEF WriteMessage, SessionInv, TypeOK, Numbers
<1>3. plu \in Memory /\ trusted \in Memory
  BY DEF SessionInv, TypeOK, LineTypeOK, Memory
<1>4. \A m \in Numbers : m # n \/ part # Parts(drv) => plu'[m] = plu[m]
  <2>1. CASE conn = "COM"
    <3>1. Take(part, t) \/ UNCHANGED plu
      BY <2>1 DEF WriteMessage, Send
    <3> QED
      BY <1>3, <3>1 DEF Take, Memory
  <2>2. CASE conn # "COM"
    BY <2>2 DEF WriteMessage, line
  <2> QED
    BY <2>1, <2>2
<1>5. ReportedIsStored'
  <2>1. trusted' = IF part = Parts(drv) THEN [trusted EXCEPT ![n] = NoTovar] ELSE trusted
    BY DEF WriteMessage
  <2>2. \A m \in Numbers : trusted'[m] # NoTovar =>
          /\ trusted'[m] = trusted[m] /\ (m # n \/ part # Parts(drv))
    BY <1>2, <1>3, <2>1 DEF Memory
  <2> QED
    BY <1>4, <2>2 DEF StoredInv, ReportedIsStored
<1>6. LineAnswers'
  <2> SUFFICES ASSUME fd' = "port", ~late'
               PROVE  Quiet' \/ \E a \in Answers : OwnAnswer(a)'
    BY <1>1 DEF LineAnswers
  <2>1. fd = "port" /\ ~late
    <3>1. UNCHANGED <<fd, late>>
      BY DEF WriteMessage, Send, line
    <3> QED
      BY <3>1, Zenon
  <2>2. conn = "COM" /\ Send(part, t) /\ Quiet
    BY <1>1, <2>1 DEF SessionInv, SessionHolds, WriteMessage, StoredInv, LineAnswers
  <2>3. rx' = <<>>
    BY <2>1, <2>2 DEF Send
  <2>4. CASE owed' = owed
    BY <2>2, <2>3, <2>4 DEF Quiet
  <2>5. CASE owed' = Append(owed, "bad")
    <3>1. owed' = <<"bad">>
      BY <2>2, <2>5 DEF Quiet
    <3> QED
      BY <2>3, <3>1 DEF OwnAnswer, OneAnswer, Answers
  <2>6. CASE owed' = Append(owed, "ok") /\ Take(part, t)
    <3>1. owed' = <<"ok">>
      BY <2>2, <2>6 DEF Quiet
    <3>2. part = Parts(drv) => plu'[n] = t
      BY <1>2, <1>3, <2>6 DEF Take, Memory
    <3>3. part' = Parts(drv') => Stored'
      BY <1>1, <3>2 DEF Stored
    <3> QED
      BY <2>3, <3>1, <3>3 DEF OwnAnswer, OneAnswer, Answers
  <2> QED
    BY <2>2, <2>4, <2>5, <2>6 DEF Send
<1> QED
  BY <1>5, <1>6 DEF StoredInv

LEMMA ReadStored ==
  ASSUME SessionInv, StoredInv, NEW answer \in {"ok", "bad", "none"},
         Listen(answer) \/ SendLibraNum(answer)
  PROVE  StoredInv'
<1> DEFINE t == l_tovar[i]
           n == NumberOf(drv, t)
<1>1. UNCHANGED <<drv, conn, l_tovar, i, plu, fd, owed>> /\ at = "listen"
  BY DEF Listen, SendLibraNum, Answer, Read, line
<1>2. n \in Numbers /\ t \in Goods /\ trusted \in Memory
  BY GoodTyped DEF Listen, SendLibraNum, SessionInv, TypeOK, Numbers, Memory
<1>3. CASE fd = "port" /\ ~late /\ ~late'
  <2>1. conn = "COM" /\ Read(answer)
    BY <1>3 DEF SessionInv, SessionHolds, Listen, SendLibraNum, Answer
  <2>2. Quiet'
    <3>1. CASE answer = "none"
      <4>1. rx = <<>> /\ rx' = rx
        BY <1>3, <2>1, <3>1 DEF Read, StoredInv, LineAnswers, Quiet, OwnAnswer, OneAnswer, Answers
      <4>2. owed = <<>>
        BY <1>3, <2>1, <3>1, <4>1 DEF Read
      <4> QED
        BY <1>1, <4>1, <4>2 DEF Quiet
    <3>2. CASE answer # "none"
      <4>1. rx # <<>> /\ rx' = Tail(rx)
        BY <2>1, <3>2 DEF Read
      <4>2. PICK a \in Answers : rx = <<a>> /\ owed = <<>>
        BY <1>3, <4>1 DEF StoredInv, LineAnswers, Quiet, OwnAnswer, OneAnswer
      <4>3. rx' = <<>>
        BY <4>1, <4>2
      <4> QED
        BY <1>1, <4>2, <4>3 DEF Quiet
    <3> QED
      BY <3>1, <3>2
  <2>3. answer = "ok" /\ part = Parts(drv) => plu[n] = t
    <3> SUFFICES ASSUME answer = "ok", part = Parts(drv) PROVE plu[n] = t
      OBVIOUS
    <3>1. rx # <<>> /\ Head(rx) = "ok"
      BY <2>1 DEF Read
    <3>2. PICK a \in Answers : OwnAnswer(a) /\ rx = <<a>>
      BY <1>3, <3>1 DEF StoredInv, LineAnswers, Quiet, OwnAnswer, OneAnswer
    <3>3. a = "ok"
      BY <3>1, <3>2
    <3> QED
      BY <3>2, <3>3 DEF OwnAnswer, Stored
  <2>4. ReportedIsStored'
    <3>1. CASE trusted' = trusted
      BY <1>1, <3>1 DEF StoredInv, ReportedIsStored
    <3>2. CASE trusted' = [trusted EXCEPT ![n] = t] /\ answer = "ok" /\ part = Parts(drv)
      BY <1>1, <1>2, <2>3, <3>2 DEF StoredInv, ReportedIsStored, Memory
    <3> QED
      BY <3>1, <3>2 DEF Listen, SendLibraNum, ErrorOf
  <2> QED
    BY <2>2, <2>4 DEF StoredInv, LineAnswers
<1>4. CASE ~(fd = "port" /\ ~late /\ ~late')
  <2>1. ~(fd' = "port" /\ ~late')
    <3>1. late => late'
      BY Zenon DEF Listen, SendLibraNum, Answer, Read, line
    <3> QED
      BY <1>1, <1>4, <3>1, Zenon
  <2>2. trusted' = trusted
    <3> SUFFICES ASSUME trusted' # trusted PROVE FALSE
      OBVIOUS
    <3>1. Listen(answer) /\ conn = "COM" /\ answer = "ok" /\ ~late'
      BY DEF Listen, SendLibraNum, ErrorOf
    <3>2. Read(answer) /\ answer # "none"
      BY <3>1 DEF Listen, Answer
    <3> QED
      BY <1>1, <2>1, <3>1, <3>2 DEF Read
  <2> QED
    BY <1>1, <2>1, <2>2 DEF StoredInv, LineAnswers, ReportedIsStored
<1> QED
  BY <1>3, <1>4

LEMMA StoredStep == SessionInv /\ StoredInv /\ [Next]_vars => StoredInv'
<1> SUFFICES ASSUME SessionInv, StoredInv, [Next]_vars PROVE StoredInv'
  OBVIOUS
<1>1. SessionHolds'
  BY SessionStep
<1>2. CASE UNCHANGED vars
  BY <1>2 DEF vars, object, line, StoredInv, LineAnswers, ReportedIsStored, Quiet, OwnAnswer,
              OneAnswer, Stored
<1>3. CASE WriteMessage \/ \E answer \in {"ok", "bad", "none"} :
                              Listen(answer) \/ SendLibraNum(answer)
  BY <1>3, WriteStored, ReadStored
<1>4. CASE LibraConnect
  <2>1. UNCHANGED <<trusted, plu>>
    BY <1>4 DEF LibraConnect, TigerConnect, VpConnect, LpConnect, NoConnect, Open, line
  <2>2. fd' = "port" /\ ~late' => Quiet'
    <3>1. CASE Open
      BY <3>1 DEF Open, Quiet
    <3>2. CASE UNCHANGED line
      <4>1. fd' = "none"
        BY <1>4, <3>2 DEF LibraConnect, SessionInv, SessionHolds, line
      <4> QED
        BY <4>1
    <3> QED
      BY <1>4, <3>1, <3>2 DEF LibraConnect, TigerConnect, VpConnect, LpConnect, NoConnect
  <2> QED
    BY <2>1, <2>2 DEF StoredInv, LineAnswers, ReportedIsStored
<1>5. CASE LibraDisconnect \/ Raise \/ Restart
  <2>1. UNCHANGED <<trusted, plu>> /\ at' = "idle"
    BY <1>5 DEF LibraDisconnect, TigerDisconnect, SerialDisconnect, NoDisconnect, Close, Raise,
                Abandon, Restart, Release, line
  <2>2. fd' = "none"
    BY <1>1, <2>1 DEF SessionHolds
  <2> QED
    BY <2>1, <2>2 DEF StoredInv, LineAnswers, ReportedIsStored
<1>6. CASE ScaleAnswers
  <2>1. UNCHANGED <<drv, at, l_tovar, i, part, trusted, plu, fd, late>> /\ owed # <<>> /\ Arrive
    BY <1>6 DEF ScaleAnswers, Arrive, object
  <2>2. \A a : OwnAnswer(a) => OwnAnswer(a)'
    BY <2>1, OneAnswerArrives DEF OwnAnswer, Stored
  <2> QED
    BY <2>1, <2>2 DEF StoredInv, LineAnswers, ReportedIsStored, Quiet
<1>7. CASE LibraTovarAdd \/ ProgrammingAllTovar \/ LoopEnds \/ Refuse \/ WriteRecord
             \/ StartGood \/ NextTovar \/ PressOk \/ SendFile
  <2>1. UNCHANGED <<trusted, plu, fd, late, rx, owed>> /\ at # "listen"
    BY <1>7 DEF LibraTovarAdd, ProgrammingAllTovar, LoopEnds, Refuse, WriteRecord, StartGood,
                NextTovar, PressOk, SendFile, line, object
  <2> QED
    BY <2>1 DEF StoredInv, LineAnswers, ReportedIsStored, Quiet
<1> QED
  BY <1>2, <1>3, <1>4, <1>5, <1>6, <1>7, Zenon DEF Next, Progress

\* A good a scale on a COM line reported as programmed is in its memory under its number,
\* whatever was lost or refused, unless an answer came after its reader had given up.
THEOREM ReportedIsStoredCorrect == Spec => []ReportedIsStored
<1>1. Init => SessionInv /\ StoredInv
  BY TypeInit, SessionInit, StoredInit DEF SessionInv
<1>2. SessionInv /\ StoredInv /\ [Next]_vars => SessionInv' /\ StoredInv'
  BY TypeStep, SessionStep, StoredStep DEF SessionInv
<1>3. StoredInv => ReportedIsStored
  BY DEF StoredInv
<1> QED
  BY <1>1, <1>2, <1>3, PTL DEF Spec

-----------------------------------------------------------------------------
(***************************************************************************)
(* What is in the records.                                                  *)
(***************************************************************************)

\* The record a scale on a COM line is being sent reads back as the good of the loop,
\* whatever goods are in the list and whatever the number of the scale is.
THEOREM LineRecordCorrect == Spec => []LineRecordReads
<1>1. TypeOK => LineRecordReads
  <2> SUFFICES ASSUME TypeOK, at = "listen"
               PROVE  IF drv = "VP" THEN VpSays(VpRecord(Number, l_tovar[i]), Number, l_tovar[i])
                      ELSE LpSays(LpRecord(l_tovar[i]), l_tovar[i])
    BY DEF LineRecordReads
  <2>1. l_tovar[i] \in Tovar
    BY GoodTyped, Constants DEF TypeOK
  <2>2. Number \in Nat
    BY LineAssumption
  <2> QED
    BY <2>1, <2>2, VpReads, LpReads
<1> QED
  BY <1>1, TypeCorrect, PTL

-----------------------------------------------------------------------------
(***************************************************************************)
(* What is in the file of a load for DIGI or VPM.  The inductive invariant  *)
(* says where in the file the record of each accepted good lies, so that    *)
(* RecordsRead applies to the file.                                         *)
(***************************************************************************)

Binary == {"DIGI_SM", "VPM"}
Writing == {"good", "result", "send", "close"}

\* What the drivers that write binary records may add for a good.
BinaryRecords(d, t) ==
    IF d = "DIGI_SM" THEN {DigiRecord(Prefix, t)} ELSE {VpmTovar(Prefix, t, stray) : stray \in Strays}

LEMMA SameRecords == \A d \in Binary : \A t : Records_Of(d, t) = BinaryRecords(d, t)
BY DEF Records_Of, BinaryRecords, Binary

\* The record of an accepted good lies in the file, between the bytes of the good before
\* it and those of the next one; a refused good has no byte.
GoodLies(d, f, off, list, j) ==
    IF Accepted(d, list[j])
    THEN \E r \in BinaryRecords(d, list[j]) : LiesAt(f, off[j - 1], r) /\ off[j] = off[j - 1] + Len(r)
    ELSE off[j] = off[j - 1]

\* So lie the first n goods of a list, and there is nothing behind them.
GoodsLie(d, f, off, list, n) ==
    /\ off[0] = 0 /\ off[n] = Len(f)
    /\ \A j \in 1 .. n : GoodLies(d, f, off, list, j)

FileHolds ==
    /\ at = "begin" => i = 1
    /\ drv \in Binary /\ at \in Writing =>
          /\ file \in Seq(Int)
          /\ \E off \in [0 .. Done -> Nat] : GoodsLie(drv, file, off, l_tovar, Done)

LEMMA FileInit == Init => FileHolds
BY DEF Init, FileHolds, Writing

LEMMA DoneTyped ==
  ASSUME TypeOK
  PROVE  Done \in Nat /\ Done <= Len(l_tovar)
BY DEF TypeOK, Done, Least

\* What was in the file stays where it was when a record is added.
LEMMA StillLies ==
  ASSUME NEW f \in Seq(Int), NEW r \in Seq(Int), NEW a \in Nat, NEW q, Len(q) \in Nat,
         LiesAt(f, a, q)
  PROVE  LiesAt(f \o r, a, q)
<1>1. /\ Len(f \o r) = Len(f) + Len(r)
      /\ \A k \in 1 .. Len(f) : (f \o r)[k] = f[k]
  BY ConcatProperties
<1>2. \A j \in 1 .. Len(q) : a + j \in 1 .. Len(f)
  BY DEF LiesAt
<1>3. \A j \in 1 .. Len(q) : (f \o r)[a + j] = q[j]
  BY <1>1, <1>2 DEF LiesAt, FieldAt
<1>4. a + Len(q) <= Len(f \o r)
  BY <1>1 DEF LiesAt
<1> QED
  BY <1>3, <1>4 DEF LiesAt, FieldAt

LEMMA NewLies ==
  ASSUME NEW f \in Seq(Int), NEW r \in Seq(Int)
  PROVE  LiesAt(f \o r, Len(f), r) /\ Len(f \o r) = Len(f) + Len(r)
<1>1. /\ Len(f \o r) = Len(f) + Len(r)
      /\ \A k \in 1 .. Len(f) + Len(r) : (f \o r)[k] = IF k <= Len(f) THEN f[k] ELSE r[k - Len(f)]
  BY ConcatProperties
<1>2. \A j \in 1 .. Len(r) : Len(f) + j \in 1 .. Len(f) + Len(r) /\ ~(Len(f) + j <= Len(f))
                              /\ Len(f) + j - Len(f) = j
  OBVIOUS
<1>3. \A j \in 1 .. Len(r) : (f \o r)[Len(f) + j] = r[j]
  BY <1>1, <1>2
<1> QED
  BY <1>1, <1>3 DEF LiesAt, FieldAt

\* A record of DIGI or VPM is a text.
LEMMA RecordTyped ==
  ASSUME NEW d \in Binary, NEW t \in Goods, NEW r \in BinaryRecords(d, t)
  PROVE  r \in Seq(Int) /\ Len(r) \in Nat
<1>1. t \in Tovar /\ Prefix \in 0 .. 99
  BY Constants, LibraAssumption
<1>2. CASE d = "DIGI_SM"
  <2>1. r = DigiRecord(Prefix, t)
    BY <1>2 DEF BinaryRecords
  <2>2. DigiFields(DigiRecord(Prefix, t), Prefix, t)
    BY <1>1, DigiLayout
  <2> QED
    BY <2>1, <2>2 DEF DigiFields
<1>3. CASE d = "VPM"
  <2>1. PICK stray \in Strays : r = VpmTovar(Prefix, t, stray)
    BY <1>3 DEF BinaryRecords
  <2>2. stray \in Byte \X Byte
    BY LibraAssumption
  <2>3. VpmFields(VpmTovar(Prefix, t, stray), Plu(Prefix, t), Prefix, t, Sell(t, stray))
    BY Zenon, <1>1, <2>2, VpmTovarLayout
  <2> QED
    BY <2>1, <2>3 DEF VpmFields
<1> QED
  BY <1>2, <1>3 DEF Binary

LEMMA AddsRecord ==
  ASSUME NEW f \in Seq(Int), NEW n \in Nat, NEW off \in [0 .. n -> Nat],
         NEW list \in Seq(Goods), n + 1 <= Len(list), NEW d \in Binary,
         GoodsLie(d, f, off, list, n), Accepted(d, list[n + 1]),
         NEW r \in BinaryRecords(d, list[n + 1])
  PROVE  \E new \in [0 .. n + 1 -> Nat] : GoodsLie(d, f \o r, new, list, n + 1)
<1>1. list[n + 1] \in Goods /\ \A j \in 1 .. n : list[j] \in Goods
  BY ElementOfSeq
<1>2. r \in Seq(Int) /\ Len(r) \in Nat /\ Len(f) \in Nat
  BY <1>1, RecordTyped
<1> DEFINE g == f \o r
           end == Len(f) + Len(r)
           new == [j \in 0 .. n + 1 |-> IF j = n + 1 THEN end ELSE off[j]]
<1>3. LiesAt(g, Len(f), r) /\ Len(g) = end /\ end \in Nat
  BY <1>2, NewLies
<1> HIDE DEF end
<1>4. new \in [0 .. n + 1 -> Nat] /\ \A j \in 0 .. n : new[j] = off[j]
  BY <1>3
<1>5. new[n + 1] = end
  OBVIOUS
<1> HIDE DEF new
<1>6. new[0] = 0 /\ new[n + 1] = Len(g)
  BY <1>3, <1>4, <1>5 DEF GoodsLie
<1>7. ASSUME NEW j \in 1 .. n PROVE GoodLies(d, g, new, list, j)
  <2>1. GoodLies(d, f, off, list, j) /\ new[j] = off[j] /\ new[j - 1] = off[j - 1]
        /\ off[j - 1] \in Nat
    BY <1>4 DEF GoodsLie
  <2>2. CASE Accepted(d, list[j])
    <3>1. PICK q \in BinaryRecords(d, list[j]) :
             LiesAt(f, off[j - 1], q) /\ off[j] = off[j - 1] + Len(q)
      BY <2>1, <2>2 DEF GoodLies
    <3>2. Len(q) \in Nat
      BY <1>1, <3>1, RecordTyped
    <3>3. LiesAt(g, off[j - 1], q)
      BY <1>2, <2>1, <3>1, <3>2, StillLies
    <3> QED
      BY <2>1, <2>2, <3>1, <3>3 DEF GoodLies
  <2>3. CASE ~Accepted(d, list[j])
    BY <2>1, <2>3 DEF GoodLies
  <2> QED
    BY <2>2, <2>3
<1>8. GoodLies(d, g, new, list, n + 1)
  <2>1. (n + 1) - 1 = n
    OBVIOUS
  <2>2. new[n] = Len(f)
    BY <1>4 DEF GoodsLie
  <2>3. new[(n + 1) - 1] = Len(f)
    BY <2>1, <2>2
  <2>4. new[n + 1] = Len(f) + Len(r)
    BY <1>5 DEF end
  <2>5. LiesAt(g, new[(n + 1) - 1], r) /\ new[n + 1] = new[(n + 1) - 1] + Len(r)
    BY <1>3, <2>3, <2>4, Zenon
  <2> QED
    BY <2>5, Zenon DEF GoodLies
<1>9. \A j \in 1 .. n + 1 : GoodLies(d, g, new, list, j)
  <2>1. \A j \in 1 .. n + 1 : j \in 1 .. n \/ j = n + 1
    OBVIOUS
  <2> QED
    BY <1>7, <1>8, <2>1
<1> HIDE DEF g
<1>10. GoodsLie(d, g, new, list, n + 1)
  BY <1>6, <1>9 DEF GoodsLie
<1> QED
  BY <1>4, <1>10 DEF g

LEMMA AddsNothing ==
  ASSUME NEW f \in Seq(Int), NEW n \in Nat, NEW off \in [0 .. n -> Nat],
         NEW list, NEW d, GoodsLie(d, f, off, list, n), ~Accepted(d, list[n + 1])
  PROVE  \E new \in [0 .. n + 1 -> Nat] : GoodsLie(d, f, new, list, n + 1)
<1> DEFINE new == [j \in 0 .. n + 1 |-> IF j = n + 1 THEN off[n] ELSE off[j]]
<1>1. new \in [0 .. n + 1 -> Nat] /\ \A j \in 0 .. n : new[j] = off[j]
  OBVIOUS
<1>2. new[n + 1] = off[n]
  OBVIOUS
<1> HIDE DEF new
<1>3. new[0] = 0 /\ new[n + 1] = Len(f)
  BY <1>1, <1>2 DEF GoodsLie
<1>4. ASSUME NEW j \in 1 .. n PROVE GoodLies(d, f, new, list, j)
  <2>1. GoodLies(d, f, off, list, j) /\ new[j] = off[j] /\ new[j - 1] = off[j - 1]
    BY <1>1 DEF GoodsLie
  <2> QED
    BY <2>1, Zenon DEF GoodLies
<1>5. GoodLies(d, f, new, list, n + 1)
  <2>1. n + 1 - 1 = n /\ new[n] = off[n]
    BY <1>1
  <2> QED
    BY <1>2, <2>1 DEF GoodLies
<1>6. \A j \in 1 .. n + 1 : GoodLies(d, f, new, list, j)
  <2>1. \A j \in 1 .. n + 1 : j \in 1 .. n \/ j = n + 1
    OBVIOUS
  <2> QED
    BY <1>4, <1>5, <2>1
<1> QED
  BY <1>1, <1>3, <1>6 DEF GoodsLie

LEMMA FileStep == TypeOK /\ TypeOK' /\ FileHolds /\ [Next]_vars => FileHolds'
<1> SUFFICES ASSUME TypeOK, TypeOK', FileHolds, [Next]_vars PROVE FileHolds'
  OBVIOUS
<1>1. ~(drv \in Binary /\ drv \in Serial)
  BY DEF Binary, Serial
<1>2. ASSUME UNCHANGED <<drv, at, l_tovar, i, mod, file>>
      PROVE  FileHolds'
  BY <1>2 DEF FileHolds, Done
<1>3. ASSUME at' \notin Writing, at' = "begin" => i' = 1
      PROVE  FileHolds'
  BY <1>3 DEF FileHolds
<1>4. ASSUME drv \in Serial, drv' = drv, at' # "begin"
      PROVE  FileHolds'
  BY <1>1, <1>4 DEF FileHolds
<1>5. ASSUME UNCHANGED <<drv, l_tovar, mod, file>>, Done' = Done, at \in Writing, at' \in Writing
      PROVE  FileHolds'
  <2>1. at' # "begin"
    BY <1>5 DEF Writing
  <2> QED
    BY <1>5, <2>1 DEF FileHolds
<1>6. CASE UNCHANGED vars \/ ScaleAnswers
  <2>1. UNCHANGED <<drv, at, l_tovar, i, mod, file>>
    BY <1>6 DEF vars, object, ScaleAnswers
  <2> QED
    BY <1>2, <2>1
<1>7. CASE LibraConnect \/ LibraDisconnect \/ Raise \/ Restart
  <2>1. at' \in {"fill", "idle"}
    BY <1>7 DEF LibraConnect, LibraDisconnect, Raise, Restart
  <2> QED
    BY <1>3, <2>1 DEF Writing
<1>8. CASE LibraTovarAdd
  <2>1. at = "fill" /\ at' = "begin" /\ i' = i
    BY <1>8 DEF LibraTovarAdd
  <2> QED
    BY <1>3, <2>1 DEF Writing, TypeOK
<1>9. CASE ProgrammingAllTovar
  <2>1. at = "begin" /\ at' = "good" /\ i' = 1 /\ drv' = drv
    BY <1>9 DEF ProgrammingAllTovar, object, FileHolds
  <2>2. drv \in Binary => file' = <<>>
    BY <1>9 DEF ProgrammingAllTovar, Binary
  <2>3. Done' = 0
    BY <2>1 DEF Done
  <2>4. \E off \in [0 .. 0 -> Nat] : GoodsLie(drv, <<>>, off, l_tovar', 0)
    <3> DEFINE off == [j \in 0 .. 0 |-> 0]
    <3>1. off \in [0 .. 0 -> Nat] /\ off[0] = 0 /\ Len(<<>>) = 0
      OBVIOUS
    <3>2. GoodsLie(drv, <<>>, off, l_tovar', 0)
      BY <3>1 DEF GoodsLie
    <3> QED
      BY <3>1, <3>2
  <2>5. <<>> \in Seq(Int)
    OBVIOUS
  <2> QED
    BY <2>1, <2>2, <2>3, <2>4, <2>5 DEF FileHolds
<1>10. CASE LoopEnds
  <2>1. /\ at = "good" /\ at' \in {"send", "close"} /\ i = Len(l_tovar) + 1
        /\ UNCHANGED <<drv, l_tovar, i, mod, file>>
    BY <1>10 DEF LoopEnds, object, TypeOK
  <2>2. Done' = Done
    BY <2>1 DEF Done, Least, TypeOK
  <2> QED
    BY <1>5, <2>1, <2>2 DEF Writing
<1>11. CASE SendFile
  <2>1. at = "send" /\ at' = "close" /\ UNCHANGED <<drv, l_tovar, i, mod, file>>
    BY <1>11 DEF SendFile, object
  <2>2. Done' = Done
    BY <2>1 DEF Done
  <2> QED
    BY <1>5, <2>1, <2>2 DEF Writing
<1>12. CASE NextTovar /\ at' \notin Boxes
  <2>1. at = "result" /\ at' \in Writing /\ UNCHANGED <<drv, l_tovar, mod, file>>
    BY <1>12, LoopGoes DEF NextTovar, Writing
  <2>2. i \in Nat /\ i <= Len(l_tovar) /\ Done = i
    BY <2>1 DEF TypeOK, Done, Least
  <2>3. IF at' = "good" THEN i' = i + 1 ELSE i' = i
    BY <1>12, LoopGoes
  <2>4. Done' = Done
    BY <2>1, <2>2, <2>3 DEF Done, Least
  <2> QED
    BY <1>5, <2>1, <2>4 DEF Writing
<1>15. CASE PressOk \/ (NextTovar /\ at' \in Boxes)
  <2>1. drv = "LP" /\ drv' = drv /\ at' # "begin"
    BY <1>15 DEF PressOk, NextTovar, TypeOK
  <2> QED
    BY <1>4, <2>1 DEF Serial
<1>13. CASE StartGood \/ WriteMessage \/ \E answer \in {"ok", "bad", "none"} :
                                             Listen(answer) \/ SendLibraNum(answer)
  <2>1. drv \in Serial /\ drv' = drv /\ at' # "begin"
    BY <1>13 DEF StartGood, WriteMessage, Listen, SendLibraNum, TypeOK
  <2> QED
    BY <1>4, <2>1
<1>14. CASE Refuse \/ WriteRecord
  <2>1. /\ at = "good" /\ at' = "result" /\ i <= Len(l_tovar)
        /\ UNCHANGED <<drv, l_tovar, i, mod>>
    BY <1>14 DEF Refuse, WriteRecord, object
  <2> DEFINE n == i - 1
  <2>2. n \in Nat /\ n + 1 = i /\ Done = n /\ Done' = n + 1 /\ n + 1 <= Len(l_tovar)
    BY <2>1 DEF Done, Least, TypeOK
  <2> HIDE DEF n
  <2> SUFFICES ASSUME drv \in Binary
               PROVE  /\ file' \in Seq(Int)
                      /\ \E off \in [0 .. n + 1 -> Nat] : GoodsLie(drv, file', off, l_tovar, n + 1)
    BY <2>1, <2>2 DEF FileHolds
  <2>3. file \in Seq(Int) /\ \E off \in [0 .. n -> Nat] : GoodsLie(drv, file, off, l_tovar, n)
    BY <2>1, <2>2 DEF FileHolds, Writing
  <2>4. PICK off \in [0 .. n -> Nat] : GoodsLie(drv, file, off, l_tovar, n)
    BY <2>3
  <2>6. CASE Refuse
    <3>1. file' = file /\ ~Accepted(drv, l_tovar[n + 1])
      BY <2>2, <2>6 DEF Refuse
    <3>2. PICK new \in [0 .. n + 1 -> Nat] : GoodsLie(drv, file, new, l_tovar, n + 1)
      BY <2>2, <2>3, <2>4, <3>1, AddsNothing
    <3> QED
      BY <2>3, <3>1, <3>2
  <2>7. CASE WriteRecord
    <3>1. /\ Accepted(drv, l_tovar[n + 1])
          /\ \E r \in Records_Of(drv, l_tovar[n + 1]) : file' = file \o r
      BY <2>2, <2>7 DEF WriteRecord
    <3>2. PICK r \in BinaryRecords(drv, l_tovar[n + 1]) : file' = file \o r
      BY <3>1, SameRecords
    <3>3. l_tovar \in Seq(Goods)
      BY DEF TypeOK
    <3>4. PICK new \in [0 .. n + 1 -> Nat] : GoodsLie(drv, file \o r, new, l_tovar, n + 1)
      BY <2>2, <2>3, <2>4, <3>1, <3>2, <3>3, AddsRecord
    <3>5. file \o r \in Seq(Int)
      <4>1. l_tovar[n + 1] \in Goods
        BY <2>2, <3>3, ElementOfSeq
      <4>2. r \in Seq(Int)
        BY <3>2, <4>1, RecordTyped
      <4> QED
        BY <2>3, <4>2, ConcatProperties
    <3> QED
      BY <3>2, <3>4, <3>5
  <2> QED
    BY <1>14, <2>6, <2>7
<1> QED
  BY <1>6, <1>7, <1>8, <1>9, <1>10, <1>11, <1>12, <1>13, <1>14, <1>15, Zenon DEF Next, Progress

LEMMA FileCorrect == Spec => [](TypeOK /\ FileHolds)
<1>1. Init => TypeOK /\ FileHolds
  BY TypeInit, FileInit
<1>2. TypeOK /\ FileHolds /\ [Next]_vars => TypeOK' /\ FileHolds'
  BY TypeStep, FileStep
<1> QED
  BY <1>1, <1>2, PTL DEF Spec

\* The goods accepted among the first j, as Programmed counts them up.
Counts(taken) ==
    /\ taken[0] = <<>>
    /\ \A j \in 1 .. Done :
          taken[j] = IF Accepted(drv, l_tovar[j]) THEN More(taken[j - 1], l_tovar[j])
                     ELSE taken[j - 1]

LEMMA ProgrammedCounts ==
  ASSUME TypeOK
  PROVE  \E taken \in [0 .. Done -> Seq(Goods)] : Counts(taken) /\ Programmed = taken[Done]
<1> DEFINE n == Done
           Rule(f) == [j \in 0 .. n |->
                        IF j = 0 THEN <<>>
                        ELSE IF Accepted(drv, l_tovar[j]) THEN Append(f[j - 1], l_tovar[j])
                        ELSE f[j - 1]]
           taken == CHOOSE f : f = Rule(f)
           g == [p \in Nat \X Seq(Goods) |->
                   IF p[1] \in 1 .. n /\ Accepted(drv, l_tovar[p[1]])
                   THEN More(p[2], l_tovar[p[1]]) ELSE p[2]]
<1>1. n \in Nat /\ \A j \in 1 .. n : l_tovar[j] \in Goods
  <2>1. n \in Nat /\ n <= Len(l_tovar) /\ l_tovar \in Seq(Goods)
    BY DoneTyped DEF TypeOK
  <2> HIDE DEF n
  <2> QED
    BY <2>1, ElementOfSeq
<1>2. Programmed = taken[n]
  BY DEF Programmed
<1>3. \A f : Rule(f) = [j \in 0 .. n |->
                          IF j = 0 THEN <<>>
                          ELSE IF Accepted(drv, l_tovar[j]) THEN More(f[j - 1], l_tovar[j])
                          ELSE f[j - 1]]
  BY DEF More
<1> HIDE DEF n, Rule
<1>4. g \in Rules(Seq(Goods))
  <2>1. \A k \in 1 .. n : \A s \in Seq(Goods) : More(s, l_tovar[k]) \in Seq(Goods)
    BY <1>1, MoreTyped
  <2>2. \A p \in Nat \X Seq(Goods) :
           (IF p[1] \in 1 .. n /\ Accepted(drv, l_tovar[p[1]])
            THEN More(p[2], l_tovar[p[1]]) ELSE p[2]) \in Seq(Goods)
    BY <2>1
  <2> QED
    BY <2>2 DEF Rules
<1>5. <<>> \in Seq(Goods)
  BY EmptySeq
<1>6. PICK f \in [0 .. n -> Seq(Goods)] : Follows(f, <<>>, g, n)
  <2> HIDE DEF g
  <2> QED
    BY <1>1, <1>4, <1>5, Recursion
<1>7. ASSUME NEW j \in 1 .. n
      PROVE  f[j] = IF Accepted(drv, l_tovar[j]) THEN More(f[j - 1], l_tovar[j]) ELSE f[j - 1]
  <2>1. f[j] = g[<<j, f[j - 1]>>]
    BY <1>6 DEF Follows
  <2>2. <<j, f[j - 1]>> \in Nat \X Seq(Goods)
    BY <1>1
  <2> QED
    BY <2>1, <2>2
<1> HIDE DEF g
<1>8. f = Rule(f)
  <2> DEFINE v(j) == IF j = 0 THEN <<>>
                     ELSE IF Accepted(drv, l_tovar[j]) THEN More(f[j - 1], l_tovar[j])
                     ELSE f[j - 1]
  <2>1. f[0] = <<>>
    BY <1>6 DEF Follows
  <2>2. \A j \in 0 .. n : f[j] = v(j)
    <3> TAKE j \in 0 .. n
    <3>1. CASE j = 0
      BY <2>1, <3>1
    <3>2. CASE j # 0
      <4>1. j \in 1 .. n
        BY <1>1, <3>2
      <4>2. f[j] = IF Accepted(drv, l_tovar[j]) THEN More(f[j - 1], l_tovar[j]) ELSE f[j - 1]
        BY <1>7, <4>1
      <4> QED
        BY <3>2, <4>2, Zenon
    <3> QED
      BY <3>1, <3>2
  <2>3. Rule(f) = [j \in 0 .. n |-> v(j)]
    BY <1>3, Zenon
  <2> HIDE DEF v
  <2>4. f = [j \in 0 .. n |-> v(j)]
    BY <2>2
  <2> QED
    BY <2>3, <2>4
<1>9. taken = Rule(taken)
  BY <1>8
<1> HIDE DEF taken
<1>10. /\ taken[0] = <<>>
       /\ \A j \in 1 .. n :
             taken[j] = IF Accepted(drv, l_tovar[j]) THEN More(taken[j - 1], l_tovar[j])
                        ELSE taken[j - 1]
  BY <1>1, <1>3, <1>9
<1>11. \A j \in 0 .. n : taken[j] \in Seq(Goods)
  <2> DEFINE S == {j \in 0 .. n : taken[j] \in Seq(Goods)}
  <2>1. 0 \in S
    BY <1>1, <1>5, <1>10
  <2>2. \A j \in 0 .. n : j \in S /\ j < n => j + 1 \in S
    <3> SUFFICES ASSUME NEW j \in 0 .. n, taken[j] \in Seq(Goods), j < n
                 PROVE  taken[j + 1] \in Seq(Goods)
      BY <1>1
    <3>1. j + 1 \in 1 .. n /\ j + 1 - 1 = j
      BY <1>1
    <3>2. taken[j + 1] = IF Accepted(drv, l_tovar[j + 1]) THEN More(taken[j], l_tovar[j + 1])
                         ELSE taken[j]
      BY <1>10, <3>1
    <3>3. More(taken[j], l_tovar[j + 1]) \in Seq(Goods)
      BY <1>1, <3>1, MoreTyped
    <3> QED
      BY <3>2, <3>3
  <2> HIDE DEF S
  <2>3. \A j \in 0 .. n : j \in S
    BY <1>1, <2>1, <2>2, UpTo
  <2> QED
    BY <2>3 DEF S
<1>12. taken \in [0 .. n -> Seq(Goods)]
  BY <1>3, <1>9, <1>11
<1> QED
  BY <1>2, <1>10, <1>12 DEF Counts, n

\* Each good adds to the file nothing, or a record that the reader finds the end of.
LEMMA GoodsRead ==
  ASSUME TypeOK, FileHolds, drv \in Binary, at \in Writing, NEW next, NEW Says,
         NEW taken, Counts(taken), NEW off \in [0 .. Done -> Nat],
         GoodsLie(drv, file, off, l_tovar, Done),
         \A t \in Goods, a \in Nat : \A r \in BinaryRecords(drv, t) :
            LiesAt(file, a, r) =>
               /\ Len(r) \in Nat /\ 0 < Len(r) /\ r \in Text(Len(r))
               /\ Ends(next, a, a + Len(r)) /\ <<r, t>> \in Says
  PROVE  \A j \in 1 .. Done : Lies(file, next, off, taken, Goods, Says, j)
<1> SUFFICES ASSUME NEW j \in 1 .. Done PROVE Lies(file, next, off, taken, Goods, Says, j)
  OBVIOUS
<1> DEFINE a == off[j - 1]
           t == l_tovar[j]
<1>1. Done \in Nat /\ Done <= Len(l_tovar) /\ l_tovar \in Seq(Goods)
  BY DoneTyped DEF TypeOK
<1>2. a \in Nat /\ t \in Goods /\ GoodLies(drv, file, off, l_tovar, j)
  BY <1>1, ElementOfSeq DEF GoodsLie
<1>3. taken[j] = IF Accepted(drv, t) THEN More(taken[j - 1], t) ELSE taken[j - 1]
  BY DEF Counts
<1>4. CASE Accepted(drv, t)
  <2>1. PICK r \in BinaryRecords(drv, t) : LiesAt(file, a, r) /\ off[j] = a + Len(r)
    BY <1>2, <1>4 DEF GoodLies
  <2>2. /\ Len(r) \in Nat /\ 0 < Len(r) /\ r \in Text(Len(r))
        /\ Ends(next, a, a + Len(r)) /\ <<r, t>> \in Says
    BY <1>2, <2>1
  <2>3. Cut(file, a + 1, a + Len(r)) = r
    BY <1>2, <2>1, <2>2, CutIs DEF LiesAt
  <2>4. /\ off[j - 1] < off[j] /\ off[j] <= Len(file) /\ next[off[j - 1] + 1] = off[j] + 1
        /\ <<Cut(file, off[j - 1] + 1, off[j]), t>> \in Says
    BY <1>2, <2>1, <2>2, <2>3 DEF LiesAt, Ends
  <2>5. taken[j] = More(taken[j - 1], t)
    BY <1>3, <1>4
  <2> HIDE DEF t
  <2> QED
    BY <1>2, <2>4, <2>5, Zenon DEF Lies
<1>5. CASE ~Accepted(drv, t)
  <2>1. off[j] = off[j - 1] /\ taken[j] = taken[j - 1]
    BY <1>2, <1>3, <1>5 DEF GoodLies
  <2> QED
    BY <2>1, Zenon DEF Lies
<1> QED
  BY <1>4, <1>5

LEMMA FileRead ==
  ASSUME TypeOK, FileHolds, drv \in Binary, at \in Writing, NEW next, NEW Says,
         \A t \in Goods, a \in Nat : \A r \in BinaryRecords(drv, t) :
            LiesAt(file, a, r) =>
               /\ Len(r) \in Nat /\ 0 < Len(r) /\ r \in Text(Len(r))
               /\ Ends(next, a, a + Len(r)) /\ <<r, t>> \in Says
  PROVE  /\ Len(Records(file, next)) = Len(Programmed)
         /\ \A k \in DOMAIN Records(file, next) : <<Records(file, next)[k], Programmed[k]>> \in Says
<1>1. file \in Seq(Int) /\ Done \in Nat
  BY DoneTyped DEF FileHolds
<1>2. PICK taken \in [0 .. Done -> Seq(Goods)] : Counts(taken) /\ Programmed = taken[Done]
  BY ProgrammedCounts
<1>3. PICK off \in [0 .. Done -> Nat] : GoodsLie(drv, file, off, l_tovar, Done)
  BY DEF FileHolds
<1>4. \A j \in 1 .. Done : Lies(file, next, off, taken, Goods, Says, j)
  BY <1>2, <1>3, GoodsRead
<1>5. off[0] = 0 /\ off[Done] = Len(file) /\ taken[0] = <<>>
  BY <1>2, <1>3 DEF GoodsLie, Counts
<1>6. /\ Len(Records(file, next)) = Len(taken[Done])
      /\ \A k \in DOMAIN Records(file, next) : <<Records(file, next)[k], taken[Done][k]>> \in Says
  BY <1>1, <1>2, <1>3, <1>4, <1>5, RecordsRead
<1> QED
  BY <1>2, <1>6

\* tovar.dat of the DIGI scale, read by the lengths it states, holds the accepted goods of
\* this load and no other, in their order.
THEOREM DigiFileCorrect == Spec => []DigiFileReads
<1>1. TypeOK /\ FileHolds => DigiFileReads
  <2> SUFFICES ASSUME TypeOK, FileHolds, drv = "DIGI_SM", at \in Writing
               PROVE  /\ Len(DigiRecords(file)) = Len(Programmed)
                      /\ \A k \in DOMAIN DigiRecords(file) :
                            DigiSays(DigiRecords(file)[k], Prefix, Programmed[k])
    BY DEF DigiFileReads, HasFile, Writing
  <2> DEFINE Says == {p \in Seq(Int) \X Goods : DigiSays(p[1], Prefix, p[2])}
             next == DigiNext(file)
  <2>1. drv \in Binary /\ file \in Seq(Int)
    BY DEF Binary, FileHolds
  <2>2. ASSUME NEW t \in Goods, NEW a \in Nat, NEW r \in BinaryRecords(drv, t), LiesAt(file, a, r)
        PROVE  /\ Len(r) \in Nat /\ 0 < Len(r) /\ r \in Text(Len(r))
               /\ Ends(next, a, a + Len(r)) /\ <<r, t>> \in Says
    <3>1. t \in Tovar /\ Prefix \in 0 .. 99
      BY Constants, LibraAssumption
    <3>2. r = DigiRecord(Prefix, t)
      BY DEF BinaryRecords
    <3>3. /\ Len(r) \in Nat /\ 0 < Len(r) /\ r \in Text(Len(r))
          /\ Ends(DigiNext(file), a, a + Len(r))
      BY <2>1, <2>2, <3>1, <3>2, DigiEnds
    <3>4. DigiSays(r, Prefix, t)
      BY <3>1, <3>2, DigiReads
    <3>5. r \in Seq(Int)
      BY <3>3 DEF Text
    <3> QED
      BY <3>3, <3>4, <3>5
  <2> HIDE DEF Says, next
  <2>3. /\ Len(Records(file, next)) = Len(Programmed)
        /\ \A k \in DOMAIN Records(file, next) : <<Records(file, next)[k], Programmed[k]>> \in Says
    BY <2>1, <2>2, FileRead
  <2>4. \A r, t : <<r, t>> \in Says => DigiSays(r, Prefix, t)
    BY DEF Says
  <2> QED
    BY <2>3, <2>4 DEF DigiRecords, next
<1> QED
  BY <1>1, FileCorrect, PTL

\* The same of the file of the VPM, whatever lay behind its variable.
THEOREM VpmFileCorrect == Spec => []VpmFileReads
<1>1. TypeOK /\ FileHolds => VpmFileReads
  <2> SUFFICES ASSUME TypeOK, FileHolds, drv = "VPM", at \in Writing
               PROVE  /\ Len(VpmRecords(file)) = Len(Programmed)
                      /\ \A k \in DOMAIN VpmRecords(file) :
                            VpmSays(VpmRecords(file)[k], Prefix, Programmed[k])
    BY DEF VpmFileReads, HasFile, Writing
  <2> DEFINE Says == {p \in Seq(Int) \X Goods : VpmSays(p[1], Prefix, p[2])}
             next == VpmNext(file)
  <2>1. drv \in Binary /\ file \in Seq(Int)
    BY DEF Binary, FileHolds
  <2>2. ASSUME NEW t \in Goods, NEW a \in Nat, NEW r \in BinaryRecords(drv, t), LiesAt(file, a, r)
        PROVE  /\ Len(r) \in Nat /\ 0 < Len(r) /\ r \in Text(Len(r))
               /\ Ends(next, a, a + Len(r)) /\ <<r, t>> \in Says
    <3>1. t \in Tovar /\ Prefix \in 0 .. 99
      BY Constants, LibraAssumption
    <3>2. PICK stray \in Byte \X Byte : r = VpmTovar(Prefix, t, stray)
      BY LibraAssumption DEF BinaryRecords
    <3>3. /\ Len(r) \in Nat /\ 0 < Len(r) /\ r \in Text(Len(r))
          /\ Ends(VpmNext(file), a, a + Len(r))
      BY <2>1, <2>2, <3>1, <3>2, VpmEnds
    <3>4. VpmSays(r, Prefix, t)
      BY <3>1, <3>2, VpmReads
    <3>5. r \in Seq(Int)
      BY <3>3 DEF Text
    <3> QED
      BY <3>3, <3>4, <3>5
  <2> HIDE DEF Says, next
  <2>3. /\ Len(Records(file, next)) = Len(Programmed)
        /\ \A k \in DOMAIN Records(file, next) : <<Records(file, next)[k], Programmed[k]>> \in Says
    BY <2>1, <2>2, FileRead
  <2>4. \A r, t : <<r, t>> \in Says => VpmSays(r, Prefix, t)
    BY DEF Says
  <2> QED
    BY <2>3, <2>4 DEF VpmRecords, next
<1> QED
  BY <1>1, FileCorrect, PTL

-----------------------------------------------------------------------------
(***************************************************************************)
(* What is in the file of a load for METLER Tiger D.  A line has no length  *)
(* in it, so the inductive invariant is about the lines a reader gets: they *)
(* are those of the accepted goods, and nothing is behind the last of them. *)
(***************************************************************************)

\* The lines after each of the first n goods of a list.
LinesOfGoods(lines, list, m, n) ==
    /\ lines[0] = <<>>
    /\ \A j \in 1 .. n :
          lines[j] = IF Accepted("TigerD", list[j]) THEN More(lines[j - 1], TigerText(Prefix, m, list[j]))
                     ELSE lines[j - 1]

\* The names of the goods the driver has accepted so far are on one line.
OneLined(list, n) == \A j \in 1 .. n : Accepted("TigerD", list[j]) => OneLine(list[j].name)

LinesHold ==
    /\ at = "begin" => i = 1
    /\ drv = "TigerD" /\ at \in {"fill", "begin"} => file = <<>>
    /\ drv = "TigerD" /\ at \in Writing /\ OneLined(l_tovar, Done) =>
          \E lines \in [0 .. Done -> Bites] :
             LinesOfGoods(lines, l_tovar, mod, Done) /\ LinesOf(file, lines[Done])

LEMMA LinesInit == Init => LinesHold
BY DEF Init, LinesHold, Writing

LEMMA AddsLines ==
  ASSUME NEW n \in Nat, NEW lines \in [0 .. n -> Bites], NEW list, NEW m,
         LinesOfGoods(lines, list, m, n), NEW s \in Bites,
         s = IF Accepted("TigerD", list[n + 1]) THEN More(lines[n], TigerText(Prefix, m, list[n + 1]))
             ELSE lines[n]
  PROVE  \E new \in [0 .. n + 1 -> Bites] :
            LinesOfGoods(new, list, m, n + 1) /\ new[n + 1] = s
<1> DEFINE new == [j \in 0 .. n + 1 |-> IF j = n + 1 THEN s ELSE lines[j]]
<1>1. new \in [0 .. n + 1 -> Bites] /\ new[n + 1] = s /\ \A j \in 0 .. n : new[j] = lines[j]
  OBVIOUS
<1> HIDE DEF new
<1>2. new[0] = <<>>
  BY <1>1 DEF LinesOfGoods
<1>3. ASSUME NEW j \in 1 .. n
      PROVE  new[j] = IF Accepted("TigerD", list[j])
                      THEN More(new[j - 1], TigerText(Prefix, m, list[j])) ELSE new[j - 1]
  <2>1. j \in 0 .. n /\ j - 1 \in 0 .. n
    OBVIOUS
  <2>2. new[j] = lines[j] /\ new[j - 1] = lines[j - 1]
    BY <1>1, <2>1
  <2> QED
    BY <2>2 DEF LinesOfGoods
<1>4. new[n + 1] = IF Accepted("TigerD", list[n + 1])
                   THEN More(new[(n + 1) - 1], TigerText(Prefix, m, list[n + 1]))
                   ELSE new[(n + 1) - 1]
  <2>1. (n + 1) - 1 = n /\ n \in 0 .. n
    OBVIOUS
  <2>2. new[(n + 1) - 1] = lines[n]
    BY <1>1, <2>1
  <2> QED
    BY <1>1, <2>2, Zenon
<1>5. \A j \in 1 .. n + 1 : j \in 1 .. n \/ j = n + 1
  OBVIOUS
<1>6. LinesOfGoods(new, list, m, n + 1)
  BY <1>2, <1>3, <1>4, <1>5 DEF LinesOfGoods
<1> QED
  BY <1>1, <1>6

LEMMA LinesStep == TypeOK /\ TypeOK' /\ LinesHold /\ [Next]_vars => LinesHold'
<1> SUFFICES ASSUME TypeOK, TypeOK', LinesHold, [Next]_vars PROVE LinesHold'
  OBVIOUS
<1>1. "TigerD" \notin Serial
  BY DEF Serial
<1>2. ASSUME UNCHANGED <<drv, at, l_tovar, i, mod, file>>
      PROVE  LinesHold'
  BY <1>2 DEF LinesHold, Done
<1>3. ASSUME at' \notin Writing, at' # "begin", at' = "fill" /\ drv' = "TigerD" => file' = <<>>
      PROVE  LinesHold'
  BY <1>3 DEF LinesHold
<1>4. ASSUME drv \in Serial, drv' = drv, at' # "begin"
      PROVE  LinesHold'
  BY <1>1, <1>4 DEF LinesHold
<1>5. ASSUME UNCHANGED <<drv, l_tovar, mod, file>>, Done' = Done, at \in Writing, at' \in Writing
      PROVE  LinesHold'
  <2>1. at' # "begin" /\ at' # "fill"
    BY <1>5 DEF Writing
  <2> QED
    BY <1>5, <2>1 DEF LinesHold
<1>6. CASE UNCHANGED vars \/ ScaleAnswers
  <2>1. UNCHANGED <<drv, at, l_tovar, i, mod, file>>
    BY <1>6 DEF vars, object, ScaleAnswers
  <2> QED
    BY <1>2, <2>1
<1>7. CASE LibraConnect \/ LibraDisconnect \/ Raise \/ Restart
  <2>1. CASE LibraConnect
    <3>1. at' = "fill" /\ drv' = drv /\ (drv = "TigerD" => file' = <<>>)
      BY <2>1, <1>1 DEF LibraConnect, TigerConnect, VpConnect, LpConnect, NoConnect
    <3> QED
      BY <1>3, <3>1 DEF Writing
  <2>2. CASE LibraDisconnect \/ Raise \/ Restart
    <3>1. at' = "idle"
      BY <2>2 DEF LibraDisconnect, Raise, Restart
    <3> QED
      BY <1>3, <3>1 DEF Writing
  <2> QED
    BY <1>7, <2>1, <2>2
<1>8. CASE LibraTovarAdd
  <2>1. at = "fill" /\ at' = "begin" /\ i' = 1 /\ drv' = drv /\ file' = file
    BY <1>8 DEF LibraTovarAdd, TypeOK
  <2> QED
    BY <2>1 DEF LinesHold, Writing
<1>9. CASE ProgrammingAllTovar
  <2>1. at = "begin" /\ at' = "good" /\ i' = 1 /\ drv' = drv
    BY <1>9 DEF ProgrammingAllTovar, object, LinesHold
  <2>2. drv = "TigerD" => file' = <<>>
    BY <1>9, <2>1 DEF ProgrammingAllTovar, LinesHold
  <2>3. Done' = 0
    BY <2>1 DEF Done
  <2>4. \E lines \in [0 .. 0 -> Bites] :
           LinesOfGoods(lines, l_tovar', mod', 0) /\ LinesOf(<<>>, lines[0])
    <3> DEFINE lines == [j \in 0 .. 0 |-> <<>>]
    <3>1. lines \in [0 .. 0 -> Bites] /\ lines[0] = <<>>
      BY NothingTyped
    <3> HIDE DEF lines
    <3>2. LinesOfGoods(lines, l_tovar', mod', 0)
      BY <3>1 DEF LinesOfGoods
    <3>3. LinesOf(<<>>, lines[0])
      BY <3>1, NoLines
    <3> QED
      BY <3>1, <3>2, <3>3
  <2> QED
    BY <2>1, <2>2, <2>3, <2>4 DEF LinesHold
<1>10. CASE LoopEnds
  <2>1. /\ at = "good" /\ at' \in {"send", "close"} /\ i = Len(l_tovar) + 1
        /\ UNCHANGED <<drv, l_tovar, i, mod, file>>
    BY <1>10 DEF LoopEnds, object, TypeOK
  <2>2. Done' = Done
    BY <2>1 DEF Done, Least, TypeOK
  <2> QED
    BY <1>5, <2>1, <2>2 DEF Writing
<1>11. CASE SendFile
  <2>1. at = "send" /\ at' = "close" /\ UNCHANGED <<drv, l_tovar, i, mod, file>>
    BY <1>11 DEF SendFile, object
  <2>2. Done' = Done
    BY <2>1 DEF Done
  <2> QED
    BY <1>5, <2>1, <2>2 DEF Writing
<1>12. CASE NextTovar /\ at' \notin Boxes
  <2>1. at = "result" /\ at' \in Writing /\ UNCHANGED <<drv, l_tovar, mod, file>>
    BY <1>12, LoopGoes DEF NextTovar, Writing
  <2>2. i \in Nat /\ i <= Len(l_tovar) /\ Done = i
    BY <2>1 DEF TypeOK, Done, Least
  <2>3. IF at' = "good" THEN i' = i + 1 ELSE i' = i
    BY <1>12, LoopGoes
  <2>4. Done' = Done
    BY <2>1, <2>2, <2>3 DEF Done, Least
  <2> QED
    BY <1>5, <2>1, <2>4 DEF Writing
<1>15. CASE PressOk \/ (NextTovar /\ at' \in Boxes)
  <2>1. drv = "LP" /\ drv' = drv /\ at' # "begin"
    BY <1>15 DEF PressOk, NextTovar, TypeOK
  <2> QED
    BY <1>4, <2>1 DEF Serial
<1>13. CASE StartGood \/ WriteMessage \/ \E answer \in {"ok", "bad", "none"} :
                                             Listen(answer) \/ SendLibraNum(answer)
  <2>1. drv \in Serial /\ drv' = drv /\ at' # "begin"
    BY <1>13 DEF StartGood, WriteMessage, Listen, SendLibraNum, TypeOK
  <2> QED
    BY <1>4, <2>1
<1>14. CASE Refuse \/ WriteRecord
  <2>1. /\ at = "good" /\ at' = "result" /\ i <= Len(l_tovar)
        /\ UNCHANGED <<drv, l_tovar, i, mod>>
    BY <1>14 DEF Refuse, WriteRecord, object
  <2> DEFINE n == i - 1
             t == l_tovar[n + 1]
  <2>2. n \in Nat /\ n + 1 = i /\ Done = n /\ Done' = n + 1 /\ n + 1 <= Len(l_tovar)
    BY <2>1 DEF Done, Least, TypeOK
  <2> HIDE DEF n
  <2>3. SUFFICES ASSUME drv = "TigerD", OneLined(l_tovar, n + 1)
                 PROVE  \E new \in [0 .. n + 1 -> Bites] :
                           LinesOfGoods(new, l_tovar, mod, n + 1) /\ LinesOf(file', new[n + 1])
    BY <2>1, <2>2 DEF LinesHold
  <2>4. PICK lines \in [0 .. n -> Bites] :
           LinesOfGoods(lines, l_tovar, mod, n) /\ LinesOf(file, lines[n])
    <3>1. OneLined(l_tovar, n)
      BY <2>2, <2>3 DEF OneLined
    <3> QED
      BY <2>1, <2>2, <2>3, <3>1 DEF LinesHold, Writing
  <2>5. lines[n] \in Bites
    BY <2>2
  <2>6. CASE Refuse
    <3>1. file' = file /\ ~Accepted("TigerD", l_tovar[n + 1])
      BY <2>2, <2>3, <2>6 DEF Refuse
    <3>2. \E new \in [0 .. n + 1 -> Bites] :
             LinesOfGoods(new, l_tovar, mod, n + 1) /\ new[n + 1] = lines[n]
      BY <2>2, <2>4, <2>5, <3>1, AddsLines
    <3> QED
      BY <2>4, <3>1, <3>2
  <2>7. CASE WriteRecord
    <3>1. /\ Accepted("TigerD", l_tovar[n + 1])
          /\ \E r \in Records_Of(drv, l_tovar[n + 1]) : file' = file \o r
      BY <2>2, <2>3, <2>7 DEF WriteRecord
    <3>2. file' = file \o TigerLine(Prefix, mod, t)
      BY <2>3, <3>1 DEF Records_Of
    <3>3. t \in Tovar /\ Prefix \in Nat /\ mod \in {0, 1}
      <4>1. t \in Goods
        BY <2>2, ElementOfSeq DEF TypeOK
      <4>2. Prefix \in Nat
        BY LibraAssumption
      <4>3. mod \in {0, 1}
        BY DEF TypeOK
      <4> QED
        BY <4>1, <4>2, <4>3, Constants
    <3>4. OneLine(t.name)
      BY <2>2, <2>3, <3>1 DEF OneLined
    <3> DEFINE w == TigerText(Prefix, mod, t)
    <3>5. w \in Seq(Int) /\ Without(w, {10}) /\ TigerLine(Prefix, mod, t) = w \o <<10>>
      BY <3>3, <3>4, TigerReads, TigerLineIs
    <3> HIDE DEF w
    <3>6. LinesOf(file \o (w \o <<10>>), More(lines[n], w)) /\ More(lines[n], w) \in Bites
      BY <2>4, <2>5, <3>5, AddLine
    <3> DEFINE s == More(lines[n], w)
    <3>7. s = IF Accepted("TigerD", l_tovar[n + 1])
              THEN More(lines[n], TigerText(Prefix, mod, l_tovar[n + 1])) ELSE lines[n]
      BY <3>1 DEF w
    <3> HIDE DEF s
    <3>8. s \in Bites
      BY <3>6 DEF s
    <3>9. \E new \in [0 .. n + 1 -> Bites] :
             LinesOfGoods(new, l_tovar, mod, n + 1) /\ new[n + 1] = s
      BY <2>2, <2>4, <3>7, <3>8, AddsLines
    <3>10. LinesOf(file', s)
      BY <3>2, <3>5, <3>6 DEF s
    <3> QED
      BY <3>9, <3>10
  <2> QED
    BY <1>14, <2>6, <2>7
<1> QED
  BY <1>6, <1>7, <1>8, <1>9, <1>10, <1>11, <1>12, <1>13, <1>14, <1>15, Zenon DEF Next, Progress

LEMMA LinesCorrect == Spec => [](TypeOK /\ LinesHold)
<1>1. Init => TypeOK /\ LinesHold
  BY TypeInit, LinesInit
<1>2. TypeOK /\ LinesHold /\ [Next]_vars => TypeOK' /\ LinesHold'
  BY TypeStep, LinesStep
<1> QED
  BY <1>1, <1>2, PTL DEF Spec

\* plu.txt of the Tiger, taken apart at its line feeds and commas, holds the accepted
\* goods of this load and no other, in their order.
THEOREM TigerFileCorrect == Spec => []TigerFileReads
<1>1. TypeOK /\ LinesHold => TigerFileReads
  <2> SUFFICES ASSUME TypeOK, LinesHold, drv = "TigerD", at \in Writing, OneLined(l_tovar, Done)
               PROVE  /\ Len(TigerLines(file)) = Len(Programmed)
                      /\ \A k \in DOMAIN TigerLines(file) :
                            TigerSays(TigerLines(file)[k], Prefix, mod, Programmed[k])
    BY DEF TigerFileReads, HasFile, Writing, OneLined
  <2> DEFINE n == Done
  <2>1. n \in Nat /\ n <= Len(l_tovar) /\ l_tovar \in Seq(Goods)
    BY DoneTyped DEF TypeOK
  <2>2. PICK taken \in [0 .. n -> Seq(Goods)] : Counts(taken) /\ Programmed = taken[n]
    BY ProgrammedCounts
  <2>3. PICK lines \in [0 .. n -> Bites] :
           LinesOfGoods(lines, l_tovar, mod, n) /\ LinesOf(file, lines[n])
    BY DEF LinesHold
  <2> DEFINE Same(q, g) == /\ Len(q) = Len(g)
                           /\ \A k \in 1 .. Len(q) : TigerSays(q[k], Prefix, mod, g[k])
             S == {j \in 0 .. n : Same(lines[j], taken[j])}
  <2>4. /\ taken[0] = <<>> /\ lines[0] = <<>>
        /\ \A j \in 1 .. n :
              taken[j] = IF Accepted("TigerD", l_tovar[j]) THEN More(taken[j - 1], l_tovar[j])
                         ELSE taken[j - 1]
        /\ \A j \in 1 .. n :
              lines[j] = IF Accepted("TigerD", l_tovar[j])
                         THEN More(lines[j - 1], TigerText(Prefix, mod, l_tovar[j]))
                         ELSE lines[j - 1]
    BY <2>2, <2>3 DEF Counts, LinesOfGoods
  <2> HIDE DEF n
  <2>5. 0 \in S
    BY <2>1, <2>4
  <2>6. ASSUME NEW j \in 0 .. n, j \in S, j < n PROVE j + 1 \in S
    <3>1. j + 1 \in 1 .. n /\ j + 1 \in 0 .. n /\ (j + 1) - 1 = j /\ j + 1 \in 1 .. Len(l_tovar)
      BY <2>1, <2>6
    <3> DEFINE t == l_tovar[j + 1]
               w == TigerText(Prefix, mod, t)
               q == lines[j]
               g == taken[j]
    <3>2. t \in Goods
      BY <2>1, <3>1, ElementOfSeq
    <3>3. q \in Bites /\ g \in Seq(Goods) /\ Same(q, g)
      BY <2>6
    <3>4. /\ taken[j + 1] = IF Accepted("TigerD", t) THEN More(g, t) ELSE g
          /\ lines[j + 1] = IF Accepted("TigerD", t) THEN More(q, w) ELSE q
      BY <2>4, <3>1
    <3>5. w \in Seq(Int) /\ TigerSays(w, Prefix, mod, t)
      <4>1. t \in Tovar /\ Prefix \in Nat /\ mod \in {0, 1}
        BY <3>2, Constants, LibraAssumption DEF TypeOK
      <4> QED
        BY <4>1, TigerReads
    <3> HIDE DEF t, w, q, g
    <3>6. Same(More(q, w), More(g, t))
      <4>1. /\ Len(More(q, w)) = Len(q) + 1 /\ More(q, w)[Len(q) + 1] = w
            /\ \A k \in 1 .. Len(q) : More(q, w)[k] = q[k]
        BY <3>3, <3>5, OnePartBehind
      <4>2. /\ Len(More(g, t)) = Len(g) + 1 /\ More(g, t)[Len(g) + 1] = t
            /\ \A k \in 1 .. Len(g) : More(g, t)[k] = g[k]
        BY <3>2, <3>3, MoreTyped
      <4>3. Len(q) \in Nat
        BY <3>3, LenProperties DEF Bites
      <4>4. \A k \in 1 .. Len(q) + 1 : k \in 1 .. Len(q) \/ k = Len(q) + 1
        BY <4>3
      <4> QED
        BY <3>3, <3>5, <4>1, <4>2, <4>4
    <3>7. Same(lines[j + 1], taken[j + 1])
      <4> HIDE DEF Same
      <4> QED
        BY <3>3, <3>4, <3>6
    <3> QED
      BY <3>1, <3>7
  <2>7. n \in S
    <3>1. \A j \in 0 .. n : j \in S /\ j < n => j + 1 \in S
      BY <2>6
    <3> HIDE DEF S
    <3>2. \A j \in 0 .. n : j \in S
      BY <2>1, <2>5, <3>1, UpTo
    <3> QED
      BY <2>1, <3>2
  <2>8. Same(lines[n], taken[n]) /\ lines[n] \in Bites
    BY <2>1, <2>7
  <2>9. TigerLines(file) = lines[n]
    BY <2>3, <2>8, LinesRead
  <2>10. DOMAIN lines[n] = 1 .. Len(lines[n])
    BY <2>8, LenProperties DEF Bites
  <2> QED
    BY <2>2, <2>8, <2>9, <2>10
<1> QED
  BY <1>1, LinesCorrect, PTL

=============================================================================
