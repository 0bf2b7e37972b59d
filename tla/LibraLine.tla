----------------------------- MODULE LibraLine -----------------------------
(***************************************************************************)
(* The COM port as the class XLibra uses it, and the scale at the far end.  *)
(*                                                                          *)
(* Write throws away whatever has been received and sends; Read waits for   *)
(* one byte as long as the timeouts of the port say.  A scale takes a good  *)
(* in several messages and answers each of them with one byte.  It may not  *)
(* get a message, refuse it, or answer when nobody waits any more, and the  *)
(* byte does not say what it answers.                                       *)
(*                                                                          *)
(* The operators are parts of the actions of module Libra.                  *)
(***************************************************************************)
EXTENDS LibraReaders

CONSTANTS Goods,      \* the goods that come in the lists
          Number,     \* the number of the scale
          MaxFaults,  \* bound: lost and late messages, refusals, exceptions, broken loads
          NoTovar

ASSUME LineAssumption ==
    /\ Goods \subseteq Tovar /\ NoTovar \notin Goods
    /\ Number \in Nat /\ MaxFaults \in Nat

VARIABLES
    drv,      \* the class of the scale, or of the driver
    port,     \* COM1: "free" or "held" by this program
    fd,       \* fd of the driver object: "none", "port", or "invalid"
    rx,       \* what the port has received
    owed,     \* answers that are still to come, in their order
    heard,    \* the messages of a good the scale has taken
    plu,      \* its memory: the good under each number
    late,     \* history: an answer was owed when its reader gave up
    faults    \* failures so far

line == <<port, fd, rx, owed, heard, plu, late>>

Serial == {"VP", "LP"}

\* The number a good gets on a scale: the VP is sent an unsigned short.
NumberOf(d, tovar) ==
    IF d = "VP" THEN Short(tovar.nomen_num - Number * 10000) ELSE tovar.nomen_num
Numbers == {NumberOf(d, t) : d \in Serial, t \in Goods}

\* The messages a good takes: number of the scale, 0x05, code and record for the VP.
VpParts == 4

\* DoCmd of the LP: number of the scale, and the command with its parameters.
LpParts == 2
Parts(d) == IF d = "VP" THEN VpParts ELSE LpParts

LineTypeOK ==
    /\ port \in {"free", "held"}
    /\ fd \in {"none", "port", "invalid"} /\ (fd = "port" => port = "held")
    /\ rx \in Seq({"ok", "bad"}) /\ owed \in Seq({"ok", "bad"})
    /\ heard \in 0 .. 3
    /\ plu \in [Numbers -> Goods \cup {NoTovar}]
    /\ late \in BOOLEAN
    /\ faults \in 0 .. MaxFaults

LineInit ==
    /\ port = "free" /\ fd = "none"
    /\ rx = <<>> /\ owed = <<>> /\ heard = 0
    /\ plu = [n \in Numbers |-> NoTovar]
    /\ late = FALSE /\ faults = 0

-----------------------------------------------------------------------------
Fault == faults < MaxFaults /\ faults' = faults + 1

\* Connect of the base class, and the PurgeComm of the two drivers.  CreateFile fails
\* when somebody has the port, which the test for NULL does not notice.
Open ==
    /\ \/ /\ port = "free"
          /\ port' = "held" /\ fd' = "port" /\ rx' = <<>>
          /\ late' = (owed # <<>>)
          /\ UNCHANGED faults
       \/ /\ fd' = "invalid"
          /\ IF port = "held" THEN UNCHANGED faults ELSE Fault
          /\ UNCHANGED <<port, rx, late>>
    /\ UNCHANGED <<owed, heard, plu>>

\* Disconnect of the base class.
Close ==
    /\ port' = IF fd = "port" THEN "free" ELSE port
    /\ fd' = "none"
    /\ UNCHANGED <<rx, owed, heard, plu, late, faults>>

\* The scale takes the message p of good t: the first one starts anew, the last one
\* stores the good.
Take(p, t) ==
    /\ heard' = p % Parts(drv)
    /\ plu' = IF p = Parts(drv) THEN [plu EXCEPT ![NumberOf(drv, t)] = t] ELSE plu

\* Write, and what the scale makes of the message.
Send(p, t) ==
    /\ rx' = IF fd = "port" THEN <<>> ELSE rx
    /\ \/ /\ fd = "port" /\ (p = 1 \/ heard = p - 1)
          /\ \/ Take(p, t) /\ owed' = Append(owed, "ok") /\ UNCHANGED faults
             \/ Take(p, t) /\ Fault /\ UNCHANGED owed
             \/ Fault /\ owed' = Append(owed, "bad") /\ heard' = 0 /\ UNCHANGED plu
             \/ Fault /\ UNCHANGED <<owed, heard, plu>>
       \/ /\ ~(fd = "port" /\ (p = 1 \/ heard = p - 1))
          /\ UNCHANGED <<owed, heard, plu, faults>>
    /\ UNCHANGED <<port, fd, late>>

\* An answer reaches the port.
Arrive ==
    /\ owed # <<>>
    /\ rx' = Append(rx, Head(owed)) /\ owed' = Tail(owed)
    /\ UNCHANGED <<port, fd, heard, plu, late, faults>>

\* Read of one byte: the first one there is, or nothing when the time is over.
Read(answer) ==
    /\ \/ /\ rx # <<>> /\ fd = "port"
          /\ answer = Head(rx) /\ rx' = Tail(rx)
          /\ UNCHANGED <<late, faults>>
       \/ /\ rx = <<>> \/ fd = "invalid"
          /\ answer = "none"
          /\ IF owed # <<>> /\ fd = "port" THEN Fault /\ late' = TRUE
                                           ELSE UNCHANGED <<late, faults>>
          /\ UNCHANGED rx
    /\ UNCHANGED <<port, fd, owed, heard, plu>>

\* An exception leaves the session: the object and its port are never given back.
Abandon ==
    /\ Fault
    /\ fd' = "none"
    /\ UNCHANGED <<port, rx, owed, heard, plu, late>>

\* The program ends, and with it everything it holds.
Release ==
    /\ port' = "free" /\ fd' = "none" /\ rx' = <<>>
    /\ UNCHANGED <<owed, heard, plu, late>>

=============================================================================
