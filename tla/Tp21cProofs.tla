---------------------------- MODULE Tp21cProofs ----------------------------
(***************************************************************************)
(* What holds of the timer of tp21c for any steps, any number of operators  *)
(* and any number of failures.  One activation of the handler at a time is  *)
(* what makes Return empty the stack, and the guard is_in_sync is what      *)
(* makes it one; so the two are proved together, on top of the types.       *)
(***************************************************************************)
EXTENDS Tp21c, SequenceTheorems, TLAPS

LEMMA PrefixesTyped ==
  ASSUME NEW S, NEW s \in Seq(S), NEW p \in Prefixes(s)
  PROVE  p \in Seq(S)
<1>1. PICK n \in 0 .. Len(s) : p = SubSeq(s, 1, n)
  BY DEF Prefixes
<1>2. \A i \in 1 .. n : s[i] \in S
  BY ElementOfSeq
<1> QED
  BY <1>1, <1>2, SubSeqProperties

LEMMA WholeIsPrefix ==
  ASSUME NEW S, NEW s \in Seq(S)
  PROVE  s \in Prefixes(s) /\ <<>> \in Prefixes(s)
<1>1. Len(s) \in Nat
  OBVIOUS
<1>2. s = SubSeq(s, 1, Len(s)) /\ <<>> = SubSeq(s, 1, 0)
  BY SubSeqFull, SubSeqEmpty
<1>3. 0 \in 0 .. Len(s) /\ Len(s) \in 0 .. Len(s)
  BY <1>1
<1> QED
  BY <1>2, <1>3, Zenon DEF Prefixes

\* The step of the list that StepsFill makes: the steps of the mode, or some.
LEMMA FilledIsPrefix ==
  ASSUME TypeOK, StepsFill
  PROVE  lsteps' \in Prefixes(StepsOf[tp_mode]) /\ lsteps' \in Seq(Steps)
<1>1. StepsOf[tp_mode] \in Seq(Steps)
  BY TickAssumption DEF TypeOK
<1>2. lsteps' \in Prefixes(StepsOf[tp_mode])
  BY <1>1, WholeIsPrefix DEF StepsFill
<1> QED
  BY <1>1, <1>2, PrefixesTyped

-----------------------------------------------------------------------------
LEMMA NoActivation == <<>> \in Seq([at : Places, i : Nat \ {0}]) /\ <<>> \in Seq(Steps)
                      /\ "Crash" \in Modes
  BY EmptySeq DEF Modes

LEMMA TypeInit == Init => TypeOK
<1> SUFFICES ASSUME Init PROVE TypeOK
  OBVIOUS
<1>1. /\ is_in_sync \in BOOLEAN /\ connected \in BOOLEAN
      /\ ole \in BOOLEAN /\ escaped \in BOOLEAN /\ raised \in BOOLEAN
  BY Zenon DEF Init
<1>2. faults \in 0 .. MaxFaults /\ ask \in [Kernels -> {"nothing", "Crash", "Recovery"}]
  BY TickAssumption DEF Init
<1>3. modeTP \in Modes \cup {"Error"} /\ tp_mode \in Modes
  BY NoActivation DEF Init
<1>4. frames \in Seq([at : Places, i : Nat \ {0}]) /\ lsteps \in Seq(Steps)
  BY NoActivation, Zenon DEF Init
<1> QED
  BY <1>1, <1>2, <1>3, <1>4, Zenon DEF TypeOK

Frame == [at : Places, i : Nat \ {0}]

LEMMA FrameAt == ASSUME NEW f \in Frame, NEW p \in Places PROVE [f EXCEPT !.at = p] \in Frame
  BY DEF Frame

LEMMA FrameNext == ASSUME NEW f \in Frame PROVE [f EXCEPT !.i = f.i + 1] \in Frame
  BY DEF Frame

LEMMA TopTyped == TypeOK /\ Running => Top \in Frame
<1> SUFFICES ASSUME TypeOK, Running PROVE Top \in Frame
  OBVIOUS
<1>1. frames \in Seq(Frame) /\ frames # <<>>
  BY DEF TypeOK, Frame, Running
<1> QED
  BY <1>1, EmptySeq, ElementOfSeq DEF Top

\* What the handler may do to the stack keeps it a stack of activations.
LEMMA GotoTyped ==
  ASSUME TypeOK, Running, NEW place \in Places, Goto(place)
  PROVE  frames' \in Seq(Frame)
<1>1. frames \in Seq(Frame) /\ Len(frames) \in 1 .. Len(frames)
  BY EmptySeq DEF TypeOK, Frame, Running
<1>2. [frames[Len(frames)] EXCEPT !.at = place] \in Frame
  BY TopTyped DEF Top, Frame
<1>3. frames' = [frames EXCEPT ![Len(frames)] = [frames[Len(frames)] EXCEPT !.at = place]]
  BY DEF Goto
<1> QED
  BY <1>1, <1>2, <1>3, ExceptSeq

LEMMA ReturnTyped ==
  ASSUME TypeOK, Return
  PROVE  frames' \in Seq(Frame)
<1>1. frames \in Seq(Frame)
  BY DEF TypeOK, Frame
<1>2. \A i \in 1 .. Len(frames) - 1 : frames[i] \in Frame
  BY <1>1, ElementOfSeq
<1>3. Len(frames) - 1 \in Int
  BY <1>1
<1> QED
  BY <1>1, <1>2, <1>3, SubSeqProperties DEF Return

\* What an exception may do to the session of 1C, and to the list.
LEMMA RaiseSession == ASSUME TypeOK, Raise PROVE ole' \in BOOLEAN
<1>1. ole \in BOOLEAN
  BY DEF TypeOK
<1>2. CASE Top.at = "connect_1c"
  BY <1>2, Zenon DEF Raise
<1>3. CASE Top.at = "disconnect_1c"
  <2>1. ole' \in {ole, FALSE}
    BY <1>3 DEF Raise
  <2> QED
    BY <1>1, <2>1, Zenon
<1>4. CASE Top.at \notin {"connect_1c", "disconnect_1c"}
  <2>1. ole' = ole
    BY <1>4 DEF Raise
  <2> QED
    BY <1>1, <2>1
<1> QED
  BY <1>2, <1>3, <1>4

LEMMA RaiseList ==
  ASSUME TypeOK, Raise
  PROVE  /\ lsteps' \in Seq(Steps) /\ modeTP' \in Modes \cup {"Error"}
         /\ lsteps' = lsteps \/ lsteps' \in Prefixes(StepsOf[tp_mode])
<1>1. StepsOf[tp_mode] \in Seq(Steps)
  BY TickAssumption DEF TypeOK
<1>2. lsteps' = lsteps \/ lsteps' \in Prefixes(StepsOf[tp_mode])
  BY DEF Raise
<1>3. modeTP' \in {modeTP, "Error"}
  BY DEF Raise
<1> QED
  BY <1>1, <1>2, <1>3, PrefixesTyped DEF TypeOK

LEMMA TypeStep == TypeOK /\ [Next]_vars => TypeOK'
<1> SUFFICES ASSUME TypeOK, [Next]_vars PROVE TypeOK'
  OBVIOUS
<1> USE TickAssumption
<1>1. CASE UNCHANGED vars
  BY <1>1 DEF TypeOK, vars, modeVars, progVars, history
<1>2. CASE Operator
  <2>1. UNCHANGED <<progVars, faults, history>>
    BY <1>2 DEF Operator, AskMode, AnswerMode
  <2>2. tp_mode' \in Modes /\ ask' \in [Kernels -> {"nothing", "Crash", "Recovery"}]
    <3>1. CASE \E k \in Kernels : AskMode(k)
      BY <3>1 DEF AskMode, TypeOK
    <3>2. CASE \E k \in Kernels, yes \in BOOLEAN : AnswerMode(k, yes)
      <4>1. PICK k \in Kernels, yes \in BOOLEAN : AnswerMode(k, yes)
        BY <3>2
      <4>2. ask[k] \in {"Crash", "Recovery"} /\ {"Crash", "Recovery"} \subseteq Modes
        BY <4>1 DEF AnswerMode, TypeOK, Modes
      <4> QED
        BY <4>1, <4>2 DEF AnswerMode, TypeOK
    <3> QED
      BY <1>2, <3>1, <3>2 DEF Operator
  <2> QED
    BY <2>1, <2>2 DEF TypeOK, progVars, history
<1>3. CASE TimerFires
  <2>1. frames \in Seq(Frame) /\ [at |-> "connect", i |-> 1] \in Frame
    BY DEF TypeOK, Frame, Places
  <2>2. frames' \in Seq(Frame)
    BY <1>3, <2>1 DEF TimerFires
  <2> QED
    BY <1>3, <2>2 DEF TimerFires, TypeOK, Frame, Calm, modeVars, history
<1>4. CASE ConnectTP
  <2>1. frames' \in Seq(Frame)
    BY <1>4, GotoTyped DEF ConnectTP, At, Places
  <2>2. connected' \in BOOLEAN
    BY <1>4, Zenon DEF ConnectTP
  <2>3. faults' \in 0 .. MaxFaults /\ UNCHANGED <<modeVars, history>>
    BY <1>4 DEF ConnectTP, TypeOK, Calm, Fault
  <2>4. UNCHANGED <<modeTP, is_in_sync, ole, lsteps>>
    BY <1>4 DEF ConnectTP
  <2> QED
    BY <2>1, <2>2, <2>3, <2>4 DEF TypeOK, Frame, modeVars, history
<1>5. CASE RefreshTPMode
  <2>1. PICK place \in {"disconnect", "connect_1c"} : Goto(place)
    BY <1>5 DEF RefreshTPMode
  <2>2. frames' \in Seq(Frame)
    BY <1>5, <2>1, GotoTyped DEF RefreshTPMode, At, Places, ComCalls
  <2>3. modeTP' \in Modes \cup {"Error"} /\ faults' \in 0 .. MaxFaults
        /\ UNCHANGED <<modeVars, history>>
    BY <1>5 DEF RefreshTPMode, TypeOK, Calm, Fault
  <2> QED
    BY <1>5, <2>2, <2>3 DEF RefreshTPMode, TypeOK, Frame, modeVars, history
<1>6. CASE Connect1C
  <2>1. frames' \in Seq(Frame)
    BY <1>6, GotoTyped DEF Connect1C, At, Places
  <2>2. ole' \in BOOLEAN /\ raised' \in BOOLEAN
    BY <1>6, Zenon DEF Connect1C
  <2>3. UNCHANGED <<modeTP, is_in_sync, connected, lsteps, modeVars, faults, escaped>>
    BY <1>6 DEF Connect1C
  <2> QED
    BY <2>1, <2>2, <2>3 DEF TypeOK, Frame, modeVars
<1>7. CASE StepsFill
  <2>1. PICK place \in {"clear", "step"} : Goto(place)
    BY <1>7 DEF StepsFill
  <2>2. frames' \in Seq(Frame)
    BY <1>7, <2>1, GotoTyped DEF StepsFill, At, Places, ComCalls
  <2>3. lsteps' \in Seq(Steps)
    BY <1>7, FilledIsPrefix
  <2> QED
    BY <1>7, <2>2, <2>3 DEF StepsFill, TypeOK, Frame, Calm, Fault, modeVars, history
<1>8. CASE DoStep
  <2>1. Running /\ frames \in Seq(Frame) /\ Len(frames) \in 1 .. Len(frames)
    BY <1>8, EmptySeq DEF DoStep, At, TypeOK, Frame, Running
  <2>2. Top \in Frame /\ Top = frames[Len(frames)]
    BY <2>1, TopTyped DEF Top
  <2>3. PICK f \in Frame : frames' = [frames EXCEPT ![Len(frames)] = f]
    <3>1. [Top EXCEPT !.at = "clear"] \in Frame
      BY <2>2, FrameAt DEF Places
    <3>2. [Top EXCEPT !.i = Top.i + 1] \in Frame
      BY <2>2, FrameNext
    <3>3. \/ frames' = [frames EXCEPT ![Len(frames)] = [Top EXCEPT !.at = "clear"]]
          \/ frames' = [frames EXCEPT ![Len(frames)] = [Top EXCEPT !.i = Top.i + 1]]
      BY <1>8 DEF DoStep, Top
    <3> QED
      BY <3>1, <3>2, <3>3
  <2>4. frames' \in Seq(Frame)
    BY <2>1, <2>3, ExceptSeq
  <2> QED
    BY <1>8, <2>4 DEF DoStep, TypeOK, Frame, Calm, Fault, modeVars, history
<1>9. CASE StepsClear
  <2>1. frames' \in Seq(Frame)
    BY <1>9, GotoTyped DEF StepsClear, At, Places, ComCalls
  <2> QED
    BY <1>9, <2>1 DEF StepsClear, TypeOK, Frame, Calm, modeVars, history
<1>10. CASE Disconnect1C
  <2>1. frames' \in Seq(Frame)
    BY <1>10, GotoTyped DEF Disconnect1C, At, Places
  <2> QED
    BY <1>10, <2>1 DEF Disconnect1C, TypeOK, Frame, Calm, modeVars, history
<1>11. CASE Except
  <2>1. frames' \in Seq(Frame)
    BY <1>11, GotoTyped DEF Except, At, Places
  <2> QED
    BY <1>11, <2>1 DEF Except, TypeOK, Frame, Calm, modeVars, history
<1>12. CASE DisconnectTP
  <2>1. frames' \in Seq(Frame)
    BY <1>12, ReturnTyped DEF DisconnectTP
  <2> QED
    BY <1>12, <2>1 DEF DisconnectTP, TypeOK, Frame, Calm, modeVars, history
<1>13. CASE Raise
  <2>1. frames' \in Seq(Frame)
    BY <1>13, GotoTyped DEF Raise, Places
  <2>2. ole' \in BOOLEAN
    BY <1>13, RaiseSession
  <2>3. lsteps' \in Seq(Steps) /\ modeTP' \in Modes \cup {"Error"}
    BY <1>13, RaiseList
  <2>4. faults' \in 0 .. MaxFaults /\ UNCHANGED modeVars
    BY <1>13 DEF Raise, TypeOK, Fault
  <2>5. UNCHANGED <<is_in_sync, connected, escaped>>
    BY <1>13 DEF Raise
  <2>6. raised' \in BOOLEAN
    BY <1>13, Zenon DEF Raise
  <2> QED
    BY <2>1, <2>2, <2>3, <2>4, <2>5, <2>6 DEF TypeOK, Frame, modeVars
<1>14. CASE Escape
  <2>1. frames' \in Seq(Frame)
    BY <1>14, ReturnTyped DEF Escape
  <2>2. connected' \in BOOLEAN
    BY <1>14 DEF Escape, TypeOK
  <2>3. escaped' \in BOOLEAN
    BY <1>14, Zenon DEF Escape
  <2>4. faults' \in 0 .. MaxFaults /\ UNCHANGED modeVars
    BY <1>14 DEF Escape, TypeOK, Fault
  <2>5. modeTP' \in Modes \cup {"Error"}
    BY <1>14 DEF Escape, TypeOK, Modes
  <2>6. UNCHANGED <<is_in_sync, ole, lsteps, raised>>
    BY <1>14 DEF Escape
  <2> QED
    BY <2>1, <2>2, <2>3, <2>4, <2>5, <2>6 DEF TypeOK, Frame, modeVars
<1>15. CASE Restart
  <2>1. /\ is_in_sync' \in BOOLEAN /\ connected' \in BOOLEAN
        /\ ole' \in BOOLEAN /\ escaped' \in BOOLEAN /\ raised' \in BOOLEAN
    BY <1>15, Zenon DEF Restart
  <2>2. faults' \in 0 .. MaxFaults /\ UNCHANGED modeVars
    BY <1>15 DEF Restart, TypeOK, Fault
  <2>3. frames' = <<>> /\ lsteps' = <<>> /\ modeTP' = "Crash"
    BY <1>15 DEF Restart
  <2> QED
    BY <2>1, <2>2, <2>3, NoActivation DEF TypeOK, modeVars
<1> QED
  BY <1>1, <1>2, <1>3, <1>4, <1>5, <1>6, <1>7, <1>8, <1>9, <1>10, <1>11, <1>12,
     <1>13, <1>14, <1>15 DEF Next, Handler

\* The variables of the handler of tp21c keep their types, whatever happens.
THEOREM TypeCorrect == Spec => []TypeOK
  BY TypeInit, TypeStep, PTL DEF Spec

-----------------------------------------------------------------------------
(***************************************************************************)
(* The guard.  TimerFires needs is_in_sync to be FALSE, and then, by the    *)
(* invariant, no activation runs; only DisconnectTP and Restart make it     *)
(* FALSE, and both leave the stack empty.                                   *)
(***************************************************************************)
\* Whatever the running activation becomes, the others stay below it.
LEMMA Kept ==
  ASSUME NEW s \in Seq(Frame), s # <<>>, NEW f, NEW t, t = [s EXCEPT ![Len(s)] = f]
  PROVE  t # <<>> /\ Len(t) = Len(s)
<1> DEFINE S == Frame \cup {f}
<1>1. s \in Seq(S) /\ f \in S
  OBVIOUS
<1>2. Len(s) \in 1 .. Len(s)
  BY EmptySeq
<1> HIDE DEF S
<1>3. t \in Seq(S) /\ Len(t) = Len(s)
  BY <1>1, <1>2, ExceptSeq
<1> QED
  BY <1>2, <1>3, EmptySeq

LEMMA StackStep ==
  ASSUME TypeOK, OneSyncAtATime, Handler \/ Raise \/ Escape
  PROVE  \/ Running /\ Running' /\ Len(frames') <= 1 /\ UNCHANGED is_in_sync
         \/ Running /\ ~Running'
<1>1. frames \in Seq(Frame)
  BY DEF TypeOK, Frame
<1>2. Running
  BY DEF Handler, ConnectTP, RefreshTPMode, Connect1C, StepsFill, DoStep, StepsClear,
         Disconnect1C, Except, DisconnectTP, Raise, Escape, At
<1>3. Len(frames) = 1
  <2>1. Len(frames) <= 1 /\ frames # <<>>
    BY <1>2 DEF OneSyncAtATime, Running
  <2>2. Len(frames) \in Nat /\ Len(frames) # 0
    BY <1>1, <2>1, EmptySeq
  <2>3. \A n \in Nat : n <= 1 /\ n # 0 => n = 1
    OBVIOUS
  <2> QED
    BY <2>1, <2>2, <2>3
<1>4. ASSUME NEW f, frames' = [frames EXCEPT ![Len(frames)] = f]
      PROVE  Running' /\ Len(frames') <= 1
  <2>1. frames # <<>>
    BY <1>2 DEF Running
  <2>2. frames' # <<>> /\ Len(frames') = Len(frames)
    BY <1>1, <1>4, <2>1, Kept
  <2> QED
    BY <1>3, <2>2 DEF Running
<1>5. CASE DisconnectTP \/ Escape
  <2>1. frames' = SubSeq(frames, 1, 0)
    BY <1>3, <1>5 DEF DisconnectTP, Escape, Return
  <2> QED
    BY <1>2, <2>1, SubSeqEmpty DEF Running
<1>6. CASE ~(DisconnectTP \/ Escape)
  <2>1. UNCHANGED is_in_sync
    BY <1>6 DEF Handler, ConnectTP, RefreshTPMode, Connect1C, StepsFill, DoStep,
                StepsClear, Disconnect1C, Except, Raise
  <2>2. \E f : frames' = [frames EXCEPT ![Len(frames)] = f]
    BY <1>6, Zenon DEF Handler, ConnectTP, RefreshTPMode, Connect1C, StepsFill, DoStep,
                StepsClear, Disconnect1C, Except, Raise, Goto
  <2> QED
    BY <1>2, <1>4, <2>1, <2>2
<1> QED
  BY <1>5, <1>6

LEMMA GuardStep == TypeOK /\ OneSyncAtATime /\ [Next]_vars => OneSyncAtATime'
<1> SUFFICES ASSUME TypeOK, OneSyncAtATime, [Next]_vars PROVE OneSyncAtATime'
  OBVIOUS
<1>1. CASE UNCHANGED vars \/ Operator
  BY <1>1 DEF vars, progVars, Operator, AskMode, AnswerMode, OneSyncAtATime, Running
<1>2. CASE TimerFires
  <2>1. frames = <<>>
    BY <1>2 DEF TimerFires, OneSyncAtATime, Running
  <2> QED
    BY <1>2, <2>1 DEF TimerFires, OneSyncAtATime, Running
<1>3. CASE Handler \/ Raise \/ Escape
  <2>1. ~Running' => Len(frames') <= 1
    BY EmptySeq DEF Running
  <2> QED
    BY <1>3, <2>1, StackStep DEF OneSyncAtATime
<1>4. CASE Restart
  BY <1>4 DEF Restart, OneSyncAtATime, Running
<1> QED
  BY <1>1, <1>2, <1>3, <1>4 DEF Next

\* No two synchronisations run at a time: for any list of steps, any number of
\* operators of the mode, and failures and restarts without limit.
THEOREM OneSyncCorrect == Spec => []OneSyncAtATime
<1>1. Init => OneSyncAtATime
  BY EmptySeq DEF Init, OneSyncAtATime, Running
<1> QED
  BY <1>1, TypeCorrect, GuardStep, PTL DEF Spec

-----------------------------------------------------------------------------
(***************************************************************************)
(* What a tick leaves behind.  At each place of the handler: what of an     *)
(* earlier tick may still be there, and after which places the mode is such *)
(* that no tick has got as far as a new session.                            *)
(***************************************************************************)
Left == ole \/ lsteps # <<>>

Before == {"connect", "mode", "connect_1c"}

Holds ==
    /\ escaped => ~Running /\ is_in_sync
    /\ Running =>
        /\ Top.at \in Before => (Left => raised)
        /\ Top.at = "except" => raised
        /\ Top.at = "disconnect_1c" => lsteps = <<>>
        /\ Top.at = "disconnect" => (Left => raised /\ modeTP \in {"Error", "Crash"})

TickInv == Holds /\ IdleIsFree

\* Goto moves the only activation there is.
LEMMA GotoTop ==
  ASSUME TypeOK, OneSyncAtATime, Running, NEW place, Goto(place)
  PROVE  Running' /\ Top'.at = place
<1>1. frames \in Seq(Frame) /\ Len(frames) \in 1 .. Len(frames)
  BY EmptySeq DEF TypeOK, Frame, Running
<1> DEFINE f == [frames[Len(frames)] EXCEPT !.at = place]
<1>2. frames' = [frames EXCEPT ![Len(frames)] = f]
  BY DEF Goto
<1>3. f.at = place
  BY TopTyped DEF Top, Frame
<1>4. DOMAIN frames = 1 .. Len(frames)
  BY <1>1
<1>5. frames'[Len(frames)] = f
  BY <1>1, <1>2, <1>4
<1>6. frames' # <<>> /\ Len(frames') = Len(frames)
  BY <1>1, <1>2, Kept DEF Running
<1> QED
  BY <1>3, <1>5, <1>6 DEF Running, Top

\* DoStep goes on with the steps or to their end.
LEMMA StepTop ==
  ASSUME TypeOK, OneSyncAtATime, DoStep
  PROVE  Running' /\ Top'.at \in {"step", "clear"}
<1>1. Running /\ Top.at = "step"
  BY DEF DoStep, At
<1>2. frames \in Seq(Frame) /\ Len(frames) \in 1 .. Len(frames)
  BY <1>1, EmptySeq DEF TypeOK, Frame, Running
<1>3. PICK f \in {[Top EXCEPT !.at = "clear"], [Top EXCEPT !.i = Top.i + 1]} :
          frames' = [frames EXCEPT ![Len(frames)] = f]
  BY DEF DoStep
<1>4. f.at \in {"step", "clear"}
  BY <1>1, TopTyped DEF Frame
<1>5. frames'[Len(frames)] = f
  BY <1>2, <1>3
<1>6. frames' # <<>> /\ Len(frames') = Len(frames)
  BY <1>1, <1>2, <1>3, Kept DEF Running
<1> QED
  BY <1>4, <1>5, <1>6 DEF Running, Top

\* An activation that ends leaves none.
LEMMA ReturnTop ==
  ASSUME TypeOK, OneSyncAtATime, DisconnectTP \/ Escape
  PROVE  ~Running'
<1>1. Running
  BY DEF DisconnectTP, Escape, At
<1>2. frames \in Seq(Frame) /\ Len(frames) = 1
  <2>1. frames \in Seq(Frame) /\ Len(frames) \in Nat /\ Len(frames) # 0
    BY <1>1, EmptySeq DEF TypeOK, Frame, Running
  <2> QED
    BY <2>1 DEF OneSyncAtATime
<1>3. frames' = SubSeq(frames, 1, 0)
  BY <1>2 DEF DisconnectTP, Escape, Return
<1> QED
  BY <1>2, <1>3, SubSeqEmpty DEF Running

LEMMA TickStep == TypeOK /\ OneSyncAtATime /\ TickInv /\ [Next]_vars => TickInv'
<1> SUFFICES ASSUME TypeOK, OneSyncAtATime, TickInv, [Next]_vars PROVE TickInv'
  OBVIOUS
<1> USE DEF TickInv
<1>1. CASE UNCHANGED vars \/ Operator
  <2>1. UNCHANGED <<progVars, history>>
    BY <1>1 DEF vars, Operator, AskMode, AnswerMode
  <2> QED
    BY <2>1 DEF progVars, history, Holds, IdleIsFree, Left, Running, Top
<1>2. CASE TimerFires
  <2>1. frames = <<>> /\ ~is_in_sync
    BY <1>2 DEF TimerFires, OneSyncAtATime, Running
  <2>2. ~escaped /\ (Left => raised)
    BY <2>1 DEF Holds, IdleIsFree, Left, Running
  <2>3. Running' /\ Top'.at = "connect"
    BY <1>2, <2>1 DEF TimerFires, Running, Top
  <2>4. UNCHANGED <<ole, lsteps, raised, escaped>>
    BY <1>2 DEF TimerFires, Calm, history
  <2> QED
    BY <2>2, <2>3, <2>4 DEF Holds, IdleIsFree, Left, Before
<1>3. CASE ConnectTP
  <2>1. Running /\ Top.at = "connect" /\ Goto("mode")
    BY <1>3 DEF ConnectTP, At
  <2>2. Running' /\ Top'.at = "mode"
    BY <2>1, GotoTop
  <2>3. UNCHANGED <<ole, lsteps, raised, escaped, is_in_sync>>
    BY <1>3 DEF ConnectTP, Calm, history
  <2> QED
    BY <2>1, <2>2, <2>3 DEF Holds, IdleIsFree, Left, Before
<1>4. CASE RefreshTPMode
  <2>1. PICK place \in {"disconnect", "connect_1c"} :
            Goto(place) /\ (place = "disconnect" => modeTP' \in {"Error", "Crash"})
    BY <1>4 DEF RefreshTPMode
  <2>2. Running /\ Top.at = "mode" /\ Running' /\ Top'.at = place
    BY <1>4, <2>1, GotoTop DEF RefreshTPMode, At
  <2>3. UNCHANGED <<ole, lsteps, raised, escaped, is_in_sync>>
    BY <1>4 DEF RefreshTPMode, Calm, history
  <2> QED
    BY <2>1, <2>2, <2>3 DEF Holds, IdleIsFree, Left, Before
<1>5. CASE Connect1C
  <2>1. Running /\ Goto("fill") /\ UNCHANGED <<escaped, is_in_sync>>
    BY <1>5 DEF Connect1C, At
  <2>2. Running' /\ Top'.at = "fill"
    BY <2>1, GotoTop
  <2> QED
    BY <2>1, <2>2 DEF Holds, IdleIsFree, Before
<1>6. CASE StepsFill
  <2>1. PICK place \in {"clear", "step"} : Goto(place)
    BY <1>6 DEF StepsFill
  <2>2. Running /\ Running' /\ Top'.at = place /\ UNCHANGED <<escaped, is_in_sync>>
    BY <1>6, <2>1, GotoTop DEF StepsFill, At, Calm, history
  <2> QED
    BY <2>2 DEF Holds, IdleIsFree, Before
<1>7. CASE DoStep
  <2>1. Running /\ Running' /\ Top'.at \in {"step", "clear"}
    BY <1>7, StepTop DEF DoStep, At
  <2>2. UNCHANGED <<escaped, is_in_sync>>
    BY <1>7 DEF DoStep, Calm, history
  <2> QED
    BY <2>1, <2>2 DEF Holds, IdleIsFree, Before
<1>8. CASE StepsClear
  <2>1. Running /\ Goto("disconnect_1c") /\ lsteps' = <<>> /\ UNCHANGED <<escaped, is_in_sync>>
    BY <1>8 DEF StepsClear, At, Calm, history
  <2>2. Running' /\ Top'.at = "disconnect_1c"
    BY <2>1, GotoTop
  <2> QED
    BY <2>1, <2>2 DEF Holds, IdleIsFree, Before
<1>9. CASE Disconnect1C
  <2>1. Running /\ Top.at = "disconnect_1c" /\ Goto("disconnect")
    BY <1>9 DEF Disconnect1C, At
  <2>2. Running' /\ Top'.at = "disconnect"
    BY <2>1, GotoTop
  <2>3. ~ole' /\ lsteps' = <<>>
    BY <1>9, <2>1, Zenon DEF Disconnect1C, Holds
  <2>4. UNCHANGED <<escaped, is_in_sync>>
    BY <1>9 DEF Disconnect1C, Calm, history
  <2> QED
    BY <2>1, <2>2, <2>3, <2>4 DEF Holds, IdleIsFree, Before, Left
<1>10. CASE Except
  <2>1. Running /\ Top.at = "except" /\ Goto("disconnect") /\ modeTP' = "Error"
    BY <1>10 DEF Except, At
  <2>2. Running' /\ Top'.at = "disconnect"
    BY <2>1, GotoTop
  <2>3. UNCHANGED <<raised, escaped, is_in_sync>>
    BY <1>10 DEF Except, Calm, history
  <2> QED
    BY <2>1, <2>2, <2>3 DEF Holds, IdleIsFree, Before
<1>11. CASE Raise
  <2>1. Running /\ Goto("except") /\ raised' /\ UNCHANGED <<escaped, is_in_sync>>
    BY <1>11, Zenon DEF Raise
  <2>2. Running' /\ Top'.at = "except"
    BY <2>1, GotoTop
  <2> QED
    BY <2>1, <2>2 DEF Holds, IdleIsFree, Before
<1>12. CASE DisconnectTP
  <2>1. Running /\ Top.at = "disconnect" /\ ~Running'
    BY <1>12, ReturnTop DEF DisconnectTP, At
  <2>2. ~connected' /\ ~is_in_sync'
    BY <1>12, Zenon DEF DisconnectTP
  <2>3. UNCHANGED <<modeTP, ole, lsteps, raised, escaped>>
    BY <1>12 DEF DisconnectTP, Calm, history
  <2>4. ~escaped
    BY <2>1 DEF Holds
  <2> QED
    BY <2>1, <2>2, <2>3, <2>4 DEF Holds, IdleIsFree, Left
<1>13. CASE Escape
  <2>1. Running /\ ~Running'
    BY <1>13, ReturnTop DEF Escape
  <2>2. escaped'
    BY <1>13, Zenon DEF Escape
  <2>3. is_in_sync /\ is_in_sync' = is_in_sync
    BY <1>13, <2>1 DEF Escape, OneSyncAtATime
  <2> QED
    BY <2>1, <2>2, <2>3 DEF Holds, IdleIsFree
<1>14. CASE Restart
  <2>1. ~is_in_sync' /\ ~connected' /\ ~ole' /\ ~escaped'
    BY <1>14, Zenon DEF Restart
  <2>2. frames' = <<>> /\ lsteps' = <<>>
    BY <1>14 DEF Restart
  <2> QED
    BY <2>1, <2>2 DEF Holds, IdleIsFree, Running
<1> QED
  BY <1>1, <1>2, <1>3, <1>4, <1>5, <1>6, <1>7, <1>8, <1>9, <1>10, <1>11, <1>12,
     <1>13, <1>14 DEF Next, Handler

\* Between two ticks, unless an exception left the handler, the database is closed and
\* the guard is free.  The session of 1C and the list of steps may survive, after an
\* exception the handler caught and for as long as no later tick opens a session; an
\* error inside a step, which is logged and gone over, leaves neither.
THEOREM IdleIsFreeCorrect == Spec => []IdleIsFree
<1>1. Init => TickInv
  <2> SUFFICES ASSUME Init PROVE TickInv
    OBVIOUS
  <2>1. ~is_in_sync /\ ~connected /\ ~ole /\ ~escaped
    BY Zenon DEF Init
  <2>2. frames = <<>> /\ lsteps = <<>>
    BY DEF Init
  <2> QED
    BY <2>1, <2>2 DEF TickInv, Holds, IdleIsFree, Running
<1>2. TickInv => IdleIsFree
  BY DEF TickInv
<1> QED
  BY <1>1, <1>2, TickStep, TypeCorrect, OneSyncCorrect, PTL DEF Spec

-----------------------------------------------------------------------------
LEMMA ListStep == TypeOK /\ StepsOfOneMode /\ [Next]_vars => StepsOfOneMode'
<1> SUFFICES ASSUME TypeOK, StepsOfOneMode, [Next]_vars PROVE StepsOfOneMode'
  OBVIOUS
<1>1. CASE StepsFill
  BY <1>1, FilledIsPrefix DEF StepsOfOneMode, TypeOK
<1>2. CASE StepsClear \/ Restart
  <2>1. lsteps' = <<>>
    BY <1>2 DEF StepsClear, Restart
  <2>2. "Crash" \in Modes /\ StepsOf["Crash"] \in Seq(Steps)
    BY NoActivation, TickAssumption
  <2> QED
    BY <2>1, <2>2, WholeIsPrefix DEF StepsOfOneMode
<1>3. CASE Raise
  BY <1>3, RaiseList DEF StepsOfOneMode, TypeOK
<1>4. CASE UNCHANGED lsteps
  BY <1>4 DEF StepsOfOneMode
<1> QED
  BY <1>1, <1>2, <1>3, <1>4
  DEF Next, Handler, Operator, AskMode, AnswerMode, TimerFires, ConnectTP, RefreshTPMode,
      Connect1C, DoStep, Disconnect1C, Except, DisconnectTP, Escape, vars, progVars

\* Whatever a failed tick leaves in the list, a tick executes only steps of one
\* mode, each once, in their order.
THEOREM StepsOfOneModeCorrect == Spec => []StepsOfOneMode
<1>1. Init => StepsOfOneMode
  <2>1. "Crash" \in Modes /\ StepsOf["Crash"] \in Seq(Steps)
    BY NoActivation, TickAssumption
  <2> QED
    BY <2>1, WholeIsPrefix DEF Init, StepsOfOneMode
<1> QED
  BY <1>1, TypeCorrect, ListStep, PTL DEF Spec
=============================================================================
