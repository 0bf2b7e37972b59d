------------------------------- MODULE Tp21c -------------------------------
(***************************************************************************)
(* The timer of tp21c: one synchronisation per tick, in the mode the trade  *)
(* point is in (Tflog.tt_syncTimer and what it calls), and the operators of *)
(* the kernel who switch that mode (Tfmain.miModeSetClick).                 *)
(*                                                                          *)
(* tp21c has one thread, but a call to 1C waits for another process and     *)
(* lets messages in: the timer may fire inside the handler of the timer.    *)
(* So the handler is a stack of activations, of which the last one runs.    *)
(* The steps themselves are in DocExport and RefImport; here a step goes    *)
(* well, fails inside (it logs and goes on) or raises an exception.         *)
(***************************************************************************)
EXTENDS Naturals, Sequences

CONSTANTS Kernels,   \* the workplaces whose operators switch the mode
          Steps,     \* the active rows of T_1C_SYNC_STEPS
          StepsOf,   \* those of each mode, in the order of WEIGHT
          MaxFaults  \* bound: failures, exceptions, restarts

Modes == {"Crash", "Normal", "Recovery", "Init"}    \* TS_TP_MODES

ASSUME TickAssumption ==
    /\ StepsOf \in [Modes -> Seq(Steps)]
    /\ StepsOf["Crash"] = <<>>
    /\ MaxFaults \in Nat

VARIABLES
    tp_mode,     \* T_TP_STATES.TP_MODE_ID, the mode of the trade point
    ask,         \* the switch each operator was asked to confirm
    modeTP,      \* what tp21c believes the mode to be
    is_in_sync,  \* the guard of the handler
    frames,      \* the activations of the handler, the running one last
    connected,   \* base.Connected
    ole,         \* s1C82_ole is a session of 1C
    lsteps,      \* the list of steps
    faults,      \* failures so far
    escaped,     \* history: an exception left the handler
    raised       \* history: one was caught in it, and no session was opened since

modeVars == <<tp_mode, ask>>
progVars == <<modeTP, is_in_sync, frames, connected, ole, lsteps>>
history == <<escaped, raised>>
vars == <<modeVars, progVars, faults, history>>

ComCalls == {"connect_1c", "step", "disconnect_1c"}
Places == ComCalls \cup {"connect", "mode", "fill", "clear", "except", "disconnect"}

TypeOK ==
    /\ tp_mode \in Modes
    /\ ask \in [Kernels -> {"nothing", "Crash", "Recovery"}]
    /\ modeTP \in Modes \cup {"Error"}
    /\ is_in_sync \in BOOLEAN /\ connected \in BOOLEAN
    /\ ole \in BOOLEAN /\ escaped \in BOOLEAN /\ raised \in BOOLEAN
    /\ frames \in Seq([at : Places, i : Nat \ {0}])
    /\ lsteps \in Seq(Steps)
    /\ faults \in 0 .. MaxFaults

Init ==
    /\ tp_mode \in Modes
    /\ ask = [k \in Kernels |-> "nothing"]
    /\ modeTP = "Crash"
    /\ is_in_sync = FALSE /\ connected = FALSE /\ ole = FALSE
    /\ escaped = FALSE /\ raised = FALSE
    /\ frames = <<>> /\ lsteps = <<>>
    /\ faults = 0

-----------------------------------------------------------------------------
(***************************************************************************)
(* The operator of a kernel: out of the crash mode only into recovery, out  *)
(* of any other only into the crash mode.                                   *)
(***************************************************************************)
\* When the mode cannot be read the question is whether to enter the crash mode.
AskMode(k) ==
    /\ ask[k] = "nothing"
    /\ \E m \in {"Crash"} \cup (IF tp_mode = "Crash" THEN {"Recovery"} ELSE {}) :
          ask' = [ask EXCEPT ![k] = m]
    /\ UNCHANGED <<tp_mode, progVars, faults, history>>

\* update T_TP_STATES ... where TP_MODE_ID = 0 (or <> 0): the answer may come late.
AnswerMode(k, yes) ==
    /\ ask[k] # "nothing"
    /\ tp_mode' = IF yes /\ (ask[k] = "Recovery" => tp_mode = "Crash") THEN ask[k] ELSE tp_mode
    /\ ask' = [ask EXCEPT ![k] = "nothing"]
    /\ UNCHANGED <<progVars, faults, history>>

-----------------------------------------------------------------------------
(***************************************************************************)
(* The handler of the timer.                                                *)
(***************************************************************************)
Running == frames # <<>>
Top == frames[Len(frames)]
Goto(place) == frames' = [frames EXCEPT ![Len(frames)].at = place]
Return == frames' = SubSeq(frames, 1, Len(frames) - 1)
At(place) == Running /\ Top.at = place

Calm == UNCHANGED <<modeVars, faults, history>>
Fault == /\ faults < MaxFaults
         /\ faults' = faults + 1
         /\ UNCHANGED modeVars

\* (a plausible bug: the guard is gone)
TimerFires_Unguarded ==
    /\ Running => Top.at \in ComCalls
    /\ is_in_sync' = TRUE
    /\ frames' = Append(frames, [at |-> "connect", i |-> 1])
    /\ UNCHANGED <<modeTP, connected, ole, lsteps>> /\ Calm

\* (a plausible bug: the loop over the steps begins before the first)
TimerFires_FromZero ==
    /\ Running => Top.at \in ComCalls
    /\ ~is_in_sync
    /\ is_in_sync' = TRUE
    /\ frames' = Append(frames, [at |-> "connect", i |-> 0])
    /\ UNCHANGED <<modeTP, connected, ole, lsteps>> /\ Calm

\* (a plausible bug: after a failure the program waits for somebody to look at it)
TimerFires_NotInError ==
    /\ Running => Top.at \in ComCalls
    /\ ~is_in_sync /\ modeTP # "Error"
    /\ is_in_sync' = TRUE
    /\ frames' = Append(frames, [at |-> "connect", i |-> 1])
    /\ UNCHANGED <<modeTP, connected, ole, lsteps>> /\ Calm

\* A message is let in between two activations and in a call to 1C.  While a
\* synchronisation goes on the handler leaves at once.
TimerFires ==
    /\ Running => Top.at \in ComCalls
    /\ ~is_in_sync
    /\ is_in_sync' = TRUE
    /\ frames' = Append(frames, [at |-> "connect", i |-> 1])
    /\ UNCHANGED <<modeTP, connected, ole, lsteps>> /\ Calm

\* base.Close, base.Open; when that fails the base stays closed.
ConnectTP ==
    /\ At("connect")
    /\ Goto("mode")
    /\ \/ connected' = TRUE /\ Calm
       \/ connected' = FALSE /\ Fault /\ UNCHANGED history
    /\ UNCHANGED <<modeTP, is_in_sync, ole, lsteps>>

\* RefreshTPMode, and the test of the mode.
RefreshTPMode ==
    /\ At("mode")
    /\ \/ connected /\ modeTP' = tp_mode /\ Calm
       \/ ~connected /\ modeTP' = "Error" /\ Calm
       \/ connected /\ modeTP' = "Error" /\ Fault /\ UNCHANGED history
    /\ Goto(IF modeTP' \in {"Error", "Crash"} THEN "disconnect" ELSE "connect_1c")
    /\ UNCHANGED <<is_in_sync, connected, ole, lsteps>>

\* The variable is emptied first, which gives an old session up.
Connect1C ==
    /\ At("connect_1c")
    /\ ole' = TRUE
    /\ Goto("fill")
    /\ raised' = FALSE
    /\ UNCHANGED <<modeTP, is_in_sync, connected, lsteps, modeVars, faults, escaped>>

Prefixes(s) == {SubSeq(s, 1, n) : n \in 0 .. Len(s)}

\* (a plausible bug: the list is not cleared first)
StepsFill_NoClear ==
    /\ At("fill")
    /\ \/ lsteps' = lsteps \o StepsOf[tp_mode] /\ UNCHANGED modeTP /\ Calm
       \/ lsteps' = lsteps /\ modeTP' = "Error" /\ Fault /\ UNCHANGED history
    /\ Goto(IF lsteps' = <<>> THEN "clear" ELSE "step")
    /\ UNCHANGED <<is_in_sync, connected, ole>>

\* (a plausible bug: without a step there is nothing to end)
StepsFill_NothingToDo ==
    /\ At("fill")
    /\ \/ lsteps' = StepsOf[tp_mode] /\ UNCHANGED modeTP /\ Calm
       \/ lsteps' \in Prefixes(StepsOf[tp_mode]) /\ modeTP' = "Error" /\ Fault
          /\ UNCHANGED history
    /\ Goto(IF lsteps' = <<>> THEN "disconnect" ELSE "step")
    /\ UNCHANGED <<is_in_sync, connected, ole>>

\* The query joins T_TP_STATES: it takes the mode of this moment, not modeTP.
\* An exception is swallowed, and what the list has by then is executed.
StepsFill ==
    /\ At("fill")
    /\ \/ lsteps' = StepsOf[tp_mode] /\ UNCHANGED modeTP /\ Calm
       \/ lsteps' \in Prefixes(StepsOf[tp_mode]) /\ modeTP' = "Error" /\ Fault
          /\ UNCHANGED history
    /\ Goto(IF lsteps' = <<>> THEN "clear" ELSE "step")
    /\ UNCHANGED <<is_in_sync, connected, ole>>

\* A failure inside a step sets the mode to Error, and the next step follows.
DoStep ==
    /\ At("step")
    /\ \/ UNCHANGED modeTP /\ Calm
       \/ modeTP' = "Error" /\ Fault /\ UNCHANGED history
    /\ frames' = [frames EXCEPT ![Len(frames)] =
          IF Top.i >= Len(lsteps) THEN [Top EXCEPT !.at = "clear"]
                                  ELSE [Top EXCEPT !.i = Top.i + 1]]
    /\ UNCHANGED <<is_in_sync, connected, ole, lsteps>>

StepsClear ==
    /\ At("clear")
    /\ lsteps' = <<>>
    /\ Goto("disconnect_1c")
    /\ UNCHANGED <<modeTP, is_in_sync, connected, ole>> /\ Calm

Disconnect1C ==
    /\ At("disconnect_1c")
    /\ ole' = FALSE
    /\ Goto("disconnect")
    /\ UNCHANGED <<modeTP, is_in_sync, connected, lsteps>> /\ Calm

\* An exception inside the try of the handler, of 1C or of the log: neither StepsClear
\* nor Disconnect1C is executed.  CreateOleObject fails without a session and Connect
\* with one; the except of StepsFill may itself fail, with the mode set or not yet; in
\* Disconnect1C it is the call of Exit, or the log once the session is given up.
Raise ==
    /\ Running /\ Top.at \in ComCalls \cup {"fill"}
    /\ CASE Top.at = "connect_1c"    -> ole' \in BOOLEAN
         [] Top.at = "disconnect_1c" -> ole' \in {ole, FALSE}
         [] OTHER                    -> UNCHANGED ole
    /\ IF Top.at = "fill"
       THEN lsteps' \in Prefixes(StepsOf[tp_mode]) /\ modeTP' \in {modeTP, "Error"}
       ELSE UNCHANGED <<lsteps, modeTP>>
    /\ Goto("except")
    /\ raised' = TRUE
    /\ UNCHANGED <<is_in_sync, connected, escaped>> /\ Fault

Except ==
    /\ At("except")
    /\ modeTP' = "Error"
    /\ Goto("disconnect")
    /\ UNCHANGED <<is_in_sync, connected, ole, lsteps>> /\ Calm

\* (a plausible bug: the guard is not released)
DisconnectTP_KeepGuard ==
    /\ At("disconnect")
    /\ connected' = FALSE
    /\ Return
    /\ UNCHANGED <<modeTP, is_in_sync, ole, lsteps>> /\ Calm

\* DisconnectTP; the guard is released as the last thing.
DisconnectTP ==
    /\ At("disconnect")
    /\ connected' = FALSE
    /\ is_in_sync' = FALSE
    /\ Return
    /\ UNCHANGED <<modeTP, ole, lsteps>> /\ Calm

\* SaveToLog opens the log file anew for every line.  When it cannot, outside the
\* try of the handler or in its except, or when base.Close fails at the end, the
\* exception leaves the handler.  RefreshTPMode has begun with the crash mode by then,
\* and may have read the mode or, when the rollback fails, have set the error.
Escape ==
    /\ Running /\ Top.at \in {"connect", "mode", "except", "disconnect"}
    /\ IF Top.at = "mode" THEN connected /\ modeTP' \in {"Crash", tp_mode, "Error"}
                          ELSE UNCHANGED modeTP
    /\ connected' \in (IF Top.at \in {"mode", "except"} THEN {connected} ELSE BOOLEAN)
    /\ escaped' = TRUE
    /\ Return
    /\ UNCHANGED <<is_in_sync, ole, lsteps, raised>> /\ Fault

\* tp21c is ended and started again.
Restart ==
    /\ modeTP' = "Crash"
    /\ is_in_sync' = FALSE /\ connected' = FALSE /\ ole' = FALSE
    /\ frames' = <<>> /\ lsteps' = <<>>
    /\ escaped' = FALSE /\ raised' = FALSE
    /\ Fault

-----------------------------------------------------------------------------
Operator == \E k \in Kernels : AskMode(k) \/ \E yes \in BOOLEAN : AnswerMode(k, yes)

Handler == ConnectTP \/ RefreshTPMode \/ Connect1C \/ StepsFill \/ DoStep \/ StepsClear
           \/ Disconnect1C \/ Except \/ DisconnectTP

Next == Operator \/ TimerFires \/ Handler \/ Raise \/ Escape \/ Restart

Spec == Init /\ [][Next]_vars

\* The timer goes on ticking and the handler goes on.
FairSpec == Spec /\ WF_vars(TimerFires) /\ WF_vars(Handler)

-----------------------------------------------------------------------------
(***************************************************************************)
(* Properties.                                                              *)
(***************************************************************************)

\* Two synchronisations never overlap, although the timer fires inside the calls
\* to 1C and failures leave the handler at many places.
OneSyncAtATime == Len(frames) <= 1 /\ (Running => is_in_sync)

\* The list is made of the steps of one mode, each at most once, in their order:
\* what a failed tick has left in it is not executed again.
StepsOfOneMode == \E m \in Modes : lsteps \in Prefixes(StepsOf[m])

\* Between two ticks the database of the trade point is closed and the guard keeps
\* no tick out, unless an exception left the handler.  A session of 1C and a list of
\* steps are left over only when an exception was caught, and then at most until
\* the first tick that gets as far as a new session: none comes in the crash mode,
\* or while the mode cannot be read.
IdleIsFree ==
    ~Running /\ ~escaped =>
        /\ ~connected /\ ~is_in_sync
        /\ ole \/ lsteps # <<>> => raised /\ modeTP \in {"Error", "Crash"}

\* A synchronisation comes to its end, whatever fails in it, or an exception left
\* the handler.
SyncEnds == is_in_sync ~> (~is_in_sync \/ escaped)

\* tp21c finds the mode of the trade point out again and again: no failure of a
\* tick keeps it in Error, unless an exception left the handler.
ModeIsFollowed == []<>(modeTP = tp_mode \/ escaped)

\* What the comment at the guard says: is_in_sync means that a synchronisation is
\* going on now.
GuardMeansSync == is_in_sync => Running

=============================================================================
