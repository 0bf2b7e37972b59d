----------------------------- MODULE ScaleLoad -----------------------------
(***************************************************************************)
(* Loading the goods into the scales of a trade point: the dialog of the    *)
(* kernel (scales.dll, Tfsync_log) and the driver it calls (libra.dll,      *)
(* class XLibraDIGI_SM), on several workplaces at once.                     *)
(*                                                                          *)
(* For each scale of its list a workplace reads the goods, writes them to   *)
(* tovar.dat in its own program directory, erases the scale, waits three    *)
(* seconds and uploads the file.  Nothing tells a workplace that another    *)
(* one is at the same scale, and no result is looked at by the dialog.      *)
(*                                                                          *)
(* The handle is an uninitialized pointer that the driver writes through,   *)
(* and a scale of another type gets no driver object: what follows then is  *)
(* an access violation, which leaves the loop over the scales.  The field   *)
(* result.critical of a new driver object is uninitialized as well, and the *)
(* loop over the goods is left when it happens to be 2.                     *)
(***************************************************************************)
EXTENDS Naturals, Sequences, SequencesExt

CONSTANTS Workplaces,   \* the workplaces that run the kernel
          Scales,       \* the rows of T_SCALES, in the order of the grid
          DigiScales,   \* those of the type the driver knows
          Wares,        \* the rows of WARES, ordered by CODE_WARES
          Arts,         \* the numbers in WARES.SCALE_ART_NUM
          MaxArt,       \* 9999 in the code
          MaxChanges,   \* bound: changes of WARES
          MaxFaults     \* bound: exceptions, failed calls to a scale

ASSUME ScaleAssumption ==
    /\ Wares \in Seq(Nat \ {0}) /\ Arts \subseteq Nat \ {0}
    /\ \A i, j \in DOMAIN Wares : i < j => Wares[i] < Wares[j]
    /\ Scales \in Seq(ToSet(Scales)) /\ DigiScales \subseteq ToSet(Scales)
    /\ MaxChanges \in Nat /\ MaxFaults \in Nat

VARIABLES
    scale_art_num,   \* WARES.SCALE_ART_NUM, NoArt for NULL
    plu,             \* the memory of each scale: what is sold under each number
    at,              \* where the handler of each workplace is
    todo,            \* the scales it has still to load, the current one first
    l_tovar,         \* the goods the driver was given
    critical,        \* result.critical of the driver object
    tovar_dat,       \* the file in each program directory
    changes,         \* changes of WARES so far
    faults,          \* failures so far
    doubt,           \* history: scales nobody has erased, or that an overlap or a
                     \* failure has touched since
    last             \* history: the goods of the last load of each scale

work == <<at, todo, l_tovar, critical, tovar_dat>>
bounds == <<changes, faults>>
history == <<doubt, last>>
vars == <<scale_art_num, plu, work, bounds, history>>

NoArt == 0      \* NULL
NoGoods == 0
Goods == ToSet(Wares)
Tovar == [nomen_num : Goods, art_num : Arts]

TypeOK ==
    /\ scale_art_num \in [Goods -> Arts \cup {NoArt}]
    /\ plu \in [ToSet(Scales) -> [Arts -> Goods \cup {NoGoods}]]
    /\ at \in [Workplaces -> {"idle", "connect", "read", "build", "erase", "upload", "close"}]
    /\ \A w \in Workplaces : todo[w] \in Seq(ToSet(Scales)) /\ (at[w] = "idle" <=> todo[w] = <<>>)
    /\ l_tovar \in [Workplaces -> Seq(Tovar)]
    /\ critical \in [Workplaces -> {0, 2}]
    /\ tovar_dat \in [Workplaces -> Seq(Tovar)]
    /\ changes \in 0 .. MaxChanges /\ faults \in 0 .. MaxFaults
    /\ doubt \subseteq ToSet(Scales)

Empty == [a \in Arts |-> NoGoods]

Init ==
    /\ scale_art_num \in [Goods -> Arts \cup {NoArt}]
    /\ plu = [s \in ToSet(Scales) |-> Empty]
    /\ at = [w \in Workplaces |-> "idle"]
    /\ todo = [w \in Workplaces |-> <<>>]
    /\ l_tovar = [w \in Workplaces |-> <<>>]
    /\ critical = [w \in Workplaces |-> 0]
    /\ tovar_dat = [w \in Workplaces |-> <<>>]
    /\ changes = 0 /\ faults = 0
    /\ doubt = ToSet(Scales) /\ last = [s \in ToSet(Scales) |-> <<>>]

-----------------------------------------------------------------------------
\* The members of a list that are in S, in the order of the list.
Among(list, S) ==
    LET kept[n \in 0 .. Len(list)] ==
            IF n = 0 THEN <<>>
            ELSE IF list[n] \in S THEN Append(kept[n - 1], list[n])
            ELSE kept[n - 1]
    IN  kept[Len(list)]

Goto(w, place) == at' = [at EXCEPT ![w] = place]
Current(w) == Head(todo[w])
Fault == faults < MaxFaults /\ faults' = faults + 1 /\ UNCHANGED changes

\* The goods come from 1C and are edited in the kernel while scales are loaded.
ChangeWares(g, a) ==
    /\ changes < MaxChanges
    /\ changes' = changes + 1
    /\ scale_art_num' = [scale_art_num EXCEPT ![g] = a]
    /\ UNCHANGED <<plu, work, faults, history>>

\* bt_goClick: the scales that are ticked in the grid, one after the other.
Go(w) ==
    /\ at[w] = "idle"
    /\ \E ticked \in (SUBSET ToSet(Scales)) \ {{}} :
          todo' = [todo EXCEPT ![w] = Among(Scales, ticked)]
    /\ Goto(w, "connect")
    /\ UNCHANGED <<scale_art_num, plu, l_tovar, critical, tovar_dat, bounds, history>>

\* A new driver object: an empty list, and whatever the heap had for critical.
LibraConnect(w) ==
    /\ at[w] = "connect"
    /\ Current(w) \in DigiScales
    /\ l_tovar' = [l_tovar EXCEPT ![w] = <<>>]
    /\ \E c \in {0, 2} : critical' = [critical EXCEPT ![w] = c]
    /\ Goto(w, "read")
    /\ UNCHANGED <<scale_art_num, plu, todo, tovar_dat, bounds, history>>

\* PS_SCALE_NOMENS, ordered by the code: the goods that have a number.
PS_SCALE_NOMENS ==
    LET codes == Among(Wares, {g \in Goods : scale_art_num[g] # NoArt})
    IN  [i \in DOMAIN codes |-> [nomen_num |-> codes[i], art_num |-> scale_art_num[codes[i]]]]

\* LibraTovarAdd for every row.
LibraTovarAdd(w) ==
    /\ at[w] = "read"
    /\ l_tovar' = [l_tovar EXCEPT ![w] = @ \o PS_SCALE_NOMENS]
    /\ Goto(w, "build")
    /\ UNCHANGED <<scale_art_num, plu, todo, critical, tovar_dat, bounds, history>>

\* ProgrammingTovar refuses a number of more than four digits.
HasPlu(tovar) == tovar.art_num <= MaxArt
HavingPlu(list) == Among(list, {tovar \in ToSet(list) : HasPlu(tovar)})

\* The goods XLibra::ProgrammingAllTovar comes to: a refused one sets critical
\* to 0, an accepted one leaves it as it is.
Reached(list, c) ==
    IF c = 2 /\ list # <<>> /\ HasPlu(list[1]) THEN SubSeq(list, 1, 1) ELSE list

\* (a plausible bug: the old file is not truncated)
BuildFile_Append(w) ==
    /\ at[w] = "build"
    /\ tovar_dat' = [tovar_dat EXCEPT
          ![w] = @ \o HavingPlu(Reached(l_tovar[w], critical[w]))]
    /\ Goto(w, "erase")
    /\ UNCHANGED <<scale_art_num, plu, todo, l_tovar, critical, bounds, history>>

\* ProgrammingAllTovar: tovar.dat is made anew.
BuildFile(w) ==
    /\ at[w] = "build"
    /\ tovar_dat' = [tovar_dat EXCEPT ![w] = HavingPlu(Reached(l_tovar[w], critical[w]))]
    /\ Goto(w, "erase")
    /\ UNCHANGED <<scale_art_num, plu, todo, l_tovar, critical, bounds, history>>

\* Another workplace is between its ERASEOBJECT and its UPLOAD of the same scale.
Overlaps(w) == \E v \in Workplaces \ {w} : at[v] = "upload" /\ Current(v) = Current(w)

\* ERASEOBJECT with 0x88, taken to be the memory of the goods; its result is not
\* looked at.
Erase(w) ==
    LET s == Current(w) IN
    /\ at[w] = "erase"
    /\ \/ /\ plu' = [plu EXCEPT ![s] = Empty]
          /\ doubt' = IF Overlaps(w) THEN doubt \cup {s} ELSE doubt \ {s}
          /\ UNCHANGED bounds
       \/ Fault /\ doubt' = doubt \cup {s} /\ UNCHANGED plu
    /\ Goto(w, "upload")
    /\ UNCHANGED <<scale_art_num, todo, l_tovar, critical, tovar_dat, last>>

\* What a scale has in memory when it takes the records of a file one by one.
Loaded(memory, file) ==
    [a \in Arts |->
        LET same == {i \in DOMAIN file : file[i].art_num = a}
        IN  IF same = {} THEN memory[a]
            ELSE file[CHOOSE i \in same : \A j \in same : j <= i].nomen_num]

\* UPLOAD of tovar.dat.  It fails at any record of the file; its result is the
\* result of LibraProgrammingAllTovar, which the dialog does not look at.
Upload(w) ==
    LET s == Current(w) IN
    /\ at[w] = "upload"
    /\ \/ /\ plu' = [plu EXCEPT ![s] = Loaded(@, tovar_dat[w])]
          /\ doubt' = IF critical[w] = 2 THEN doubt \cup {s} ELSE doubt
          /\ UNCHANGED bounds
       \/ /\ Fault
          /\ \E n \in 0 .. Len(tovar_dat[w]) :
                plu' = [plu EXCEPT ![s] = Loaded(@, SubSeq(tovar_dat[w], 1, n))]
          /\ doubt' = doubt \cup {s}
    /\ last' = [last EXCEPT ![s] = l_tovar[w]]
    /\ Goto(w, "close")
    /\ UNCHANGED <<scale_art_num, todo, l_tovar, critical, tovar_dat>>

\* (a plausible bug: the end of the grid is not noticed)
LibraDisconnect_NoEnd(w) ==
    /\ at[w] = "close"
    /\ todo' = [todo EXCEPT ![w] = Tail(@)]
    /\ Goto(w, "connect")
    /\ UNCHANGED <<scale_art_num, plu, l_tovar, critical, tovar_dat, bounds, history>>

\* The object is deleted; the next scale of the grid.
LibraDisconnect(w) ==
    /\ at[w] = "close"
    /\ todo' = [todo EXCEPT ![w] = Tail(@)]
    /\ Goto(w, IF Len(todo[w]) = 1 THEN "idle" ELSE "connect")
    /\ UNCHANGED <<scale_art_num, plu, l_tovar, critical, tovar_dat, bounds, history>>

\* An exception (no driver for the scale, no driver library, the database)
\* leaves the loop over the scales; so does the end of the kernel.
Raise(w) ==
    /\ at[w] # "idle"
    /\ IF at[w] = "connect" /\ Current(w) \notin DigiScales THEN UNCHANGED bounds ELSE Fault
    /\ todo' = [todo EXCEPT ![w] = <<>>]
    /\ Goto(w, "idle")
    /\ doubt' = IF at[w] = "upload" THEN doubt \cup {Current(w)} ELSE doubt
    /\ UNCHANGED <<scale_art_num, plu, l_tovar, critical, tovar_dat, last>>

-----------------------------------------------------------------------------
Next ==
    \/ \E g \in Goods, a \in Arts \cup {NoArt} : ChangeWares(g, a)
    \/ \E w \in Workplaces :
          \/ Go(w) \/ LibraConnect(w) \/ LibraTovarAdd(w) \/ BuildFile(w)
          \/ Erase(w) \/ Upload(w) \/ LibraDisconnect(w) \/ Raise(w)

Spec == Init /\ [][Next]_vars

-----------------------------------------------------------------------------
(***************************************************************************)
(* Properties.                                                              *)
(***************************************************************************)

\* A scale that was loaded and that nobody is loading sells exactly the goods of the
\* last list read for it, each under its number, unless a failure or an overlap of
\* two workplaces has touched it since it was last erased.
ScaleHoldsItsList ==
    \A s \in ToSet(Scales) \ doubt :
        (\A w \in Workplaces : at[w] = "upload" => Current(w) # s)
            => plu[s] = Loaded(Empty, HavingPlu(last[s]))

=============================================================================
