---------------------------- MODULE DocTransfer ----------------------------
(***************************************************************************)
(* What the hand-over of documents to 1C promises, document by document:    *)
(* one document at a time is on its way, it is sent again only when nobody  *)
(* could confirm it, and a confirmed document is never sent again.  It does *)
(* not promise that a document goes over once: a lost confirmation leaves   *)
(* the document waiting although 1C has it.                                 *)
(***************************************************************************)
EXTENDS Naturals

CONSTANT Docs    \* the documents of the trade point

VARIABLES
    present,   \* the documents there are
    status,    \* how far the hand-over of each has come
    copies     \* how many documents of 1C were made from each

vars == <<present, status, copies>>

TypeOK ==
    /\ present \subseteq Docs
    /\ status \in [Docs -> {"waiting", "sending", "sent", "done"}]
    /\ copies \in [Docs -> Nat]

Init ==
    /\ present = {}
    /\ status = [d \in Docs |-> "waiting"]
    /\ copies = [d \in Docs |-> 0]

Move(d, from, to) == status[d] = from /\ status' = [status EXCEPT ![d] = to]

Appear(d)  == d \notin present /\ present' = present \cup {d} /\ UNCHANGED <<status, copies>>
Vanish(d)  == present' = present \ {d} /\ UNCHANGED <<status, copies>>

Begin(d) ==
    /\ d \in present
    /\ \A e \in Docs : status[e] \in {"waiting", "done"}
    /\ Move(d, "waiting", "sending")
    /\ UNCHANGED <<present, copies>>

Send(d) ==
    /\ Move(d, "sending", "sent")
    /\ copies' = [copies EXCEPT ![d] = @ + 1]
    /\ UNCHANGED present

Confirm(d) == d \in present /\ Move(d, "sent", "done") /\ UNCHANGED <<present, copies>>

\* The call failed, or its confirmation was lost, or the document vanished.
GiveUp(d) ==
    /\ Move(d, "sending", "waiting") \/ Move(d, "sent", "waiting")
    /\ UNCHANGED <<present, copies>>

Next ==
    \E d \in Docs :
        Appear(d) \/ Vanish(d) \/ Begin(d) \/ Send(d) \/ Confirm(d) \/ GiveUp(d)

Spec == Init /\ [][Next]_vars
=============================================================================
