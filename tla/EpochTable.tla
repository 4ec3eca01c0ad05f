------------------------------ MODULE EpochTable ------------------------------
(***************************************************************************)
(* What the table epoch_info promises its readers, whoever writes it: an   *)
(* epoch gets one row, once, in one of two forms; a row is never deleted   *)
(* or moved; it is marked active only when its epoch has begun, and marked *)
(* inactive only when a later epoch has.                                   *)
(***************************************************************************)
EXTENDS Naturals

CONSTANTS FirstEpoch, FinalEpoch, SlotsInEpoch, NULL

VARIABLES
  epoch,  \* the chain's epoch
  rows    \* the row of an epoch, or NULL

vars == <<epoch, rows>>

Epochs       == FirstEpoch .. FinalEpoch + 1
Saved(e)     == rows[e] # NULL
FirstSlot(e) == e * SlotsInEpoch

Init ==
  /\ epoch = FirstEpoch
  /\ rows = [e \in Epochs |-> NULL]

NextEpoch ==
  /\ epoch < FinalEpoch
  /\ epoch' = epoch + 1
  /\ UNCHANGED rows

Write(e, row) ==
  /\ rows' = [rows EXCEPT ![e] = row]
  /\ UNCHANGED epoch

\* The row of an epoch that has begun. It ends in the first slot of the next.
InsertBegun(e) ==
  /\ e <= epoch /\ ~Saved(e)
  /\ Write(e, [startSlot |-> FirstSlot(e), endSlot |-> FirstSlot(e + 1), isActive |-> TRUE])

\* The row that continues another: it starts where that one ends, plus one.
InsertNext(e) ==
  /\ e <= epoch /\ Saved(e) /\ ~Saved(e + 1)
  /\ Write(e + 1, [startSlot |-> rows[e].endSlot + 1, endSlot |-> FirstSlot(e + 2),
                   isActive |-> FALSE])

Mark(e) ==
  /\ e <= epoch /\ Saved(e)
  /\ Write(e, [rows[e] EXCEPT !.isActive = TRUE])

Clear(e) ==
  /\ e < epoch /\ Saved(e)
  /\ Write(e, [rows[e] EXCEPT !.isActive = FALSE])

Next ==
  \/ NextEpoch
  \/ \E e \in Epochs : InsertBegun(e) \/ InsertNext(e) \/ Mark(e) \/ Clear(e)

Spec == Init /\ [][Next]_vars
===============================================================================
