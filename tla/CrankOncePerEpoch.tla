-------------------------- MODULE CrankOncePerEpoch --------------------------
(***************************************************************************)
(* What the crank scheduler promises, without ticks, RPC calls or flags:   *)
(* one crank group runs at a time, a group only runs for an epoch it has   *)
(* not recorded yet and that the chain has reached, and an epoch is        *)
(* recorded by finishing a run for it, never by abandoning one.            *)
(*                                                                         *)
(* The promise is the comment over the test in                             *)
(* crank-scheduler.service.ts:52 ("cranks aren't running, and haven't run  *)
(* in this epoch") for one life of the process: a reboot forgets.          *)
(***************************************************************************)
EXTENDS Integers

CONSTANTS
  Checks,      \* the crank groups, each with its own last executed epoch
  FirstEpoch,  \* epoch of the chain when the process is first started
  FinalEpoch   \* bound on the chain's growth

VARIABLES
  epoch,       \* epoch the chain is in
  busy,        \* the run in progress: {} or {<<group, epoch it runs for>>}
  recorded     \* last epoch each group has finished a run for

vars == <<epoch, busy, recorded>>

Init ==
  /\ epoch = FirstEpoch
  /\ busy = {}
  /\ recorded = [c \in Checks |-> 0]

NewEpoch ==
  /\ epoch < FinalEpoch
  /\ epoch' = epoch + 1
  /\ UNCHANGED <<busy, recorded>>

Begin(c, e) ==
  /\ busy = {}
  /\ recorded[c] < e /\ e <= epoch
  /\ busy' = {<<c, e>>}
  /\ UNCHANGED <<epoch, recorded>>

Finish(c, e) ==
  /\ busy = {<<c, e>>}
  /\ busy' = {}
  /\ recorded' = [recorded EXCEPT ![c] = e]
  /\ UNCHANGED epoch

Abandon ==
  /\ busy # {}
  /\ busy' = {}
  /\ UNCHANGED <<epoch, recorded>>

Reboot ==
  /\ busy' = {}
  /\ recorded' = [c \in Checks |-> 0]
  /\ UNCHANGED epoch

Next ==
  \/ NewEpoch
  \/ \E c \in Checks, e \in FirstEpoch .. FinalEpoch : Begin(c, e) \/ Finish(c, e)
  \/ Abandon
  \/ Reboot

Spec == Init /\ [][Next]_vars
=============================================================================
