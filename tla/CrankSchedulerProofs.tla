------------------------- MODULE CrankSchedulerProofs -------------------------
(***************************************************************************)
(* Theorems about CrankScheduler for any number of overlapping passes, any *)
(* epoch length, any target distances and any number of restarts.          *)
(***************************************************************************)
EXTENDS CrankScheduler, TLAPS

USE SlotsAssumption, EpochAssumption, EnvironmentAssumption

\* The definitions that only name tuples, sets and tables of the code.
LEMMA Tables ==
  /\ \A c \in Checks : /\ FirstOp[c] \in Ops
                       /\ FirstOp[c] \in OpsOf[c]
                       /\ Following[c] \in Checks
                       /\ TargetIndex(c) \in Int
  /\ LastOps \subseteq Ops
  /\ {"updateActive", "updateDeactivated"} \subseteq Ops
  /\ "updateDeactivated" \in LastOps /\ "updateActive" \notin LastOps
  /\ Ops \cap Asking = {}
  /\ "idle" \notin Ops
  BY DEF Checks, FirstOp, OpsOf, Following, Ops, LastOps, Asking, TargetIndex, SlotsBefore

\* Leaving a check keeps the pass variables in their types, and the pass is
\* afterwards outside every operation while the others stay where they are.
LEMMA LeaveCheckEffect ==
  ASSUME TypeOK, NEW t \in Ticks, LeaveCheck(t)
  PROVE  /\ pc' \in [Ticks -> {"idle"} \cup Asking \cup Ops]
         /\ check' \in [Ticks -> Checks]
         /\ due' \in [Ticks -> BOOLEAN]
         /\ currentEpoch' \in [Ticks -> 0 .. FinalEpoch]
         /\ pc'[t] \notin Ops
         /\ \A u \in Ticks \ {t} : /\ pc'[u] = pc[u]
                                   /\ check'[u] = check[u]
                                   /\ currentEpoch'[u] = currentEpoch[u]
         /\ currentEpoch'[t] = 0
<1>1. check[t] \in Checks /\ Following[check[t]] \in Checks
  BY Tables DEF TypeOK
<1>2. pc'[t] \in {"idle", "slotChecker"} /\ pc' \in [Ticks -> {"idle"} \cup Asking \cup Ops]
  BY DEF LeaveCheck, TypeOK, Asking
<1>3. check' \in [Ticks -> Checks]
  BY <1>1 DEF LeaveCheck, TypeOK
<1>4. QED
  BY <1>2, <1>3, Tables DEF LeaveCheck, TypeOK, Ops

-----------------------------------------------------------------------------
\* Every reachable state is well typed; in particular no epoch is recorded
\* beyond the last one the chain reaches.
THEOREM TypeCorrect == Spec => []TypeOK
<1>1. Init => TypeOK
  <2> SUFFICES ASSUME Init PROVE TypeOK
    OBVIOUS
  <2>1. /\ epoch \in FirstEpoch .. FinalEpoch
        /\ slotIndex \in 0 .. SlotsInEpoch - 1
        /\ restarts \in 0 .. MaxRestarts
        /\ executed \subseteq Ops \X (0 .. FinalEpoch)
    BY DEF Init
  <2>2. /\ lastRunEpoch \in [Checks -> 0 .. FinalEpoch]
        /\ currentEpoch \in [Ticks -> 0 .. FinalEpoch]
    BY DEF Init
  <2>3. /\ check \in [Ticks -> Checks]
        /\ due \in [Ticks -> BOOLEAN]
        /\ pc \in [Ticks -> {"idle"} \cup Asking \cup Ops]
    BY DEF Init, Checks
  <2>4. QED
    BY <2>1, <2>2, <2>3 DEF Init, TypeOK
<1>2. TypeOK /\ [Next]_vars => TypeOK'
  <2> SUFFICES ASSUME TypeOK, [Next]_vars PROVE TypeOK'
    OBVIOUS
  <2>1. CASE NextSlot
    BY <2>1 DEF NextSlot, TypeOK, memory, pass
  <2>2. ASSUME NEW t \in Ticks, TimerFires(t) PROVE TypeOK'
    BY <2>2 DEF TimerFires, TypeOK, chain, memory, Asking
  <2>3. ASSUME NEW t \in Ticks, SlotChecked(t) PROVE TypeOK'
    <3>1. (slotIndex >= TargetIndex(check[t])) \in BOOLEAN
      OBVIOUS
    <3>2. QED
      BY <2>3, <3>1 DEF SlotChecked, TypeOK, chain, memory, Asking
  <2>4. ASSUME NEW t \in Ticks, EpochRead(t) PROVE TypeOK'
    BY <2>4 DEF EpochRead, TypeOK, chain, memory, Asking
  <2>5. ASSUME NEW t \in Ticks, StartCrank(t) PROVE TypeOK'
    <3>1. FirstOp[check[t]] \in Ops
      BY Tables DEF TypeOK
    <3>2. QED
      BY <2>5, <3>1 DEF StartCrank, TypeOK, chain
  <2>6. ASSUME NEW t \in Ticks, SkipCrank(t) PROVE TypeOK'
    BY <2>6, LeaveCheckEffect DEF SkipCrank, TypeOK, chain, memory
  <2>7. ASSUME NEW t \in Ticks, CheckFailed(t) PROVE TypeOK'
    BY <2>7, LeaveCheckEffect DEF CheckFailed, TypeOK, chain, status
  <2>8. ASSUME NEW t \in Ticks, UpdateActiveDone(t) PROVE TypeOK'
    <3>1. <<"updateActive", currentEpoch[t]>> \in Ops \X (0 .. FinalEpoch)
      BY Tables DEF TypeOK
    <3>2. QED
      BY <2>8, <3>1, Tables DEF UpdateActiveDone, TypeOK, chain
  <2>9. ASSUME NEW t \in Ticks, CrankDone(t) PROVE TypeOK'
    <3>1. <<pc[t], currentEpoch[t]>> \in Ops \X (0 .. FinalEpoch)
      BY <2>9, Tables DEF TypeOK, CrankDone
    <3>2. lastRunEpoch' \in [Checks -> 0 .. FinalEpoch]
      BY <2>9 DEF TypeOK, CrankDone
    <3>3. QED
      BY <2>9, <3>1, <3>2, LeaveCheckEffect DEF CrankDone, TypeOK, chain
  <2>10. ASSUME NEW t \in Ticks, CrankFailed(t) PROVE TypeOK'
    BY <2>10, LeaveCheckEffect DEF CrankFailed, TypeOK, chain
  <2>11. CASE Restart
    <3>1. restarts' \in 0 .. MaxRestarts
      BY <2>11 DEF Restart, TypeOK
    <3>2. lastRunEpoch' \in [Checks -> 0 .. FinalEpoch] /\ currentEpoch' \in [Ticks -> 0 .. FinalEpoch]
      BY <2>11 DEF Restart
    <3>3. /\ check' \in [Ticks -> Checks]
          /\ due' \in [Ticks -> BOOLEAN]
          /\ pc' \in [Ticks -> {"idle"} \cup Asking \cup Ops]
      BY <2>11 DEF Restart, Checks
    <3>4. QED
      BY <2>11, <3>1, <3>2, <3>3 DEF Restart, TypeOK, chain
  <2>12. CASE UNCHANGED vars
    BY <2>12 DEF TypeOK, vars
  <2>13. QED
    BY <2>1, <2>2, <2>3, <2>4, <2>5, <2>6, <2>7, <2>8, <2>9, <2>10, <2>11, <2>12
       DEF Next, Asked, Operated
<1>3. QED
  BY <1>1, <1>2, PTL DEF Spec

-----------------------------------------------------------------------------
\* No interleaving of passes, no rejected call and no restart leaves the lock
\* set with nobody running: NoLeakedLock is inductive by itself.
THEOREM LockNeverLeaked == Spec => []NoLeakedLock
<1>1. Init => NoLeakedLock
  BY DEF Init, NoLeakedLock
<1>2. TypeOK /\ NoLeakedLock /\ [Next]_vars => NoLeakedLock'
  <2> SUFFICES ASSUME TypeOK, NoLeakedLock, [Next]_vars PROVE NoLeakedLock'
    OBVIOUS
  <2>1. CASE UNCHANGED <<areCranksRunning, pc>>
    BY <2>1 DEF NoLeakedLock, Running
  <2>2. CASE areCranksRunning' = FALSE
    BY <2>2 DEF NoLeakedLock
  <2>3. CASE NextSlot
    BY <2>3, <2>1 DEF NextSlot, memory, pass
  <2>4. ASSUME NEW t \in Ticks,
               \/ TimerFires(t) \/ SlotChecked(t) \/ EpochRead(t) \/ SkipCrank(t)
        PROVE  NoLeakedLock'
    <3>1. areCranksRunning' = areCranksRunning /\ pc[t] \notin Ops
      BY <2>4, Tables DEF TimerFires, SlotChecked, EpochRead, SkipCrank, memory, Asking
    <3>2. \A u \in Ticks \ {t} : pc'[u] = pc[u]
      BY <2>4 DEF TimerFires, SlotChecked, EpochRead, SkipCrank, LeaveCheck, TypeOK
    <3>3. QED
      BY <3>1, <3>2 DEF NoLeakedLock, Running
  <2>5. ASSUME NEW t \in Ticks, StartCrank(t) PROVE NoLeakedLock'
    <3>1. pc'[t] \in Ops
      BY <2>5, Tables DEF StartCrank, TypeOK
    <3>2. QED
      BY <3>1 DEF NoLeakedLock, Running
  <2>6. ASSUME NEW t \in Ticks, CheckFailed(t) \/ CrankDone(t) \/ CrankFailed(t)
        PROVE  NoLeakedLock'
    BY <2>6, <2>2 DEF CheckFailed, CrankDone, CrankFailed
  <2>7. ASSUME NEW t \in Ticks, UpdateActiveDone(t) PROVE NoLeakedLock'
    <3>1. pc'[t] \in Ops
      BY <2>7, Tables DEF UpdateActiveDone, TypeOK
    <3>2. QED
      BY <3>1 DEF NoLeakedLock, Running
  <2>8. CASE Restart
    BY <2>8, <2>2 DEF Restart
  <2>9. CASE UNCHANGED vars
    BY <2>9, <2>1 DEF vars
  <2>10. QED
    BY <2>3, <2>4, <2>5, <2>6, <2>7, <2>8, <2>9 DEF Next, Asked, Operated
<1>3. QED
  BY <1>1, <1>2, TypeCorrect, PTL DEF Spec

-----------------------------------------------------------------------------
\* Whatever overlaps or fails, a status flag and currentOperation only name
\* operations that are in progress.
THEOREM StatusNeverStale == Spec => []NoStaleStatus
<1>1. Init => NoStaleStatus
  BY DEF Init, NoStaleStatus
<1>2. TypeOK /\ NoStaleStatus /\ [Next]_vars => NoStaleStatus'
  <2> SUFFICES ASSUME TypeOK, NoStaleStatus, [Next]_vars PROVE NoStaleStatus'
    OBVIOUS
  \* A step of a pass that is not in an operation touches no flag.
  <2>1. ASSUME NEW t \in Ticks, pc[t] \notin Ops, UNCHANGED status,
               \A u \in Ticks \ {t} : pc'[u] = pc[u]
        PROVE  NoStaleStatus'
    <3>1. \A u \in Running : u \in Running' /\ pc'[u] = pc[u]
      BY <2>1 DEF Running
    <3>2. QED
      BY <3>1, <2>1 DEF NoStaleStatus, status
  <2>2. CASE UNCHANGED <<status, pc>>
    BY <2>2 DEF NoStaleStatus, Running, status
  <2>3. CASE NextSlot
    BY <2>3, <2>2 DEF NextSlot, memory, pass, status
  <2>4. ASSUME NEW t \in Ticks,
               TimerFires(t) \/ SlotChecked(t) \/ EpochRead(t) \/ SkipCrank(t) \/ CheckFailed(t)
        PROVE  NoStaleStatus'
    <3>1. pc[t] \notin Ops /\ UNCHANGED status
      BY <2>4, Tables DEF TimerFires, SlotChecked, EpochRead, SkipCrank, CheckFailed,
                          memory, status, Asking
    <3>2. \A u \in Ticks \ {t} : pc'[u] = pc[u]
      BY <2>4 DEF TimerFires, SlotChecked, EpochRead, SkipCrank, CheckFailed, LeaveCheck, TypeOK
    <3>3. QED
      BY <3>1, <3>2, <2>1
  <2>5. ASSUME NEW t \in Ticks, StartCrank(t) PROVE NoStaleStatus'
    <3>1. /\ pc[t] \notin Ops
          /\ \A u \in Ticks \ {t} : pc'[u] = pc[u]
          /\ pc'[t] = FirstOp[check[t]] /\ FirstOp[check[t]] \in Ops
      BY <2>5, Tables DEF StartCrank, TypeOK, Asking
    <3>2. t \in Running' /\ \A u \in Running : u \in Running' /\ pc'[u] = pc[u]
      BY <3>1 DEF Running
    <3>3. QED
      BY <3>1, <3>2, <2>5 DEF NoStaleStatus, StartCrank
  <2>6. ASSUME NEW t \in Ticks, UpdateActiveDone(t) PROVE NoStaleStatus'
    <3>1. /\ pc[t] = "updateActive"
          /\ \A u \in Ticks \ {t} : pc'[u] = pc[u]
          /\ pc'[t] = "updateDeactivated" /\ pc'[t] \in Ops
      BY <2>6, Tables DEF UpdateActiveDone, TypeOK
    <3>2. t \in Running' /\ \A u \in Running \ {t} : u \in Running' /\ pc'[u] = pc[u]
      BY <3>1 DEF Running
    <3>3. QED
      BY <3>1, <3>2, <2>6 DEF NoStaleStatus, UpdateActiveDone
  <2>7. ASSUME NEW t \in Ticks, CrankDone(t) PROVE NoStaleStatus'
    <3>1. \A u \in Ticks \ {t} : pc'[u] = pc[u]
      BY <2>7, LeaveCheckEffect DEF CrankDone
    <3>2. \A u \in Running \ {t} : u \in Running' /\ pc'[u] = pc[u]
      BY <3>1 DEF Running
    <3>3. QED
      BY <3>2, <2>7 DEF NoStaleStatus, CrankDone
  <2>8. ASSUME NEW t \in Ticks, CrankFailed(t) PROVE NoStaleStatus'
    BY <2>8 DEF NoStaleStatus, CrankFailed
  <2>9. CASE Restart
    BY <2>9 DEF NoStaleStatus, Restart
  <2>10. CASE UNCHANGED vars
    BY <2>10, <2>2 DEF vars, status
  <2>11. QED
    BY <2>3, <2>4, <2>5, <2>6, <2>7, <2>8, <2>9, <2>10 DEF Next, Asked, Operated
<1>3. QED
  BY <1>1, <1>2, TypeCorrect, PTL DEF Spec

-----------------------------------------------------------------------------
(* A pass only runs operations of the check it is in, and reaches the       *)
(* second update operation by completing the first for the same epoch: this *)
(* is what makes RecordedMeansRan inductive.                                *)
PassInv ==
  \A t \in Ticks : /\ pc[t] \in Ops => pc[t] \in OpsOf[check[t]]
                   /\ pc[t] = "updateDeactivated"
                        => <<"updateActive", currentEpoch[t]>> \in executed

RecordInv == PassInv /\ RecordedMeansRan

LEMMA OperationsOfCheck ==
  ASSUME NEW c \in Checks
  PROVE  /\ \A op \in OpsOf[c] : op \in LastOps =>
              \/ OpsOf[c] = {op}
              \/ OpsOf[c] = {"updateActive", op} /\ op = "updateDeactivated"
         /\ "updateActive" \in OpsOf[c] => "updateDeactivated" \in OpsOf[c]
         /\ FirstOp[c] # "updateDeactivated"
<1>1. CASE c = "deactivateStakeCranks"
  BY <1>1 DEF OpsOf, LastOps, FirstOp
<1>2. CASE c = "stakeDeltaCranks"
  BY <1>2 DEF OpsOf, LastOps, FirstOp
<1>3. CASE c = "updateCranks"
  BY <1>3 DEF OpsOf, LastOps, FirstOp
<1>4. QED
  BY <1>1, <1>2, <1>3 DEF Checks

\* An epoch on record stands for every operation of its check completed in it,
\* across failures half way and restarts.
THEOREM RecordsAreEarned == Spec => []RecordedMeansRan
<1>1. Init => RecordInv
  BY DEF Init, RecordInv, PassInv, RecordedMeansRan, Ops
<1>2. TypeOK /\ RecordInv /\ [Next]_vars => RecordInv'
  <2> SUFFICES ASSUME TypeOK, PassInv, RecordedMeansRan, [Next]_vars
               PROVE  PassInv' /\ RecordedMeansRan'
    BY DEF RecordInv
  <2>1. ASSUME executed \subseteq executed', UNCHANGED lastRunEpoch PROVE RecordedMeansRan'
    BY <2>1 DEF RecordedMeansRan
  \* A step that leaves pass t outside every operation and the others alone.
  <2>2. ASSUME NEW t \in Ticks, pc'[t] \notin Ops, executed \subseteq executed',
               \A u \in Ticks \ {t} : /\ pc'[u] = pc[u]
                                      /\ check'[u] = check[u]
                                      /\ currentEpoch'[u] = currentEpoch[u]
        PROVE  PassInv'
    BY <2>2, Tables DEF PassInv
  <2>3. CASE NextSlot
    BY <2>3, <2>1 DEF NextSlot, memory, pass, PassInv
  <2>4. ASSUME NEW t \in Ticks,
               \/ TimerFires(t) \/ SlotChecked(t) \/ EpochRead(t) \/ SkipCrank(t)
               \/ CheckFailed(t) \/ CrankFailed(t)
        PROVE  PassInv' /\ RecordedMeansRan'
    <3>1. UNCHANGED <<lastRunEpoch, executed>>
      BY <2>4 DEF TimerFires, SlotChecked, EpochRead, SkipCrank, CheckFailed, CrankFailed, memory
    <3>2. /\ pc'[t] \notin Ops
          /\ \A u \in Ticks \ {t} : /\ pc'[u] = pc[u]
                                    /\ check'[u] = check[u]
                                    /\ currentEpoch'[u] = currentEpoch[u]
      <4>1. CASE TimerFires(t) \/ SlotChecked(t) \/ EpochRead(t)
        BY <4>1 DEF TimerFires, SlotChecked, EpochRead, TypeOK, Ops
      <4>2. CASE SkipCrank(t) \/ CheckFailed(t) \/ CrankFailed(t)
        BY <4>2, LeaveCheckEffect DEF SkipCrank, CheckFailed, CrankFailed
      <4>3. QED
        BY <2>4, <4>1, <4>2
    <3>3. QED
      BY <3>1, <3>2, <2>1, <2>2
  <2>5. ASSUME NEW t \in Ticks, StartCrank(t) PROVE PassInv' /\ RecordedMeansRan'
    <3>1. RecordedMeansRan'
      BY <2>5, <2>1 DEF StartCrank
    <3>2. /\ pc'[t] \in OpsOf[check'[t]] /\ pc'[t] # "updateDeactivated"
          /\ \A u \in Ticks \ {t} : pc'[u] = pc[u]
          /\ UNCHANGED <<check, currentEpoch, executed>>
      BY <2>5, Tables, OperationsOfCheck DEF StartCrank, TypeOK
    <3>3. QED
      BY <3>1, <3>2 DEF PassInv
  <2>6. ASSUME NEW t \in Ticks, UpdateActiveDone(t) PROVE PassInv' /\ RecordedMeansRan'
    <3>1. RecordedMeansRan'
      BY <2>6, <2>1 DEF UpdateActiveDone
    <3>0. check[t] \in Checks /\ "updateActive" \in OpsOf[check[t]]
      BY <2>6, Tables DEF UpdateActiveDone, TypeOK, PassInv
    <3>2. /\ pc'[t] = "updateDeactivated" /\ "updateDeactivated" \in OpsOf[check[t]]
          /\ \A u \in Ticks \ {t} : pc'[u] = pc[u]
          /\ UNCHANGED <<check, currentEpoch>>
          /\ executed' = executed \cup {<<"updateActive", currentEpoch[t]>>}
      BY <2>6, <3>0, OperationsOfCheck DEF UpdateActiveDone, TypeOK
    <3>3. QED
      BY <3>1, <3>2 DEF PassInv
  <2>7. ASSUME NEW t \in Ticks, CrankDone(t) PROVE PassInv' /\ RecordedMeansRan'
    <3>1. PassInv'
      BY <2>7, <2>2, LeaveCheckEffect DEF CrankDone
    <3>2. check[t] \in Checks /\ pc[t] \in LastOps /\ pc[t] \in OpsOf[check[t]]
      BY <2>7, Tables DEF CrankDone, TypeOK, PassInv
    <3>3. \A op \in OpsOf[check[t]] : <<op, currentEpoch[t]>> \in executed'
      <4>1. CASE OpsOf[check[t]] = {pc[t]}
        BY <4>1, <2>7 DEF CrankDone
      <4>2. CASE OpsOf[check[t]] = {"updateActive", pc[t]} /\ pc[t] = "updateDeactivated"
        BY <4>2, <2>7 DEF CrankDone, PassInv
      <4>3. QED
        BY <3>2, <4>1, <4>2, OperationsOfCheck
    <3>4. RecordedMeansRan'
      <4> SUFFICES ASSUME NEW c \in Checks, lastRunEpoch'[c] # 0, NEW op \in OpsOf[c]
                   PROVE  <<op, lastRunEpoch'[c]>> \in executed'
        BY DEF RecordedMeansRan
      <4>1. CASE c = check[t]
        BY <4>1, <3>3, <2>7 DEF CrankDone, TypeOK
      <4>2. CASE c # check[t]
        BY <4>2, <2>7 DEF CrankDone, TypeOK, RecordedMeansRan
      <4>3. QED
        BY <4>1, <4>2
    <3>5. QED
      BY <3>1, <3>4
  <2>8. CASE Restart
    BY <2>8, Tables DEF Restart, PassInv, RecordedMeansRan, Ops
  <2>9. CASE UNCHANGED vars
    BY <2>9, <2>1 DEF vars, PassInv
  <2>10. QED
    BY <2>3, <2>4, <2>5, <2>6, <2>7, <2>8, <2>9 DEF Next, Asked, Operated
<1>3. QED
  BY <1>1, <1>2, TypeCorrect, PTL DEF Spec, RecordInv

-----------------------------------------------------------------------------
(* While the RPC calls of the checks are answered, the lock excludes. The   *)
(* three properties need each other: exclusion follows from the lock being  *)
(* set exactly while somebody runs, and what runs stays new because nobody  *)
(* else can record meanwhile.                                               *)
ReliableInv == OneCrankAtATime /\ StatusTruthful /\ RunIsNew

\* A step that leaves the running passes and the memory as they are keeps it.
LEMMA ReliableFrame ==
  ASSUME ReliableInv, UNCHANGED memory, Running' = Running,
         \A u \in Running : /\ pc'[u] = pc[u]
                            /\ check'[u] = check[u]
                            /\ currentEpoch'[u] = currentEpoch[u]
  PROVE  ReliableInv'
<1>1. OneCrankAtATime' /\ RunIsNew'
  BY DEF ReliableInv, OneCrankAtATime, RunIsNew, memory
<1>2. {pc'[u] : u \in Running'} = {pc[u] : u \in Running}
  OBVIOUS
<1>3. QED
  BY <1>1, <1>2 DEF ReliableInv, StatusTruthful, memory

\* A step after which nobody runs and lock and status are clear keeps it.
LEMMA ReliableQuiet ==
  ASSUME Running' = {}, areCranksRunning' = FALSE, processStatus' = {}, currentOperation' = NULL
  PROVE  ReliableInv'
  BY DEF ReliableInv, OneCrankAtATime, StatusTruthful, RunIsNew

\* What each step of a pass does to the set of running passes.
LEMMA RunningAfter ==
  ASSUME TypeOK, NEW t \in Ticks
  PROVE  /\ TimerFires(t) \/ SlotChecked(t) \/ EpochRead(t) \/ SkipCrank(t)
              => /\ Running' = Running /\ t \notin Running
                 /\ \A u \in Running : /\ pc'[u] = pc[u]
                                       /\ check'[u] = check[u]
                                       /\ currentEpoch'[u] = currentEpoch[u]
         /\ StartCrank(t) => Running' = Running \cup {t}
         /\ UpdateActiveDone(t) => Running' = Running /\ t \in Running
         /\ CrankDone(t) \/ CrankFailed(t) => Running' = Running \ {t} /\ t \in Running
<1>1. ASSUME TimerFires(t) \/ SlotChecked(t) \/ EpochRead(t) \/ SkipCrank(t)
      PROVE  /\ Running' = Running /\ t \notin Running
             /\ \A u \in Running : /\ pc'[u] = pc[u]
                                   /\ check'[u] = check[u]
                                   /\ currentEpoch'[u] = currentEpoch[u]
  <2>1. pc[t] \notin Ops
    BY <1>1, Tables DEF TimerFires, SlotChecked, EpochRead, SkipCrank, Asking
  <2>2. /\ pc'[t] \notin Ops
        /\ \A u \in Ticks \ {t} : /\ pc'[u] = pc[u]
                                  /\ check'[u] = check[u]
                                  /\ currentEpoch'[u] = currentEpoch[u]
    <3>1. CASE TimerFires(t) \/ SlotChecked(t) \/ EpochRead(t)
      BY <3>1 DEF TimerFires, SlotChecked, EpochRead, TypeOK, Ops
    <3>2. CASE SkipCrank(t)
      BY <3>2, LeaveCheckEffect DEF SkipCrank
    <3>3. QED
      BY <1>1, <3>1, <3>2
  <2>3. QED
    BY <2>1, <2>2 DEF Running
<1>2. ASSUME StartCrank(t) PROVE Running' = Running \cup {t}
  <2>1. pc'[t] \in Ops /\ \A u \in Ticks \ {t} : pc'[u] = pc[u]
    BY <1>2, Tables DEF StartCrank, TypeOK
  <2>2. QED
    BY <2>1 DEF Running
<1>3. ASSUME UpdateActiveDone(t) PROVE Running' = Running /\ t \in Running
  <2>1. pc[t] \in Ops /\ pc'[t] \in Ops /\ \A u \in Ticks \ {t} : pc'[u] = pc[u]
    BY <1>3, Tables DEF UpdateActiveDone, TypeOK
  <2>2. QED
    BY <2>1 DEF Running
<1>4. ASSUME CrankDone(t) \/ CrankFailed(t) PROVE Running' = Running \ {t} /\ t \in Running
  <2>1. pc[t] \in Ops /\ pc'[t] \notin Ops /\ \A u \in Ticks \ {t} : pc'[u] = pc[u]
    BY <1>4, LeaveCheckEffect, Tables DEF CrankDone, CrankFailed
  <2>2. QED
    BY <2>1 DEF Running
<1>5. QED
  BY <1>1, <1>2, <1>3, <1>4

LEMMA ReliableStep ==
  ASSUME RpcCanFail = FALSE, TypeOK, ReliableInv, [Next]_vars
  PROVE  ReliableInv'
<1>1. ASSUME Running = {} PROVE processStatus = {} /\ areCranksRunning = FALSE
  BY <1>1 DEF ReliableInv, StatusTruthful
<1>2. ASSUME NEW t \in Running PROVE Running = {t} /\ processStatus = {pc[t]}
  BY DEF ReliableInv, OneCrankAtATime, StatusTruthful, Running
<1>3. CASE NextSlot \/ UNCHANGED vars
  <2>1. UNCHANGED <<memory, pass>>
    BY <1>3 DEF NextSlot, vars, memory, pass
  <2>2. QED
    BY <2>1, ReliableFrame DEF pass, Running
<1>4. ASSUME NEW t \in Ticks,
             TimerFires(t) \/ SlotChecked(t) \/ EpochRead(t) \/ SkipCrank(t)
      PROVE  ReliableInv'
  <2>1. UNCHANGED memory
    BY <1>4 DEF TimerFires, SlotChecked, EpochRead, SkipCrank
  <2>2. QED
    BY <1>4, <2>1, RunningAfter, ReliableFrame
<1>5. ASSUME NEW t \in Ticks, StartCrank(t) PROVE ReliableInv'
  <2>1. Running = {}
    BY <1>5 DEF StartCrank, MayRun, ReliableInv, StatusTruthful
  <2>2. Running' = {t}
    BY <1>5, <2>1, RunningAfter
  <2>3. /\ pc'[t] = FirstOp[check[t]] /\ FirstOp[check[t]] \in Ops
        /\ lastRunEpoch'[check'[t]] < currentEpoch'[t]
    BY <1>5, Tables DEF StartCrank, MayRun, TypeOK
  <2>4. StatusTruthful'
    BY <1>1, <1>5, <2>1, <2>2, <2>3 DEF StartCrank, StatusTruthful, Ops
  <2>5. QED
    BY <2>2, <2>3, <2>4 DEF ReliableInv, OneCrankAtATime, RunIsNew
<1>6. ASSUME NEW t \in Ticks, UpdateActiveDone(t) PROVE ReliableInv'
  <2>1. Running = {t} /\ Running' = {t} /\ processStatus = {"updateActive"} /\ areCranksRunning
    BY <1>2, <1>6, RunningAfter DEF UpdateActiveDone, ReliableInv, StatusTruthful
  <2>2. pc'[t] = "updateDeactivated" /\ UNCHANGED <<check, currentEpoch, lastRunEpoch>>
    BY <1>6 DEF UpdateActiveDone, TypeOK
  <2>3. StatusTruthful'
    BY <1>6, <2>1, <2>2 DEF UpdateActiveDone, StatusTruthful
  <2>4. QED
    BY <2>1, <2>2, <2>3 DEF ReliableInv, OneCrankAtATime, RunIsNew
<1>7. ASSUME NEW t \in Ticks, CrankDone(t) \/ CrankFailed(t) PROVE ReliableInv'
  <2>1. Running = {t} /\ Running' = {} /\ processStatus = {pc[t]}
    BY <1>2, <1>7, RunningAfter
  <2>2. QED
    BY <1>7, <2>1, ReliableQuiet DEF CrankDone, CrankFailed
<1>8. CASE Restart
  BY <1>8, Tables, ReliableQuiet DEF Restart, Running, Ops
<1>9. QED
  BY <1>3, <1>4, <1>5, <1>6, <1>7, <1>8 DEF Next, Asked, Operated, CheckFailed

LEMMA ReliableInvariant ==
  ASSUME RpcCanFail = FALSE
  PROVE  Spec => []ReliableInv
<1>1. Init => ReliableInv
  BY Tables DEF Init, ReliableInv, OneCrankAtATime, StatusTruthful, RunIsNew, Running, Ops
<1>2. TypeOK /\ ReliableInv /\ [Next]_vars => ReliableInv'
  BY ReliableStep
<1>3. QED
  BY <1>1, <1>2, TypeCorrect, PTL DEF Spec

\* While the checks' RPC calls are answered, cranks never run side by side.
THEOREM CranksExclude ==
  ASSUME RpcCanFail = FALSE
  PROVE  Spec => []OneCrankAtATime
<1>1. ReliableInv => OneCrankAtATime
  BY DEF ReliableInv
<1>2. QED
  BY <1>1, ReliableInvariant, PTL

\* Under the same assumption the status endpoint and the lock are exact.
THEOREM StatusExact ==
  ASSUME RpcCanFail = FALSE
  PROVE  Spec => []StatusTruthful
<1>1. ReliableInv => StatusTruthful
  BY DEF ReliableInv
<1>2. QED
  BY <1>1, ReliableInvariant, PTL

\* Under the same assumption no run is for an epoch already on record.
THEOREM RunsAreNew ==
  ASSUME RpcCanFail = FALSE
  PROVE  Spec => []RunIsNew
<1>1. ReliableInv => RunIsNew
  BY DEF ReliableInv
<1>2. QED
  BY <1>1, ReliableInvariant, PTL

\* "cranks aren't running" (crank-scheduler.service.ts:52): while the checks' RPC
\* calls are answered, a pass starts its cranks only when no other pass runs any,
\* however the passes of the timer overlap. A rejected call, which lets the outer
\* catch clear a lock it does not hold, is thus the only thing that breaks it.
THEOREM PassesStartAlone ==
  ASSUME RpcCanFail = FALSE
  PROVE  Spec => StartsAlone
<1>1. ReliableInv => [\A t \in Ticks : StartCrank(t) => Running = {}]_vars
  BY DEF ReliableInv, StatusTruthful, StartCrank, MayRun
<1>2. QED
  BY <1>1, ReliableInvariant, PTL DEF StartsAlone

-----------------------------------------------------------------------------
(* Refinement. What a pass has sampled lies between the first epoch and the *)
(* chain's: with ReliableInv this maps every step to the abstract promise.  *)
SampleInv ==
  \A t \in Ticks : /\ currentEpoch[t] <= epoch
                   /\ pc[t] \in Ops \cup {"getBlockTime"} => FirstEpoch <= currentEpoch[t]

LEMMA SamplesWithinChain == Spec => []SampleInv
<1>1. Init => SampleInv
  BY DEF Init, SampleInv, Ops
<1>2. TypeOK /\ SampleInv /\ [Next]_vars => SampleInv'
  <2> SUFFICES ASSUME TypeOK, SampleInv, [Next]_vars PROVE SampleInv'
    OBVIOUS
  <2>1. CASE NextSlot
    <3>1. epoch <= epoch'
      BY <2>1 DEF NextSlot, TypeOK
    <3>2. QED
      BY <3>1, <2>1 DEF NextSlot, pass, TypeOK, SampleInv
  <2>2. ASSUME NEW t \in Ticks, TimerFires(t) \/ SlotChecked(t) PROVE SampleInv'
    BY <2>2 DEF TimerFires, SlotChecked, chain, TypeOK, SampleInv, Ops
  <2>3. ASSUME NEW t \in Ticks, EpochRead(t) PROVE SampleInv'
    BY <2>3 DEF EpochRead, chain, TypeOK, SampleInv, Ops
  <2>4. ASSUME NEW t \in Ticks, StartCrank(t) PROVE SampleInv'
    BY <2>4 DEF StartCrank, chain, TypeOK, SampleInv
  <2>5. ASSUME NEW t \in Ticks, UpdateActiveDone(t) PROVE SampleInv'
    BY <2>5, Tables DEF UpdateActiveDone, chain, TypeOK, SampleInv
  <2>6. ASSUME NEW t \in Ticks,
               SkipCrank(t) \/ CheckFailed(t) \/ CrankDone(t) \/ CrankFailed(t)
        PROVE  SampleInv'
    <3>1. LeaveCheck(t) /\ UNCHANGED epoch
      BY <2>6 DEF SkipCrank, CheckFailed, CrankDone, CrankFailed, chain
    <3>2. pc'[t] \notin Ops \cup {"getBlockTime"}
      BY <3>1 DEF LeaveCheck, TypeOK, Ops
    <3>3. QED
      BY <3>1, <3>2, LeaveCheckEffect DEF TypeOK, SampleInv
  <2>7. CASE Restart
    BY <2>7 DEF Restart, chain, TypeOK, SampleInv, Ops
  <2>8. CASE UNCHANGED vars
    BY <2>8 DEF vars, SampleInv
  <2>9. QED
    BY <2>1, <2>2, <2>3, <2>4, <2>5, <2>6, <2>7, <2>8 DEF Next, Asked, Operated
<1>3. QED
  BY <1>1, <1>2, TypeCorrect, PTL DEF Spec

LEMMA PromiseStep ==
  ASSUME RpcCanFail = FALSE, TypeOK, ReliableInv, SampleInv, [Next]_vars
  PROVE  [Promise!Next]_Promise!vars
<1> DEFINE busy == {<<check[t], currentEpoch[t]>> : t \in Running}
<1>1. ASSUME NEW t \in Running PROVE Running = {t} /\ busy = {<<check[t], currentEpoch[t]>>}
  BY DEF ReliableInv, OneCrankAtATime
<1>2. ASSUME UNCHANGED lastRunEpoch, Running' = Running,
             \A u \in Running : check'[u] = check[u] /\ currentEpoch'[u] = currentEpoch[u]
      PROVE  UNCHANGED <<busy, lastRunEpoch>>
  BY <1>2
<1>3. CASE UNCHANGED vars
  BY <1>3 DEF vars, Promise!vars, Running
<1>4. CASE NextSlot
  <2>1. UNCHANGED <<busy, lastRunEpoch>>
    BY <1>4 DEF NextSlot, memory, pass, Running
  <2>2. UNCHANGED epoch \/ (epoch < FinalEpoch /\ epoch' = epoch + 1)
    BY <1>4 DEF NextSlot
  <2>3. QED
    BY <2>1, <2>2 DEF Promise!Next, Promise!NewEpoch, Promise!vars
<1>5. ASSUME NEW t \in Ticks,
             TimerFires(t) \/ SlotChecked(t) \/ EpochRead(t) \/ SkipCrank(t)
      PROVE  [Promise!Next]_Promise!vars
  <2>1. UNCHANGED <<epoch, lastRunEpoch>>
    BY <1>5 DEF TimerFires, SlotChecked, EpochRead, SkipCrank, chain, memory
  <2>2. UNCHANGED busy
    BY <1>2, <1>5, <2>1, RunningAfter
  <2>3. QED
    BY <2>1, <2>2 DEF Promise!vars
<1>6. ASSUME NEW t \in Ticks, StartCrank(t) PROVE [Promise!Next]_Promise!vars
  <2>1. Running = {} /\ Running' = {t}
    BY <1>6, RunningAfter DEF StartCrank, MayRun, ReliableInv, StatusTruthful
  <2>2. busy = {} /\ busy' = {<<check[t], currentEpoch[t]>>}
    BY <1>6, <2>1 DEF StartCrank
  <2>3. /\ check[t] \in Checks
        /\ currentEpoch[t] \in FirstEpoch .. FinalEpoch
        /\ lastRunEpoch[check[t]] < currentEpoch[t] /\ currentEpoch[t] <= epoch
    BY <1>6 DEF StartCrank, MayRun, TypeOK, SampleInv
  <2>4. UNCHANGED <<epoch, lastRunEpoch>>
    BY <1>6 DEF StartCrank, chain
  <2>5. \E c \in Checks, e \in FirstEpoch .. FinalEpoch : Promise!Begin(c, e) \/ Promise!Finish(c, e)
    BY <2>2, <2>3, <2>4 DEF Promise!Begin, Promise!Finish
  <2>6. QED
    BY <2>5 DEF Promise!Next
<1>7. ASSUME NEW t \in Ticks, UpdateActiveDone(t) PROVE [Promise!Next]_Promise!vars
  <2>1. UNCHANGED <<epoch, lastRunEpoch, check, currentEpoch>>
    BY <1>7 DEF UpdateActiveDone, chain
  <2>2. UNCHANGED busy
    BY <1>2, <1>7, <2>1, RunningAfter
  <2>3. QED
    BY <2>1, <2>2 DEF Promise!vars
<1>8. ASSUME NEW t \in Ticks, CrankDone(t) PROVE [Promise!Next]_Promise!vars
  <2>1. t \in Running /\ Running' = Running \ {t}
    BY <1>8, RunningAfter
  <2>2. busy = {<<check[t], currentEpoch[t]>>} /\ busy' = {}
    BY <1>1, <2>1
  <2>3. check[t] \in Checks /\ currentEpoch[t] \in FirstEpoch .. FinalEpoch
    BY <2>1 DEF Running, TypeOK, SampleInv
  <2>4. \E c \in Checks, e \in FirstEpoch .. FinalEpoch : Promise!Begin(c, e) \/ Promise!Finish(c, e)
    BY <1>8, <2>2, <2>3 DEF Promise!Begin, Promise!Finish, CrankDone, chain
  <2>5. QED
    BY <2>4 DEF Promise!Next
<1>9. ASSUME NEW t \in Ticks, CrankFailed(t) PROVE [Promise!Next]_Promise!vars
  <2>1. t \in Running /\ Running' = Running \ {t}
    BY <1>9, RunningAfter
  <2>2. busy = {<<check[t], currentEpoch[t]>>} /\ busy' = {}
    BY <1>1, <2>1
  <2>3. QED
    BY <1>9, <2>2 DEF Promise!Next, Promise!Abandon, CrankFailed, chain
<1>10. CASE Restart
  <2>1. busy' = {}
    BY <1>10, Tables DEF Restart, Running
  <2>2. QED
    BY <1>10, <2>1 DEF Promise!Next, Promise!Reboot, Restart, chain
<1>11. QED
  BY <1>3, <1>4, <1>5, <1>6, <1>7, <1>8, <1>9, <1>10 DEF Next, Asked, Operated, CheckFailed

\* The scheduler keeps its promise while the checks' RPC calls are answered:
\* one run at a time, only for new epochs the chain has reached, recorded only
\* by finishing, whatever cranks fail and however often the process restarts.
THEOREM SchedulerKeepsPromise ==
  ASSUME RpcCanFail = FALSE
  PROVE  Spec => PromiseKept
<1>1. Init => Promise!Init
  BY Tables DEF Init, Promise!Init, Running
<1>2. TypeOK /\ ReliableInv /\ SampleInv /\ [Next]_vars => [Promise!Next]_Promise!vars
  BY PromiseStep
<1>3. QED
  BY <1>1, <1>2, TypeCorrect, ReliableInvariant, SamplesWithinChain, PTL
     DEF Spec, PromiseKept, Promise!Spec
=============================================================================
