---------------------------- MODULE CrankScheduler ----------------------------
(***************************************************************************)
(* CrankSchedulerService (src/src/crank/crank-scheduler.service.ts).       *)
(*                                                                         *)
(* A timer fires every ten seconds and starts one pass over three checks.  *)
(* A check asks the RPC node for the slot and its target, then for the     *)
(* epoch, and then decides, without yielding, whether to run its cranks.   *)
(* The timer does not wait for the pass it started, so passes overlap: a   *)
(* member of Ticks is one such pass, and is reused once its pass is over.  *)
(* Between two awaits the JavaScript thread is not interrupted, so every   *)
(* action below is the code from one await to the next.                    *)
(***************************************************************************)
EXTENDS Integers, FiniteSets

CONSTANTS
  Ticks,                    \* passes of the timer callback in flight at once
  SlotsInEpoch,             \* slots of one epoch (432000 on mainnet)
  SLOTS_FOR_STAKE_DELTA,    \* distance of the target from the epoch's last slot
  SLOTS_FOR_UPDATE_CRANKS,
  FirstEpoch,               \* epoch in which the process is first started
  FinalEpoch,               \* bound: the chain stops in its last slot
  RpcCanFail,               \* may the RPC calls of a check be rejected?
  MaxRestarts,              \* bound: restarts of the process by pm2
  NULL

ASSUME SlotsAssumption ==
  /\ SlotsInEpoch \in Nat \ {0}
  /\ SLOTS_FOR_STAKE_DELTA \in 0 .. SlotsInEpoch - 1
  /\ SLOTS_FOR_UPDATE_CRANKS \in 0 .. SlotsInEpoch - 1

\* The fields lastXEpoch start at 0 and are compared with >: epoch 0 would never run.
ASSUME EpochAssumption ==
  /\ FirstEpoch \in Nat \ {0}
  /\ FinalEpoch \in Nat /\ FirstEpoch <= FinalEpoch

ASSUME EnvironmentAssumption ==
  /\ RpcCanFail \in BOOLEAN
  /\ MaxRestarts \in Nat
  /\ NULL \notin {"deactivateStake", "stakeReserve", "updateActive", "updateDeactivated"}

VARIABLES
  epoch, slotIndex,   \* the chain: connection.getEpochInfo()
  areCranksRunning,   \* the lock
  processStatus,      \* the operations whose isXRunning flag is set
  currentOperation,   \* processStatus.currentOperation
  lastRunEpoch,       \* lastDeactivateStakeEpoch, lastStakeDeltaEpoch, ...
  pc,                 \* where each pass is awaiting
  check,              \* the check each pass is in
  due,                \* currentSlot >= targetSlot, as slotChecker answered
  currentEpoch,       \* the epoch getEpochInfo answered
  executed,           \* history: the <<operation, epoch>> that were completed
  restarts            \* history: restarts so far

chain  == <<epoch, slotIndex>>
status == <<processStatus, currentOperation>>
memory == <<areCranksRunning, processStatus, currentOperation, lastRunEpoch>>
pass   == <<pc, check, due, currentEpoch>>
vars   == <<epoch, slotIndex, areCranksRunning, processStatus, currentOperation,
            lastRunEpoch, pc, check, due, currentEpoch, executed, restarts>>

Checks == {"deactivateStakeCranks", "stakeDeltaCranks", "updateCranks"}

\* The operations of crankOpsService the scheduler awaits.
Ops == {"deactivateStake", "stakeReserve", "updateActive", "updateDeactivated"}

FirstOp == [deactivateStakeCranks |-> "deactivateStake",
            stakeDeltaCranks      |-> "stakeReserve",
            updateCranks          |-> "updateActive"]

LastOps == {"deactivateStake", "stakeReserve", "updateDeactivated"}

OpsOf == [deactivateStakeCranks |-> {"deactivateStake"},
          stakeDeltaCranks      |-> {"stakeReserve"},
          updateCranks          |-> {"updateActive", "updateDeactivated"}]

\* Awaits of a check before it runs anything: slotChecker, then getEpochInfo's
\* first call (which fixes the epoch), then its getSlot and getBlockTime.
Asking == {"slotChecker", "getEpochInfo", "getBlockTime"}

SlotsBefore == [deactivateStakeCranks |-> SLOTS_FOR_STAKE_DELTA,
                stakeDeltaCranks      |-> SLOTS_FOR_STAKE_DELTA,
                updateCranks          |-> SLOTS_FOR_UPDATE_CRANKS]

\* Slot of the epoch from which slotChecker lets check c go: the last slot of
\* the epoch minus the distance.
TargetIndex(c) == SlotsInEpoch - 1 - SlotsBefore[c]

-----------------------------------------------------------------------------
Init ==
  /\ epoch = FirstEpoch /\ slotIndex \in 0 .. SlotsInEpoch - 1
  /\ areCranksRunning = FALSE
  /\ processStatus = {} /\ currentOperation = NULL
  /\ lastRunEpoch = [c \in Checks |-> 0]
  /\ pc = [t \in Ticks |-> "idle"]
  /\ check = [t \in Ticks |-> "deactivateStakeCranks"]
  /\ due = [t \in Ticks |-> FALSE]
  /\ currentEpoch = [t \in Ticks |-> 0]
  /\ executed = {}
  /\ restarts = 0

\* The chain produces a slot.
NextSlot ==
  /\ \/ /\ slotIndex < SlotsInEpoch - 1
        /\ slotIndex' = slotIndex + 1
        /\ UNCHANGED epoch
     \/ /\ slotIndex = SlotsInEpoch - 1
        /\ epoch < FinalEpoch
        /\ slotIndex' = 0
        /\ epoch' = epoch + 1
  /\ UNCHANGED <<memory, pass, executed, restarts>>

-----------------------------------------------------------------------------
\* Pass t leaves its check: the callback awaits the next one, or is over.
Following == [deactivateStakeCranks |-> "stakeDeltaCranks",
              stakeDeltaCranks      |-> "updateCranks",
              updateCranks          |-> "deactivateStakeCranks"]

LeaveCheck(t) ==
  /\ pc' = [pc EXCEPT ![t] = IF check[t] = "updateCranks" THEN "idle" ELSE "slotChecker"]
  /\ check' = [check EXCEPT ![t] = Following[@]]
  /\ due' = [due EXCEPT ![t] = FALSE]
  /\ currentEpoch' = [currentEpoch EXCEPT ![t] = 0]

-----------------------------------------------------------------------------
(* Seeded faults: each is the definition it is named after with a mistake a *)
(* change to the service could make; no specification uses them.            *)

MayRunUnlocked(t) == due[t] /\ currentEpoch[t] > lastRunEpoch[check[t]]

MayRunAgain(t) ==
  due[t] /\ ~areCranksRunning /\ currentEpoch[t] >= lastRunEpoch[check[t]]

EpochReadNext(t) ==
  /\ pc[t] = "getEpochInfo"
  /\ currentEpoch' = [currentEpoch EXCEPT ![t] = epoch + 1]
  /\ pc' = [pc EXCEPT ![t] = "getBlockTime"]
  /\ UNCHANGED <<chain, memory, check, due, executed, restarts>>

UpdateActiveDoneKeepingFlag(t) ==
  /\ pc[t] = "updateActive"
  /\ processStatus' = processStatus \cup {"updateDeactivated"}
  /\ currentOperation' = "updateDeactivated"
  /\ executed' = executed \cup {<<"updateActive", currentEpoch[t]>>}
  /\ pc' = [pc EXCEPT ![t] = "updateDeactivated"]
  /\ UNCHANGED <<chain, areCranksRunning, lastRunEpoch, check, due, currentEpoch, restarts>>

CrankFailedKeepingLock(t) ==
  /\ pc[t] \in Ops
  /\ processStatus' = {}
  /\ currentOperation' = NULL
  /\ LeaveCheck(t)
  /\ UNCHANGED <<chain, areCranksRunning, lastRunEpoch, executed, restarts>>

CrankFailedKeepingFlags(t) ==
  /\ pc[t] \in Ops
  /\ areCranksRunning' = FALSE
  /\ LeaveCheck(t)
  /\ UNCHANGED <<chain, status, lastRunEpoch, executed, restarts>>

CrankFailedRecording(t) ==
  /\ pc[t] \in Ops
  /\ lastRunEpoch' = [lastRunEpoch EXCEPT ![check[t]] = currentEpoch[t]]
  /\ processStatus' = {}
  /\ currentOperation' = NULL
  /\ areCranksRunning' = FALSE
  /\ LeaveCheck(t)
  /\ UNCHANGED <<chain, executed, restarts>>

-----------------------------------------------------------------------------
\* setInterval fires, whatever the passes before it are doing.
TimerFires(t) ==
  /\ pc[t] = "idle"
  /\ pc' = [pc EXCEPT ![t] = "slotChecker"]
  /\ UNCHANGED <<chain, memory, check, due, currentEpoch, executed, restarts>>

SlotChecked(t) ==
  /\ pc[t] = "slotChecker"
  /\ due' = [due EXCEPT ![t] = slotIndex >= TargetIndex(check[t])]
  /\ pc' = [pc EXCEPT ![t] = "getEpochInfo"]
  /\ UNCHANGED <<chain, memory, check, currentEpoch, executed, restarts>>

EpochRead(t) ==
  /\ pc[t] = "getEpochInfo"
  /\ currentEpoch' = [currentEpoch EXCEPT ![t] = epoch]
  /\ pc' = [pc EXCEPT ![t] = "getBlockTime"]
  /\ UNCHANGED <<chain, memory, check, due, executed, restarts>>

\* The test that follows the last RPC answer.
MayRun(t) ==
  /\ due[t]
  /\ ~areCranksRunning
  /\ currentEpoch[t] > lastRunEpoch[check[t]]

StartCrank(t) ==
  LET op == FirstOp[check[t]] IN
  /\ pc[t] = "getBlockTime"
  /\ MayRun(t)
  /\ areCranksRunning' = TRUE
  /\ processStatus' = processStatus \cup {op}
  /\ currentOperation' = op
  /\ pc' = [pc EXCEPT ![t] = op]
  /\ UNCHANGED <<chain, lastRunEpoch, check, due, currentEpoch, executed, restarts>>

SkipCrank(t) ==
  /\ pc[t] = "getBlockTime"
  /\ ~MayRun(t)
  /\ LeaveCheck(t)
  /\ UNCHANGED <<chain, memory, executed, restarts>>

\* An RPC call of the check is rejected: the outer catch clears the lock,
\* whoever holds it.
CheckFailed(t) ==
  /\ RpcCanFail
  /\ pc[t] \in Asking
  /\ areCranksRunning' = FALSE
  /\ LeaveCheck(t)
  /\ UNCHANGED <<chain, status, lastRunEpoch, executed, restarts>>

\* executeUpdateCranks goes from updateActive to updateDeactivated.
UpdateActiveDone(t) ==
  /\ pc[t] = "updateActive"
  /\ processStatus' = (processStatus \ {"updateActive"}) \cup {"updateDeactivated"}
  /\ currentOperation' = "updateDeactivated"
  /\ executed' = executed \cup {<<"updateActive", currentEpoch[t]>>}
  /\ pc' = [pc EXCEPT ![t] = "updateDeactivated"]
  /\ UNCHANGED <<chain, areCranksRunning, lastRunEpoch, check, due, currentEpoch, restarts>>

\* The last operation of the check resolves: record the epoch, clear the flag
\* and, in the finally, the lock.
CrankDone(t) ==
  /\ pc[t] \in LastOps
  /\ lastRunEpoch' = [lastRunEpoch EXCEPT ![check[t]] = currentEpoch[t]]
  /\ processStatus' = processStatus \ {pc[t]}
  /\ currentOperation' = NULL
  /\ areCranksRunning' = FALSE
  /\ executed' = executed \cup {<<pc[t], currentEpoch[t]>>}
  /\ LeaveCheck(t)
  /\ UNCHANGED <<chain, restarts>>

\* An operation rejects: resetAllFlags, then the finally.
CrankFailed(t) ==
  /\ pc[t] \in Ops
  /\ processStatus' = {}
  /\ currentOperation' = NULL
  /\ areCranksRunning' = FALSE
  /\ LeaveCheck(t)
  /\ UNCHANGED <<chain, lastRunEpoch, executed, restarts>>

\* The process dies (an unhandled rejection anywhere in it, the memory limit)
\* and pm2 starts it again: everything the service keeps is in memory.
Restart ==
  /\ restarts < MaxRestarts
  /\ restarts' = restarts + 1
  /\ areCranksRunning' = FALSE
  /\ processStatus' = {} /\ currentOperation' = NULL
  /\ lastRunEpoch' = [c \in Checks |-> 0]
  /\ pc' = [t \in Ticks |-> "idle"]
  /\ check' = [t \in Ticks |-> "deactivateStakeCranks"]
  /\ due' = [t \in Ticks |-> FALSE]
  /\ currentEpoch' = [t \in Ticks |-> 0]
  /\ UNCHANGED <<chain, executed>>

Asked(t)    == SlotChecked(t) \/ EpochRead(t) \/ StartCrank(t) \/ SkipCrank(t) \/ CheckFailed(t)
Operated(t) == UpdateActiveDone(t) \/ CrankDone(t) \/ CrankFailed(t)

Next ==
  \/ NextSlot
  \/ \E t \in Ticks : TimerFires(t) \/ Asked(t) \/ Operated(t)
  \/ Restart

Spec == Init /\ [][Next]_vars

\* The chain keeps producing slots, the timer keeps firing, and a promise that
\* is awaited settles one way or the other.
Fairness ==
  /\ WF_vars(NextSlot)
  /\ \A t \in Ticks : /\ WF_vars(TimerFires(t))
                      /\ WF_vars(Asked(t))
                      /\ WF_vars(Operated(t))

LiveSpec == Spec /\ Fairness

-----------------------------------------------------------------------------
(* Properties.                                                              *)

Running == {t \in Ticks : pc[t] \in Ops}

TypeOK ==
  /\ epoch \in FirstEpoch .. FinalEpoch
  /\ slotIndex \in 0 .. SlotsInEpoch - 1
  /\ areCranksRunning \in BOOLEAN
  /\ processStatus \in SUBSET Ops
  /\ currentOperation \in Ops \cup {NULL}
  /\ lastRunEpoch \in [Checks -> 0 .. FinalEpoch]
  /\ pc \in [Ticks -> {"idle"} \cup Asking \cup Ops]
  /\ check \in [Ticks -> Checks]
  /\ due \in [Ticks -> BOOLEAN]
  /\ currentEpoch \in [Ticks -> 0 .. FinalEpoch]
  /\ executed \subseteq Ops \X (0 .. FinalEpoch)
  /\ restarts \in 0 .. MaxRestarts

\* However passes overlap and whatever fails, the lock never outlives the
\* cranks: a set lock means that some pass is running an operation (the
\* finally blocks of all three checks, and the outer catches).
NoLeakedLock == areCranksRunning => Running # {}

\* GET crank/status never names an operation that nobody is running, although
\* passes that run together clear each other's flags.
NoStaleStatus ==
  /\ processStatus \subseteq {pc[t] : t \in Running}
  /\ currentOperation # NULL => \E t \in Running : pc[t] = currentOperation

\* An epoch is recorded for a check only if every operation of the check was
\* completed for that epoch: a failure half way leaves it to be retried.
RecordedMeansRan ==
  \A c \in Checks : lastRunEpoch[c] # 0 =>
    \A op \in OpsOf[c] : <<op, lastRunEpoch[c]>> \in executed

\* "cranks aren't running": at most one pass is past the test (line 52). Holds
\* while no RPC call of a check is rejected.
OneCrankAtATime == \A t, u \in Running : t = u

\* While no RPC call of a check is rejected, the status endpoint tells exactly
\* what is running.
StatusTruthful ==
  /\ areCranksRunning <=> Running # {}
  /\ processStatus = {pc[t] : t \in Running}
  /\ currentOperation # NULL <=> Running # {}

\* "haven't run in this epoch": what is running is running for an epoch that
\* is later than any recorded one, so no record is ever repeated or undone.
RunIsNew == \A t \in Running : lastRunEpoch[check[t]] < currentEpoch[t]

\* The scheduler implements the abstract promise.
Promise == INSTANCE CrankOncePerEpoch
             WITH busy <- {<<check[t], currentEpoch[t]>> : t \in Running},
                  recorded <- lastRunEpoch
PromiseKept == Promise!Spec

\* A check's test, the RPC answers being stale when it is made: a run for the
\* chain's current epoch starts at or after the target slot of that epoch
\* ("Execute when we reach target slot", line 52). The code breaks this.
StartsAfterTarget ==
  [][\A t \in Ticks : StartCrank(t) /\ currentEpoch[t] = epoch
                        => slotIndex >= TargetIndex(check[t])]_vars

\* "cranks aren't running" (line 52): a pass starts its cranks only while no
\* other pass is running any. The code breaks this once a check's RPC call may
\* be rejected: the outer catch clears a lock it does not hold.
StartsAlone == [][\A t \in Ticks : StartCrank(t) => Running = {}]_vars

\* A step that only a rejected call explains: one that clears a lock that was
\* clear, say, is also a pass that skips its check.
Failing(t) == \/ CheckFailed(t) /\ ~SkipCrank(t)
              \/ CrankFailed(t) /\ ~CrankDone(t)

\* If from some time on no call is rejected, every check ends up recorded for
\* the epoch the chain stays in: no pass, lock or stale record is in the way.
EveryCrankRecorded ==
  <>[][\A t \in Ticks : ~Failing(t)]_vars
    => <>[](\A c \in Checks : lastRunEpoch[c] = FinalEpoch)
=============================================================================
