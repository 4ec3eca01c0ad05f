----------------------------- MODULE EpochTracker -----------------------------
(***************************************************************************)
(* EpochTrackerService (src/src/epoch/epoch-tracker.service.ts) and the    *)
(* populate-epoch-info script, which share the table epoch_info.           *)
(*                                                                         *)
(* The server initialises the table once, before its timers start, and     *)
(* compares the chain's epoch with trackedEpoch every two hours. The       *)
(* script builds the whole application, so it initialises the table too,   *)
(* before it populates it. Both look for a row and then insert or update   *)
(* it: every action is the code from one await to the next, named by the   *)
(* call it answers. The table's key is the epoch: a second insert throws.  *)
(***************************************************************************)
EXTENDS Integers

CONSTANTS
  Server, Script,  \* the two processes
  FirstEpoch,      \* epoch of the chain when the server is first started
  FinalEpoch,      \* bound: the chain stays in it
  SlotsInEpoch,    \* slots of one epoch (432000 on mainnet)
  CallsCanFail,    \* may RPC calls and queries be rejected?
  MaxRestarts,     \* bound: restarts of the server by pm2
  MaxScriptRuns,   \* bound: runs of the script
  NULL

\* A row of epoch_info. Its timestamps are left out: they are read but in reports.
Row == [startSlot : Nat, endSlot : Nat, isActive : BOOLEAN]

ASSUME EpochTrackerAssumption ==
  /\ Server # Script
  /\ FirstEpoch \in Nat /\ FinalEpoch \in Nat /\ FirstEpoch <= FinalEpoch
  /\ SlotsInEpoch \in Nat \ {0}
  /\ CallsCanFail \in BOOLEAN
  /\ MaxRestarts \in Nat /\ MaxScriptRuns \in Nat
  /\ NULL \notin Nat /\ NULL \notin Row

VARIABLES
  epoch,         \* the chain's epoch
  rows,          \* epoch_info: the row of an epoch, or NULL
  pc,            \* what each process awaits
  trackedEpoch,
  currentEpoch,  \* epochProgress.currentEpoch, as the chain answered
  priorEnd,      \* endSlot of the row the next epoch's row continues
  restarts, scriptRuns

vars == <<epoch, rows, pc, trackedEpoch, currentEpoch, priorEnd, restarts, scriptRuns>>
bounds == <<restarts, scriptRuns>>

Procs  == {Server, Script}
Epochs == FirstEpoch .. FinalEpoch + 1

Initialising == {"initProgress", "initFind", "initSave", "initFindNext"}
Checking     == {"progress", "deactivate", "find", "activate", "save", "findNext", "reread"}
Populating   == {"populate", "popFind", "popSave", "popFindNext", "popSaveNext"}

Saved(e)     == rows[e] # NULL
FirstSlot(e) == e * SlotsInEpoch

\* The row made from the chain's answer. The slot index cancels out: startSlot
\* is absoluteSlot - slotIndex, endSlot absoluteSlot + (slotsInEpoch - slotIndex).
ChainRow(e) ==
  [startSlot |-> FirstSlot(e), endSlot |-> FirstSlot(e) + SlotsInEpoch, isActive |-> TRUE]

-----------------------------------------------------------------------------
Init ==
  /\ epoch = FirstEpoch
  /\ rows = [e \in Epochs |-> NULL]
  /\ pc = [p \in Procs |-> IF p = Server THEN "initProgress" ELSE "off"]
  /\ trackedEpoch = [p \in Procs |-> NULL]
  /\ currentEpoch = [p \in Procs |-> 0]
  /\ priorEnd = [p \in Procs |-> 0]
  /\ restarts = 0 /\ scriptRuns = 0

NextEpoch ==
  /\ epoch < FinalEpoch
  /\ epoch' = epoch + 1
  /\ UNCHANGED <<rows, pc, trackedEpoch, currentEpoch, priorEnd, bounds>>

Goto(p, where) == pc' = [pc EXCEPT ![p] = where]

\* p is through with initialising or checking: what it had read is gone.
Rest(p) ==
  /\ Goto(p, IF p = Server THEN "idle" ELSE "populate")
  /\ currentEpoch' = [currentEpoch EXCEPT ![p] = 0]
  /\ priorEnd' = [priorEnd EXCEPT ![p] = 0]

\* The chain's epoch arrives.
ReadProgress(p, from, to) ==
  /\ pc[p] = from
  /\ currentEpoch' = [currentEpoch EXCEPT ![p] = epoch]
  /\ Goto(p, to)
  /\ UNCHANGED <<epoch, rows, trackedEpoch, priorEnd, bounds>>

\* The row of an epoch is looked for, and the code goes one of two ways.
Look(p, from, e, present, absent) ==
  /\ pc[p] = from
  /\ Goto(p, IF Saved(e) THEN present ELSE absent)
  /\ UNCHANGED <<epoch, rows, trackedEpoch, currentEpoch, priorEnd, bounds>>

-----------------------------------------------------------------------------
(* Seeded faults: each is the definition it is named after with a mistake a *)
(* change to the service could make; no specification uses them.            *)

NextRowActive(p) ==
  [startSlot |-> priorEnd[p] + 1, endSlot |-> priorEnd[p] + SlotsInEpoch, isActive |-> TRUE]

NextRowLonger(p) ==
  [startSlot |-> priorEnd[p] + 1, endSlot |-> priorEnd[p] + 1 + SlotsInEpoch, isActive |-> FALSE]

SaveNextReset(p) ==
  /\ pc[p] = "saveNext"
  /\ \/ ~Saved(currentEpoch[p] + 1)
        /\ rows' = [rows EXCEPT ![currentEpoch[p] + 1] =
             [startSlot |-> priorEnd[p] + 1, endSlot |-> priorEnd[p] + SlotsInEpoch,
              isActive |-> FALSE]]
     \/ (Saved(currentEpoch[p] + 1) \/ CallsCanFail) /\ UNCHANGED rows
  /\ trackedEpoch' = [trackedEpoch EXCEPT ![p] = currentEpoch[p] + 1]
  /\ Rest(p)
  /\ UNCHANGED <<epoch, bounds>>

SaveNextReplaces(p) ==
  /\ pc[p] = "saveNext"
  /\ \/ rows' = [rows EXCEPT ![currentEpoch[p] + 1] =
          [startSlot |-> priorEnd[p] + 1, endSlot |-> priorEnd[p] + SlotsInEpoch,
           isActive |-> FALSE]]
     \/ CallsCanFail /\ UNCHANGED rows
  /\ trackedEpoch' = [trackedEpoch EXCEPT ![p] = currentEpoch[p]]
  /\ Rest(p)
  /\ UNCHANGED <<epoch, bounds>>

DeactivateTracking(p) ==
  /\ pc[p] = "deactivate"
  /\ rows' = [e \in Epochs |->
                IF e = trackedEpoch[p] /\ Saved(e) THEN [rows[e] EXCEPT !.isActive = FALSE]
                ELSE rows[e]]
  /\ trackedEpoch' = [trackedEpoch EXCEPT ![p] = currentEpoch[p]]
  /\ Goto(p, "find")
  /\ UNCHANGED <<epoch, currentEpoch, priorEnd, bounds>>

-----------------------------------------------------------------------------
(* initializeEpochInfo                                                      *)

InitProgress(p) == ReadProgress(p, "initProgress", "initFind")

InitFind(p) ==
  /\ pc[p] = "initFind"
  /\ LET current == currentEpoch[p] IN
     IF Saved(current)
     THEN /\ trackedEpoch' = [trackedEpoch EXCEPT ![p] = current]
          /\ priorEnd' = [priorEnd EXCEPT ![p] = rows[current].endSlot]
          /\ Goto(p, "initFindNext")
     ELSE Goto(p, "initSave") /\ UNCHANGED <<trackedEpoch, priorEnd>>
  /\ UNCHANGED <<epoch, rows, currentEpoch, bounds>>

\* The chain's row is inserted; initialising goes on to the next row at once,
\* checking looks for it first.
SaveCurrent(p, from, to) ==
  /\ pc[p] = from
  /\ ~Saved(currentEpoch[p])
  /\ rows' = [rows EXCEPT ![currentEpoch[p]] = ChainRow(currentEpoch[p])]
  /\ priorEnd' = [priorEnd EXCEPT ![p] = ChainRow(currentEpoch[p]).endSlot]
  /\ Goto(p, to)
  /\ UNCHANGED <<epoch, trackedEpoch, currentEpoch, bounds>>

InitSave(p) == SaveCurrent(p, "initSave", "saveNext")

InitFindNext(p) ==
  /\ pc[p] = "initFindNext"
  /\ IF Saved(currentEpoch[p] + 1) THEN Rest(p)
     ELSE Goto(p, "saveNext") /\ UNCHANGED <<currentEpoch, priorEnd>>
  /\ UNCHANGED <<epoch, rows, trackedEpoch, bounds>>

\* createNextEpochInfo: the row that continues the one before it.
NextRow(p) ==
  [startSlot |-> priorEnd[p] + 1, endSlot |-> priorEnd[p] + SlotsInEpoch, isActive |-> FALSE]

\* Its error is dropped there: the caller goes on and sets trackedEpoch.
SaveNext(p) ==
  /\ pc[p] = "saveNext"
  /\ \/ ~Saved(currentEpoch[p] + 1) /\ rows' = [rows EXCEPT ![currentEpoch[p] + 1] = NextRow(p)]
     \/ (Saved(currentEpoch[p] + 1) \/ CallsCanFail) /\ UNCHANGED rows
  /\ trackedEpoch' = [trackedEpoch EXCEPT ![p] = currentEpoch[p]]
  /\ Rest(p)
  /\ UNCHANGED <<epoch, bounds>>

-----------------------------------------------------------------------------
(* checkEpochChange, which only the server lives long enough to run         *)

CronFires(p) ==
  /\ pc[p] = "idle"
  /\ Goto(p, "progress")
  /\ UNCHANGED <<epoch, rows, trackedEpoch, currentEpoch, priorEnd, bounds>>

Progress(p) ==
  /\ pc[p] = "progress"
  /\ IF trackedEpoch[p] = epoch
     THEN Goto(p, "idle") /\ UNCHANGED currentEpoch
     ELSE /\ currentEpoch' = [currentEpoch EXCEPT ![p] = epoch]
          /\ Goto(p, IF trackedEpoch[p] = NULL THEN "find" ELSE "deactivate")
  /\ UNCHANGED <<epoch, rows, trackedEpoch, priorEnd, bounds>>

\* repository.update: no effect when there is no such row.
SetActive(e, active) ==
  rows' = [f \in Epochs |->
             IF f = e /\ Saved(f) THEN [rows[f] EXCEPT !.isActive = active] ELSE rows[f]]

Deactivate(p) ==
  /\ pc[p] = "deactivate"
  /\ SetActive(trackedEpoch[p], FALSE)
  /\ Goto(p, "find")
  /\ UNCHANGED <<epoch, trackedEpoch, currentEpoch, priorEnd, bounds>>

Find(p) == Look(p, "find", currentEpoch[p], "activate", "save")

Activate(p) ==
  /\ pc[p] = "activate"
  /\ SetActive(currentEpoch[p], TRUE)
  /\ Goto(p, "findNext")
  /\ UNCHANGED <<epoch, trackedEpoch, currentEpoch, priorEnd, bounds>>

Save(p) == SaveCurrent(p, "save", "findNext")

FindNext(p) ==
  /\ pc[p] = "findNext"
  /\ IF Saved(currentEpoch[p] + 1)
     THEN trackedEpoch' = [trackedEpoch EXCEPT ![p] = currentEpoch[p]] /\ Rest(p)
     ELSE Goto(p, "reread") /\ UNCHANGED <<trackedEpoch, currentEpoch, priorEnd>>
  /\ UNCHANGED <<epoch, rows, bounds>>

\* The current row, read once more, is there: rows are never deleted.
Reread(p) ==
  /\ pc[p] = "reread"
  /\ priorEnd' = [priorEnd EXCEPT ![p] = rows[currentEpoch[p]].endSlot]
  /\ Goto(p, "saveNext")
  /\ UNCHANGED <<epoch, rows, trackedEpoch, currentEpoch, bounds>>

-----------------------------------------------------------------------------
(* bootstrap of the script: initializeEpochInfo runs first, then this       *)

RunScript ==
  /\ pc[Script] = "off" /\ scriptRuns < MaxScriptRuns
  /\ scriptRuns' = scriptRuns + 1
  /\ Goto(Script, "initProgress")
  /\ UNCHANGED <<epoch, rows, trackedEpoch, currentEpoch, priorEnd, restarts>>

Populate    == ReadProgress(Script, "populate", "popFind")
PopFind     == Look(Script, "popFind", currentEpoch[Script], "popFindNext", "popSave")
PopSave     == SaveCurrent(Script, "popSave", "popFindNext")

\* The script ends: its memory is gone.
Close ==
  /\ Goto(Script, "off")
  /\ trackedEpoch' = [trackedEpoch EXCEPT ![Script] = NULL]
  /\ currentEpoch' = [currentEpoch EXCEPT ![Script] = 0]
  /\ priorEnd' = [priorEnd EXCEPT ![Script] = 0]

PopFindNext ==
  /\ pc[Script] = "popFindNext"
  /\ IF Saved(currentEpoch[Script] + 1) THEN Close
     ELSE Goto(Script, "popSaveNext") /\ UNCHANGED <<trackedEpoch, currentEpoch, priorEnd>>
  /\ UNCHANGED <<epoch, rows, bounds>>

\* The script computes the next row from the chain, not from the current row.
PopSaveNext ==
  /\ pc[Script] = "popSaveNext"
  /\ LET current == currentEpoch[Script]
         end     == ChainRow(current).endSlot IN
     /\ ~Saved(current + 1)
     /\ rows' = [rows EXCEPT ![current + 1] =
          [startSlot |-> end + 1, endSlot |-> end + SlotsInEpoch, isActive |-> FALSE]]
  /\ Close
  /\ UNCHANGED <<epoch, bounds>>

-----------------------------------------------------------------------------
\* The insert of a row another process has inserted meanwhile.
DuplicateKey(p) ==
  \/ pc[p] \in {"initSave", "save", "popSave"} /\ Saved(currentEpoch[p])
  \/ pc[p] = "popSaveNext" /\ Saved(currentEpoch[p] + 1)

\* What is awaited throws, and the catch around the whole function ends it.
CallFails(p) ==
  /\ CallsCanFail \/ DuplicateKey(p)
  /\ \/ pc[p] \in Initialising \cup Checking
        /\ Rest(p) /\ UNCHANGED trackedEpoch
     \/ pc[p] \in Populating /\ Close
  /\ UNCHANGED <<epoch, rows, bounds>>

\* The server dies and pm2 starts it again.
Restart ==
  /\ restarts < MaxRestarts
  /\ restarts' = restarts + 1
  /\ Goto(Server, "initProgress")
  /\ trackedEpoch' = [trackedEpoch EXCEPT ![Server] = NULL]
  /\ currentEpoch' = [currentEpoch EXCEPT ![Server] = 0]
  /\ priorEnd' = [priorEnd EXCEPT ![Server] = 0]
  /\ UNCHANGED <<epoch, rows, scriptRuns>>

Initialise(p) == InitProgress(p) \/ InitFind(p) \/ InitSave(p) \/ InitFindNext(p) \/ SaveNext(p)

Check(p) ==
  \/ Progress(p) \/ Deactivate(p) \/ Find(p) \/ Activate(p) \/ Save(p)
  \/ FindNext(p) \/ Reread(p)

Populates == Populate \/ PopFind \/ PopSave \/ PopFindNext \/ PopSaveNext

Next ==
  \/ NextEpoch
  \/ \E p \in Procs : Initialise(p) \/ CallFails(p)
  \/ CronFires(Server) \/ Check(Server)
  \/ RunScript \/ Populates
  \/ Restart

Spec == Init /\ [][Next]_vars

\* The chain goes on, the cron keeps firing, and what the server awaits settles.
Fairness ==
  /\ WF_vars(NextEpoch)
  /\ WF_vars(CronFires(Server))
  /\ WF_vars(Initialise(Server) \/ Check(Server) \/ CallFails(Server))

LiveSpec == Spec /\ Fairness

-----------------------------------------------------------------------------
(* Properties.                                                              *)

TypeOK ==
  /\ epoch \in FirstEpoch .. FinalEpoch
  /\ rows \in [Epochs -> Row \cup {NULL}]
  /\ pc \in [Procs -> {"idle", "off", "saveNext"} \cup Initialising \cup Checking \cup Populating]
  /\ trackedEpoch \in [Procs -> (FirstEpoch .. FinalEpoch) \cup {NULL}]
  /\ currentEpoch \in [Procs -> (FirstEpoch .. FinalEpoch) \cup {0}]
  /\ priorEnd \in [Procs -> Nat]
  /\ restarts \in 0 .. MaxRestarts /\ scriptRuns \in 0 .. MaxScriptRuns

ActiveEpochs == {e \in Epochs : Saved(e) /\ rows[e].isActive}

\* What getEpochInfoFromDb may answer with when no epoch is asked for: some
\* active row, or else the row of the highest epoch.
Served ==
  IF ActiveEpochs # {} THEN ActiveEpochs
  ELSE {e \in Epochs : Saved(e) /\ \A f \in Epochs : Saved(f) => f <= e}

Alone == restarts = 0 /\ scriptRuns = 0

\* While one server runs without a restart and no script does, GET epoch/progress
\* never reports an epoch that has not begun, whatever calls fail: not even
\* between the two updates, when it falls back to the highest row.
NeverAhead == Alone => \A e \in Served : e <= epoch

\* Even with restarts and the script at work, no row is active before its epoch
\* begins: the rows created ahead of time stay inactive.
ActiveBegun == \A e \in ActiveEpochs : e <= epoch

\* Even so, the epoch a process tracks has a row, so that the update that is to
\* mark it inactive finds one, however the inserts race.
TrackedHasRow == \A p \in Procs : trackedEpoch[p] # NULL => Saved(trackedEpoch[p])

\* Rows are extrapolated from one another without end, by two processes, and
\* yet none is ever more than one slot away from the chain's bounds.
SlotsDoNotDrift ==
  \A e \in Epochs : Saved(e) =>
    /\ rows[e].startSlot - FirstSlot(e) \in 0 .. 1
    /\ rows[e].endSlot - (FirstSlot(e + 1) - 1) \in 0 .. 1

\* The table is what EpochTable promises, however the server, its restarts and
\* the script interleave: a row is written in one of two forms, once, its bounds
\* never move, and its flag is cleared only when a later epoch has begun, though
\* every update acts on what was read several awaits before.
Table == INSTANCE EpochTable

TableKept == Table!Spec

\* A step that only a failed call explains: a failed look at the chain does what
\* a look that finds no change does.
Failing(p) == CallFails(p) /\ ~Initialise(p) /\ ~Check(p)

\* Once calls stop failing and the chain stays in an epoch, the row of that epoch
\* is active, whatever was half done before, as long as one server is all that ran.
CurrentEpochActive ==
  []Alone /\ <>[][~Failing(Server)]_vars => <>[](FinalEpoch \in ActiveEpochs)

\* "Get current epoch progress and time remaining" (epoch.controller.ts, line 29):
\* while the chain stays in an epoch and no call fails, GET epoch/progress comes to
\* report that epoch. The code breaks this when the server is restarted.
CurrentEpochServed == <>[](Served = {FinalEpoch})
=============================================================================
