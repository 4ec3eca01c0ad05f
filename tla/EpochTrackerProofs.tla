-------------------------- MODULE EpochTrackerProofs --------------------------
(***************************************************************************)
(* Theorems about EpochTracker, for any epochs, any number of restarts and *)
(* of script runs, and whatever calls fail.                                *)
(***************************************************************************)
EXTENDS EpochTracker, TLAPS

\* Places where a process has read the chain's epoch, and where it has found or
\* saved that epoch's row.
Knowing == {"initFind", "initSave", "initFindNext", "saveNext", "deactivate", "find", "activate",
            "save", "findNext", "reread", "popFind", "popSave", "popFindNext", "popSaveNext"}
Holding == {"initFindNext", "saveNext", "activate", "findNext", "reread", "popFindNext",
            "popSaveNext"}

\* What a process knows is of the past, and stays true, as rows are never deleted.
KnowledgeInv ==
  \A p \in Procs :
    /\ pc[p] \in Knowing => currentEpoch[p] \in FirstEpoch .. epoch
    /\ pc[p] \in Holding => Saved(currentEpoch[p])
    /\ pc[p] = "deactivate" => trackedEpoch[p] # NULL
    /\ trackedEpoch[p] # NULL => trackedEpoch[p] \in FirstEpoch .. epoch /\ Saved(trackedEpoch[p])

\* Where priorEnd is used, it is the endSlot of the current epoch's row.
PriorInv ==
  \A p \in Procs : pc[p] \in {"initFindNext", "saveNext"} =>
    priorEnd[p] - (FirstSlot(currentEpoch[p] + 1) - 1) \in 0 .. 1

\* A row is inserted or its flag is changed; nothing else ever happens to it.
RowStep ==
  \A e \in Epochs :
    \/ rows'[e] = rows[e]
    \/ Saved(e) /\ rows'[e] \in Row
         /\ rows'[e].startSlot = rows[e].startSlot /\ rows'[e].endSlot = rows[e].endSlot
         /\ (rows'[e].isActive => rows[e].isActive \/ e <= epoch)
    \/ ~Saved(e) /\ rows'[e] \in Row
         /\ rows'[e].startSlot - FirstSlot(e) \in 0 .. 1
         /\ rows'[e].endSlot - (FirstSlot(e + 1) - 1) \in 0 .. 1
         /\ (rows'[e].isActive => e <= epoch)

Places == {"idle", "off", "saveNext"} \cup Initialising \cup Checking \cup Populating

Bounded == restarts \in 0 .. MaxRestarts /\ scriptRuns \in 0 .. MaxScriptRuns

RowsTyped == rows \in [Epochs -> Row \cup {NULL}]

IInv == TypeOK /\ KnowledgeInv /\ PriorInv /\ SlotsDoNotDrift /\ ActiveBegun

-----------------------------------------------------------------------------
\* Consecutive epochs are SlotsInEpoch apart.
LEMMA SlotSteps ==
  \A e \in Nat : FirstSlot(e) \in Nat /\ FirstSlot(e + 1) = FirstSlot(e) + SlotsInEpoch
<1>1. SlotsInEpoch \in Nat
  BY EpochTrackerAssumption
<1>2. ASSUME NEW e \in Nat PROVE (e + 1) * SlotsInEpoch = e * SlotsInEpoch + SlotsInEpoch
  BY <1>1
<1>3. ASSUME NEW e \in Nat PROVE e * SlotsInEpoch \in Nat
  BY <1>1
<1>4. QED
  BY <1>2, <1>3 DEF FirstSlot

\* The three things that ever happen to the table: nothing, an insert, a flag.
LEMMA RowsKept ==
  ASSUME RowsTyped, rows' = rows
  PROVE  RowsTyped' /\ RowStep
  BY DEF RowsTyped, RowStep

LEMMA RowInserted ==
  ASSUME RowsTyped, NEW e \in Epochs, NEW r \in Row, ~Saved(e), rows' = [rows EXCEPT ![e] = r],
         r.startSlot - FirstSlot(e) \in 0 .. 1,
         r.endSlot - (FirstSlot(e + 1) - 1) \in 0 .. 1,
         r.isActive => e <= epoch
  PROVE  RowsTyped' /\ RowStep /\ rows'[e] # NULL
<1>1. rows'[e] = r /\ \A f \in Epochs \ {e} : rows'[f] = rows[f]
  BY DEF RowsTyped
<1>2. NULL \notin Row
  BY EpochTrackerAssumption
<1>3. QED
  BY <1>1, <1>2 DEF RowsTyped, RowStep, Saved

LEMMA FlagSet ==
  ASSUME RowsTyped, NEW e, NEW a \in BOOLEAN, SetActive(e, a), a => e <= epoch
  PROVE  RowsTyped' /\ RowStep
<1>1. ASSUME NEW f \in Epochs, f = e, Saved(f)
      PROVE  /\ rows'[f] \in Row
             /\ rows'[f].startSlot = rows[f].startSlot /\ rows'[f].endSlot = rows[f].endSlot
             /\ rows'[f].isActive = a
  <2>1. rows[f] \in Row
    BY <1>1 DEF RowsTyped, Saved
  <2>2. rows'[f] = [rows[f] EXCEPT !.isActive = a]
    BY <1>1 DEF SetActive
  <2>3. QED
    BY <2>1, <2>2 DEF Row
<1>2. \A f \in Epochs : ~(f = e /\ Saved(f)) => rows'[f] = rows[f]
  BY DEF SetActive
<1>3. RowsTyped'
  BY <1>1, <1>2 DEF RowsTyped, SetActive
<1>4. RowStep
  BY <1>1, <1>2 DEF RowStep
<1>5. QED
  BY <1>3, <1>4

\* A row that is there stays there.
LEMMA StillSaved ==
  ASSUME RowsTyped, RowStep
  PROVE  \A e \in Epochs : rows[e] # NULL => rows'[e] # NULL
  BY EpochTrackerAssumption DEF RowsTyped, RowStep, Saved

\* A step of one process, which may change the table as above, keeps the
\* invariant if what the process then knows is true.
LEMMA ProcessStep ==
  ASSUME IInv, NEW p \in Procs, NEW at \in Places,
         NEW tr \in (FirstEpoch .. FinalEpoch) \cup {NULL},
         NEW ce \in (FirstEpoch .. FinalEpoch) \cup {0}, NEW pe \in Nat,
         pc' = [pc EXCEPT ![p] = at],
         trackedEpoch' = [trackedEpoch EXCEPT ![p] = tr],
         currentEpoch' = [currentEpoch EXCEPT ![p] = ce],
         priorEnd' = [priorEnd EXCEPT ![p] = pe],
         epoch' = epoch, RowsTyped', RowStep, Bounded',
         at \in Knowing => ce \in FirstEpoch .. epoch,
         at \in Holding => rows'[ce] # NULL,
         at = "deactivate" => tr # NULL,
         tr # NULL => tr \in FirstEpoch .. epoch /\ rows'[tr] # NULL,
         at \in {"initFindNext", "saveNext"} => pe - (FirstSlot(ce + 1) - 1) \in 0 .. 1
  PROVE  IInv'
<1>1. /\ pc'[p] = at /\ trackedEpoch'[p] = tr /\ currentEpoch'[p] = ce /\ priorEnd'[p] = pe
      /\ \A q \in Procs \ {p} :
           /\ pc'[q] = pc[q] /\ trackedEpoch'[q] = trackedEpoch[q]
           /\ currentEpoch'[q] = currentEpoch[q] /\ priorEnd'[q] = priorEnd[q]
  BY DEF IInv, TypeOK
<1>2. RowsTyped
  BY DEF IInv, TypeOK, RowsTyped
<1>3. TypeOK'
  <2>1. pc' \in [Procs -> Places]
    BY DEF IInv, TypeOK, Places
  <2>2. trackedEpoch' \in [Procs -> (FirstEpoch .. FinalEpoch) \cup {NULL}]
    BY DEF IInv, TypeOK
  <2>3. currentEpoch' \in [Procs -> (FirstEpoch .. FinalEpoch) \cup {0}]
    BY DEF IInv, TypeOK
  <2>4. priorEnd' \in [Procs -> Nat]
    BY DEF IInv, TypeOK
  <2>5. epoch' \in FirstEpoch .. FinalEpoch
    BY DEF IInv, TypeOK
  <2>6. QED
    BY <2>1, <2>2, <2>3, <2>4, <2>5 DEF TypeOK, Places, RowsTyped, Bounded
<1>4. KnowledgeInv'
  <2> SUFFICES ASSUME NEW q \in Procs
               PROVE  /\ pc'[q] \in Knowing => currentEpoch'[q] \in FirstEpoch .. epoch'
                      /\ pc'[q] \in Holding => rows'[currentEpoch'[q]] # NULL
                      /\ pc'[q] = "deactivate" => trackedEpoch'[q] # NULL
                      /\ trackedEpoch'[q] # NULL =>
                           trackedEpoch'[q] \in FirstEpoch .. epoch'
                             /\ rows'[trackedEpoch'[q]] # NULL
    BY DEF KnowledgeInv, Saved
  <2>1. CASE q = p
    BY <1>1, <2>1
  <2>2. CASE q # p
    <3>1. /\ pc[q] \in Knowing => currentEpoch[q] \in FirstEpoch .. epoch
          /\ pc[q] \in Holding => rows[currentEpoch[q]] # NULL
          /\ pc[q] = "deactivate" => trackedEpoch[q] # NULL
          /\ trackedEpoch[q] # NULL =>
               trackedEpoch[q] \in FirstEpoch .. epoch /\ rows[trackedEpoch[q]] # NULL
      BY DEF IInv, KnowledgeInv, Saved
    <3>2. \A e \in FirstEpoch .. epoch : e \in Epochs
      BY EpochTrackerAssumption DEF IInv, TypeOK, Epochs
    <3>3. Holding \subseteq Knowing
      BY DEF Holding, Knowing
    <3>4. \A e \in Epochs : rows[e] # NULL => rows'[e] # NULL
      BY <1>2, StillSaved
    <3>5. pc[q] \in Holding => rows'[currentEpoch[q]] # NULL
      BY <3>1, <3>2, <3>3, <3>4
    <3>6. trackedEpoch[q] # NULL => rows'[trackedEpoch[q]] # NULL
      BY <3>1, <3>2, <3>4
    <3>7. QED
      BY <1>1, <2>2, <3>1, <3>5, <3>6
  <2>3. QED
    BY <2>1, <2>2
<1>5. PriorInv'
  BY <1>1 DEF IInv, PriorInv, FirstSlot
<1>6. SlotsDoNotDrift'
  BY DEF IInv, SlotsDoNotDrift, RowStep, Saved, FirstSlot
<1>7. ActiveBegun'
  BY DEF IInv, ActiveBegun, ActiveEpochs, RowStep, Saved
<1>8. QED
  BY <1>3, <1>4, <1>5, <1>6, <1>7 DEF IInv

\* What is known at a place, spelt out for one process.
LEMMA Known ==
  ASSUME IInv, NEW p \in Procs
  PROVE  /\ RowsTyped /\ Bounded
         /\ epoch \in FirstEpoch .. FinalEpoch /\ epoch \in Nat
         /\ pc[p] \in Places
         /\ trackedEpoch[p] \in (FirstEpoch .. FinalEpoch) \cup {NULL}
         /\ currentEpoch[p] \in (FirstEpoch .. FinalEpoch) \cup {0}
         /\ priorEnd[p] \in Nat
         /\ pc[p] \in Knowing =>
              /\ currentEpoch[p] \in FirstEpoch .. epoch
              /\ currentEpoch[p] \in Nat
              /\ currentEpoch[p] \in Epochs /\ currentEpoch[p] + 1 \in Epochs
         /\ pc[p] \in Holding => rows[currentEpoch[p]] # NULL
         /\ pc[p] = "deactivate" => trackedEpoch[p] # NULL
         /\ trackedEpoch[p] # NULL =>
              trackedEpoch[p] \in FirstEpoch .. epoch /\ trackedEpoch[p] \in Epochs
                /\ rows[trackedEpoch[p]] # NULL
         /\ pc[p] \in {"initFindNext", "saveNext"} =>
              priorEnd[p] - (FirstSlot(currentEpoch[p] + 1) - 1) \in 0 .. 1
<1>1. FirstEpoch \in Nat /\ FinalEpoch \in Nat
  BY EpochTrackerAssumption
<1>2. /\ RowsTyped /\ Bounded
      /\ epoch \in FirstEpoch .. FinalEpoch
      /\ pc[p] \in Places
      /\ trackedEpoch[p] \in (FirstEpoch .. FinalEpoch) \cup {NULL}
      /\ currentEpoch[p] \in (FirstEpoch .. FinalEpoch) \cup {0}
      /\ priorEnd[p] \in Nat
  BY DEF IInv, TypeOK, RowsTyped, Bounded, Places
<1>3. /\ pc[p] \in Knowing => currentEpoch[p] \in FirstEpoch .. epoch
      /\ pc[p] \in Holding => rows[currentEpoch[p]] # NULL
      /\ pc[p] = "deactivate" => trackedEpoch[p] # NULL
      /\ trackedEpoch[p] # NULL =>
           trackedEpoch[p] \in FirstEpoch .. epoch /\ rows[trackedEpoch[p]] # NULL
  BY DEF IInv, KnowledgeInv, Saved
<1>4. pc[p] \in {"initFindNext", "saveNext"} =>
        priorEnd[p] - (FirstSlot(currentEpoch[p] + 1) - 1) \in 0 .. 1
  BY DEF IInv, PriorInv
<1>5. \A e \in FirstEpoch .. epoch : e \in Nat /\ e \in Epochs /\ e + 1 \in Epochs
  BY <1>1, <1>2 DEF Epochs
<1>6. QED
  BY <1>1, <1>2, <1>3, <1>4, <1>5

\* The row of the current epoch bounds the next one within a slot.
LEMMA RowBounds ==
  ASSUME IInv, NEW e \in Epochs, rows[e] # NULL
  PROVE  rows[e].endSlot \in Nat /\ rows[e].endSlot - (FirstSlot(e + 1) - 1) \in 0 .. 1
  BY DEF IInv, TypeOK, SlotsDoNotDrift, Saved, Row

-----------------------------------------------------------------------------
\* Reading the chain's epoch, and looking for a row.
LEMMA ReadingKeeps ==
  ASSUME IInv, NEW p \in Procs, NEW to \in {"initFind", "popFind"}, NEW from,
         ReadProgress(p, from, to)
  PROVE  IInv'
<1>1. /\ pc' = [pc EXCEPT ![p] = to]
      /\ currentEpoch' = [currentEpoch EXCEPT ![p] = epoch]
      /\ trackedEpoch' = [trackedEpoch EXCEPT ![p] = trackedEpoch[p]]
      /\ priorEnd' = [priorEnd EXCEPT ![p] = priorEnd[p]]
      /\ epoch' = epoch /\ rows' = rows /\ Bounded'
  BY Known DEF ReadProgress, Goto, IInv, TypeOK, bounds, Bounded
<1>2. RowsTyped' /\ RowStep
  BY <1>1, Known, RowsKept
<1>3. to \in Places /\ to \notin Holding /\ to # "deactivate" /\ to \notin {"initFindNext", "saveNext"}
  BY DEF Places, Initialising, Populating, Holding
<1>4. epoch \in FirstEpoch .. epoch
  BY Known, EpochTrackerAssumption
<1>5. QED
  BY <1>1, <1>2, <1>3, <1>4, Known, ProcessStep

\* A step that may change the table and takes one process elsewhere, with what it
\* had read.
LEMMA StandingStep ==
  ASSUME IInv, NEW p \in Procs, NEW at \in Places,
         pc' = [pc EXCEPT ![p] = at],
         RowsTyped', RowStep, epoch' = epoch, trackedEpoch' = trackedEpoch,
         currentEpoch' = currentEpoch, priorEnd' = priorEnd, Bounded',
         at \in Knowing => pc[p] \in Knowing,
         at \in Holding => rows[currentEpoch[p]] # NULL,
         at = "deactivate" => trackedEpoch[p] # NULL,
         at \notin {"initFindNext", "saveNext"} \/ pc[p] \in {"initFindNext", "saveNext"}
  PROVE  IInv'
<1> DEFINE tr == trackedEpoch[p]
           ce == currentEpoch[p]
           pe == priorEnd[p]
<1>1. /\ trackedEpoch' = [trackedEpoch EXCEPT ![p] = tr]
      /\ currentEpoch' = [currentEpoch EXCEPT ![p] = ce]
      /\ priorEnd' = [priorEnd EXCEPT ![p] = pe]
  BY DEF IInv, TypeOK
<1>2. \A e \in Epochs : rows[e] # NULL => rows'[e] # NULL
  BY Known, StillSaved
<1>3. at \in Knowing => ce \in FirstEpoch .. epoch /\ ce \in Epochs
  BY Known
<1>4. tr # NULL => tr \in FirstEpoch .. epoch /\ rows'[tr] # NULL
  BY <1>2, Known
<1>5. at \in {"initFindNext", "saveNext"} =>
        pe - (FirstSlot(ce + 1) - 1) \in 0 .. 1
  BY Known
<1>6. at \in Holding => rows'[ce] # NULL
  BY <1>2, <1>3 DEF Holding, Knowing
<1>7. /\ tr \in (FirstEpoch .. FinalEpoch) \cup {NULL}
      /\ ce \in (FirstEpoch .. FinalEpoch) \cup {0}
      /\ pe \in Nat
  BY Known
<1>8. at \in Knowing => ce \in FirstEpoch .. epoch
  BY <1>3
<1>9. at = "deactivate" => tr # NULL
  OBVIOUS
<1> HIDE DEF tr, ce, pe
<1>10. QED
  BY ONLY IInv, p \in Procs, at \in Places, pc' = [pc EXCEPT ![p] = at],
          RowsTyped', RowStep, epoch' = epoch, Bounded',
          <1>1, <1>4, <1>5, <1>6, <1>7, <1>8, <1>9, ProcessStep

\* A step that leaves the table alone and takes one process elsewhere.
LEMMA QuietStep ==
  ASSUME IInv, NEW p \in Procs, NEW at \in Places,
         pc' = [pc EXCEPT ![p] = at],
         rows' = rows, epoch' = epoch, trackedEpoch' = trackedEpoch,
         currentEpoch' = currentEpoch, priorEnd' = priorEnd, Bounded',
         at \in Knowing => pc[p] \in Knowing,
         at \in Holding => rows[currentEpoch[p]] # NULL,
         at = "deactivate" => trackedEpoch[p] # NULL,
         at \notin {"initFindNext", "saveNext"} \/ pc[p] \in {"initFindNext", "saveNext"}
  PROVE  IInv'
<1>1. RowsTyped' /\ RowStep
  BY Known, RowsKept
<1>2. QED
  BY <1>1, StandingStep

\* A process comes to rest, tracking an epoch that has begun and has a row, or
\* none. What it had read is gone.
LEMMA RestingStep ==
  ASSUME IInv, NEW p \in Procs, NEW tr \in (FirstEpoch .. FinalEpoch) \cup {NULL},
         Rest(p) \/ (Close /\ p = Script /\ tr = NULL),
         trackedEpoch' = [trackedEpoch EXCEPT ![p] = tr],
         epoch' = epoch, RowsTyped', RowStep, Bounded',
         tr # NULL => tr \in FirstEpoch .. epoch /\ rows'[tr] # NULL
  PROVE  IInv'
<1> DEFINE at == IF Rest(p) THEN IF p = Server THEN "idle" ELSE "populate" ELSE "off"
<1>1. /\ at \in Places /\ at \notin Knowing /\ at \notin Holding /\ at # "deactivate"
      /\ at \notin {"initFindNext", "saveNext"}
  BY DEF Places, Populating, Knowing, Holding
<1>2. /\ pc' = [pc EXCEPT ![p] = at]
      /\ currentEpoch' = [currentEpoch EXCEPT ![p] = 0]
      /\ priorEnd' = [priorEnd EXCEPT ![p] = 0]
  BY DEF Rest, Close, Goto
<1>3. QED
  BY <1>1, <1>2, ProcessStep

\* The chain's row is inserted: it is active, and its epoch has begun.
LEMMA SavingKeeps ==
  ASSUME IInv, NEW p \in Procs, NEW from \in Knowing,
         NEW to \in {"saveNext", "findNext", "popFindNext"}, SaveCurrent(p, from, to)
  PROVE  IInv'
<1> DEFINE ce == currentEpoch[p]
           r  == ChainRow(ce)
<1>1. /\ ce \in FirstEpoch .. epoch /\ ce \in Nat /\ ce \in Epochs /\ ~Saved(ce)
      /\ pc' = [pc EXCEPT ![p] = to]
      /\ rows' = [rows EXCEPT ![ce] = r]
      /\ priorEnd' = [priorEnd EXCEPT ![p] = r.endSlot]
      /\ epoch' = epoch /\ trackedEpoch' = trackedEpoch /\ currentEpoch' = currentEpoch
      /\ Bounded'
  BY Known DEF SaveCurrent, Goto, bounds, Bounded
<1>2. /\ FirstSlot(ce) \in Nat /\ FirstSlot(ce + 1) = FirstSlot(ce) + SlotsInEpoch
      /\ SlotsInEpoch \in Nat /\ epoch \in Nat
  BY <1>1, SlotSteps, Known, EpochTrackerAssumption
<1>3. /\ r \in Row /\ r.startSlot = FirstSlot(ce) /\ r.endSlot = FirstSlot(ce) + SlotsInEpoch
  BY <1>2 DEF ChainRow, Row
<1>4. /\ r.startSlot - FirstSlot(ce) \in 0 .. 1 /\ r.endSlot - (FirstSlot(ce + 1) - 1) \in 0 .. 1
      /\ r.endSlot \in Nat
  BY <1>2, <1>3
<1>5. r.isActive => ce <= epoch
  BY <1>1, <1>2
<1>6. RowsTyped' /\ RowStep /\ rows'[ce] # NULL
  BY <1>1, <1>3, <1>4, <1>5, Known, RowInserted
<1>7. /\ trackedEpoch' = [trackedEpoch EXCEPT ![p] = trackedEpoch[p]]
      /\ currentEpoch' = [currentEpoch EXCEPT ![p] = ce]
  BY <1>1 DEF IInv, TypeOK
<1>8. trackedEpoch[p] # NULL => trackedEpoch[p] \in FirstEpoch .. epoch /\ rows'[trackedEpoch[p]] # NULL
  BY <1>6, Known, StillSaved
<1>9. to \in Places /\ to # "deactivate"
  BY DEF Places, Checking, Populating
<1>10. /\ trackedEpoch[p] \in (FirstEpoch .. FinalEpoch) \cup {NULL}
       /\ ce \in (FirstEpoch .. FinalEpoch) \cup {0}
  BY Known
<1>11. /\ pc' = [pc EXCEPT ![p] = to] /\ priorEnd' = [priorEnd EXCEPT ![p] = r.endSlot]
       /\ epoch' = epoch /\ Bounded' /\ ce \in FirstEpoch .. epoch
  BY <1>1
<1> HIDE DEF ce, r
<1>12. QED
  BY <1>4, <1>6, <1>7, <1>8, <1>9, <1>10, <1>11, ProcessStep

\* initializeEpochInfo finds the current row, tracks it and goes on from its end.
LEMMA InitFindKeeps ==
  ASSUME IInv, NEW p \in Procs, InitFind(p)
  PROVE  IInv'
<1> DEFINE ce == currentEpoch[p]
<1>1. /\ pc[p] = "initFind" /\ pc[p] \in Knowing
      /\ ce \in FirstEpoch .. epoch /\ ce \in Nat /\ ce \in Epochs
      /\ epoch' = epoch /\ rows' = rows /\ currentEpoch' = currentEpoch /\ Bounded'
  BY Known DEF InitFind, Knowing, bounds, Bounded
<1>2. CASE Saved(ce)
  <2>1. /\ pc' = [pc EXCEPT ![p] = "initFindNext"]
        /\ trackedEpoch' = [trackedEpoch EXCEPT ![p] = ce]
        /\ priorEnd' = [priorEnd EXCEPT ![p] = rows[ce].endSlot]
        /\ currentEpoch' = [currentEpoch EXCEPT ![p] = ce]
    BY <1>1, <1>2 DEF InitFind, Goto, IInv, TypeOK
  <2>2. rows[ce] # NULL /\ rows'[ce] # NULL
    BY <1>1, <1>2 DEF Saved
  <2>3. rows[ce].endSlot \in Nat /\ rows[ce].endSlot - (FirstSlot(ce + 1) - 1) \in 0 .. 1
    BY <1>1, <2>2, RowBounds
  <2>4. RowsTyped' /\ RowStep
    BY <1>1, Known, RowsKept
  <2>5. ce \in FirstEpoch .. FinalEpoch /\ "initFindNext" \in Places
    BY <1>1, Known, EpochTrackerAssumption DEF Places, Initialising
  <2>6. ce # NULL
    BY <1>1, EpochTrackerAssumption
  <2>7. QED
    BY <1>1, <2>1, <2>2, <2>3, <2>4, <2>5, <2>6, ProcessStep
<1>3. CASE ~Saved(ce)
  <2>1. /\ pc' = [pc EXCEPT ![p] = "initSave"] /\ trackedEpoch' = trackedEpoch
        /\ priorEnd' = priorEnd
    BY <1>3 DEF InitFind, Goto
  <2>2. "initSave" \in Places /\ "initSave" \notin Holding
    BY DEF Places, Initialising, Holding
  <2>3. QED
    BY <1>1, <2>1, <2>2, QuietStep
<1>4. QED
  BY <1>2, <1>3

LEMMA InitFindNextKeeps ==
  ASSUME IInv, NEW p \in Procs, InitFindNext(p)
  PROVE  IInv'
<1>1. /\ pc[p] = "initFindNext" /\ epoch' = epoch /\ rows' = rows /\ trackedEpoch' = trackedEpoch
      /\ Bounded'
  BY Known DEF InitFindNext, bounds, Bounded
<1>2. CASE Saved(currentEpoch[p] + 1)
  <2>1. Rest(p) /\ trackedEpoch' = [trackedEpoch EXCEPT ![p] = trackedEpoch[p]]
    BY <1>1, <1>2 DEF InitFindNext, IInv, TypeOK
  <2>2. RowsTyped' /\ RowStep
    BY <1>1, Known, RowsKept
  <2>3. trackedEpoch[p] # NULL =>
          trackedEpoch[p] \in FirstEpoch .. epoch /\ rows'[trackedEpoch[p]] # NULL
    BY <1>1, Known
  <2>4. QED
    BY <1>1, <2>1, <2>2, <2>3, Known, RestingStep
<1>3. CASE ~Saved(currentEpoch[p] + 1)
  <2>1. /\ pc' = [pc EXCEPT ![p] = "saveNext"]
        /\ currentEpoch' = currentEpoch /\ priorEnd' = priorEnd
    BY <1>3 DEF InitFindNext, Goto
  <2>2. "saveNext" \in Places /\ pc[p] \in Holding /\ pc[p] \in Knowing
    BY <1>1 DEF Places, Holding, Knowing
  <2>3. QED
    BY <1>1, <2>1, <2>2, Known, QuietStep
<1>4. QED
  BY <1>2, <1>3

\* createNextEpochInfo: the row it makes is as close to the chain as the row it
\* continues. The epoch the process then tracks is the current one, which has a
\* row, whether or not the insert succeeded.
LEMMA SaveNextKeeps ==
  ASSUME IInv, NEW p \in Procs, SaveNext(p)
  PROVE  IInv'
<1> DEFINE ce == currentEpoch[p]
           r  == NextRow(p)
<1>1. pc[p] = "saveNext" /\ pc[p] \in Holding /\ pc[p] \in Knowing
  BY DEF SaveNext, Holding, Knowing
<1>2. /\ ce \in FirstEpoch .. epoch /\ ce \in Nat /\ ce \in Epochs /\ ce + 1 \in Epochs
      /\ rows[ce] # NULL /\ priorEnd[p] \in Nat /\ epoch \in FirstEpoch .. FinalEpoch
      /\ priorEnd[p] - (FirstSlot(ce + 1) - 1) \in 0 .. 1
  BY <1>1, Known
<1>3. /\ trackedEpoch' = [trackedEpoch EXCEPT ![p] = ce] /\ Rest(p)
      /\ epoch' = epoch /\ Bounded'
  BY Known DEF SaveNext, bounds, Bounded
<1>4. /\ FirstSlot(ce + 1) \in Nat
      /\ FirstSlot(ce + 1 + 1) = FirstSlot(ce + 1) + SlotsInEpoch
      /\ SlotsInEpoch \in Nat
  BY <1>2, SlotSteps, EpochTrackerAssumption
<1>5. /\ r \in Row /\ r.startSlot = priorEnd[p] + 1 /\ r.endSlot = priorEnd[p] + SlotsInEpoch
      /\ r.isActive = FALSE
  BY <1>2, <1>4 DEF NextRow, Row
<1>6. /\ r.startSlot - FirstSlot(ce + 1) \in 0 .. 1
      /\ r.endSlot - (FirstSlot(ce + 1 + 1) - 1) \in 0 .. 1
  BY <1>2, <1>4, <1>5
<1>7. RowsTyped' /\ RowStep
  <2>1. CASE ~Saved(ce + 1) /\ rows' = [rows EXCEPT ![ce + 1] = r]
    BY <2>1, <1>2, <1>5, <1>6, Known, RowInserted
  <2>2. CASE rows' = rows
    BY <2>2, Known, RowsKept
  <2>3. QED
    BY <2>1, <2>2 DEF SaveNext
<1>8. rows'[ce] # NULL
  BY <1>2, <1>7, Known, StillSaved
<1>9. ce \in FirstEpoch .. FinalEpoch
  BY <1>2, EpochTrackerAssumption
<1>10. QED
  BY <1>2, <1>3, <1>7, <1>8, <1>9, RestingStep

-----------------------------------------------------------------------------
\* One update of the flag: the row is that of an epoch that has begun.
LEMMA DeactivateKeeps ==
  ASSUME IInv, NEW p \in Procs, Deactivate(p)
  PROVE  IInv'
<1>1. /\ pc[p] = "deactivate" /\ pc[p] \in Knowing
      /\ pc' = [pc EXCEPT ![p] = "find"] /\ SetActive(trackedEpoch[p], FALSE)
      /\ epoch' = epoch /\ trackedEpoch' = trackedEpoch /\ currentEpoch' = currentEpoch
      /\ priorEnd' = priorEnd /\ Bounded'
  BY Known DEF Deactivate, Goto, Knowing, bounds, Bounded
<1>2. RowsTyped' /\ RowStep
  BY <1>1, Known, FlagSet
<1>3. "find" \in Places /\ "find" \notin Holding
  BY DEF Places, Checking, Holding
<1>4. QED
  BY <1>1, <1>2, <1>3, StandingStep

LEMMA ActivateKeeps ==
  ASSUME IInv, NEW p \in Procs, Activate(p)
  PROVE  IInv'
<1>1. /\ pc[p] = "activate" /\ pc[p] \in Knowing /\ pc[p] \in Holding
      /\ pc' = [pc EXCEPT ![p] = "findNext"] /\ SetActive(currentEpoch[p], TRUE)
      /\ epoch' = epoch /\ trackedEpoch' = trackedEpoch /\ currentEpoch' = currentEpoch
      /\ priorEnd' = priorEnd /\ Bounded'
  BY Known DEF Activate, Goto, Knowing, Holding, bounds, Bounded
<1>2. currentEpoch[p] <= epoch
  BY <1>1, Known, EpochTrackerAssumption
<1>3. RowsTyped' /\ RowStep
  BY <1>1, <1>2, Known, FlagSet
<1>4. "findNext" \in Places
  BY DEF Places, Checking
<1>5. rows[currentEpoch[p]] # NULL
  BY <1>1, Known
<1>6. QED
  BY <1>1, <1>3, <1>4, <1>5, StandingStep

\* A row is looked for: the branch taken knows what was found.
LEMMA LookKeeps ==
  ASSUME IInv, NEW p \in Procs, NEW from \in Knowing, NEW present \in Places, NEW absent \in Places,
         Look(p, from, currentEpoch[p], present, absent),
         {present, absent} \cap {"initFindNext", "saveNext", "deactivate"} = {},
         absent \notin Holding
  PROVE  IInv'
<1>1. /\ pc[p] \in Knowing
      /\ epoch' = epoch /\ rows' = rows /\ trackedEpoch' = trackedEpoch
      /\ currentEpoch' = currentEpoch /\ priorEnd' = priorEnd /\ Bounded'
  BY Known DEF Look, bounds, Bounded
<1>2. CASE Saved(currentEpoch[p])
  <2>1. pc' = [pc EXCEPT ![p] = present] /\ rows[currentEpoch[p]] # NULL
    BY <1>2 DEF Look, Goto, Saved
  <2>2. QED
    BY <1>1, <2>1, QuietStep
<1>3. CASE ~Saved(currentEpoch[p])
  <2>1. pc' = [pc EXCEPT ![p] = absent]
    BY <1>3 DEF Look, Goto
  <2>2. QED
    BY <1>1, <2>1, QuietStep
<1>4. QED
  BY <1>2, <1>3

\* checkEpochChange compares the chain's epoch with the one it tracks.
LEMMA ProgressKeeps ==
  ASSUME IInv, NEW p \in Procs, Progress(p)
  PROVE  IInv'
<1>1. /\ pc[p] = "progress" /\ pc[p] \notin Knowing
      /\ epoch' = epoch /\ rows' = rows /\ trackedEpoch' = trackedEpoch
      /\ priorEnd' = priorEnd /\ Bounded'
  BY Known DEF Progress, Knowing, bounds, Bounded
<1>2. CASE trackedEpoch[p] = epoch
  <2>1. pc' = [pc EXCEPT ![p] = "idle"] /\ currentEpoch' = currentEpoch
    BY <1>2 DEF Progress, Goto
  <2>2. "idle" \in Places /\ "idle" \notin Knowing /\ "idle" \notin Holding
    BY DEF Places, Knowing, Holding
  <2>3. QED
    BY <1>1, <2>1, <2>2, QuietStep
<1>3. CASE trackedEpoch[p] # epoch
  <2> DEFINE at == IF trackedEpoch[p] = NULL THEN "find" ELSE "deactivate"
  <2>1. /\ pc' = [pc EXCEPT ![p] = at] /\ currentEpoch' = [currentEpoch EXCEPT ![p] = epoch]
        /\ trackedEpoch' = [trackedEpoch EXCEPT ![p] = trackedEpoch[p]]
        /\ priorEnd' = [priorEnd EXCEPT ![p] = priorEnd[p]]
    BY <1>1, <1>3 DEF Progress, Goto, IInv, TypeOK
  <2>2. /\ at \in Places /\ at \notin Holding /\ at \notin {"initFindNext", "saveNext"}
        /\ (at = "deactivate" => trackedEpoch[p] # NULL)
    BY DEF Places, Checking, Holding
  <2>3. RowsTyped' /\ RowStep
    BY <1>1, Known, RowsKept
  <2>4. /\ trackedEpoch[p] \in (FirstEpoch .. FinalEpoch) \cup {NULL}
        /\ epoch \in FirstEpoch .. FinalEpoch /\ epoch \in FirstEpoch .. epoch
        /\ priorEnd[p] \in Nat
        /\ trackedEpoch[p] # NULL =>
             trackedEpoch[p] \in FirstEpoch .. epoch /\ rows'[trackedEpoch[p]] # NULL
    BY <1>1, Known, EpochTrackerAssumption
  <2> HIDE DEF at
  <2>5. QED
    BY <1>1, <2>1, <2>2, <2>3, <2>4, ProcessStep
<1>4. QED
  BY <1>2, <1>3

\* The next row is looked for: the check is over, or goes on from the current row.
LEMMA FindNextKeeps ==
  ASSUME IInv, NEW p \in Procs, FindNext(p)
  PROVE  IInv'
<1>1. /\ pc[p] = "findNext" /\ pc[p] \in Knowing /\ pc[p] \in Holding
      /\ epoch' = epoch /\ rows' = rows /\ Bounded'
  BY Known DEF FindNext, Knowing, Holding, bounds, Bounded
<1>2. CASE Saved(currentEpoch[p] + 1)
  <2>1. Rest(p) /\ trackedEpoch' = [trackedEpoch EXCEPT ![p] = currentEpoch[p]]
    BY <1>2 DEF FindNext
  <2>2. RowsTyped' /\ RowStep
    BY <1>1, Known, RowsKept
  <2>3. /\ currentEpoch[p] \in FirstEpoch .. epoch /\ rows'[currentEpoch[p]] # NULL
        /\ currentEpoch[p] \in FirstEpoch .. FinalEpoch
    BY <1>1, Known, EpochTrackerAssumption
  <2>4. QED
    BY <1>1, <2>1, <2>2, <2>3, RestingStep
<1>3. CASE ~Saved(currentEpoch[p] + 1)
  <2>1. /\ pc' = [pc EXCEPT ![p] = "reread"] /\ trackedEpoch' = trackedEpoch
        /\ currentEpoch' = currentEpoch /\ priorEnd' = priorEnd
    BY <1>3 DEF FindNext, Goto
  <2>2. "reread" \in Places /\ rows[currentEpoch[p]] # NULL
    BY <1>1, Known DEF Places, Checking
  <2>3. QED
    BY <1>1, <2>1, <2>2, QuietStep
<1>4. QED
  BY <1>2, <1>3

LEMMA RereadKeeps ==
  ASSUME IInv, NEW p \in Procs, Reread(p)
  PROVE  IInv'
<1> DEFINE tr == trackedEpoch[p]
           ce == currentEpoch[p]
           pe == rows[ce].endSlot
<1>1. /\ pc[p] = "reread" /\ pc[p] \in Knowing /\ pc[p] \in Holding
      /\ epoch' = epoch /\ rows' = rows /\ Bounded'
      /\ pc' = [pc EXCEPT ![p] = "saveNext"] /\ priorEnd' = [priorEnd EXCEPT ![p] = pe]
      /\ trackedEpoch' = [trackedEpoch EXCEPT ![p] = tr]
      /\ currentEpoch' = [currentEpoch EXCEPT ![p] = ce]
  BY Known DEF Reread, Goto, Knowing, Holding, bounds, Bounded, IInv, TypeOK
<1>2. RowsTyped' /\ RowStep
  BY <1>1, Known, RowsKept
<1>3. /\ tr \in (FirstEpoch .. FinalEpoch) \cup {NULL}
      /\ ce \in (FirstEpoch .. FinalEpoch) \cup {0}
      /\ ce \in FirstEpoch .. epoch /\ ce \in Epochs /\ rows[ce] # NULL /\ rows'[ce] # NULL
      /\ (tr # NULL => tr \in FirstEpoch .. epoch /\ rows'[tr] # NULL)
  BY <1>1, Known
<1>4. pe \in Nat /\ pe - (FirstSlot(ce + 1) - 1) \in 0 .. 1
  BY <1>3, RowBounds
<1>5. "saveNext" \in Places /\ "saveNext" # "deactivate"
  BY DEF Places
<1> HIDE DEF tr, ce, pe
<1>6. QED
  BY <1>1, <1>2, <1>3, <1>4, <1>5, ProcessStep

\* The end of the script, and its rows: computed from the chain, they are as
\* close to it as those that continue another row.
LEMMA PopFindNextKeeps ==
  ASSUME IInv, PopFindNext
  PROVE  IInv'
<1>1. /\ Script \in Procs /\ pc[Script] = "popFindNext"
      /\ pc[Script] \in Knowing /\ pc[Script] \in Holding
      /\ epoch' = epoch /\ rows' = rows /\ Bounded'
  BY Known DEF PopFindNext, Knowing, Holding, Procs, bounds, Bounded
<1>2. RowsTyped' /\ RowStep
  BY <1>1, Known, RowsKept
<1>3. CASE Saved(currentEpoch[Script] + 1)
  <2>1. Close /\ trackedEpoch' = [trackedEpoch EXCEPT ![Script] = NULL]
    BY <1>3 DEF PopFindNext, Close
  <2>2. QED
    BY <1>1, <1>2, <2>1, RestingStep
<1>4. CASE ~Saved(currentEpoch[Script] + 1)
  <2>1. /\ pc' = [pc EXCEPT ![Script] = "popSaveNext"] /\ trackedEpoch' = trackedEpoch
        /\ currentEpoch' = currentEpoch /\ priorEnd' = priorEnd
    BY <1>4 DEF PopFindNext, Goto
  <2>2. "popSaveNext" \in Places /\ rows[currentEpoch[Script]] # NULL
    BY <1>1, Known DEF Places, Populating
  <2>3. QED
    BY <1>1, <2>1, <2>2, QuietStep
<1>5. QED
  BY <1>3, <1>4

LEMMA PopSaveNextKeeps ==
  ASSUME IInv, PopSaveNext
  PROVE  IInv'
<1> DEFINE ce  == currentEpoch[Script]
           end == ChainRow(ce).endSlot
           r   == [startSlot |-> end + 1, endSlot |-> end + SlotsInEpoch, isActive |-> FALSE]
<1>1. /\ Script \in Procs /\ pc[Script] \in Knowing
      /\ epoch' = epoch /\ Bounded' /\ Close /\ ~Saved(ce + 1)
      /\ rows' = [rows EXCEPT ![ce + 1] = r]
      /\ trackedEpoch' = [trackedEpoch EXCEPT ![Script] = NULL]
  BY Known DEF PopSaveNext, Close, Knowing, Procs, bounds, Bounded
<1>2. ce \in Nat /\ ce \in Epochs /\ ce + 1 \in Epochs
  BY <1>1, Known
<1>3. /\ FirstSlot(ce) \in Nat /\ FirstSlot(ce + 1) = FirstSlot(ce) + SlotsInEpoch
      /\ FirstSlot(ce + 1 + 1) = FirstSlot(ce + 1) + SlotsInEpoch
      /\ SlotsInEpoch \in Nat
  BY <1>2, SlotSteps, EpochTrackerAssumption
<1>4. end = FirstSlot(ce) + SlotsInEpoch
  BY DEF ChainRow
<1>5. /\ r \in Row /\ r.startSlot = end + 1 /\ r.endSlot = end + SlotsInEpoch
      /\ r.isActive = FALSE
  BY <1>3, <1>4 DEF Row
<1>6. /\ r.startSlot - FirstSlot(ce + 1) \in 0 .. 1
      /\ r.endSlot - (FirstSlot(ce + 1 + 1) - 1) \in 0 .. 1
  BY <1>3, <1>4, <1>5
<1>7. RowsTyped' /\ RowStep
  <2> HIDE DEF ce, end, r
  <2>1. QED
    BY <1>1, <1>2, <1>5, <1>6, Known, RowInserted
<1>8. QED
  BY <1>1, <1>7, RestingStep

-----------------------------------------------------------------------------
\* What a process awaits throws: it comes to rest with what it tracked, or ends.
LEMMA CallFailsKeeps ==
  ASSUME IInv, NEW p \in Procs, CallFails(p)
  PROVE  IInv'
<1>1. epoch' = epoch /\ rows' = rows /\ Bounded'
  BY Known DEF CallFails, bounds, Bounded
<1>2. RowsTyped' /\ RowStep
  BY <1>1, Known, RowsKept
<1>3. CASE Rest(p) /\ UNCHANGED trackedEpoch
  <2>1. trackedEpoch' = [trackedEpoch EXCEPT ![p] = trackedEpoch[p]]
    BY <1>3 DEF IInv, TypeOK
  <2>2. /\ trackedEpoch[p] \in (FirstEpoch .. FinalEpoch) \cup {NULL}
        /\ trackedEpoch[p] # NULL =>
             trackedEpoch[p] \in FirstEpoch .. epoch /\ rows'[trackedEpoch[p]] # NULL
    BY <1>1, Known
  <2>3. QED
    BY <1>1, <1>2, <1>3, <2>1, <2>2, RestingStep
<1>4. CASE Close
  <2>1. Script \in Procs /\ trackedEpoch' = [trackedEpoch EXCEPT ![Script] = NULL]
    BY <1>4 DEF Close, Procs
  <2>2. QED
    BY <1>1, <1>2, <1>4, <2>1, RestingStep
<1>5. QED
  BY <1>3, <1>4 DEF CallFails

\* The server starts anew, and the script starts.
LEMMA RestartKeeps ==
  ASSUME IInv, Restart
  PROVE  IInv'
<1>1. /\ Server \in Procs /\ epoch' = epoch /\ rows' = rows /\ Bounded'
      /\ pc' = [pc EXCEPT ![Server] = "initProgress"]
      /\ trackedEpoch' = [trackedEpoch EXCEPT ![Server] = NULL]
      /\ currentEpoch' = [currentEpoch EXCEPT ![Server] = 0]
      /\ priorEnd' = [priorEnd EXCEPT ![Server] = 0]
  BY Known, EpochTrackerAssumption DEF Restart, Goto, Procs, Bounded
<1>2. RowsTyped' /\ RowStep
  BY <1>1, Known, RowsKept
<1>3. /\ "initProgress" \in Places /\ "initProgress" \notin Knowing
      /\ "initProgress" \notin Holding
  BY DEF Places, Initialising, Knowing, Holding
<1>4. QED
  BY <1>1, <1>2, <1>3, ProcessStep

LEMMA RunScriptKeeps ==
  ASSUME IInv, RunScript
  PROVE  IInv'
<1>1. /\ Script \in Procs /\ epoch' = epoch /\ rows' = rows /\ Bounded'
      /\ pc' = [pc EXCEPT ![Script] = "initProgress"] /\ trackedEpoch' = trackedEpoch
      /\ currentEpoch' = currentEpoch /\ priorEnd' = priorEnd
  BY Known, EpochTrackerAssumption DEF RunScript, Goto, Procs, Bounded
<1>2. /\ "initProgress" \in Places /\ "initProgress" \notin Knowing
      /\ "initProgress" \notin Holding
  BY DEF Places, Initialising, Knowing, Holding
<1>3. QED
  BY <1>1, <1>2, QuietStep

LEMMA CronFiresKeeps ==
  ASSUME IInv, NEW p \in Procs, CronFires(p)
  PROVE  IInv'
<1>1. /\ epoch' = epoch /\ rows' = rows /\ Bounded'
      /\ pc' = [pc EXCEPT ![p] = "progress"] /\ trackedEpoch' = trackedEpoch
      /\ currentEpoch' = currentEpoch /\ priorEnd' = priorEnd
  BY Known DEF CronFires, Goto, bounds, Bounded
<1>2. /\ "progress" \in Places /\ "progress" \notin Knowing /\ "progress" \notin Holding
  BY DEF Places, Checking, Knowing, Holding
<1>3. QED
  BY <1>1, <1>2, QuietStep

\* The chain goes on: what had begun has still begun.
LEMMA NextEpochKeeps ==
  ASSUME IInv, NextEpoch
  PROVE  IInv'
<1>1. /\ epoch \in FirstEpoch .. FinalEpoch /\ epoch < FinalEpoch /\ epoch' = epoch + 1
      /\ FirstEpoch \in Nat /\ FinalEpoch \in Nat
      /\ UNCHANGED <<rows, pc, trackedEpoch, currentEpoch, priorEnd, restarts, scriptRuns>>
  BY EpochTrackerAssumption DEF NextEpoch, IInv, TypeOK, bounds
<1>2. TypeOK'
  BY <1>1 DEF IInv, TypeOK
<1>3. KnowledgeInv'
  BY <1>1 DEF IInv, KnowledgeInv, Saved
<1>4. PriorInv' /\ SlotsDoNotDrift'
  BY <1>1 DEF IInv, PriorInv, SlotsDoNotDrift, Saved, FirstSlot
<1>5. ActiveBegun'
  BY <1>1 DEF IInv, ActiveBegun, ActiveEpochs, Saved, Epochs
<1>6. QED
  BY <1>2, <1>3, <1>4, <1>5 DEF IInv

-----------------------------------------------------------------------------
LEMMA InitialIInv == Init => IInv
<1> SUFFICES ASSUME Init PROVE IInv
  OBVIOUS
<1>1. TypeOK
  BY EpochTrackerAssumption DEF Init, TypeOK, Procs, Initialising
<1>2. KnowledgeInv
  BY DEF Init, KnowledgeInv, Knowing, Holding
<1>3. PriorInv
  BY DEF Init, PriorInv
<1>4. SlotsDoNotDrift /\ ActiveBegun
  BY DEF Init, SlotsDoNotDrift, ActiveBegun, ActiveEpochs, Saved
<1>5. QED
  BY <1>1, <1>2, <1>3, <1>4 DEF IInv

LEMMA StepKeepsIInv == IInv /\ [Next]_vars => IInv'
<1> SUFFICES ASSUME IInv, [Next]_vars PROVE IInv'
  OBVIOUS
<1>1. CASE NextEpoch
  BY <1>1, NextEpochKeeps
<1>2. ASSUME NEW p \in Procs, Initialise(p) PROVE IInv'
  <2>1. CASE InitProgress(p)
    BY <2>1, ReadingKeeps DEF InitProgress
  <2>2. CASE InitFind(p)
    BY <2>2, InitFindKeeps
  <2>3. CASE InitSave(p)
    BY <2>3, SavingKeeps DEF InitSave, Knowing
  <2>4. CASE InitFindNext(p)
    BY <2>4, InitFindNextKeeps
  <2>5. CASE SaveNext(p)
    BY <2>5, SaveNextKeeps
  <2>6. QED
    BY <1>2, <2>1, <2>2, <2>3, <2>4, <2>5 DEF Initialise
<1>3. ASSUME NEW p \in Procs, CallFails(p) PROVE IInv'
  BY <1>3, CallFailsKeeps
<1>4. ASSUME NEW p \in Procs, Check(p) PROVE IInv'
  <2>1. CASE Progress(p)
    BY <2>1, ProgressKeeps
  <2>2. CASE Deactivate(p)
    BY <2>2, DeactivateKeeps
  <2>3. CASE Find(p)
    <3>1. /\ "find" \in Knowing /\ "activate" \in Places /\ "save" \in Places
          /\ "save" \notin Holding
      BY DEF Knowing, Holding, Places, Checking
    <3>2. QED
      BY <2>3, <3>1, LookKeeps DEF Find
  <2>4. CASE Activate(p)
    BY <2>4, ActivateKeeps
  <2>5. CASE Save(p)
    BY <2>5, SavingKeeps DEF Save, Knowing
  <2>6. CASE FindNext(p)
    BY <2>6, FindNextKeeps
  <2>7. CASE Reread(p)
    BY <2>7, RereadKeeps
  <2>8. QED
    BY <1>4, <2>1, <2>2, <2>3, <2>4, <2>5, <2>6, <2>7 DEF Check
<1>5. CASE Populates
  <2>1. Server \in Procs /\ Script \in Procs
    BY DEF Procs
  <2>2. CASE Populate
    BY <2>1, <2>2, ReadingKeeps DEF Populate
  <2>3. CASE PopFind
    <3>1. /\ "popFind" \in Knowing /\ "popFindNext" \in Places /\ "popSave" \in Places
          /\ "popSave" \notin Holding
      BY DEF Knowing, Holding, Places, Populating
    <3>2. QED
      BY <2>1, <2>3, <3>1, LookKeeps DEF PopFind
  <2>4. CASE PopSave
    BY <2>1, <2>4, SavingKeeps DEF PopSave, Knowing
  <2>5. CASE PopFindNext
    BY <2>5, PopFindNextKeeps
  <2>6. CASE PopSaveNext
    BY <2>6, PopSaveNextKeeps
  <2>7. QED
    BY <1>5, <2>2, <2>3, <2>4, <2>5, <2>6 DEF Populates
<1>6. CASE CronFires(Server)
  BY <1>6, CronFiresKeeps DEF Procs
<1>7. CASE RunScript
  BY <1>7, RunScriptKeeps
<1>8. CASE Restart
  BY <1>8, RestartKeeps
<1>9. CASE UNCHANGED vars
  <2>1. UNCHANGED <<epoch, rows, pc, trackedEpoch, currentEpoch, priorEnd, restarts, scriptRuns>>
    BY <1>9 DEF vars, bounds
  <2>2. TypeOK'
    BY <2>1 DEF IInv, TypeOK
  <2>3. KnowledgeInv'
    BY <2>1 DEF IInv, KnowledgeInv, Saved
  <2>4. PriorInv' /\ SlotsDoNotDrift'
    BY <2>1 DEF IInv, PriorInv, SlotsDoNotDrift, Saved, FirstSlot
  <2>5. ActiveBegun'
    BY <2>1 DEF IInv, ActiveBegun, ActiveEpochs, Saved
  <2>6. QED
    BY <2>2, <2>3, <2>4, <2>5 DEF IInv
<1>10. Server \in Procs
  BY DEF Procs
<1>11. QED
  BY <1>1, <1>2, <1>3, <1>4, <1>5, <1>6, <1>7, <1>8, <1>9, <1>10 DEF Next

\* The table, what each process keeps in memory and where it is always have
\* their types: in particular trackedEpoch is none or an epoch the chain reached.
THEOREM TypeCorrect == Spec => []TypeOK
<1>1. IInv => TypeOK
  BY DEF IInv
<1>2. QED
  BY <1>1, InitialIInv, StepKeepsIInv, PTL DEF Spec

\* The epoch that initializeEpochInfo or checkEpochChange leaves in trackedEpoch
\* always has a row, even when createNextEpochInfo's insert fails or the script
\* inserts first: the update that marks it inactive never misses.
THEOREM TrackedEpochsHaveRows == Spec => []TrackedHasRow
<1>1. IInv => TrackedHasRow
  BY DEF IInv, KnowledgeInv, TrackedHasRow
<1>2. QED
  BY <1>1, InitialIInv, StepKeepsIInv, PTL DEF Spec

\* checkEpochChange, initializeEpochInfo and the script never mark as active the
\* row of an epoch that has not begun, however often the server restarts.
THEOREM ActiveEpochsBegun == Spec => []ActiveBegun
<1>1. IInv => ActiveBegun
  BY DEF IInv
<1>2. QED
  BY <1>1, InitialIInv, StepKeepsIInv, PTL DEF Spec

\* However long rows are extrapolated from one another, by createNextEpochInfo or
\* by the script, each keeps within one slot of its epoch's true bounds.
THEOREM SlotsStayClose == Spec => []SlotsDoNotDrift
<1>1. IInv => SlotsDoNotDrift
  BY DEF IInv
<1>2. QED
  BY <1>1, InitialIInv, StepKeepsIInv, PTL DEF Spec

-----------------------------------------------------------------------------
(* What GET epoch/progress serves while one server runs without a restart.  *)
(*                                                                          *)
(* The argument: a row is ahead of the chain only if it was made by         *)
(* createNextEpochInfo for the epoch the server has just come to track,     *)
(* whose own row is active. A check that deactivates that row has read a    *)
(* later epoch first, so by then the chain has reached the row ahead.       *)

\* Before the server has initialised there is neither a row nor a tracked epoch.
UnstartedInv ==
  pc[Server] \in {"initProgress", "initFind", "initSave"} =>
    trackedEpoch[Server] = NULL /\ \A e \in Epochs : ~Saved(e)

\* While an epoch is being dealt with, the server still tracks an earlier one.
BehindInv ==
  pc[Server] \in Knowing /\ trackedEpoch[Server] # NULL =>
    trackedEpoch[Server] < currentEpoch[Server]

\* By the time the next row is looked for or made, the current one is active.
CurrentActiveInv ==
  pc[Server] \in {"findNext", "reread", "saveNext"} => currentEpoch[Server] \in ActiveEpochs

\* At most one row is ahead, and then the chain's epoch is tracked and active.
AheadInv ==
  \A e \in Epochs : Saved(e) /\ e > epoch =>
    e = epoch + 1 /\ trackedEpoch[Server] = epoch /\ epoch \in ActiveEpochs

ServerAlone ==
  /\ pc[Script] = "off" /\ pc[Server] # "initFindNext"
  /\ UnstartedInv /\ BehindInv /\ CurrentActiveInv /\ AheadInv

AloneInv == Alone => ServerAlone

\* A step of the server to another place keeps it, if what holds there holds and
\* the table does not get ahead.
LEMMA ServerStep ==
  ASSUME IInv, ServerAlone, NEW at \in Places,
         pc' = [pc EXCEPT ![Server] = at], at # "initFindNext",
         at \in {"initProgress", "initFind", "initSave"} =>
           trackedEpoch'[Server] = NULL /\ \A e \in Epochs : rows'[e] = NULL,
         at \in Knowing /\ trackedEpoch'[Server] # NULL =>
           trackedEpoch'[Server] < currentEpoch'[Server],
         at \in {"findNext", "reread", "saveNext"} => currentEpoch'[Server] \in ActiveEpochs',
         AheadInv'
  PROVE  ServerAlone'
<1>1. pc'[Server] = at /\ pc'[Script] = pc[Script]
  BY EpochTrackerAssumption DEF IInv, TypeOK, Procs
<1>2. QED
  BY <1>1 DEF ServerAlone, UnstartedInv, BehindInv, CurrentActiveInv, Saved

\* With table, chain and tracked epoch as they were, no row gets ahead.
LEMMA NothingAhead ==
  ASSUME AheadInv, rows' = rows, epoch' = epoch, trackedEpoch' = trackedEpoch
  PROVE  AheadInv' /\ ActiveEpochs' = ActiveEpochs
  BY DEF AheadInv, Saved, ActiveEpochs

\* While the server deals with an epoch later than the one it tracks, nothing is
\* ahead.
LEMMA NoneAhead ==
  ASSUME IInv, ServerAlone, pc[Server] \in Knowing
  PROVE  /\ \A e \in Epochs : Saved(e) => e <= epoch
         /\ currentEpoch[Server] \in FirstEpoch .. epoch /\ currentEpoch[Server] \in Epochs
         /\ currentEpoch[Server] \in Nat /\ epoch \in Nat /\ epoch \in Epochs
<1>1. Server \in Procs
  BY DEF Procs
<1>2. /\ currentEpoch[Server] \in FirstEpoch .. epoch /\ currentEpoch[Server] \in Epochs
      /\ epoch \in Nat /\ currentEpoch[Server] \in Nat /\ epoch \in FirstEpoch .. FinalEpoch
  BY <1>1, Known
<1>3. epoch \in Epochs
  BY <1>2, EpochTrackerAssumption DEF Epochs
<1>4. ASSUME NEW e \in Epochs, Saved(e) PROVE e <= epoch
  <2> SUFFICES ASSUME e > epoch PROVE FALSE
    BY <1>2, EpochTrackerAssumption DEF Epochs
  <2>1. trackedEpoch[Server] = epoch
    BY <1>4 DEF ServerAlone, AheadInv
  <2>2. epoch # NULL
    BY <1>2, EpochTrackerAssumption
  <2>3. epoch < currentEpoch[Server]
    BY <2>1, <2>2 DEF ServerAlone, BehindInv
  <2>4. QED
    BY <1>2, <2>3
<1>5. QED
  BY <1>2, <1>3, <1>4

\* Steps that only read: the place is another one, the table the same.
LEMMA ReadsAlone ==
  ASSUME IInv, ServerAlone,
         \/ InitProgress(Server) \/ InitFind(Server) \/ CronFires(Server) \/ Progress(Server)
         \/ Find(Server) \/ Reread(Server) \/ CallFails(Server)
  PROVE  ServerAlone'
<1> USE DEF ServerAlone
<1>1. /\ Server \in Procs /\ \A e \in Epochs : Saved(e) <=> rows[e] # NULL
  BY DEF Procs, Saved
<1>2. CASE InitProgress(Server)
  <2>1. /\ pc[Server] = "initProgress" /\ pc' = [pc EXCEPT ![Server] = "initFind"]
        /\ rows' = rows /\ epoch' = epoch /\ trackedEpoch' = trackedEpoch
    BY <1>2 DEF InitProgress, ReadProgress, Goto
  <2>2. trackedEpoch[Server] = NULL /\ \A e \in Epochs : rows[e] = NULL
    BY <2>1 DEF UnstartedInv, Saved
  <2>3. "initFind" \in Places
    BY DEF Places, Initialising
  <2>4. QED
    BY <2>1, <2>2, <2>3, NothingAhead, ServerStep
<1>3. CASE InitFind(Server)
  <2>1. pc[Server] = "initFind" /\ pc[Server] \in Knowing
    BY <1>3 DEF InitFind, Knowing
  <2>2. trackedEpoch[Server] = NULL /\ \A e \in Epochs : rows[e] = NULL
    BY <2>1 DEF UnstartedInv, Saved
  <2>3. ~Saved(currentEpoch[Server])
    BY <2>1, <2>2, NoneAhead DEF Saved
  <2>4. /\ pc' = [pc EXCEPT ![Server] = "initSave"]
        /\ rows' = rows /\ epoch' = epoch /\ trackedEpoch' = trackedEpoch
    BY <1>3, <2>3 DEF InitFind, Goto
  <2>5. "initSave" \in Places
    BY DEF Places, Initialising
  <2>6. QED
    BY <2>2, <2>4, <2>5, NothingAhead, ServerStep
<1>4. CASE CronFires(Server)
  <2>1. /\ pc' = [pc EXCEPT ![Server] = "progress"]
        /\ rows' = rows /\ epoch' = epoch /\ trackedEpoch' = trackedEpoch
    BY <1>4 DEF CronFires, Goto
  <2>2. "progress" \in Places /\ "progress" \notin Knowing
    BY DEF Places, Checking, Knowing
  <2>3. QED
    BY <2>1, <2>2, NothingAhead, ServerStep
<1>5. CASE Progress(Server)
  <2>1. rows' = rows /\ epoch' = epoch /\ trackedEpoch' = trackedEpoch
    BY <1>5 DEF Progress
  <2>2. CASE trackedEpoch[Server] = epoch
    <3>1. pc' = [pc EXCEPT ![Server] = "idle"]
      BY <1>5, <2>2 DEF Progress, Goto
    <3>2. "idle" \in Places /\ "idle" \notin Knowing
      BY DEF Places, Knowing
    <3>3. QED
      BY <2>1, <3>1, <3>2, NothingAhead, ServerStep
  <2>3. CASE trackedEpoch[Server] # epoch
    <3> DEFINE at == IF trackedEpoch[Server] = NULL THEN "find" ELSE "deactivate"
    <3>1. pc' = [pc EXCEPT ![Server] = at] /\ currentEpoch' = [currentEpoch EXCEPT ![Server] = epoch]
      BY <1>5, <2>3 DEF Progress, Goto
    <3>2. currentEpoch'[Server] = epoch
      BY <1>1, <3>1 DEF IInv, TypeOK
    <3>3. trackedEpoch[Server] # NULL => trackedEpoch[Server] < epoch
      <4>1. trackedEpoch[Server] # NULL => trackedEpoch[Server] \in FirstEpoch .. epoch
        BY <1>1, Known
      <4>2. epoch \in Nat /\ FirstEpoch \in Nat
        BY <1>1, Known, EpochTrackerAssumption
      <4>3. QED
        BY <2>3, <4>1, <4>2
    <3>4. /\ at \in Places /\ at # "initFindNext"
          /\ at \notin {"initProgress", "initFind", "initSave"}
          /\ at \notin {"findNext", "reread", "saveNext"}
      BY DEF Places, Checking
    <3> HIDE DEF at
    <3>5. QED
      BY <2>1, <3>1, <3>2, <3>3, <3>4, NothingAhead, ServerStep
  <2>4. QED
    BY <2>2, <2>3
<1>6. CASE Find(Server)
  <2> DEFINE at == IF Saved(currentEpoch[Server]) THEN "activate" ELSE "save"
  <2>1. /\ pc[Server] \in Knowing /\ pc' = [pc EXCEPT ![Server] = at]
        /\ rows' = rows /\ epoch' = epoch /\ trackedEpoch' = trackedEpoch
        /\ currentEpoch' = currentEpoch
    BY <1>6 DEF Find, Look, Goto, Knowing
  <2>2. /\ at \in Places /\ at # "initFindNext"
        /\ at \notin {"initProgress", "initFind", "initSave"}
        /\ at \notin {"findNext", "reread", "saveNext"}
    BY DEF Places, Checking
  <2> HIDE DEF at
  <2>3. QED
    BY <2>1, <2>2, NothingAhead, ServerStep DEF BehindInv
<1>7. CASE Reread(Server)
  <2>1. /\ pc[Server] = "reread" /\ pc[Server] \in Knowing
        /\ pc' = [pc EXCEPT ![Server] = "saveNext"]
        /\ rows' = rows /\ epoch' = epoch /\ trackedEpoch' = trackedEpoch
        /\ currentEpoch' = currentEpoch
    BY <1>7 DEF Reread, Goto, Knowing
  <2>2. "saveNext" \in Places
    BY DEF Places
  <2>3. QED
    BY <2>1, <2>2, NothingAhead, ServerStep DEF BehindInv, CurrentActiveInv
<1>8. CASE CallFails(Server)
  <2>1. /\ rows' = rows /\ epoch' = epoch
        /\ \/ Rest(Server) /\ trackedEpoch' = trackedEpoch
           \/ pc[Server] \in Populating /\ Close
    BY <1>8 DEF CallFails
  <2>2. CASE Rest(Server) /\ trackedEpoch' = trackedEpoch
    <3>1. pc' = [pc EXCEPT ![Server] = "idle"]
      BY <2>2 DEF Rest, Goto
    <3>2. "idle" \in Places /\ "idle" \notin Knowing
      BY DEF Places, Knowing
    <3>3. QED
      BY <2>1, <2>2, <3>1, <3>2, NothingAhead, ServerStep
  <2>3. CASE pc[Server] \in Populating /\ Close
    <3>1. pc' = [pc EXCEPT ![Script] = "off"] /\ trackedEpoch' = [trackedEpoch EXCEPT ![Script] = NULL]
          /\ currentEpoch' = [currentEpoch EXCEPT ![Script] = 0]
      BY <2>3 DEF Close, Goto
    <3>2. /\ pc'[Server] = pc[Server] /\ pc'[Script] = "off"
          /\ trackedEpoch'[Server] = trackedEpoch[Server]
          /\ currentEpoch'[Server] = currentEpoch[Server]
      BY <3>1, EpochTrackerAssumption DEF IInv, TypeOK, Procs
    <3>3. QED
      BY <2>1, <3>2 DEF UnstartedInv, BehindInv, CurrentActiveInv, AheadInv, Saved, ActiveEpochs
  <2>4. QED
    BY <2>1, <2>2, <2>3
<1>9. QED
  BY <1>2, <1>3, <1>4, <1>5, <1>6, <1>7, <1>8

\* The row of an epoch that has begun is inserted, active: nothing gets ahead.
LEMMA SavesAlone ==
  ASSUME IInv, ServerAlone, InitSave(Server) \/ Save(Server)
  PROVE  ServerAlone'
<1> DEFINE ce == currentEpoch[Server]
           to == IF pc[Server] = "initSave" THEN "saveNext" ELSE "findNext"
<1>1. /\ pc[Server] \in Knowing /\ ~Saved(ce)
      /\ pc' = [pc EXCEPT ![Server] = to] /\ rows' = [rows EXCEPT ![ce] = ChainRow(ce)]
      /\ epoch' = epoch /\ trackedEpoch' = trackedEpoch /\ currentEpoch' = currentEpoch
  BY DEF InitSave, Save, SaveCurrent, Goto, Knowing
<1>2. /\ \A e \in Epochs : Saved(e) => e <= epoch
      /\ ce \in FirstEpoch .. epoch /\ ce \in Epochs /\ ce \in Nat /\ epoch \in Nat
  BY <1>1, NoneAhead
<1>3. rows'[ce] = ChainRow(ce) /\ \A e \in Epochs \ {ce} : rows'[e] = rows[e]
  BY <1>1, <1>2 DEF IInv, TypeOK
<1>4. ce \in ActiveEpochs'
  <2>1. ChainRow(ce).isActive /\ ChainRow(ce) \in Row
    BY <1>2, SlotSteps, EpochTrackerAssumption DEF ChainRow, Row
  <2>2. ChainRow(ce) # NULL
    BY <2>1, EpochTrackerAssumption
  <2>3. QED
    BY <1>2, <1>3, <2>1, <2>2 DEF ActiveEpochs, Saved
<1>5. AheadInv'
  <2> SUFFICES ASSUME NEW e \in Epochs, rows'[e] # NULL, e > epoch PROVE FALSE
    BY <1>1 DEF AheadInv, Saved
  <2>1. e # ce
    BY <1>2, EpochTrackerAssumption
  <2>2. Saved(e)
    BY <1>3, <2>1 DEF Saved
  <2>3. e <= epoch /\ e \in Nat
    BY <1>2, <2>2, EpochTrackerAssumption DEF Epochs
  <2>4. QED
    BY <1>2, <2>3
<1>6. to \in Places /\ to \in {"saveNext", "findNext"}
  BY DEF Places, Checking
<1>7. trackedEpoch'[Server] # NULL => trackedEpoch'[Server] < currentEpoch'[Server]
  BY <1>1 DEF ServerAlone, BehindInv
<1>8. currentEpoch'[Server] = ce
  BY <1>1
<1> HIDE DEF to, ce
<1>9. QED
  BY <1>1, <1>4, <1>5, <1>6, <1>7, <1>8, ServerStep

\* The next row gets ahead when the current epoch is still the chain's: then it is
\* tracked from this step on, and its row is active.
LEMMA SaveNextAlone ==
  ASSUME IInv, ServerAlone, SaveNext(Server)
  PROVE  ServerAlone'
<1> DEFINE ce == currentEpoch[Server]
<1>1. /\ pc[Server] = "saveNext" /\ pc[Server] \in Knowing
      /\ pc' = [pc EXCEPT ![Server] = "idle"] /\ epoch' = epoch
      /\ trackedEpoch' = [trackedEpoch EXCEPT ![Server] = ce]
      /\ rows' = rows \/ rows' = [rows EXCEPT ![ce + 1] = NextRow(Server)]
  BY DEF SaveNext, Rest, Goto, Knowing
<1>2. /\ \A e \in Epochs : Saved(e) => e <= epoch
      /\ ce \in FirstEpoch .. epoch /\ ce \in Epochs /\ ce \in Nat /\ epoch \in Nat
  BY <1>1, NoneAhead
<1>3. \A e \in Epochs : e # ce + 1 => rows'[e] = rows[e]
  BY <1>1 DEF IInv, TypeOK
<1>4. ce \in ActiveEpochs
  BY <1>1 DEF ServerAlone, CurrentActiveInv
<1>5. ce \in ActiveEpochs'
  BY <1>2, <1>3, <1>4 DEF ActiveEpochs, Saved
<1>6. trackedEpoch'[Server] = ce
  BY <1>1 DEF IInv, TypeOK, Procs
<1>7. AheadInv'
  <2> SUFFICES ASSUME NEW e \in Epochs, rows'[e] # NULL, e > epoch
               PROVE  e = epoch + 1 /\ ce = epoch
    BY <1>1, <1>5, <1>6 DEF AheadInv, Saved
  <2>1. e \in Nat
    BY EpochTrackerAssumption DEF Epochs
  <2>2. e = ce + 1
    BY <1>2, <1>3, <2>1 DEF Saved
  <2>3. FirstEpoch \in Nat
    BY EpochTrackerAssumption
  <2>4. QED
    BY <1>2, <2>1, <2>2, <2>3
<1>8. "idle" \in Places /\ "idle" \notin Knowing
  BY DEF Places, Knowing
<1>9. QED
  BY <1>1, <1>7, <1>8, ServerStep

LEMMA FindNextAlone ==
  ASSUME IInv, ServerAlone, FindNext(Server)
  PROVE  ServerAlone'
<1>1. /\ pc[Server] = "findNext" /\ pc[Server] \in Knowing /\ rows' = rows /\ epoch' = epoch
  BY DEF FindNext, Knowing
<1>2. /\ \A e \in Epochs : Saved(e) => e <= epoch
      /\ epoch \in Nat
  BY <1>1, NoneAhead
<1>3. CASE Saved(currentEpoch[Server] + 1)
  <2>1. pc' = [pc EXCEPT ![Server] = "idle"]
    BY <1>3 DEF FindNext, Rest, Goto
  <2>2. AheadInv'
    BY <1>1, <1>2, EpochTrackerAssumption DEF AheadInv, Saved, Epochs
  <2>3. "idle" \in Places /\ "idle" \notin Knowing
    BY DEF Places, Knowing
  <2>4. QED
    BY <2>1, <2>2, <2>3, ServerStep
<1>4. CASE ~Saved(currentEpoch[Server] + 1)
  <2>1. /\ pc' = [pc EXCEPT ![Server] = "reread"] /\ trackedEpoch' = trackedEpoch
        /\ currentEpoch' = currentEpoch
    BY <1>4 DEF FindNext, Goto
  <2>2. "reread" \in Places
    BY DEF Places, Checking
  <2>3. AheadInv' /\ ActiveEpochs' = ActiveEpochs
    BY <1>1, <2>1, NothingAhead DEF ServerAlone
  <2>4. QED
    BY <1>1, <2>1, <2>2, <2>3, ServerStep DEF ServerAlone, BehindInv, CurrentActiveInv
<1>5. QED
  BY <1>3, <1>4

\* The two updates change no row that is ahead: there is none.
LEMMA FlagsAlone ==
  ASSUME IInv, ServerAlone, Deactivate(Server) \/ Activate(Server)
  PROVE  ServerAlone'
<1> DEFINE ce == currentEpoch[Server]
<1>1. /\ pc[Server] \in Knowing /\ epoch' = epoch /\ trackedEpoch' = trackedEpoch
      /\ currentEpoch' = currentEpoch
      /\ \E e, a : SetActive(e, a)
  BY DEF Deactivate, Activate, Knowing
<1>2. /\ \A e \in Epochs : Saved(e) => e <= epoch
      /\ ce \in Epochs /\ epoch \in Nat
  BY <1>1, NoneAhead
<1>3. \A e \in Epochs : rows'[e] # NULL => rows[e] # NULL
  BY <1>1 DEF SetActive, Saved
<1>4. AheadInv'
  BY <1>1, <1>2, <1>3, EpochTrackerAssumption DEF AheadInv, Saved, Epochs
<1>5. trackedEpoch'[Server] # NULL => trackedEpoch'[Server] < currentEpoch'[Server]
  BY <1>1 DEF ServerAlone, BehindInv
<1>6. CASE Deactivate(Server)
  <2>1. pc' = [pc EXCEPT ![Server] = "find"] /\ "find" \in Places
    BY <1>6 DEF Deactivate, Goto, Places, Checking
  <2>2. QED
    BY <1>4, <1>5, <2>1, ServerStep
<1>7. CASE Activate(Server)
  <2>1. /\ pc' = [pc EXCEPT ![Server] = "findNext"] /\ "findNext" \in Places
        /\ pc[Server] \in Holding /\ Server \in Procs
    BY <1>7 DEF Activate, Goto, Places, Checking, Holding, Procs
  <2>2. Saved(ce)
    BY <2>1, Known DEF Saved
  <2>3. rows[ce] \in Row
    BY <1>2, <2>2 DEF Saved, IInv, TypeOK
  <2>4. rows'[ce] = [rows[ce] EXCEPT !.isActive = TRUE]
    BY <1>2, <1>7, <2>2 DEF Activate, SetActive
  <2>5. rows'[ce] \in Row /\ rows'[ce].isActive
    BY <2>3, <2>4 DEF Row
  <2>6. rows'[ce] # NULL
    BY <2>5, EpochTrackerAssumption
  <2>7. ce \in ActiveEpochs'
    BY <1>2, <2>5, <2>6 DEF ActiveEpochs, Saved
  <2>8. QED
    BY <1>1, <1>4, <1>5, <2>1, <2>7, ServerStep
<1>8. QED
  BY <1>6, <1>7

\* The chain goes on: the row that was ahead is that of its new epoch.
LEMMA NextEpochAlone ==
  ASSUME IInv, ServerAlone, NextEpoch
  PROVE  ServerAlone'
<1>1. /\ epoch' = epoch + 1
      /\ UNCHANGED <<rows, pc, trackedEpoch, currentEpoch>>
  BY DEF NextEpoch
<1>2. AheadInv'
  <2> SUFFICES ASSUME NEW e \in Epochs, Saved(e), e > epoch + 1 PROVE FALSE
    BY <1>1 DEF AheadInv, Saved
  <2>1. e \in Nat /\ epoch \in Nat
    BY EpochTrackerAssumption DEF Epochs, IInv, TypeOK
  <2>2. e = epoch + 1
    BY <2>1 DEF ServerAlone, AheadInv
  <2>3. QED
    BY <2>1, <2>2
<1>3. QED
  BY <1>1, <1>2 DEF ServerAlone, UnstartedInv, BehindInv, CurrentActiveInv, Saved, ActiveEpochs

LEMMA InitialAlone == Init => AloneInv
<1> SUFFICES ASSUME Init PROVE ServerAlone
  BY DEF AloneInv
<1>1. /\ pc[Server] = "initProgress" /\ pc[Script] = "off" /\ trackedEpoch[Server] = NULL
      /\ \A e \in Epochs : ~Saved(e)
  BY EpochTrackerAssumption DEF Init, Procs, Saved
<1>2. QED
  BY <1>1 DEF ServerAlone, UnstartedInv, BehindInv, CurrentActiveInv, AheadInv, Knowing

\* Alone, the server takes every step but those of the chain.
LEMMA OnlyServerSteps ==
  ASSUME IInv, AloneInv, [Next]_vars, Alone'
  PROVE  /\ Alone /\ ServerAlone
         /\ \/ Initialise(Server) /\ ~InitFindNext(Server)
            \/ CallFails(Server) \/ CronFires(Server) \/ Check(Server)
            \/ NextEpoch \/ UNCHANGED vars
<1>1. Alone /\ ~RunScript /\ ~Restart
  <2>1. restarts \in Nat /\ scriptRuns \in Nat
    BY EpochTrackerAssumption DEF IInv, TypeOK
  <2>2. ~RunScript /\ ~Restart
    BY <2>1 DEF RunScript, Restart, Alone
  <2>3. restarts' = restarts /\ scriptRuns' = scriptRuns
    BY <2>2 DEF Next, NextEpoch, Initialise, InitProgress, ReadProgress, InitFind, InitSave,
                SaveCurrent, InitFindNext, SaveNext, CallFails, CronFires, Check, Progress,
                Deactivate, Find, Look, Activate, Save, FindNext, Reread, Populates, Populate,
                PopFind, PopSave, PopFindNext, PopSaveNext, vars, bounds
  <2>4. QED
    BY <2>2, <2>3 DEF Alone
<1>2. ServerAlone /\ pc[Script] = "off" /\ pc[Server] # "initFindNext"
  BY <1>1 DEF AloneInv, ServerAlone
<1>3. ~Populates /\ ~Initialise(Script) /\ ~CallFails(Script)
  BY <1>2 DEF Populates, Populate, PopFind, PopSave, PopFindNext, PopSaveNext, Initialise,
              InitProgress, ReadProgress, Look, SaveCurrent, InitFind, InitSave, InitFindNext,
              SaveNext, CallFails, Initialising, Checking, Populating
<1>4. ~InitFindNext(Server)
  BY <1>2 DEF InitFindNext
<1>5. QED
  BY <1>1, <1>2, <1>3, <1>4 DEF Next, Procs

LEMMA StepKeepsAlone == IInv /\ AloneInv /\ [Next]_vars => AloneInv'
<1> SUFFICES ASSUME IInv, AloneInv, [Next]_vars, Alone' PROVE ServerAlone'
  BY DEF AloneInv
<1>1. ServerAlone
  BY OnlyServerSteps
<1>2. CASE \/ Initialise(Server) /\ ~InitFindNext(Server)
           \/ CallFails(Server) \/ CronFires(Server) \/ Check(Server)
  BY <1>1, <1>2, ReadsAlone, SavesAlone, SaveNextAlone, FindNextAlone, FlagsAlone
     DEF Initialise, Check
<1>3. CASE NextEpoch
  BY <1>1, <1>3, NextEpochAlone
<1>4. CASE UNCHANGED vars
  BY <1>1, <1>4 DEF vars, ServerAlone, UnstartedInv, BehindInv, CurrentActiveInv, AheadInv,
                    Saved, ActiveEpochs
<1>5. QED
  BY <1>2, <1>3, <1>4, OnlyServerSteps

\* While one server runs without a restart and no script does, what GET
\* epoch/progress serves has begun, whatever calls fail and however long a check
\* takes: also between its two updates, when no row is active and the highest row
\* is served.
THEOREM NeverServedAhead == Spec => []NeverAhead
<1>1. IInv /\ AloneInv => NeverAhead
  <2> SUFFICES ASSUME IInv, ServerAlone, NEW e \in Served PROVE e <= epoch
    BY DEF AloneInv, NeverAhead
  <2>1. CASE ActiveEpochs # {}
    BY <2>1 DEF Served, IInv, ActiveBegun
  <2>2. CASE ActiveEpochs = {}
    <3>1. e \in Epochs /\ Saved(e)
      BY <2>2 DEF Served
    <3>2. ~(e > epoch)
      BY <2>2, <3>1 DEF ServerAlone, AheadInv
    <3>3. e \in Nat /\ epoch \in Nat
      BY <3>1, EpochTrackerAssumption DEF Epochs, IInv, TypeOK
    <3>4. QED
      BY <3>2, <3>3
  <2>3. QED
    BY <2>1, <2>2
<1>2. QED
  BY <1>1, InitialIInv, StepKeepsIInv, InitialAlone, StepKeepsAlone, PTL DEF Spec
-----------------------------------------------------------------------------
(* What the table says at rest, when no call fails.                         *)
(*                                                                          *)
(* The argument: a check takes the active row away before it makes another  *)
(* active, and no call that fails leaves it half done. The insert of a row  *)
(* cannot fail either: nobody else inserts.                                 *)

\* The active rows, wherever the server is.
ServerCalm ==
  /\ pc[Server] \in {"idle", "progress", "deactivate"} =>
       trackedEpoch[Server] # NULL /\ ActiveEpochs = {trackedEpoch[Server]}
  /\ pc[Server] \in {"find", "activate", "save"} => ActiveEpochs = {}
  /\ pc[Server] = "save" => ~Saved(currentEpoch[Server])
  /\ pc[Server] \in {"findNext", "reread", "saveNext"} => ActiveEpochs = {currentEpoch[Server]}
  /\ pc[Server] \notin {"popSave", "popSaveNext"}

CalmInv == CallsCanFail = FALSE /\ Alone => ServerCalm

LEMMA PlacesAre ==
  {"idle", "initFind", "initSave", "progress", "deactivate", "find", "activate", "save", "findNext",
   "reread", "saveNext"} \subseteq Places
  BY DEF Places, Initialising, Checking

LEMMA CalmStep ==
  ASSUME IInv, NEW at \in Places,
         pc' = [pc EXCEPT ![Server] = at],
         at \in {"idle", "progress", "deactivate"} =>
           trackedEpoch'[Server] # NULL /\ ActiveEpochs' = {trackedEpoch'[Server]},
         at \in {"find", "activate", "save"} => ActiveEpochs' = {},
         at = "save" => rows'[currentEpoch'[Server]] = NULL,
         at \in {"findNext", "reread", "saveNext"} => ActiveEpochs' = {currentEpoch'[Server]},
         at \notin {"popSave", "popSaveNext"}
  PROVE  ServerCalm'
<1>1. pc'[Server] = at
  BY DEF IInv, TypeOK, Procs
<1>2. QED
  BY <1>1 DEF ServerCalm, Saved

LEMMA ReadsCalm ==
  ASSUME IInv, ServerAlone, ServerCalm,
         \/ InitProgress(Server) \/ InitFind(Server) \/ CronFires(Server) \/ Progress(Server)
         \/ Find(Server) \/ FindNext(Server) \/ Reread(Server)
  PROVE  ServerCalm'
<1>1. rows' = rows
  BY DEF InitProgress, ReadProgress, InitFind, CronFires, Progress, Find, Look, FindNext, Reread
<1>2. ActiveEpochs' = ActiveEpochs
  BY <1>1 DEF ActiveEpochs, Saved
<1>3. CASE InitProgress(Server)
  <2>1. pc' = [pc EXCEPT ![Server] = "initFind"]
    BY <1>3 DEF InitProgress, ReadProgress, Goto
  <2>2. QED
    BY <2>1, PlacesAre, CalmStep
<1>4. CASE InitFind(Server)
  <2>1. pc[Server] = "initFind" /\ pc[Server] \in Knowing
    BY <1>4 DEF InitFind, Knowing
  <2>2. ~Saved(currentEpoch[Server])
    BY <2>1, NoneAhead DEF ServerAlone, UnstartedInv
  <2>3. pc' = [pc EXCEPT ![Server] = "initSave"]
    BY <1>4, <2>2 DEF InitFind, Goto
  <2>4. QED
    BY <2>3, PlacesAre, CalmStep
<1>5. CASE CronFires(Server)
  <2>1. pc[Server] = "idle" /\ pc' = [pc EXCEPT ![Server] = "progress"] /\ trackedEpoch' = trackedEpoch
    BY <1>5 DEF CronFires, Goto
  <2>2. QED
    BY <1>2, <2>1, PlacesAre, CalmStep DEF ServerCalm
<1>6. CASE Progress(Server)
  <2>1. pc[Server] = "progress" /\ trackedEpoch' = trackedEpoch /\ trackedEpoch[Server] # NULL
    BY <1>6 DEF Progress, ServerCalm
  <2>2. \E at \in {"idle", "deactivate"} : pc' = [pc EXCEPT ![Server] = at]
    BY <1>6, <2>1 DEF Progress, Goto
  <2>3. QED
    BY <1>2, <2>1, <2>2, PlacesAre, CalmStep DEF ServerCalm
<1>7. CASE Find(Server)
  <2>1. pc[Server] = "find" /\ currentEpoch' = currentEpoch
    BY <1>7 DEF Find, Look
  <2>2. CASE Saved(currentEpoch[Server])
    <3>1. pc' = [pc EXCEPT ![Server] = "activate"]
      BY <1>7, <2>2 DEF Find, Look, Goto
    <3>2. QED
      BY <1>2, <2>1, <3>1, PlacesAre, CalmStep DEF ServerCalm
  <2>3. CASE ~Saved(currentEpoch[Server])
    <3>1. pc' = [pc EXCEPT ![Server] = "save"] /\ rows'[currentEpoch'[Server]] = NULL
      BY <1>1, <1>7, <2>1, <2>3 DEF Find, Look, Goto, Saved
    <3>2. QED
      BY <1>2, <2>1, <3>1, PlacesAre, CalmStep DEF ServerCalm
  <2>4. QED
    BY <2>2, <2>3
<1>8. CASE FindNext(Server)
  <2>1. pc[Server] = "findNext" /\ ActiveEpochs' = {currentEpoch[Server]}
    BY <1>2, <1>8 DEF FindNext, ServerCalm
  <2>2. CASE Saved(currentEpoch[Server] + 1)
    <3>1. /\ pc' = [pc EXCEPT ![Server] = "idle"]
          /\ trackedEpoch' = [trackedEpoch EXCEPT ![Server] = currentEpoch[Server]]
      BY <1>8, <2>2 DEF FindNext, Rest, Goto
    <3>2. trackedEpoch'[Server] = currentEpoch[Server]
      BY <3>1 DEF IInv, TypeOK, Procs
    <3>3. currentEpoch[Server] # NULL
      BY <2>1, NoneAhead, EpochTrackerAssumption DEF Knowing
    <3>4. QED
      BY <2>1, <3>1, <3>2, <3>3, PlacesAre, CalmStep
  <2>3. CASE ~Saved(currentEpoch[Server] + 1)
    <3>1. pc' = [pc EXCEPT ![Server] = "reread"] /\ currentEpoch' = currentEpoch
      BY <1>8, <2>3 DEF FindNext, Goto
    <3>2. QED
      BY <2>1, <3>1, PlacesAre, CalmStep
  <2>4. QED
    BY <2>2, <2>3
<1>9. CASE Reread(Server)
  <2>1. /\ pc[Server] = "reread" /\ pc' = [pc EXCEPT ![Server] = "saveNext"]
        /\ currentEpoch' = currentEpoch
    BY <1>9 DEF Reread, Goto
  <2>2. QED
    BY <1>2, <2>1, PlacesAre, CalmStep DEF ServerCalm
<1>10. QED
  BY <1>3, <1>4, <1>5, <1>6, <1>7, <1>8, <1>9

\* With no active row, the one inserted is the only one.
LEMMA SavesCalm ==
  ASSUME IInv, ServerAlone, ServerCalm, InitSave(Server) \/ Save(Server)
  PROVE  ServerCalm'
<1> DEFINE ce == currentEpoch[Server]
<1>1. /\ pc[Server] \in Knowing /\ ActiveEpochs = {}
      /\ rows' = [rows EXCEPT ![ce] = ChainRow(ce)] /\ currentEpoch' = currentEpoch
  BY DEF InitSave, Save, SaveCurrent, Knowing, ServerCalm, ServerAlone, UnstartedInv, ActiveEpochs
<1>2. ce \in Epochs /\ ce \in Nat
  BY <1>1, NoneAhead
<1>3. rows'[ce] = ChainRow(ce) /\ \A e \in Epochs \ {ce} : rows'[e] = rows[e]
  BY <1>1, <1>2 DEF IInv, TypeOK
<1>4. ChainRow(ce).isActive /\ ChainRow(ce) \in Row
  BY <1>2, SlotSteps, EpochTrackerAssumption DEF ChainRow, Row
<1>5. ChainRow(ce) # NULL
  BY <1>4, EpochTrackerAssumption
<1>6. ActiveEpochs' = {ce}
  BY <1>1, <1>2, <1>3, <1>4, <1>5 DEF ActiveEpochs, Saved
<1>7. \E at \in {"saveNext", "findNext"} : pc' = [pc EXCEPT ![Server] = at]
  BY DEF InitSave, Save, SaveCurrent, Goto
<1>8. QED
  BY <1>1, <1>6, <1>7, PlacesAre, CalmStep

\* The row made ahead of time is not active, and the current one stays so.
LEMMA SaveNextCalm ==
  ASSUME IInv, ServerAlone, ServerCalm, SaveNext(Server)
  PROVE  ServerCalm'
<1> DEFINE ce == currentEpoch[Server]
<1>1. /\ pc[Server] \in Knowing /\ ActiveEpochs = {ce}
      /\ trackedEpoch' = [trackedEpoch EXCEPT ![Server] = ce]
      /\ pc' = [pc EXCEPT ![Server] = "idle"]
      /\ rows' = rows \/ (~Saved(ce + 1) /\ rows' = [rows EXCEPT ![ce + 1] = NextRow(Server)])
  BY DEF SaveNext, Rest, Goto, Knowing, ServerCalm
<1>2. ce \in Epochs /\ ce \in Nat /\ ce # NULL
  BY <1>1, NoneAhead, EpochTrackerAssumption
<1>3. trackedEpoch'[Server] = ce
  BY <1>1 DEF IInv, TypeOK, Procs
<1>4. ActiveEpochs' = ActiveEpochs
  <2>1. CASE rows' = rows
    BY <2>1 DEF ActiveEpochs, Saved
  <2>2. CASE ~Saved(ce + 1) /\ rows' = [rows EXCEPT ![ce + 1] = NextRow(Server)]
    <3>1. \A e \in Epochs : rows'[e] = rows[e] \/ (e = ce + 1 /\ rows'[e] = NextRow(Server))
      BY <2>2 DEF IInv, TypeOK
    <3>2. ~NextRow(Server).isActive
      BY DEF NextRow
    <3>3. QED
      BY <2>2, <3>1, <3>2 DEF ActiveEpochs, Saved
  <2>3. QED
    BY <1>1, <2>1, <2>2
<1> HIDE DEF ce
<1>5. QED
  BY <1>1, <1>2, <1>3, <1>4, PlacesAre, CalmStep

\* The two updates take the active row away and make another one active.
LEMMA FlagsCalm ==
  ASSUME IInv, ServerAlone, ServerCalm, Deactivate(Server) \/ Activate(Server)
  PROVE  ServerCalm'
<1>1. Server \in Procs
  BY DEF Procs
<1>2. ASSUME NEW e, NEW a \in BOOLEAN, SetActive(e, a)
      PROVE  \A f \in Epochs :
               /\ (rows'[f] # NULL /\ f # e) => rows'[f] = rows[f]
               /\ Saved(f) /\ f = e => rows'[f] # NULL /\ rows'[f].isActive = a
               /\ ~Saved(f) => rows'[f] = NULL
  <2>1. ASSUME NEW f \in Epochs, Saved(f), f = e
        PROVE  rows'[f] # NULL /\ rows'[f].isActive = a
    <3>1. rows'[f] = [rows[f] EXCEPT !.isActive = a] /\ rows[f] \in Row
      BY <1>2, <2>1 DEF SetActive, IInv, TypeOK, Saved
    <3>2. rows'[f] \in Row /\ rows'[f].isActive = a
      BY <3>1 DEF Row
    <3>3. QED
      BY <3>2, EpochTrackerAssumption
  <2>2. QED
    BY <1>2, <2>1 DEF SetActive, Saved
<1>3. CASE Deactivate(Server)
  <2>1. /\ pc[Server] = "deactivate" /\ pc' = [pc EXCEPT ![Server] = "find"]
        /\ SetActive(trackedEpoch[Server], FALSE) /\ ActiveEpochs = {trackedEpoch[Server]}
    BY <1>3 DEF Deactivate, Goto, ServerCalm
  <2>2. ActiveEpochs' = {}
    BY <1>2, <2>1 DEF ActiveEpochs, Saved
  <2>3. QED
    BY <2>1, <2>2, PlacesAre, CalmStep
<1>4. CASE Activate(Server)
  <2> DEFINE ce == currentEpoch[Server]
  <2>1. /\ pc[Server] = "activate" /\ pc' = [pc EXCEPT ![Server] = "findNext"]
        /\ SetActive(ce, TRUE) /\ ActiveEpochs = {} /\ currentEpoch' = currentEpoch
    BY <1>4 DEF Activate, Goto, ServerCalm
  <2>2. ce \in Epochs /\ Saved(ce)
    BY <1>1, <2>1, Known DEF Knowing, Holding, Saved
  <2>3. rows'[ce] # NULL /\ rows'[ce].isActive = TRUE
    BY <1>2, <2>1, <2>2
  <2>4. \A f \in Epochs : f # ce => ~(rows'[f] # NULL /\ rows'[f].isActive)
    BY <1>2, <2>1 DEF ActiveEpochs, Saved
  <2>5. ActiveEpochs' = {ce}
    BY <2>2, <2>3, <2>4 DEF ActiveEpochs, Saved
  <2>6. QED
    BY <2>1, <2>5, PlacesAre, CalmStep
<1>5. QED
  BY <1>3, <1>4

LEMMA StepKeepsCalm == IInv /\ AloneInv /\ CalmInv /\ [Next]_vars => CalmInv'
<1> SUFFICES ASSUME IInv, AloneInv, CalmInv, [Next]_vars, CallsCanFail = FALSE, Alone'
             PROVE  ServerCalm'
  BY DEF CalmInv
<1>1. ServerAlone /\ ServerCalm
  BY OnlyServerSteps DEF CalmInv
<1>2. ~CallFails(Server)
  <2>1. pc[Server] \in {"initSave", "save"} => ~Saved(currentEpoch[Server])
    BY <1>1, NoneAhead DEF Knowing, ServerAlone, UnstartedInv, ServerCalm
  <2>2. QED
    BY <1>1, <2>1 DEF CallFails, DuplicateKey, ServerCalm
<1>3. CASE NextEpoch \/ UNCHANGED vars
  BY <1>1, <1>3 DEF NextEpoch, vars, ServerCalm, ActiveEpochs, Saved
<1>4. QED
  BY <1>1, <1>2, <1>3, OnlyServerSteps, ReadsCalm, SavesCalm, SaveNextCalm, FlagsCalm
     DEF Initialise, Check

\* While one server runs without a restart, no script does and no call fails,
\* exactly the row of trackedEpoch is active whenever checkEpochChange is not at
\* work: then getEpochInfoFromDb has one answer, the epoch the server tracks.
THEOREM OneActiveAtRest ==
  ASSUME CallsCanFail = FALSE
  PROVE  Spec => [](Alone /\ pc[Server] = "idle" => Served = {trackedEpoch[Server]})
<1>1. Init => CalmInv
  BY EpochTrackerAssumption DEF Init, CalmInv, ServerCalm, Procs
<1>2. CalmInv /\ Alone /\ pc[Server] = "idle" => Served = {trackedEpoch[Server]}
  BY DEF CalmInv, ServerCalm, Served
<1>3. QED
  BY <1>1, <1>2, InitialIInv, StepKeepsIInv, InitialAlone, StepKeepsAlone, StepKeepsCalm, PTL
     DEF Spec

-----------------------------------------------------------------------------
(* The table keeps the promise of EpochTable.                               *)
(*                                                                          *)
(* The argument: a process writes long after it has read, so each write     *)
(* must be one the table allows in any state it may have reached meanwhile. *)
(* Inserts are guarded by the key. Their bounds come from memory, from the  *)
(* chain or from a row: all agree, as every row of an epoch ends alike.     *)

\* However a row was made, it ends in the first slot of the next epoch.
EndInv == \A e \in Epochs : Saved(e) => rows[e].endSlot = FirstSlot(e + 1)

\* So priorEnd is what it would be if it were read from the row only now.
PriorEndInv ==
  \A p \in Procs : pc[p] \in {"initFindNext", "saveNext"} =>
    priorEnd[p] = FirstSlot(currentEpoch[p] + 1)

\* The epoch whose row is about to be deactivated is over.
OverInv == \A p \in Procs : pc[p] = "deactivate" => trackedEpoch[p] < currentEpoch[p]

TableInv == EndInv /\ PriorEndInv /\ OverInv

TableStep == [Table!Next]_Table!vars

\* Of the table, EpochTable and EpochTracker speak alike.
LEMMA SameTable ==
  /\ Table!Epochs = Epochs
  /\ \A e : (Table!Saved(e) <=> Saved(e)) /\ Table!FirstSlot(e) = FirstSlot(e)
  BY DEF Table!Epochs, Table!Saved, Table!FirstSlot, Epochs, Saved, FirstSlot

LEMMA TableUntouched ==
  ASSUME rows' = rows, epoch' = epoch
  PROVE  TableStep
  BY DEF TableStep, Table!vars

\* Whatever the table allows keeps the ends of its rows.
LEMMA EndsKept ==
  ASSUME IInv, EndInv, TableStep
  PROVE  EndInv'
<1>1. CASE rows' = rows
  BY <1>1 DEF EndInv, Saved, FirstSlot
<1>2. ASSUME NEW e \in Epochs, NEW r \in Row, r.endSlot = FirstSlot(e + 1),
             rows' = [rows EXCEPT ![e] = r]
      PROVE  EndInv'
  <2>1. rows'[e] = r /\ \A f \in Epochs \ {e} : rows'[f] = rows[f]
    BY <1>2 DEF IInv, TypeOK
  <2>2. QED
    BY <1>2, <2>1 DEF EndInv, Saved, FirstSlot
<1>3. ASSUME NEW e \in Epochs, Table!InsertBegun(e)
      PROVE  EndInv'
  <2>1. e \in Nat /\ FirstSlot(e) \in Nat /\ FirstSlot(e + 1) \in Nat
    BY SlotSteps, EpochTrackerAssumption DEF Epochs
  <2>2. rows' = [rows EXCEPT ![e] = [startSlot |-> FirstSlot(e), endSlot |-> FirstSlot(e + 1),
                                     isActive |-> TRUE]]
    BY <1>3, SameTable DEF Table!InsertBegun, Table!Write
  <2>3. QED
    BY <1>2, <2>1, <2>2 DEF Row
<1>4. ASSUME NEW e \in Epochs, Table!InsertNext(e)
      PROVE  EndInv'
  <2>1. e \in Nat /\ e + 1 \in Nat /\ e + 2 = e + 1 + 1 /\ FirstSlot(e + 2) \in Nat
    BY SlotSteps, EpochTrackerAssumption DEF Epochs
  <2>2. Saved(e) /\ rows[e] \in Row /\ rows[e].endSlot + 1 \in Nat
    BY <1>4, SameTable DEF Table!InsertNext, IInv, TypeOK, Saved, Row
  <2>3. rows' = [rows EXCEPT ![e + 1] = [startSlot |-> rows[e].endSlot + 1,
                                         endSlot |-> FirstSlot(e + 2), isActive |-> FALSE]]
    BY <1>4, SameTable DEF Table!InsertNext, Table!Write
  <2>4. e + 1 \in Epochs
    BY <1>4, <2>1, EpochTrackerAssumption DEF Table!InsertNext, Epochs, IInv, TypeOK
  <2>5. QED
    BY <1>2, <2>1, <2>2, <2>3, <2>4 DEF Row
<1>5. ASSUME NEW e \in Epochs, NEW a \in BOOLEAN, Saved(e),
             rows' = [rows EXCEPT ![e] = [rows[e] EXCEPT !.isActive = a]]
      PROVE  EndInv'
  <2>1. rows[e] \in Row /\ rows[e].endSlot = FirstSlot(e + 1)
    BY <1>5 DEF EndInv, IInv, TypeOK, Saved
  <2> DEFINE r == [rows[e] EXCEPT !.isActive = a]
  <2>2. r \in Row /\ r.endSlot = FirstSlot(e + 1)
    BY <2>1 DEF Row
  <2> HIDE DEF r
  <2>3. rows' = [rows EXCEPT ![e] = r]
    BY <1>5 DEF r
  <2>4. QED
    BY <1>2, <2>2, <2>3
<1>6. ASSUME NEW e \in Epochs, Table!Mark(e) \/ Table!Clear(e)
      PROVE  EndInv'
  BY <1>5, <1>6, SameTable DEF Table!Mark, Table!Clear, Table!Write
<1>7. CASE Table!NextEpoch
  BY <1>1, <1>7 DEF Table!NextEpoch
<1>8. QED
  BY <1>1, <1>3, <1>4, <1>6, <1>7, SameTable DEF TableStep, Table!Next, Table!vars

\* A step of one process keeps the invariant if it does to the table what the
\* table allows and what the process then remembers is true.
LEMMA TableInvKept ==
  ASSUME IInv, TableInv, TableStep, NEW p \in Procs, NEW at, NEW tr, NEW ce, NEW pe,
         pc' = [pc EXCEPT ![p] = at],
         trackedEpoch' = [trackedEpoch EXCEPT ![p] = tr],
         currentEpoch' = [currentEpoch EXCEPT ![p] = ce],
         priorEnd' = [priorEnd EXCEPT ![p] = pe],
         at \in {"initFindNext", "saveNext"} => pe = FirstSlot(ce + 1),
         at = "deactivate" => tr < ce
  PROVE  TableInv'
<1>1. /\ pc'[p] = at /\ trackedEpoch'[p] = tr /\ currentEpoch'[p] = ce /\ priorEnd'[p] = pe
      /\ \A q \in Procs \ {p} :
           /\ pc'[q] = pc[q] /\ trackedEpoch'[q] = trackedEpoch[q]
           /\ currentEpoch'[q] = currentEpoch[q] /\ priorEnd'[q] = priorEnd[q]
  BY DEF IInv, TypeOK
<1>2. EndInv'
  BY EndsKept DEF TableInv
<1>3. PriorEndInv'
  <2> SUFFICES ASSUME NEW q \in Procs, pc'[q] \in {"initFindNext", "saveNext"}
               PROVE  priorEnd'[q] = FirstSlot(currentEpoch'[q] + 1)
    BY DEF PriorEndInv, FirstSlot
  <2>1. QED
    BY <1>1 DEF TableInv, PriorEndInv
<1>4. OverInv'
  BY <1>1 DEF TableInv, OverInv
<1>5. QED
  BY <1>2, <1>3, <1>4 DEF TableInv

\* Elsewhere than before the next row is made or a row deactivated, what a process
\* remembers is nothing that is used.
LEMMA ElsewhereKeepsTable ==
  ASSUME IInv, TableInv, TableStep, NEW p \in Procs, NEW at,
         at \notin {"initFindNext", "saveNext", "deactivate"},
         pc' = [pc EXCEPT ![p] = at],
         trackedEpoch' = trackedEpoch \/ \E tr : trackedEpoch' = [trackedEpoch EXCEPT ![p] = tr],
         currentEpoch' = currentEpoch \/ \E ce : currentEpoch' = [currentEpoch EXCEPT ![p] = ce],
         priorEnd' = priorEnd \/ \E pe : priorEnd' = [priorEnd EXCEPT ![p] = pe]
  PROVE  TableInv'
<1>1. PICK tr : trackedEpoch' = [trackedEpoch EXCEPT ![p] = tr]
  BY DEF IInv, TypeOK
<1>2. PICK ce : currentEpoch' = [currentEpoch EXCEPT ![p] = ce]
  BY DEF IInv, TypeOK
<1>3. PICK pe : priorEnd' = [priorEnd EXCEPT ![p] = pe]
  BY DEF IInv, TypeOK
<1>4. QED
  BY <1>1, <1>2, <1>3, TableInvKept

LEMMA RestKeepsTable ==
  ASSUME IInv, TableInv, TableStep, NEW p \in Procs, Rest(p),
         trackedEpoch' = trackedEpoch \/ \E tr : trackedEpoch' = [trackedEpoch EXCEPT ![p] = tr]
  PROVE  TableInv'
<1> DEFINE at == IF p = Server THEN "idle" ELSE "populate"
<1>1. /\ pc' = [pc EXCEPT ![p] = at] /\ currentEpoch' = [currentEpoch EXCEPT ![p] = 0]
      /\ priorEnd' = [priorEnd EXCEPT ![p] = 0]
  BY DEF Rest, Goto
<1>2. at \notin {"initFindNext", "saveNext", "deactivate"}
  OBVIOUS
<1> HIDE DEF at
<1>3. QED
  BY <1>1, <1>2, ElsewhereKeepsTable

LEMMA CloseKeepsTable ==
  ASSUME IInv, TableInv, TableStep, Close
  PROVE  TableInv'
<1>1. Script \in Procs
  BY DEF Procs
<1>2. /\ pc' = [pc EXCEPT ![Script] = "off"]
      /\ trackedEpoch' = [trackedEpoch EXCEPT ![Script] = NULL]
      /\ currentEpoch' = [currentEpoch EXCEPT ![Script] = 0]
      /\ priorEnd' = [priorEnd EXCEPT ![Script] = 0]
  BY DEF Close, Goto
<1>3. QED
  BY <1>1, <1>2, ElsewhereKeepsTable

\* The steps that only read. Where they take priorEnd from a row, its end is known.
LEMMA ReadsKeepTable ==
  ASSUME IInv, TableInv, NEW p \in Procs,
         \/ \E from, to : to \in {"initFind", "popFind"} /\ ReadProgress(p, from, to)
         \/ \E from, e, present, absent :
              /\ {present, absent} \cap {"initFindNext", "saveNext", "deactivate"} = {}
              /\ Look(p, from, e, present, absent)
         \/ InitFind(p) \/ InitFindNext(p) \/ CronFires(p) \/ Progress(p) \/ FindNext(p)
         \/ Reread(p)
  PROVE  TableStep /\ TableInv'
<1>1. rows' = rows /\ epoch' = epoch
  BY DEF ReadProgress, Look, InitFind, InitFindNext, CronFires, Progress, FindNext, Reread
<1>2. TableStep
  BY <1>1, TableUntouched
<1>3. /\ trackedEpoch = [trackedEpoch EXCEPT ![p] = trackedEpoch[p]]
      /\ currentEpoch = [currentEpoch EXCEPT ![p] = currentEpoch[p]]
      /\ priorEnd = [priorEnd EXCEPT ![p] = priorEnd[p]]
  BY DEF IInv, TypeOK
<1>4. ASSUME NEW from, NEW to \in {"initFind", "popFind"}, ReadProgress(p, from, to)
      PROVE  TableInv'
  <2>1. /\ pc' = [pc EXCEPT ![p] = to] /\ currentEpoch' = [currentEpoch EXCEPT ![p] = epoch]
        /\ trackedEpoch' = trackedEpoch /\ priorEnd' = priorEnd
    BY <1>4 DEF ReadProgress, Goto
  <2>2. QED
    BY <1>2, <2>1, ElsewhereKeepsTable
<1>5. ASSUME NEW from, NEW e, NEW present, NEW absent, Look(p, from, e, present, absent),
             {present, absent} \cap {"initFindNext", "saveNext", "deactivate"} = {}
      PROVE  TableInv'
  <2> DEFINE at == IF Saved(e) THEN present ELSE absent
  <2>1. /\ pc' = [pc EXCEPT ![p] = at] /\ currentEpoch' = currentEpoch
        /\ trackedEpoch' = trackedEpoch /\ priorEnd' = priorEnd
    BY <1>5 DEF Look, Goto
  <2>2. at \notin {"initFindNext", "saveNext", "deactivate"}
    BY <1>5
  <2> HIDE DEF at
  <2>3. QED
    BY <1>2, <2>1, <2>2, ElsewhereKeepsTable
<1>6. CASE InitFind(p)
  <2>1. pc[p] \in Knowing /\ currentEpoch' = currentEpoch
    BY <1>6 DEF InitFind, Knowing
  <2>2. CASE Saved(currentEpoch[p])
    <3>1. rows[currentEpoch[p]].endSlot = FirstSlot(currentEpoch[p] + 1)
      BY <2>1, <2>2, Known DEF TableInv, EndInv
    <3>2. /\ pc' = [pc EXCEPT ![p] = "initFindNext"]
          /\ trackedEpoch' = [trackedEpoch EXCEPT ![p] = currentEpoch[p]]
          /\ priorEnd' = [priorEnd EXCEPT ![p] = rows[currentEpoch[p]].endSlot]
      BY <1>6, <2>2 DEF InitFind, Goto
    <3>3. QED
      BY <1>2, <1>3, <2>1, <3>1, <3>2, TableInvKept
  <2>3. CASE ~Saved(currentEpoch[p])
    <3>1. /\ pc' = [pc EXCEPT ![p] = "initSave"]
          /\ trackedEpoch' = trackedEpoch /\ priorEnd' = priorEnd
      BY <1>6, <2>3 DEF InitFind, Goto
    <3>2. QED
      BY <1>2, <2>1, <3>1, ElsewhereKeepsTable
  <2>4. QED
    BY <2>2, <2>3
<1>7. CASE InitFindNext(p)
  <2>1. CASE Saved(currentEpoch[p] + 1)
    BY <1>2, <1>7, <2>1, RestKeepsTable DEF InitFindNext
  <2>2. CASE ~Saved(currentEpoch[p] + 1)
    <3>1. pc[p] = "initFindNext" /\ priorEnd[p] = FirstSlot(currentEpoch[p] + 1)
      BY <1>7 DEF InitFindNext, TableInv, PriorEndInv
    <3>2. QED
      <4>1. /\ pc' = [pc EXCEPT ![p] = "saveNext"] /\ currentEpoch' = currentEpoch
            /\ trackedEpoch' = trackedEpoch /\ priorEnd' = priorEnd
        BY <1>7, <2>2 DEF InitFindNext, Goto
      <4> DEFINE tr == trackedEpoch[p]
                 ce == currentEpoch[p]
                 pe == priorEnd[p]
      <4>2. /\ trackedEpoch' = [trackedEpoch EXCEPT ![p] = tr]
            /\ currentEpoch' = [currentEpoch EXCEPT ![p] = ce]
            /\ priorEnd' = [priorEnd EXCEPT ![p] = pe]
            /\ pe = FirstSlot(ce + 1) /\ pc' = [pc EXCEPT ![p] = "saveNext"]
        BY <1>3, <3>1, <4>1
      <4> HIDE DEF tr, ce, pe
      <4>3. QED
        BY <1>2, <4>2, TableInvKept
  <2>3. QED
    BY <2>1, <2>2
<1>8. CASE CronFires(p)
  <2>1. /\ pc' = [pc EXCEPT ![p] = "progress"] /\ currentEpoch' = currentEpoch
        /\ trackedEpoch' = trackedEpoch /\ priorEnd' = priorEnd
    BY <1>8 DEF CronFires, Goto
  <2>2. QED
    BY <1>2, <2>1, ElsewhereKeepsTable
<1>9. CASE Progress(p)
  <2>1. CASE trackedEpoch[p] = epoch
    <3>1. /\ pc' = [pc EXCEPT ![p] = "idle"] /\ currentEpoch' = currentEpoch
          /\ trackedEpoch' = trackedEpoch /\ priorEnd' = priorEnd
      BY <1>9, <2>1 DEF Progress, Goto
    <3>2. QED
      BY <1>2, <3>1, ElsewhereKeepsTable
  <2>2. CASE trackedEpoch[p] # epoch
    <3>1. trackedEpoch[p] # NULL => trackedEpoch[p] < epoch
      BY <2>2, Known, EpochTrackerAssumption
    <3> DEFINE at == IF trackedEpoch[p] = NULL THEN "find" ELSE "deactivate"
    <3>2. /\ pc' = [pc EXCEPT ![p] = at]
          /\ currentEpoch' = [currentEpoch EXCEPT ![p] = epoch]
          /\ trackedEpoch' = trackedEpoch /\ priorEnd' = priorEnd
      BY <1>9, <2>2 DEF Progress, Goto
    <3>3. /\ at \notin {"initFindNext", "saveNext"}
          /\ at = "deactivate" => trackedEpoch[p] < epoch
      BY <3>1
    <3> HIDE DEF at
    <3>4. QED
      BY <1>2, <1>3, <3>2, <3>3, TableInvKept
  <2>3. QED
    BY <2>1, <2>2
<1>10. CASE FindNext(p)
  <2>1. CASE Saved(currentEpoch[p] + 1)
    BY <1>2, <1>10, <2>1, RestKeepsTable DEF FindNext
  <2>2. CASE ~Saved(currentEpoch[p] + 1)
    <3>1. /\ pc' = [pc EXCEPT ![p] = "reread"] /\ currentEpoch' = currentEpoch
          /\ trackedEpoch' = trackedEpoch /\ priorEnd' = priorEnd
      BY <1>10, <2>2 DEF FindNext, Goto
    <3>2. QED
      BY <1>2, <3>1, ElsewhereKeepsTable
  <2>3. QED
    BY <2>1, <2>2
<1>11. CASE Reread(p)
  <2>1. pc[p] \in Holding /\ pc[p] \in Knowing
    BY <1>11 DEF Reread, Holding, Knowing
  <2>2. rows[currentEpoch[p]].endSlot = FirstSlot(currentEpoch[p] + 1)
    BY <2>1, Known DEF TableInv, EndInv, Saved
  <2>3. /\ pc' = [pc EXCEPT ![p] = "saveNext"]
        /\ priorEnd' = [priorEnd EXCEPT ![p] = rows[currentEpoch[p]].endSlot]
        /\ trackedEpoch' = trackedEpoch /\ currentEpoch' = currentEpoch
    BY <1>11 DEF Reread, Goto
  <2>4. QED
    BY <1>2, <1>3, <2>2, <2>3, TableInvKept
<1>12. QED
  BY <1>2, <1>4, <1>5, <1>6, <1>7, <1>8, <1>9, <1>10, <1>11

\* What a failed call, a restart or the start of the script leaves in memory is
\* nothing that is used.
LEMMA EndsKeepTable ==
  ASSUME IInv, TableInv, (\E p \in Procs : CallFails(p)) \/ Restart \/ RunScript
  PROVE  TableStep /\ TableInv'
<1>1. rows' = rows /\ epoch' = epoch
  BY DEF CallFails, Restart, RunScript
<1>2. TableStep
  BY <1>1, TableUntouched
<1>3. Server \in Procs /\ Script \in Procs
  BY DEF Procs
<1>4. ASSUME NEW p \in Procs, CallFails(p) PROVE TableInv'
  <2>1. CASE Rest(p) /\ trackedEpoch' = trackedEpoch
    BY <1>2, <2>1, RestKeepsTable
  <2>2. QED
    BY <1>2, <1>4, <2>1, CloseKeepsTable DEF CallFails
<1>5. CASE Restart
  <2>1. /\ pc' = [pc EXCEPT ![Server] = "initProgress"]
        /\ trackedEpoch' = [trackedEpoch EXCEPT ![Server] = NULL]
        /\ currentEpoch' = [currentEpoch EXCEPT ![Server] = 0]
        /\ priorEnd' = [priorEnd EXCEPT ![Server] = 0]
    BY <1>5 DEF Restart, Goto
  <2>2. QED
    BY <1>2, <1>3, <2>1, ElsewhereKeepsTable
<1>6. CASE RunScript
  <2>1. /\ pc' = [pc EXCEPT ![Script] = "initProgress"] /\ currentEpoch' = currentEpoch
        /\ trackedEpoch' = trackedEpoch /\ priorEnd' = priorEnd
    BY <1>6 DEF RunScript, Goto
  <2>2. QED
    BY <1>2, <1>3, <2>1, ElsewhereKeepsTable
<1>7. QED
  BY <1>2, <1>4, <1>5, <1>6

\* The chain's row is inserted: its epoch has begun.
LEMMA SaveKeepsTable ==
  ASSUME IInv, TableInv, NEW p \in Procs, NEW from \in Knowing,
         NEW to \in {"saveNext", "findNext", "popFindNext"}, SaveCurrent(p, from, to)
  PROVE  TableStep /\ TableInv'
<1> DEFINE ce == currentEpoch[p]
<1>1. ce \in FirstEpoch .. epoch /\ ce \in Nat /\ ce \in Epochs /\ ~Saved(ce) /\ ce <= epoch
  BY Known, EpochTrackerAssumption DEF SaveCurrent
<1>2. /\ ChainRow(ce) = [startSlot |-> FirstSlot(ce), endSlot |-> FirstSlot(ce + 1),
                         isActive |-> TRUE]
      /\ ChainRow(ce).endSlot = FirstSlot(ce + 1)
  BY <1>1, SlotSteps DEF ChainRow
<1>3. Table!InsertBegun(ce)
  BY <1>1, <1>2, SameTable DEF SaveCurrent, Table!InsertBegun, Table!Write
<1>4. TableStep
  BY <1>1, <1>3, SameTable DEF TableStep, Table!Next
<1>5. /\ trackedEpoch' = [trackedEpoch EXCEPT ![p] = trackedEpoch[p]]
      /\ currentEpoch' = [currentEpoch EXCEPT ![p] = ce]
      /\ pc' = [pc EXCEPT ![p] = to] /\ priorEnd' = [priorEnd EXCEPT ![p] = ChainRow(ce).endSlot]
      /\ to # "deactivate"
  BY DEF SaveCurrent, Goto, IInv, TypeOK
<1> HIDE DEF ce
<1>6. QED
  BY <1>2, <1>4, <1>5, TableInvKept

\* The next row is inserted, or is there already, or the insert fails. The script
\* makes the same row from the chain as the server does from the row before it.
LEMMA NextRowKeepsTable ==
  ASSUME IInv, TableInv, NEW p \in Procs,
         SaveNext(p) \/ (p = Script /\ PopSaveNext)
  PROVE  TableStep /\ TableInv'
<1> DEFINE ce == currentEpoch[p]
           r  == [startSlot |-> FirstSlot(ce + 1) + 1, endSlot |-> FirstSlot(ce + 2),
                  isActive |-> FALSE]
<1>1. pc[p] \in Knowing /\ pc[p] \in Holding
  BY DEF SaveNext, PopSaveNext, Knowing, Holding
<1>2. /\ ce \in FirstEpoch .. epoch /\ ce \in Nat /\ ce \in Epochs /\ ce <= epoch /\ Saved(ce)
      /\ rows[ce].endSlot = FirstSlot(ce + 1)
  BY <1>1, Known, EpochTrackerAssumption DEF Saved, TableInv, EndInv
<1>3. /\ FirstSlot(ce + 1) = FirstSlot(ce) + SlotsInEpoch
      /\ FirstSlot(ce + 2) = FirstSlot(ce + 1) + SlotsInEpoch
  <2>1. ce + 1 \in Nat /\ ce + 1 + 1 = ce + 2
    BY <1>2
  <2>2. QED
    BY <1>2, <2>1, SlotSteps
<1>4. \/ rows' = rows
      \/ ~Saved(ce + 1) /\ rows' = [rows EXCEPT ![ce + 1] = r]
  <2>1. CASE SaveNext(p)
    <3>1. priorEnd[p] = FirstSlot(ce + 1)
      BY <2>1 DEF SaveNext, TableInv, PriorEndInv
    <3>2. NextRow(p) = r
      BY <1>3, <3>1 DEF NextRow
    <3>3. QED
      BY <2>1, <3>2 DEF SaveNext
  <2>2. CASE p = Script /\ PopSaveNext
    <3>1. ChainRow(ce).endSlot = FirstSlot(ce + 1)
      BY <1>3 DEF ChainRow
    <3>2. QED
      BY <1>3, <2>2, <3>1 DEF PopSaveNext
  <2>3. QED
    BY <2>1, <2>2
<1>5. epoch' = epoch
  BY DEF SaveNext, PopSaveNext
<1>6. TableStep
  <2>1. CASE ~Saved(ce + 1) /\ rows' = [rows EXCEPT ![ce + 1] = r]
    <3>1. Table!InsertNext(ce)
      BY <1>2, <1>5, <2>1, SameTable DEF Table!InsertNext, Table!Write
    <3>2. QED
      BY <1>2, <3>1, SameTable DEF TableStep, Table!Next
  <2>2. QED
    BY <1>4, <1>5, <2>1, TableUntouched
<1> HIDE DEF ce, r
<1>7. CASE SaveNext(p)
  BY <1>6, <1>7, RestKeepsTable DEF SaveNext
<1>8. CASE p = Script /\ PopSaveNext
  BY <1>6, <1>8, CloseKeepsTable DEF PopSaveNext
<1>9. QED
  BY <1>6, <1>7, <1>8

\* The two updates: that of an epoch that is over, and that of one that has begun.
LEMMA FlagsKeepTable ==
  ASSUME IInv, TableInv, NEW p \in Procs, Deactivate(p) \/ Activate(p)
  PROVE  TableStep /\ TableInv'
<1>1. ASSUME NEW e \in Epochs, NEW a \in BOOLEAN, Saved(e), SetActive(e, a)
      PROVE  rows' = [rows EXCEPT ![e] = [rows[e] EXCEPT !.isActive = a]]
  BY <1>1 DEF SetActive, IInv, TypeOK
<1>2. /\ trackedEpoch' = [trackedEpoch EXCEPT ![p] = trackedEpoch[p]]
      /\ currentEpoch' = [currentEpoch EXCEPT ![p] = currentEpoch[p]]
      /\ priorEnd' = [priorEnd EXCEPT ![p] = priorEnd[p]]
      /\ epoch' = epoch
  BY DEF Deactivate, Activate, IInv, TypeOK
<1>3. pc[p] \in Knowing
  BY DEF Deactivate, Activate, Knowing
<1>4. CASE Deactivate(p)
  <2> DEFINE e == trackedEpoch[p]
  <2>1. e \in Epochs /\ Saved(e) /\ e < epoch
    <3>1. /\ e # NULL /\ e \in FirstEpoch .. epoch /\ e \in Epochs /\ Saved(e)
      BY <1>4, Known DEF Deactivate, Saved
    <3>2. e < currentEpoch[p] /\ currentEpoch[p] <= epoch /\ currentEpoch[p] \in Nat
      BY <1>3, <1>4, Known, EpochTrackerAssumption DEF Deactivate, TableInv, OverInv
    <3>3. e \in Nat /\ epoch \in Nat
      BY <3>1, Known, EpochTrackerAssumption
    <3>4. QED
      BY <3>1, <3>2, <3>3
  <2>2. SetActive(e, FALSE) /\ pc' = [pc EXCEPT ![p] = "find"]
    BY <1>4 DEF Deactivate, Goto
  <2> HIDE DEF e
  <2>3. Table!Clear(e)
    BY <1>1, <1>2, <2>1, <2>2, SameTable DEF Table!Clear, Table!Write
  <2>4. TableStep
    BY <2>1, <2>3, SameTable DEF TableStep, Table!Next
  <2>5. QED
    BY <1>2, <2>2, <2>4, TableInvKept
<1>5. CASE Activate(p)
  <2> DEFINE e == currentEpoch[p]
  <2>1. e \in Epochs /\ Saved(e) /\ e <= epoch
    BY <1>3, <1>5, Known, EpochTrackerAssumption DEF Activate, Holding, Saved
  <2>2. SetActive(e, TRUE) /\ pc' = [pc EXCEPT ![p] = "findNext"]
    BY <1>5 DEF Activate, Goto
  <2>3. Table!Mark(e)
    BY <1>1, <1>2, <2>1, <2>2, SameTable DEF Table!Mark, Table!Write
  <2>4. TableStep
    BY <2>1, <2>3, SameTable DEF TableStep, Table!Next
  <2>5. QED
    BY <1>2, <2>2, <2>4, TableInvKept
<1>6. QED
  BY <1>4, <1>5

LEMMA StepKeepsTable == IInv /\ TableInv /\ [Next]_vars => TableStep /\ TableInv'
<1> SUFFICES ASSUME IInv, TableInv, [Next]_vars PROVE TableStep /\ TableInv'
  OBVIOUS
<1>1. Server \in Procs /\ Script \in Procs
  BY DEF Procs
<1>2. ASSUME NEW p \in Procs, Initialise(p) PROVE TableStep /\ TableInv'
  <2>1. CASE InitProgress(p)
    BY <2>1, ReadsKeepTable DEF InitProgress
  <2>2. CASE InitSave(p)
    BY <2>2, SaveKeepsTable DEF InitSave, Knowing
  <2>3. QED
    BY <1>2, <2>1, <2>2, ReadsKeepTable, NextRowKeepsTable DEF Initialise
<1>3. ASSUME NEW p \in Procs, Check(p) PROVE TableStep /\ TableInv'
  <2>1. CASE Find(p)
    BY <2>1, ReadsKeepTable DEF Find
  <2>2. CASE Save(p)
    BY <2>2, SaveKeepsTable DEF Save, Knowing
  <2>3. QED
    BY <1>3, <2>1, <2>2, ReadsKeepTable, FlagsKeepTable DEF Check
<1>4. CASE Populates
  <2>1. CASE Populate
    BY <1>1, <2>1, ReadsKeepTable DEF Populate
  <2>2. CASE PopFind
    BY <1>1, <2>2, ReadsKeepTable DEF PopFind
  <2>3. CASE PopSave
    BY <1>1, <2>3, SaveKeepsTable DEF PopSave, Knowing
  <2>4. CASE PopFindNext
    <3>1. TableStep
      BY <2>4, TableUntouched DEF PopFindNext
    <3>2. CASE Saved(currentEpoch[Script] + 1)
      BY <2>4, <3>1, <3>2, CloseKeepsTable DEF PopFindNext
    <3>3. CASE ~Saved(currentEpoch[Script] + 1)
      <4>1. /\ pc' = [pc EXCEPT ![Script] = "popSaveNext"] /\ currentEpoch' = currentEpoch
            /\ trackedEpoch' = trackedEpoch /\ priorEnd' = priorEnd
        BY <2>4, <3>3 DEF PopFindNext, Goto
      <4>2. QED
        BY <1>1, <3>1, <4>1, ElsewhereKeepsTable
    <3>4. QED
      BY <3>2, <3>3
  <2>5. CASE PopSaveNext
    BY <1>1, <2>5, NextRowKeepsTable
  <2>6. QED
    BY <1>4, <2>1, <2>2, <2>3, <2>4, <2>5 DEF Populates
<1>5. CASE (\E p \in Procs : CallFails(p)) \/ Restart \/ RunScript
  BY <1>5, EndsKeepTable
<1>6. CASE CronFires(Server)
  BY <1>1, <1>6, ReadsKeepTable
<1>7. CASE NextEpoch
  <2>1. TableStep
    BY <1>7 DEF NextEpoch, TableStep, Table!Next, Table!NextEpoch
  <2>2. EndInv'
    BY <2>1, EndsKept DEF TableInv
  <2>3. PriorEndInv' /\ OverInv'
    BY <1>7 DEF NextEpoch, TableInv, PriorEndInv, OverInv, FirstSlot
  <2>4. QED
    BY <2>1, <2>2, <2>3 DEF TableInv
<1>8. CASE UNCHANGED vars
  <2>1. TableStep
    BY <1>8, TableUntouched DEF vars
  <2>2. EndInv' /\ PriorEndInv' /\ OverInv'
    BY <1>8 DEF vars, TableInv, EndInv, PriorEndInv, OverInv, Saved, FirstSlot
  <2>3. QED
    BY <2>1, <2>2 DEF TableInv
<1>9. QED
  BY <1>1, <1>2, <1>3, <1>4, <1>5, <1>6, <1>7, <1>8 DEF Next

\* EpochTrackerService, its restarts and the script together implement EpochTable:
\* whatever calls fail, each row is made once, in one of two forms, is never moved
\* or deleted, and is deactivated only when a later epoch has begun.
THEOREM TableIsKept == Spec => TableKept
<1>1. Init => Table!Init
  BY DEF Init, Table!Init, Table!Epochs, Epochs
<1>2. Init => TableInv
  BY DEF Init, TableInv, EndInv, PriorEndInv, OverInv, Saved
<1>3. IInv /\ TableInv /\ [Next]_vars => [Table!Next]_Table!vars
  BY StepKeepsTable DEF TableStep
<1>4. IInv /\ TableInv /\ [Next]_vars => TableInv'
  BY StepKeepsTable
<1>5. QED
  BY <1>1, <1>2, <1>3, <1>4, InitialIInv, StepKeepsIInv, PTL DEF Spec, TableKept, Table!Spec
=============================================================================
