------------------------------- MODULE CrankOps -------------------------------
(***************************************************************************)
(* CrankOpsService (src/src/crank/crank-ops.service.ts) and the page query *)
(* of CrankDataService (crank-data.service.ts).                            *)
(*                                                                         *)
(* An operation sends one transaction per item of a list: the fixed vote   *)
(* accounts for stakeReserve, and for the others the stakedelegation       *)
(* table, read page by page, largest stake first, while other parts of the *)
(* process insert rows. Every await lets an insert in between.             *)
(*                                                                         *)
(* Each page is a fresh query: its window is skip rows after the start of  *)
(* the order as it is then, and rows of equal stake come in any order.     *)
(***************************************************************************)
EXTENDS Integers, FiniteSets

CONSTANTS
  Rows,          \* rows that may ever be in stakedelegation
  InitialRows,   \* those in it when the process starts
  VoteAccounts,  \* the list voteAccount
  Rank,          \* stakedAmount of a row; minus the array index of a vote account
  Malformed,     \* rows whose stakeAccount is not a public key
  Limit,         \* rows of a page
  NULL

ASSUME CrankOpsAssumption ==
  /\ IsFiniteSet(Rows) /\ IsFiniteSet(VoteAccounts) /\ VoteAccounts # {}
  /\ Rows \cap VoteAccounts = {}
  /\ InitialRows \subseteq Rows /\ Malformed \subseteq Rows
  /\ Rank \in [Rows \cup VoteAccounts -> Int]
  /\ Limit \in Nat \ {0}
  /\ NULL # "success"

VARIABLES
  table,           \* stakedelegation: rows are inserted, never deleted
  op,              \* the operation called last
  stage,           \* what it awaits: idle, find, count or a transaction of batch
  skip,            \* (page - 1) * limit
  batch,           \* items of the page still to be processed
  total,           \* stakeDelegations.total
  processedCount,
  outcome,         \* how the operation ended: success, failure, or NULL
  present,         \* history: the items listed when the operation was called
  attempted,       \* history: the items a transaction was sent for
  repeated,        \* history: transactions sent for an item once more
  inserted,        \* history: rows inserted while the operation runs
  window           \* history: the rows before and in the page read last

listing  == <<skip, batch, total, processedCount>>
history  == <<present, attempted, repeated, inserted>>
vars == <<table, op, stage, skip, batch, total, processedCount, outcome,
          present, attempted, repeated, inserted, window>>

Items == Rows \cup VoteAccounts

\* Loops that add to processedCount, and loops that leave it at 0.
CountingOps  == {"updateActive", "updateDeactivated"}
CountlessOps == {"deactivateStake", "mergeStake", "redelegate"}
TableOps     == CountingOps \cup CountlessOps

Least(m, n) == IF m < n THEN m ELSE n

-----------------------------------------------------------------------------
\* ORDER BY stakedAmount DESC: the sets of rows that can come first in the
\* answer, no row left out having a larger stake than one in the set.
Firsts(T) == {S \in SUBSET T : \A r \in S, s \in T : Rank[s] > Rank[r] => s \in S}

\* What the query OFFSET offset LIMIT Limit may answer with: the rows before the
\* page, and the rows up to the end of the page.
Answers(T, offset) ==
  {answer \in Firsts(T) \X Firsts(T) :
     /\ answer[1] \subseteq answer[2]
     /\ Cardinality(answer[1]) = Least(offset, Cardinality(T))
     /\ Cardinality(answer[2]) = Least(offset + Limit, Cardinality(T))}

-----------------------------------------------------------------------------
Init ==
  /\ table = InitialRows
  /\ op = NULL /\ stage = "idle" /\ outcome = NULL
  /\ skip = 0 /\ batch = {} /\ total = 0 /\ processedCount = 0
  /\ present = {} /\ attempted = {}
  /\ repeated = 0 /\ inserted = 0
  /\ window = {}

\* A row is saved by StateService.createStakeDelegation.
Insert(r) ==
  /\ r \in Rows \ table
  /\ table' = table \cup {r}
  /\ inserted' = IF stage = "idle" THEN inserted ELSE inserted + 1
  /\ UNCHANGED <<op, stage, listing, outcome, present, attempted, repeated, window>>

\* The scheduler calls an operation.
Call(o) ==
  /\ stage = "idle"
  /\ op' = o /\ outcome' = NULL
  /\ skip' = 0 /\ total' = 0 /\ processedCount' = 0
  /\ attempted' = {} /\ repeated' = 0 /\ inserted' = 0
  /\ window' = {}
  /\ UNCHANGED table

CallStakeReserve ==
  /\ Call("stakeReserve")
  /\ present' = VoteAccounts
  /\ batch' = VoteAccounts
  /\ stage' = "batch"

CallOnTable(o) ==
  /\ Call(o)
  /\ present' = table
  /\ batch' = {}
  /\ stage' = "find"

\* The rows of a page arrive; the count is a second query.
Find ==
  /\ stage = "find"
  /\ \E answer \in Answers(table, skip) :
       /\ batch' = answer[2] \ answer[1]
       /\ window' = answer[2]
  /\ stage' = "count"
  /\ UNCHANGED <<table, op, skip, total, processedCount, outcome, history>>

End(how) == stage' = "idle" /\ outcome' = how

-----------------------------------------------------------------------------
(* Seeded faults: each is the definition it is named after with a mistake a *)
(* change to the service could make; no specification uses them.            *)

CountOnce ==
  /\ stage = "count"
  /\ total' = IF total = 0 THEN Cardinality(table) ELSE total
  /\ IF batch = {} THEN End("success") ELSE stage' = "batch" /\ UNCHANGED outcome
  /\ UNCHANGED <<table, op, skip, batch, processedCount, history, window>>

CountWaiting ==
  /\ stage = "count"
  /\ total' = Cardinality(table)
  /\ stage' = IF batch = {} THEN "find" ELSE "batch"
  /\ UNCHANGED <<table, op, skip, batch, processedCount, outcome, history, window>>

AfterItemSamePage(left, count) ==
  IF left # {} THEN UNCHANGED <<stage, skip, outcome>>
  ELSE IF op # "stakeReserve" /\ count < total
       THEN stage' = "find" /\ UNCHANGED <<skip, outcome>>
  ELSE End("success") /\ UNCHANGED skip

CountedNever == processedCount

CountedDown == IF op \in CountingOps THEN processedCount - 1 ELSE processedCount

-----------------------------------------------------------------------------
\* The count arrives: an empty page ends the loop.
Count ==
  /\ stage = "count"
  /\ total' = Cardinality(table)
  /\ IF batch = {} THEN End("success") ELSE stage' = "batch" /\ UNCHANGED outcome
  /\ UNCHANGED <<table, op, skip, batch, processedCount, history, window>>

\* The next item of the batch, in the order of the list.
IsNext(i) == i \in batch /\ \A j \in batch : Rank[j] <= Rank[i]

\* After the last item of a page: another page, or the end of the operation.
HasMore(count) == op # "stakeReserve" /\ count < total

AfterItem(left, count) ==
  IF left # {} THEN UNCHANGED <<stage, skip, outcome>>
  ELSE IF HasMore(count) THEN stage' = "find" /\ skip' = skip + Limit /\ UNCHANGED outcome
  ELSE End("success") /\ UNCHANGED skip

Counted == IF op \in CountingOps THEN processedCount + 1 ELSE processedCount

\* One transaction is built and sent. What sendAndConfirmTransaction throws is
\* logged and dropped, so the loop goes on whether or not it took effect.
Process(i) ==
  /\ stage = "batch" /\ IsNext(i) /\ i \notin Malformed
  /\ attempted' = attempted \cup {i}
  /\ repeated' = IF i \in attempted THEN repeated + 1 ELSE repeated
  /\ batch' = batch \ {i}
  /\ processedCount' = Counted
  /\ AfterItem(batch \ {i}, Counted)
  /\ UNCHANGED <<table, op, total, present, inserted, window>>

\* The page query, the public key of the next row, building its transaction or
\* the blockhash request throws: the operation rejects, the rest is not sent.
Reject ==
  /\ stage # "idle"
  /\ End("failure")
  /\ batch' = {}
  /\ UNCHANGED <<table, op, skip, total, processedCount, history, window>>

Step == Find \/ Count \/ (\E i \in Items : Process(i)) \/ Reject

Next ==
  \/ \E r \in Rows : Insert(r)
  \/ CallStakeReserve
  \/ \E o \in TableOps : CallOnTable(o)
  \/ Step

Spec == Init /\ [][Next]_vars

\* What an operation awaits settles.
LiveSpec == Spec /\ WF_vars(Step)

-----------------------------------------------------------------------------
(* Properties.                                                              *)

TypeOK ==
  /\ InitialRows \subseteq table /\ table \subseteq Rows
  /\ op \in TableOps \cup {"stakeReserve", NULL}
  /\ stage \in {"idle", "find", "count", "batch"}
  /\ outcome \in {NULL, "success", "failure"}
  /\ skip \in Nat /\ total \in Nat /\ processedCount \in Nat
  /\ batch \subseteq Items /\ present \subseteq Items
  /\ attempted \subseteq Items
  /\ repeated \in Nat /\ inserted \in Nat
  /\ window \subseteq Rows

DistinctStakes == \A r, s \in Rows : r # s => Rank[r] # Rank[s]

\* An operation that ends well sent a transaction for every item listed when it
\* was called, although rows inserted meanwhile shift the pages under it and
\* one of the loops never counts. It needs the stakes to be distinct.
NoItemSkipped == outcome = "success" => present \subseteq attempted

\* The shift is the only reason to send twice: an operation repeats no more
\* transactions than rows were inserted while it ran.
RepeatsBounded == repeated <= inserted

\* What updateActive and updateDeactivated report as totalProcessed is the
\* number of rows, up to the rows inserted while they ran.
ReportedTotal ==
  outcome = "success" /\ op \in CountingOps =>
    Cardinality(present) <= processedCount /\ processedCount <= Cardinality(present) + inserted

\* The loops that never count still stop: no operation goes on behind the end of
\* the table, or sends more transactions than the table has rows, repeats included.
WorkBounded ==
  /\ skip < Cardinality(table) + Limit
  /\ op \in TableOps => repeated + Cardinality(attempted) <= Cardinality(table)

\* A bound on the awaits an operation may still come to: those of its page, and
\* three for each row that later pages may begin with.
Left ==
  3 * (Cardinality(Rows) + Limit - skip) +
    CASE stage = "find"  -> Limit + 2
      [] stage = "count" -> Limit + 1
      [] stage = "batch" -> Cardinality(batch)
      [] OTHER           -> 0

\* While the table may still grow, everything an operation does brings it nearer
\* to its end, so that it comes to one after a number of awaits known beforehand,
\* whatever is answered and whether or not it counts what it processes.
WorkShrinks ==
  [][stage # "idle" /\ table' = table => stage' = "idle" \/ Left' \in 0 .. Left - 1]_vars

\* Every operation ends, the loops that never count included.
EveryCallEnds == stage # "idle" ~> stage = "idle"
=============================================================================
