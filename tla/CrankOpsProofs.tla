---------------------------- MODULE CrankOpsProofs ----------------------------
(***************************************************************************)
(* Theorems about CrankOps for any table, any page size and any rows       *)
(* inserted at any moment.                                                 *)
(***************************************************************************)
EXTENDS CrankOps, FiniteSetTheorems, TLAPS

\* Every set of items is finite and has a size; a subset is no larger.
LEMMA ItemsFinite ==
  /\ IsFiniteSet(Items)
  /\ \A S \in SUBSET Items : IsFiniteSet(S) /\ Cardinality(S) \in Nat
  /\ \A S \in SUBSET Items : \A T \in SUBSET S :
       Cardinality(T) <= Cardinality(S) /\ (Cardinality(T) = Cardinality(S) => T = S)
<1>1. IsFiniteSet(Items)
  BY CrankOpsAssumption, FS_Union DEF Items
<1>2. \A S \in SUBSET Items : IsFiniteSet(S) /\ Cardinality(S) \in Nat
  BY <1>1, FS_Subset, FS_CardinalityType
<1>3. QED
  BY <1>1, <1>2, FS_Subset

\* One more element makes a set of items larger by one.
LEMMA OneMore ==
  ASSUME NEW S \in SUBSET Items, NEW i \in Items \ S
  PROVE  Cardinality(S \cup {i}) = Cardinality(S) + 1
  BY ItemsFinite, FS_AddElement

\* One element less makes a set of items smaller by one.
LEMMA OneLess ==
  ASSUME NEW S \in SUBSET Items, NEW i \in S
  PROVE  Cardinality(S \ {i}) = Cardinality(S) - 1
  BY ItemsFinite, FS_RemoveElement

LEMMA LeastIs ==
  ASSUME NEW m \in Nat, NEW n \in Nat
  PROVE  /\ Least(m, n) \in Nat
         /\ Least(m, n) <= m /\ Least(m, n) <= n
         /\ Least(m, n) = m \/ Least(m, n) = n
  BY DEF Least

\* A page holds at most Limit rows, ends where the next one starts or with the
\* table, and nothing before it is of a smaller stake than anything after.
LEMMA AnswerShape ==
  ASSUME NEW T \in SUBSET Rows, NEW offset \in Nat, NEW answer \in Answers(T, offset)
  PROVE  /\ answer[1] \in SUBSET T /\ answer[2] \in SUBSET T /\ answer[1] \subseteq answer[2]
         /\ Cardinality(answer[1]) <= offset
         /\ Cardinality(answer[2] \ answer[1]) <= Limit
         /\ answer[2] = T \/ Cardinality(answer[2]) = offset + Limit
         /\ answer[1] = answer[2] => answer[2] = T
         /\ \A r \in answer[1], s \in T : Rank[s] > Rank[r] => s \in answer[1]
         /\ \A r \in answer[2], s \in T : Rank[s] > Rank[r] => s \in answer[2]
<1> DEFINE before == answer[1]
           upto == answer[2]
           n == Cardinality(T)
<1>1. /\ before \in SUBSET T /\ upto \in SUBSET T /\ before \subseteq upto
      /\ \A r \in before, s \in T : Rank[s] > Rank[r] => s \in before
      /\ \A r \in upto, s \in T : Rank[s] > Rank[r] => s \in upto
      /\ Cardinality(before) = Least(offset, n)
      /\ Cardinality(upto) = Least(offset + Limit, n)
  BY DEF Answers, Firsts
<1>2. T \in SUBSET Items /\ n \in Nat /\ Limit \in Nat \ {0} /\ offset + Limit \in Nat
  BY ItemsFinite, CrankOpsAssumption DEF Items
<1>3. Cardinality(upto \ before) = Cardinality(upto) - Cardinality(before)
  <2>1. upto \in SUBSET Items /\ before \in SUBSET Items /\ upto \cap before = before
    BY <1>1, <1>2
  <2>2. IsFiniteSet(upto)
    BY <2>1, ItemsFinite
  <2>3. QED
    BY <2>1, <2>2, FS_Difference
<1>4. upto = T \/ Cardinality(upto) = offset + Limit
  <2>1. Cardinality(upto) = n \/ Cardinality(upto) = offset + Limit
    BY <1>1, <1>2 DEF Least
  <2>2. Cardinality(upto) = n => upto = T
    BY <1>1, <1>2, ItemsFinite
  <2>3. QED
    BY <2>1, <2>2
<1>5. Cardinality(upto \ before) <= Limit /\ Cardinality(before) <= offset
  BY <1>1, <1>2, <1>3 DEF Least
<1>6. before = upto => upto = T
  BY <1>1, <1>2, <1>4, <1>5
<1>7. QED
  BY <1>1, <1>4, <1>5, <1>6

-----------------------------------------------------------------------------
\* Every reachable state is well typed; no row ever leaves the table.
THEOREM TypeCorrect == Spec => []TypeOK
<1>1. Init => TypeOK
  <2> SUFFICES ASSUME Init PROVE TypeOK
    OBVIOUS
  <2>1. /\ InitialRows \subseteq table /\ table \subseteq Rows
        /\ op \in TableOps \cup {"stakeReserve", NULL}
        /\ stage \in {"idle", "find", "count", "batch"}
        /\ outcome \in {NULL, "success", "failure"}
    BY CrankOpsAssumption DEF Init
  <2>2. /\ skip \in Nat /\ total \in Nat /\ processedCount \in Nat
        /\ repeated \in Nat /\ inserted \in Nat
    BY DEF Init
  <2>3. /\ batch \subseteq Items /\ present \subseteq Items
        /\ attempted \subseteq Items
        /\ window \subseteq Rows
    BY DEF Init
  <2>4. QED
    BY <2>1, <2>2, <2>3 DEF TypeOK
<1>2. TypeOK /\ [Next]_vars => TypeOK'
  <2> SUFFICES ASSUME TypeOK, [Next]_vars PROVE TypeOK'
    OBVIOUS
  <2> USE CrankOpsAssumption
  <2>1. ASSUME NEW r \in Rows, Insert(r) PROVE TypeOK'
    BY <2>1 DEF Insert, TypeOK, listing
  <2>2. CASE CallStakeReserve
    BY <2>2 DEF CallStakeReserve, Call, TypeOK, Items
  <2>3. ASSUME NEW o \in TableOps, CallOnTable(o) PROVE TypeOK'
    BY <2>3 DEF CallOnTable, Call, TypeOK, Items
  <2>4. CASE Find
    <3>1. PICK answer \in Answers(table, skip) :
             batch' = answer[2] \ answer[1] /\ window' = answer[2]
      BY <2>4 DEF Find
    <3>2. answer[2] \in SUBSET table
      BY <3>1, AnswerShape DEF TypeOK
    <3>3. batch' \subseteq Items /\ window' \subseteq Rows
      BY <3>1, <3>2 DEF TypeOK, Items
    <3>4. QED
      BY <2>4, <3>3 DEF Find, TypeOK, history
  <2>5. CASE Count
    <3>1. Cardinality(table) \in Nat
      BY ItemsFinite DEF TypeOK, Items
    <3>2. QED
      BY <2>5, <3>1 DEF Count, End, TypeOK, history
  <2>6. ASSUME NEW i \in Items, Process(i) PROVE TypeOK'
    <3>1. /\ stage' \in {"idle", "find", "count", "batch"} /\ outcome' \in {NULL, "success", "failure"}
          /\ skip' \in Nat
      BY <2>6 DEF Process, AfterItem, End, TypeOK
    <3>2. processedCount' \in Nat /\ repeated' \in Nat
      <4>1. processedCount \in Nat /\ repeated \in Nat
        BY DEF TypeOK
      <4>2. processedCount' = Counted
            /\ repeated' = IF i \in attempted THEN repeated + 1 ELSE repeated
        BY <2>6 DEF Process
      <4>3. QED
        BY <4>1, <4>2 DEF Counted
    <3>3. QED
      BY <2>6, <3>1, <3>2 DEF Process, TypeOK
  <2>7. CASE Reject
    BY <2>7 DEF Reject, End, TypeOK, history
  <2>8. CASE UNCHANGED vars
    BY <2>8 DEF vars, TypeOK
  <2>9. QED
    BY <2>1, <2>2, <2>3, <2>4, <2>5, <2>6, <2>7, <2>8 DEF Next, Step
<1>3. QED
  BY <1>1, <1>2, PTL DEF Spec

-----------------------------------------------------------------------------
(* An operation that ends well has left no item out.                        *)
(*                                                                          *)
(* The argument: the rows up to the end of the page read last (window) are  *)
(* in front of every listed row not among them, so when the next page is    *)
(* read, a listed row in front of it that was not in the window would have  *)
(* the whole window in front of it, and the skipped rows would be more than *)
(* skip. And the loop cannot stop early: while a listed row is not in the   *)
(* window, the table is larger than skip + Limit, which processedCount does *)
(* not exceed.                                                              *)

AtWork == stage # "idle"

ReserveInv ==
  op = "stakeReserve" /\ AtWork => stage = "batch" /\ present \subseteq attempted \cup batch

WindowInv ==
  op \in TableOps /\ AtWork =>
    /\ present \subseteq table /\ window \subseteq table
    /\ present \cap window \subseteq attempted \cup batch
    /\ \A w \in window, x \in present \ window : Rank[x] < Rank[w]

FindInv ==
  op \in TableOps /\ stage = "find" =>
    /\ batch = {}
    /\ processedCount <= skip
    /\ present \subseteq window \/ Cardinality(window) >= skip

PageInv ==
  op \in TableOps /\ stage \in {"count", "batch"} =>
    /\ present \subseteq window \/ (Cardinality(window) = skip + Limit /\ batch # {})
    /\ processedCount + Cardinality(batch) <= skip + Limit

BatchInv ==
  op \in TableOps /\ stage = "batch" => present \subseteq window \/ total > skip + Limit

OutcomeInv ==
  /\ AtWork => op \in TableOps \cup {"stakeReserve"}
  /\ outcome = "success" => stage = "idle" /\ present \subseteq attempted

PagingInv == ReserveInv /\ WindowInv /\ FindInv /\ PageInv /\ BatchInv /\ OutcomeInv

\* A page leaves no listed row of the pages before it to be processed, and the
\* listed rows behind it have smaller stakes.
LEMMA FindKeepsPaging ==
  ASSUME DistinctStakes, TypeOK, PagingInv, Find
  PROVE  PagingInv'
<1> USE CrankOpsAssumption
<1>1. PICK answer \in Answers(table, skip) :
         batch' = answer[2] \ answer[1] /\ window' = answer[2]
  BY DEF Find
<1> DEFINE before == answer[1]
<1>2. /\ stage = "find" /\ stage' = "count" /\ op' = op /\ table' = table
      /\ skip' = skip /\ processedCount' = processedCount /\ outcome' = outcome
      /\ present' = present /\ attempted' = attempted /\ total' = total
  BY DEF Find, history
<1>3. op \in TableOps
  BY <1>2 DEF PagingInv, OutcomeInv, ReserveInv, AtWork
<1>4. /\ present \subseteq table /\ window \subseteq table /\ table \in SUBSET Rows
      /\ present \cap window \subseteq attempted
      /\ \A w \in window, x \in present \ window : Rank[x] < Rank[w]
      /\ processedCount <= skip
      /\ present \subseteq window \/ Cardinality(window) >= skip
  BY <1>2, <1>3 DEF PagingInv, WindowInv, FindInv, AtWork, TypeOK
<1>5. skip \in Nat /\ processedCount \in Nat /\ Limit \in Nat \ {0}
  BY DEF TypeOK
<1>6. /\ before \in SUBSET table /\ window' \in SUBSET table /\ before \subseteq window'
      /\ Cardinality(before) <= skip
      /\ Cardinality(batch') <= Limit
      /\ window' = table \/ Cardinality(window') = skip + Limit
      /\ before = window' => window' = table
      /\ \A r \in before, s \in table : Rank[s] > Rank[r] => s \in before
      /\ \A r \in window', s \in table : Rank[s] > Rank[r] => s \in window'
  BY <1>1, <1>4, <1>5, AnswerShape
<1>7. batch' = window' \ before
  BY <1>1
<1>8. present \cap before \subseteq attempted
  <2> SUFFICES ASSUME NEW x \in present \cap before, x \notin window PROVE FALSE
    BY <1>4
  <2>1. window \subseteq before
    <3> SUFFICES ASSUME NEW w \in window PROVE w \in before
      OBVIOUS
    <3>1. Rank[x] < Rank[w] /\ w \in table /\ x \in before
      BY <1>4
    <3>2. Rank[x] \in Int /\ Rank[w] \in Int
      BY <1>4
    <3>3. QED
      BY <1>6, <3>1, <3>2
  <2>2. window \in SUBSET Items /\ before \in SUBSET Items /\ x \in Items
    BY <1>4, <1>6 DEF Items
  <2>3. Cardinality(window \cup {x}) = Cardinality(window) + 1
    BY <2>2, OneMore
  <2>4. Cardinality(window \cup {x}) <= Cardinality(before)
    BY <2>1, <2>2, ItemsFinite
  <2>5. Cardinality(window) \in Nat /\ Cardinality(before) \in Nat
    BY <2>2, ItemsFinite
  <2>6. Cardinality(window) >= skip
    BY <1>4
  <2>7. QED
    BY <1>5, <1>6, <2>3, <2>4, <2>5, <2>6
<1>9. present \cap window' \subseteq attempted \cup batch'
  BY <1>7, <1>8
<1>10. ASSUME NEW w \in window', NEW x \in present \ window' PROVE Rank[x] < Rank[w]
  <2>1. w \in Rows /\ x \in Rows /\ w # x /\ x \in table
    BY <1>4, <1>6
  <2>2. Rank[w] \in Int /\ Rank[x] \in Int /\ Rank[x] # Rank[w]
    BY <2>1 DEF DistinctStakes
  <2>3. ~(Rank[x] > Rank[w])
    BY <1>6, <2>1
  <2>4. QED
    BY <2>2, <2>3
<1>11. present \subseteq window' \/ (Cardinality(window') = skip + Limit /\ batch' # {})
  <2>1. CASE window' = table
    BY <2>1, <1>4
  <2>2. CASE window' # table
    BY <2>2, <1>6, <1>7
  <2>3. QED
    BY <2>1, <2>2
<1>12. processedCount + Cardinality(batch') <= skip + Limit
  <2>1. Cardinality(batch') \in Nat
    <3>1. batch' \in SUBSET Items
      BY <1>4, <1>6, <1>7 DEF Items
    <3>2. QED
      BY <3>1, ItemsFinite
  <2>2. QED
    BY <2>1, <1>4, <1>5, <1>6
<1>13. op # "stakeReserve"
  BY <1>3 DEF TableOps, CountingOps, CountlessOps
<1>14. ReserveInv' /\ FindInv' /\ BatchInv'
  BY <1>2, <1>13 DEF ReserveInv, FindInv, BatchInv
<1>15. WindowInv'
  BY <1>2, <1>4, <1>6, <1>9, <1>10 DEF WindowInv
<1>16. PageInv'
  BY <1>2, <1>11, <1>12 DEF PageInv
<1>17. OutcomeInv'
  BY <1>2, <1>3 DEF PagingInv, OutcomeInv, AtWork
<1>18. QED
  BY <1>14, <1>15, <1>16, <1>17 DEF PagingInv

\* The count bounds the page: rows behind the window make it exceed skip + Limit.
LEMMA CountKeepsPaging ==
  ASSUME TypeOK, PagingInv, Count
  PROVE  PagingInv'
<1> USE CrankOpsAssumption
<1>1. /\ stage = "count" /\ op' = op /\ table' = table /\ window' = window
      /\ skip' = skip /\ processedCount' = processedCount /\ batch' = batch
      /\ present' = present /\ attempted' = attempted /\ total' = Cardinality(table)
      /\ \/ batch = {} /\ stage' = "idle" /\ outcome' = "success"
         \/ batch # {} /\ stage' = "batch" /\ outcome' = outcome
  BY DEF Count, End, history
<1>2. op \in TableOps /\ op # "stakeReserve"
  BY <1>1 DEF PagingInv, OutcomeInv, ReserveInv, AtWork, TableOps, CountingOps, CountlessOps
<1>3. /\ present \subseteq table /\ window \subseteq table /\ table \in SUBSET Rows
      /\ present \cap window \subseteq attempted \cup batch
      /\ present \subseteq window \/ (Cardinality(window) = skip + Limit /\ batch # {})
  BY <1>1, <1>2 DEF PagingInv, WindowInv, PageInv, AtWork, TypeOK
<1>4. present \subseteq window \/ total' > skip + Limit
  <2> SUFFICES ASSUME ~(present \subseteq window) PROVE total' > skip + Limit
    OBVIOUS
  <2>1. table \in SUBSET Items /\ window \in SUBSET table /\ window # table
    BY <1>3 DEF Items
  <2>2. /\ Cardinality(table) \in Nat /\ Cardinality(window) \in Nat
        /\ Cardinality(window) <= Cardinality(table) /\ Cardinality(window) # Cardinality(table)
    BY <2>1, ItemsFinite
  <2>3. skip + Limit \in Nat
    BY DEF TypeOK
  <2>4. QED
    BY <1>1, <1>3, <2>2, <2>3
<1>5. ReserveInv' /\ FindInv'
  BY <1>1, <1>2 DEF ReserveInv, FindInv
<1>6. WindowInv'
  BY <1>1, <1>2 DEF PagingInv, WindowInv, AtWork
<1>7. PageInv'
  BY <1>1, <1>2 DEF PagingInv, PageInv
<1>8. BatchInv'
  BY <1>1, <1>4 DEF BatchInv
<1>9. OutcomeInv'
  BY <1>1, <1>2, <1>3 DEF PagingInv, OutcomeInv, AtWork
<1>10. QED
  BY <1>5, <1>6, <1>7, <1>8, <1>9 DEF PagingInv

\* A transaction moves an item from the batch to the attempted ones; the last
\* one of a page ends the loop only when no listed row is behind the window.
LEMMA ProcessKeepsPaging ==
  ASSUME TypeOK, PagingInv, NEW i \in Items, Process(i)
  PROVE  PagingInv'
<1> USE CrankOpsAssumption
<1> DEFINE left == batch \ {i}
<1>1. /\ stage = "batch" /\ i \in batch /\ op' = op /\ table' = table /\ window' = window
      /\ attempted' = attempted \cup {i} /\ batch' = left /\ processedCount' = Counted
      /\ present' = present /\ total' = total
  BY DEF Process, IsNext
<1>2. /\ \/ left # {} /\ stage' = stage /\ skip' = skip /\ outcome' = outcome
         \/ left = {} /\ HasMore(Counted) /\ stage' = "find" /\ skip' = skip + Limit
              /\ outcome' = outcome
         \/ left = {} /\ ~HasMore(Counted) /\ stage' = "idle" /\ outcome' = "success"
              /\ skip' = skip
  BY DEF Process, AfterItem, End
<1>3. outcome # "success"
  BY <1>1 DEF PagingInv, OutcomeInv
<1>4. CASE op = "stakeReserve"
  <2>1. present \subseteq attempted \cup batch
    BY <1>1, <1>4 DEF PagingInv, ReserveInv, AtWork
  <2>2. ~HasMore(Counted)
    BY <1>4 DEF HasMore
  <2>3. op \notin TableOps
    BY <1>4 DEF TableOps, CountingOps, CountlessOps
  <2>4. ReserveInv' /\ OutcomeInv'
    BY <1>1, <1>2, <1>3, <1>4, <2>1, <2>2 DEF ReserveInv, OutcomeInv, AtWork
  <2>5. WindowInv' /\ FindInv' /\ PageInv' /\ BatchInv'
    BY <1>1, <2>3 DEF WindowInv, FindInv, PageInv, BatchInv
  <2>6. QED
    BY <2>4, <2>5 DEF PagingInv
<1>5. CASE op \in TableOps
  <2>1. op # "stakeReserve"
    BY <1>5 DEF TableOps, CountingOps, CountlessOps
  <2>2. /\ present \subseteq table /\ window \subseteq table
        /\ present \cap window \subseteq attempted \cup batch
        /\ \A w \in window, x \in present \ window : Rank[x] < Rank[w]
        /\ present \subseteq window \/ Cardinality(window) = skip + Limit
        /\ processedCount + Cardinality(batch) <= skip + Limit
        /\ present \subseteq window \/ total > skip + Limit
    BY <1>1, <1>5 DEF PagingInv, WindowInv, PageInv, BatchInv, AtWork
  <2>3. present \cap window \subseteq attempted' \cup batch'
    BY <1>1, <2>2
  <2>4. /\ skip \in Nat /\ total \in Nat /\ processedCount \in Nat /\ batch \in SUBSET Items
        /\ Limit \in Nat \ {0}
    BY DEF TypeOK
  <2>5. /\ Counted \in Nat /\ Counted <= processedCount + 1
        /\ Cardinality(left) = Cardinality(batch) - 1
        /\ Cardinality(left) \in Nat /\ Cardinality(batch) \in Nat
    BY <1>1, <2>4, OneLess, ItemsFinite DEF Counted
  <2>6. Counted + Cardinality(left) <= skip + Limit
    BY <2>2, <2>4, <2>5
  <2>7. Counted <= skip + Limit
    BY <2>4, <2>5, <2>6
  <2>8. ReserveInv'
    BY <1>1, <2>1 DEF ReserveInv
  <2>9. WindowInv'
    BY <1>1, <2>2, <2>3 DEF WindowInv
  <2>10. CASE left # {}
    <3>1. FindInv' /\ OutcomeInv'
      BY <1>1, <1>2, <1>3, <1>5, <2>10 DEF FindInv, OutcomeInv
    <3>2. PageInv' /\ BatchInv'
      BY <1>1, <1>2, <2>2, <2>6, <2>10 DEF PageInv, BatchInv
    <3>3. QED
      BY <2>8, <2>9, <3>1, <3>2 DEF PagingInv
  <2>11. CASE left = {} /\ HasMore(Counted)
    <3>1. stage' = "find" /\ skip' = skip + Limit /\ outcome' = outcome
      BY <1>2, <2>11
    <3>2. present \subseteq window \/ Cardinality(window) >= skip + Limit
      BY <2>2, <2>4
    <3>3. FindInv'
      BY <1>1, <2>7, <2>11, <3>1, <3>2 DEF FindInv
    <3>4. PageInv' /\ BatchInv' /\ OutcomeInv'
      BY <1>1, <1>3, <1>5, <3>1 DEF PageInv, BatchInv, OutcomeInv
    <3>5. QED
      BY <2>8, <2>9, <3>3, <3>4 DEF PagingInv
  <2>12. CASE left = {} /\ ~HasMore(Counted)
    <3>1. stage' = "idle" /\ outcome' = "success"
      BY <1>2, <2>12
    <3>2. ~(Counted < total)
      BY <2>1, <2>12 DEF HasMore
    <3>3. present \subseteq window
      BY <2>2, <2>4, <2>5, <2>7, <3>2
    <3>4. present' \subseteq attempted'
      BY <1>1, <2>3, <2>12, <3>3
    <3>5. FindInv' /\ PageInv' /\ BatchInv' /\ OutcomeInv'
      BY <3>1, <3>4 DEF FindInv, PageInv, BatchInv, OutcomeInv, AtWork
    <3>6. QED
      BY <2>8, <2>9, <3>5 DEF PagingInv
  <2>13. QED
    BY <2>10, <2>11, <2>12
<1>6. QED
  BY <1>1, <1>4, <1>5 DEF PagingInv, OutcomeInv, AtWork

\* Rows inserted while an operation waits are behind or before its window, and
\* a call starts with an empty one.
LEMMA OthersKeepPaging ==
  ASSUME TypeOK, PagingInv,
         \/ \E r \in Rows : Insert(r)
         \/ CallStakeReserve
         \/ \E o \in TableOps : CallOnTable(o)
         \/ Reject
         \/ UNCHANGED vars
  PROVE  PagingInv'
<1> USE CrankOpsAssumption
<1>1. ASSUME NEW r \in Rows, Insert(r) PROVE PagingInv'
  <2>1. /\ op' = op /\ stage' = stage /\ skip' = skip /\ batch' = batch /\ total' = total
        /\ processedCount' = processedCount /\ outcome' = outcome /\ present' = present
        /\ attempted' = attempted /\ window' = window /\ table' = table \cup {r}
    BY <1>1 DEF Insert, listing
  <2>2. ReserveInv' /\ FindInv' /\ PageInv' /\ BatchInv' /\ OutcomeInv'
    BY <2>1 DEF PagingInv, ReserveInv, FindInv, PageInv, BatchInv, OutcomeInv, AtWork
  <2>3. WindowInv'
    BY <2>1 DEF PagingInv, WindowInv, AtWork
  <2>4. QED
    BY <2>2, <2>3 DEF PagingInv
<1>2. CASE CallStakeReserve
  <2>1. op' = "stakeReserve" /\ stage' = "batch" /\ present' = batch' /\ outcome' = NULL
    BY <1>2 DEF CallStakeReserve, Call
  <2>2. op' \notin TableOps
    BY <2>1 DEF TableOps, CountingOps, CountlessOps
  <2>3. TableOps' = TableOps
    OBVIOUS
  <2>4. ReserveInv' /\ OutcomeInv'
    BY <2>1 DEF ReserveInv, OutcomeInv, AtWork
  <2>5. WindowInv' /\ FindInv' /\ PageInv' /\ BatchInv'
    BY <2>2 DEF WindowInv, FindInv, PageInv, BatchInv
  <2>6. QED
    BY <2>4, <2>5 DEF PagingInv
<1>3. ASSUME NEW o \in TableOps, CallOnTable(o) PROVE PagingInv'
  <2>1. /\ op' = o /\ stage' = "find" /\ present' = table /\ batch' = {} /\ window' = {}
        /\ skip' = 0 /\ processedCount' = 0 /\ table' = table /\ outcome' = NULL
    BY <1>3 DEF CallOnTable, Call
  <2>2. o # "stakeReserve"
    BY DEF TableOps, CountingOps, CountlessOps
  <2>3. Cardinality({}) = 0
    BY FS_EmptySet
  <2>4. ReserveInv' /\ WindowInv' /\ OutcomeInv'
    BY <2>1, <2>2 DEF ReserveInv, WindowInv, OutcomeInv, AtWork
  <2>5. FindInv'
    BY <2>1, <2>3 DEF FindInv
  <2>6. PageInv' /\ BatchInv'
    BY <2>1 DEF PageInv, BatchInv
  <2>7. QED
    BY <2>4, <2>5, <2>6 DEF PagingInv
<1>4. CASE Reject
  <2>1. stage' = "idle" /\ outcome' = "failure"
    BY <1>4 DEF Reject, End
  <2>2. QED
    BY <2>1 DEF PagingInv, ReserveInv, WindowInv, FindInv, PageInv, BatchInv, OutcomeInv, AtWork
<1>5. CASE UNCHANGED vars
  BY <1>5 DEF vars, PagingInv, ReserveInv, WindowInv, FindInv, PageInv, BatchInv,
              OutcomeInv, AtWork
<1>6. QED
  BY <1>1, <1>2, <1>3, <1>4, <1>5

LEMMA InitialPaging == Init => PagingInv
  BY CrankOpsAssumption DEF Init, PagingInv, ReserveInv, WindowInv, FindInv, PageInv,
                            BatchInv, OutcomeInv, AtWork

LEMMA StepKeepsPaging ==
  ASSUME DistinctStakes
  PROVE  TypeOK /\ PagingInv /\ [Next]_vars => PagingInv'
  BY FindKeepsPaging, CountKeepsPaging, ProcessKeepsPaging, OthersKeepPaging DEF Next, Step

\* However rows are inserted under it, an operation that ends well sent a
\* transaction for every item listed when it was called, if no two stakes are
\* equal: neither the shifting pages nor a loop that never counts leave one out.
THEOREM NoneSkipped ==
  ASSUME DistinctStakes
  PROVE  Spec => []NoItemSkipped
<1>1. PagingInv => NoItemSkipped
  BY DEF PagingInv, OutcomeInv, NoItemSkipped
<1>2. QED
  BY <1>1, InitialPaging, StepKeepsPaging, TypeCorrect, PTL DEF Spec

-----------------------------------------------------------------------------
(* How much an operation does, and what it reports; stakes may be equal.    *)
(*                                                                          *)
(* The argument: what was sent, repeats included, and what is left of the   *)
(* page never exceed the rows up to the end of the page read last (window), *)
(* because a page brings exactly as many items as the window grows by. A    *)
(* loop that counts has counted what was sent, and is at its offset unless  *)
(* it has counted the table as it was when the operation was called.        *)

\* Where the page read last ends, or ended before the next one is read.
Reach == IF stage = "find" THEN skip ELSE skip + Limit

SizeInv ==
  op \in TableOps /\ AtWork =>
    /\ present \subseteq table /\ window \subseteq table
    /\ Cardinality(table) = Cardinality(present) + inserted
    /\ repeated + Cardinality(attempted) + Cardinality(batch) <= Cardinality(window)
    /\ Cardinality(window) <= Reach
    /\ stage = "find" => batch = {}
    /\ batch # {} => skip < Cardinality(table)

CountInv ==
  op \in CountingOps /\ AtWork =>
    /\ processedCount = repeated + Cardinality(attempted)
    /\ \/ processedCount + Cardinality(batch) = Reach
       \/ processedCount + Cardinality(batch) >= Cardinality(present)
    /\ stage = "count" /\ batch = {} => processedCount >= Cardinality(present)
    /\ stage = "batch" => total >= Cardinality(present)

ReserveOnceInv ==
  op \notin TableOps /\ AtWork =>
    op = "stakeReserve" /\ stage = "batch" /\ repeated = 0 /\ batch \cap attempted = {}

AmountInv ==
  /\ SizeInv /\ CountInv /\ ReserveOnceInv
  /\ outcome = "success" => ~AtWork
  /\ WorkBounded /\ ReportedTotal

\* The exact sizes of a page and of what is in front of it.
LEMMA AnswerSizes ==
  ASSUME NEW T \in SUBSET Rows, NEW offset \in Nat, NEW answer \in Answers(T, offset)
  PROVE  /\ Cardinality(answer[1]) = Least(offset, Cardinality(T))
         /\ Cardinality(answer[2]) = Least(offset + Limit, Cardinality(T))
         /\ Cardinality(answer[2] \ answer[1])
              = Least(offset + Limit, Cardinality(T)) - Least(offset, Cardinality(T))
<1>1. /\ answer[2] \in SUBSET T /\ answer[1] \subseteq answer[2]
      /\ Cardinality(answer[1]) = Least(offset, Cardinality(T))
      /\ Cardinality(answer[2]) = Least(offset + Limit, Cardinality(T))
  BY DEF Answers, Firsts
<1>2. answer[2] \in SUBSET Items /\ answer[2] \cap answer[1] = answer[1]
  BY <1>1 DEF Items
<1>3. IsFiniteSet(answer[2])
  BY <1>2, ItemsFinite
<1>4. QED
  BY <1>1, <1>2, <1>3, FS_Difference

\* The sizes the invariants speak of are numbers.
LEMMA SizesAreNumbers ==
  ASSUME TypeOK
  PROVE  /\ Cardinality(table) \in Nat /\ Cardinality(present) \in Nat
         /\ Cardinality(attempted) \in Nat /\ Cardinality(batch) \in Nat
         /\ Cardinality(window) \in Nat
         /\ skip \in Nat /\ total \in Nat /\ processedCount \in Nat
         /\ repeated \in Nat /\ inserted \in Nat /\ Limit \in Nat \ {0}
<1>1. table \in SUBSET Items /\ window \in SUBSET Items
  BY DEF TypeOK, Items
<1>2. present \in SUBSET Items /\ attempted \in SUBSET Items /\ batch \in SUBSET Items
  BY DEF TypeOK
<1>3. QED
  BY <1>1, <1>2, ItemsFinite, CrankOpsAssumption DEF TypeOK

\* A page brings what the window grows by: nothing when it is behind the table.
LEMMA FindKeepsAmount ==
  ASSUME TypeOK, AmountInv, Find
  PROVE  AmountInv'
<1> DEFINE n == Cardinality(table)
           sent == repeated + Cardinality(attempted)
           m == Cardinality(batch')
<1>1. PICK answer \in Answers(table, skip) :
         batch' = answer[2] \ answer[1] /\ window' = answer[2]
  BY DEF Find
<1>2. /\ stage = "find" /\ stage' = "count" /\ op' = op /\ table' = table
      /\ skip' = skip /\ processedCount' = processedCount /\ outcome' = outcome
      /\ present' = present /\ attempted' = attempted /\ total' = total
      /\ repeated' = repeated /\ inserted' = inserted
  BY DEF Find, history
<1>3. op \in TableOps
  BY <1>2 DEF AmountInv, ReserveOnceInv, AtWork
<1>4. /\ n \in Nat /\ skip \in Nat /\ Limit \in Nat \ {0} /\ sent \in Nat /\ processedCount \in Nat
      /\ Cardinality(window) \in Nat /\ Cardinality(present) \in Nat /\ inserted \in Nat
  BY SizesAreNumbers
<1>5. /\ present \subseteq table /\ window \subseteq table
      /\ n = Cardinality(present) + inserted
      /\ sent + Cardinality(batch) <= Cardinality(window)
      /\ Cardinality(window) <= skip
      /\ batch = {}
  BY <1>2, <1>3 DEF AmountInv, SizeInv, AtWork, Reach
<1>6. Cardinality(batch) = 0
  BY <1>5, FS_EmptySet
<1>7. Cardinality(window) <= n
  <2>1. table \in SUBSET Items
    BY DEF TypeOK, Items
  <2>2. QED
    BY <1>5, <2>1, ItemsFinite
<1>8. /\ window' \in SUBSET table
      /\ Cardinality(window') = Least(skip + Limit, n)
      /\ m = Least(skip + Limit, n) - Least(skip, n)
      /\ batch' \in SUBSET Items
  <2>1. table \in SUBSET Rows
    BY DEF TypeOK
  <2>2. QED
    BY <1>1, <1>4, <2>1, AnswerShape, AnswerSizes DEF Items
<1>9. m \in Nat /\ (batch' = {} => m = 0) /\ (m = 0 => batch' = {})
  BY <1>8, ItemsFinite, FS_EmptySet
<1>10. sent + m <= Cardinality(window') /\ Cardinality(window') <= skip + Limit
  BY <1>4, <1>5, <1>6, <1>7, <1>8 DEF Least
<1>11. batch' # {} => skip < n
  BY <1>4, <1>8, <1>9 DEF Least
<1>12. SizeInv'
  BY <1>2, <1>3, <1>5, <1>8, <1>10, <1>11 DEF SizeInv, Reach
<1>13. CountInv'
  <2> SUFFICES ASSUME op \in CountingOps
               PROVE  /\ processedCount = sent
                      /\ processedCount + m = skip + Limit \/ processedCount + m >= Cardinality(present)
                      /\ batch' = {} => processedCount >= Cardinality(present)
    BY <1>2 DEF CountInv, Reach
  <2>1. /\ processedCount = sent
        /\ processedCount = skip \/ processedCount >= Cardinality(present)
    BY <1>2, <1>4, <1>6 DEF AmountInv, CountInv, AtWork, Reach
  <2>2. processedCount + m = skip + Limit \/ processedCount + m >= Cardinality(present)
    BY <1>4, <1>5, <1>8, <1>9, <2>1 DEF Least
  <2>3. batch' = {} => processedCount >= Cardinality(present)
    BY <1>4, <1>5, <1>8, <1>9, <2>1 DEF Least
  <2>4. QED
    BY <2>1, <2>2, <2>3
<1>14. ReserveOnceInv' /\ WorkBounded' /\ ReportedTotal'
  BY <1>2, <1>3 DEF AmountInv, ReserveOnceInv, WorkBounded, ReportedTotal
<1>15. outcome' # "success"
  BY <1>2 DEF AmountInv, AtWork
<1>16. QED
  BY <1>12, <1>13, <1>14, <1>15 DEF AmountInv

\* The count is of a table that has every row listed when the operation was called.
LEMMA CountKeepsAmount ==
  ASSUME TypeOK, AmountInv, Count
  PROVE  AmountInv'
<1>1. /\ stage = "count" /\ op' = op /\ table' = table /\ window' = window
      /\ skip' = skip /\ processedCount' = processedCount /\ batch' = batch
      /\ present' = present /\ attempted' = attempted /\ total' = Cardinality(table)
      /\ repeated' = repeated /\ inserted' = inserted
      /\ \/ batch = {} /\ stage' = "idle" /\ outcome' = "success"
         \/ batch # {} /\ stage' = "batch" /\ outcome' = outcome
  BY DEF Count, End, history
<1>2. op \in TableOps
  BY <1>1 DEF AmountInv, ReserveOnceInv, AtWork
<1>3. SizeInv /\ WorkBounded /\ CountInv /\ ReportedTotal
  BY DEF AmountInv
<1>4. /\ Cardinality(table) = Cardinality(present) + inserted
      /\ repeated + Cardinality(attempted) + Cardinality(batch) <= Cardinality(window)
      /\ window \subseteq table
  BY <1>1, <1>2, <1>3 DEF SizeInv, AtWork
<1>5. Cardinality(window) <= Cardinality(table)
  <2>1. table \in SUBSET Items
    BY DEF TypeOK, Items
  <2>2. QED
    BY <1>4, <2>1, ItemsFinite
<1>6. SizeInv' /\ ReserveOnceInv' /\ WorkBounded'
  BY <1>1, <1>2, <1>3 DEF SizeInv, ReserveOnceInv, WorkBounded, AtWork, Reach
<1>7. CountInv'
  BY <1>1, <1>3, <1>4, SizesAreNumbers DEF CountInv, AtWork, Reach
<1>8. ReportedTotal'
  <2> SUFFICES ASSUME op \in CountingOps, batch = {}, outcome' = "success"
               PROVE  /\ Cardinality(present) <= processedCount
                      /\ processedCount <= Cardinality(present) + inserted
    BY <1>1, <1>3 DEF ReportedTotal, AmountInv
  <2>1. processedCount = repeated + Cardinality(attempted) /\ processedCount >= Cardinality(present)
    BY <1>1, <1>3 DEF CountInv, AtWork
  <2>2. QED
    BY <1>4, <1>5, <2>1, SizesAreNumbers
<1>9. outcome' = "success" => ~AtWork'
  BY <1>1 DEF AmountInv, AtWork
<1>10. QED
  BY <1>6, <1>7, <1>8, <1>9 DEF AmountInv

\* A transaction is one more item attempted or one more repeated, and one less in
\* the batch.
LEMMA ProcessAmounts ==
  ASSUME TypeOK, NEW i \in Items, Process(i)
  PROVE  /\ repeated' + Cardinality(attempted') = repeated + Cardinality(attempted) + 1
         /\ Cardinality(batch') = Cardinality(batch) - 1
         /\ repeated' \in Nat /\ Cardinality(attempted') \in Nat /\ Cardinality(batch') \in Nat
<1>1. /\ i \in batch /\ batch' = batch \ {i} /\ attempted' = attempted \cup {i}
      /\ repeated' = IF i \in attempted THEN repeated + 1 ELSE repeated
  BY DEF Process, IsNext
<1>2. /\ batch \in SUBSET Items /\ attempted \in SUBSET Items /\ batch' \in SUBSET Items
      /\ attempted' \in SUBSET Items
  BY <1>1 DEF TypeOK
<1>3. Cardinality(batch') = Cardinality(batch) - 1 /\ Cardinality(batch') \in Nat
  BY <1>1, <1>2, OneLess, ItemsFinite
<1>4. Cardinality(attempted') \in Nat
  BY <1>2, ItemsFinite
<1>5. repeated \in Nat /\ Cardinality(attempted) \in Nat
  BY SizesAreNumbers
<1>6. CASE i \in attempted
  <2>1. attempted' = attempted /\ repeated' = repeated + 1
    BY <1>1, <1>6
  <2>2. Cardinality(attempted') = Cardinality(attempted)
    BY <2>1
  <2>3. QED
    BY <1>3, <1>4, <1>5, <2>1, <2>2
<1>7. CASE i \notin attempted
  <2>1. Cardinality(attempted') = Cardinality(attempted) + 1
    BY <1>1, <1>2, <1>7, OneMore
  <2>2. repeated' = repeated
    BY <1>1, <1>7
  <2>3. QED
    BY <1>3, <1>4, <1>5, <2>1, <2>2
<1>8. QED
  BY <1>6, <1>7

\* The last transaction of the last page ends a loop that counts at the count, or
\* above it: by then every row listed at the call has been counted.
LEMMA ProcessKeepsAmount ==
  ASSUME TypeOK, AmountInv, NEW i \in Items, Process(i)
  PROVE  AmountInv'
<1> DEFINE left == batch \ {i}
<1>1. /\ stage = "batch" /\ i \in batch /\ op' = op /\ table' = table /\ window' = window
      /\ attempted' = attempted \cup {i} /\ batch' = left /\ processedCount' = Counted
      /\ present' = present /\ total' = total /\ inserted' = inserted
      /\ repeated' = IF i \in attempted THEN repeated + 1 ELSE repeated
  BY DEF Process, IsNext
<1>2. /\ \/ left # {} /\ stage' = stage /\ skip' = skip /\ outcome' = outcome
         \/ left = {} /\ HasMore(Counted) /\ stage' = "find" /\ skip' = skip + Limit
              /\ outcome' = outcome
         \/ left = {} /\ ~HasMore(Counted) /\ stage' = "idle" /\ outcome' = "success"
              /\ skip' = skip
  BY DEF Process, AfterItem, End
<1>3. /\ SizeInv /\ CountInv /\ ReserveOnceInv /\ WorkBounded /\ ReportedTotal
      /\ outcome # "success" /\ (outcome' = "success" => ~AtWork')
  BY <1>1, <1>2 DEF AmountInv, AtWork
<1>4. CASE op \notin TableOps
  <2>1. op = "stakeReserve" /\ repeated = 0 /\ batch \cap attempted = {}
    BY <1>1, <1>3, <1>4 DEF ReserveOnceInv, AtWork
  <2>2. ~HasMore(Counted)
    BY <2>1 DEF HasMore
  <2>3. op \notin CountingOps
    BY <1>4 DEF TableOps
  <2>4. SizeInv' /\ CountInv' /\ ReportedTotal'
    BY <1>1, <1>4, <2>3 DEF SizeInv, CountInv, ReportedTotal
  <2>5. ReserveOnceInv'
    BY <1>1, <1>2, <2>1, <2>2 DEF ReserveOnceInv, AtWork
  <2>6. WorkBounded'
    BY <1>1, <1>2, <1>3, <1>4, <2>2 DEF WorkBounded
  <2>7. QED
    BY <1>3, <2>4, <2>5, <2>6 DEF AmountInv
<1>5. CASE op \in TableOps
  <2>1. /\ present \subseteq table /\ window \subseteq table
        /\ Cardinality(table) = Cardinality(present) + inserted
        /\ repeated + Cardinality(attempted) + Cardinality(batch) <= Cardinality(window)
        /\ Cardinality(window) <= skip + Limit
        /\ skip < Cardinality(table)
    BY <1>1, <1>3, <1>5 DEF SizeInv, AtWork, Reach
  <2>2. Cardinality(window) <= Cardinality(table)
    <3>1. table \in SUBSET Items
      BY DEF TypeOK, Items
    <3>2. QED
      BY <2>1, <3>1, ItemsFinite
  <2>3. repeated' + Cardinality(attempted') + Cardinality(batch') <= Cardinality(window)
    BY <2>1, ProcessAmounts, SizesAreNumbers
  <2>4. left = {} => Cardinality(batch') = 0
    BY <1>1, FS_EmptySet
  <2>5. SizeInv'
    <3>1. batch' # {} => skip' = skip /\ stage' = "batch"
      BY <1>1, <1>2
    <3>2. stage' # "idle" => Cardinality(window) <= Reach'
      BY <1>1, <1>2, <2>1 DEF Reach
    <3>3. QED
      BY <1>1, <2>1, <2>3, <3>1, <3>2 DEF SizeInv, AtWork
  <2>6. WorkBounded'
    <3>1. skip' < Cardinality(table') + Limit
      BY <1>1, <1>2, <2>1, SizesAreNumbers
    <3>2. repeated' + Cardinality(attempted') <= Cardinality(table)
      <4>1. /\ repeated' \in Nat /\ Cardinality(attempted') \in Nat /\ Cardinality(batch') \in Nat
            /\ Cardinality(window) \in Nat /\ Cardinality(table) \in Nat
        BY ProcessAmounts, SizesAreNumbers
      <4>2. QED
        BY <2>2, <2>3, <4>1
    <3>3. QED
      BY <1>1, <3>1, <3>2 DEF WorkBounded
  <2>7. ReserveOnceInv'
    BY <1>1, <1>5 DEF ReserveOnceInv
  <2>8. CASE op \in CountingOps
    <3>1. /\ processedCount = repeated + Cardinality(attempted)
          /\ \/ processedCount + Cardinality(batch) = skip + Limit
             \/ processedCount + Cardinality(batch) >= Cardinality(present)
          /\ total >= Cardinality(present)
      BY <1>1, <1>3, <2>8 DEF CountInv, AtWork, Reach
    <3>2. /\ processedCount' = processedCount + 1
          /\ processedCount' = repeated' + Cardinality(attempted')
          /\ \/ processedCount' + Cardinality(batch') = skip + Limit
             \/ processedCount' + Cardinality(batch') >= Cardinality(present)
      <4>1. processedCount' = processedCount + 1
        BY <1>1, <2>8 DEF Counted
      <4>2. /\ repeated' + Cardinality(attempted') = repeated + Cardinality(attempted) + 1
            /\ Cardinality(batch') = Cardinality(batch) - 1 /\ Cardinality(batch') \in Nat
        BY ProcessAmounts
      <4>3. processedCount \in Nat /\ Cardinality(batch) \in Nat
        BY SizesAreNumbers
      <4>4. processedCount' + Cardinality(batch') = processedCount + Cardinality(batch)
        BY <4>1, <4>2, <4>3
      <4>5. processedCount' = repeated' + Cardinality(attempted')
        BY <3>1, <4>1, <4>2
      <4>6. QED
        BY <3>1, <4>1, <4>4, <4>5
    <3>3. stage' \in {"batch", "find", "idle"} /\ (stage' = "batch" => skip' = skip)
            /\ (stage' = "find" => skip' = skip + Limit)
      BY <1>1, <1>2
    <3>4. CountInv'
      BY <1>1, <3>1, <3>2, <3>3 DEF CountInv, AtWork, Reach
    <3>5. ReportedTotal'
      <4> SUFFICES ASSUME outcome' = "success"
                   PROVE  /\ Cardinality(present) <= processedCount'
                          /\ processedCount' <= Cardinality(present) + inserted
        BY <1>1 DEF ReportedTotal
      <4>1. processedCount' <= Cardinality(table)
        BY <2>2, <2>3, <3>2, ProcessAmounts, SizesAreNumbers
      <4>2. CASE left = {} /\ ~HasMore(Counted)
        <5>1. op # "stakeReserve"
          BY <2>8 DEF CountingOps
        <5>2. ~(processedCount' < total)
          BY <1>1, <4>2, <5>1 DEF HasMore
        <5>3. processedCount' \in Nat
          BY <3>2, SizesAreNumbers
        <5>4. QED
          BY <2>1, <3>1, <4>1, <5>2, <5>3, SizesAreNumbers
      <4>3. left = {} /\ ~HasMore(Counted)
        BY <1>2, <1>3
      <4>4. QED
        BY <4>2, <4>3
    <3>6. QED
      BY <1>3, <2>5, <2>6, <2>7, <3>4, <3>5 DEF AmountInv
  <2>9. CASE op \notin CountingOps
    <3>1. CountInv' /\ ReportedTotal'
      BY <1>1, <2>9 DEF CountInv, ReportedTotal
    <3>2. QED
      BY <1>3, <2>5, <2>6, <2>7, <3>1 DEF AmountInv
  <2>10. QED
    BY <2>8, <2>9
<1>6. QED
  BY <1>4, <1>5

\* An inserted row adds one to the table and to what was inserted; nothing that was
\* read or counted changes.
LEMMA InsertKeepsAmount ==
  ASSUME TypeOK, AmountInv, NEW r \in Rows, Insert(r)
  PROVE  AmountInv'
<1>1. /\ op' = op /\ stage' = stage /\ skip' = skip /\ batch' = batch /\ total' = total
      /\ processedCount' = processedCount /\ outcome' = outcome /\ present' = present
      /\ attempted' = attempted /\ window' = window /\ repeated' = repeated
      /\ table' = table \cup {r} /\ r \notin table
      /\ inserted' = IF stage = "idle" THEN inserted ELSE inserted + 1
  BY DEF Insert, listing
<1>2. Cardinality(table') = Cardinality(table) + 1
  <2>1. table \in SUBSET Items /\ r \in Items \ table
    BY <1>1 DEF TypeOK, Items
  <2>2. QED
    BY <1>1, <2>1, OneMore
<1>3. SizeInv'
  BY <1>1, <1>2, SizesAreNumbers DEF AmountInv, SizeInv, AtWork, Reach
<1>4. CountInv' /\ ReserveOnceInv' /\ (outcome' = "success" => ~AtWork')
  BY <1>1 DEF AmountInv, CountInv, ReserveOnceInv, AtWork, Reach
<1>5. WorkBounded'
  BY <1>1, <1>2, SizesAreNumbers DEF AmountInv, WorkBounded
<1>6. ReportedTotal'
  BY <1>1 DEF AmountInv, ReportedTotal, AtWork
<1>7. QED
  BY <1>3, <1>4, <1>5, <1>6 DEF AmountInv

\* A call starts with nothing sent, counted or read.
LEMMA CallKeepsAmount ==
  ASSUME TypeOK, AmountInv, CallStakeReserve \/ \E o \in TableOps : CallOnTable(o)
  PROVE  AmountInv'
<1>1. /\ outcome' = NULL /\ skip' = 0 /\ processedCount' = 0 /\ attempted' = {}
      /\ repeated' = 0 /\ inserted' = 0 /\ window' = {} /\ table' = table
  BY DEF CallStakeReserve, CallOnTable, Call
<1>2. Cardinality(attempted') = 0 /\ Cardinality(window') = 0
  BY <1>1, FS_EmptySet
<1>3. NULL # "success"
  BY CrankOpsAssumption
<1>4. WorkBounded' /\ ReportedTotal' /\ outcome' # "success"
  BY <1>1, <1>2, <1>3, SizesAreNumbers DEF WorkBounded, ReportedTotal
<1>5. CASE CallStakeReserve
  <2>1. op' = "stakeReserve" /\ stage' = "batch"
    BY <1>5 DEF CallStakeReserve, Call
  <2>2. op' \notin TableOps /\ op' \notin CountingOps
    BY <2>1 DEF TableOps, CountingOps, CountlessOps
  <2>3. SizeInv' /\ CountInv' /\ ReserveOnceInv'
    BY <1>1, <2>1, <2>2 DEF SizeInv, CountInv, ReserveOnceInv
  <2>4. QED
    BY <1>4, <2>3 DEF AmountInv
<1>6. ASSUME NEW o \in TableOps, CallOnTable(o) PROVE AmountInv'
  <2>1. op' \in TableOps /\ stage' = "find" /\ present' = table /\ batch' = {}
    BY <1>6 DEF CallOnTable, Call
  <2>2. Cardinality(batch') = 0
    BY <2>1, FS_EmptySet
  <2>3. SizeInv'
    BY <1>1, <1>2, <2>1, <2>2, SizesAreNumbers DEF SizeInv, Reach
  <2>4. CountInv' /\ ReserveOnceInv'
    BY <1>1, <1>2, <2>1, <2>2, SizesAreNumbers DEF CountInv, ReserveOnceInv, Reach
  <2>5. QED
    BY <1>4, <2>3, <2>4 DEF AmountInv
<1>7. QED
  BY <1>5, <1>6

LEMMA RejectKeepsAmount ==
  ASSUME TypeOK, AmountInv, Reject
  PROVE  AmountInv'
<1>1. /\ stage' = "idle" /\ outcome' = "failure" /\ table' = table /\ op' = op /\ skip' = skip
      /\ repeated' = repeated /\ attempted' = attempted
  BY DEF Reject, End, history
<1>2. QED
  BY <1>1 DEF AmountInv, SizeInv, CountInv, ReserveOnceInv, WorkBounded, ReportedTotal, AtWork

LEMMA InitialAmounts == Init => AmountInv
<1> SUFFICES ASSUME Init PROVE AmountInv
  OBVIOUS
<1>1. stage = "idle" /\ outcome = NULL /\ NULL # "success" /\ op = NULL
  BY CrankOpsAssumption DEF Init
<1>2. skip = 0 /\ repeated = 0 /\ attempted = {} /\ table = InitialRows
  BY DEF Init
<1>3. Cardinality(attempted) = 0 /\ Cardinality(table) \in Nat /\ Limit \in Nat \ {0}
  BY <1>2, FS_EmptySet, ItemsFinite, CrankOpsAssumption DEF Items
<1>4. WorkBounded
  BY <1>2, <1>3 DEF WorkBounded
<1>5. QED
  BY <1>1, <1>4 DEF AmountInv, SizeInv, CountInv, ReserveOnceInv, ReportedTotal, AtWork

LEMMA StepKeepsAmount == TypeOK /\ AmountInv /\ [Next]_vars => AmountInv'
<1> SUFFICES ASSUME TypeOK, AmountInv, [Next]_vars PROVE AmountInv'
  OBVIOUS
<1>1. CASE UNCHANGED vars
  BY <1>1 DEF vars, AmountInv, SizeInv, CountInv, ReserveOnceInv, WorkBounded, ReportedTotal,
              AtWork, Reach
<1>2. QED
  BY <1>1, FindKeepsAmount, CountKeepsAmount, ProcessKeepsAmount, InsertKeepsAmount,
     CallKeepsAmount, RejectKeepsAmount DEF Next, Step

\* For any table and page size, equal stakes included: what updateActive and
\* updateDeactivated report as totalProcessed is between the rows there were at the
\* call and the rows there are at the end, although counted page by page.
THEOREM TotalsReported == Spec => []ReportedTotal
<1>1. AmountInv => ReportedTotal
  BY DEF AmountInv
<1>2. QED
  BY <1>1, InitialAmounts, StepKeepsAmount, TypeCorrect, PTL DEF Spec

\* No operation reads on behind the table or sends more transactions than the table
\* has rows, the loops included whose own count stays at 0.
THEOREM WorkIsBounded == Spec => []WorkBounded
<1>1. AmountInv => WorkBounded
  BY DEF AmountInv
<1>2. QED
  BY <1>1, InitialAmounts, StepKeepsAmount, TypeCorrect, PTL DEF Spec

-----------------------------------------------------------------------------
(* How much an operation repeats, where no two stakes are equal: the listed *)
(* rows of the window were all attempted or still are in the batch, so what *)
(* was sent beyond them went to rows inserted meanwhile.                    *)

\* What a transaction leaves behind, in sizes.
LEMMA RepeatsAreInserts ==
  ASSUME DistinctStakes, TypeOK, PagingInv, AmountInv, op \in TableOps, stage = "batch",
         NEW i \in Items, Process(i)
  PROVE  repeated' <= inserted
<1>1. /\ i \in batch /\ batch' = batch \ {i} /\ attempted' = attempted \cup {i}
  BY DEF Process, IsNext
<1>2. /\ present \subseteq table /\ window \subseteq table
      /\ present \cap window \subseteq attempted' \cup batch'
  BY <1>1 DEF PagingInv, WindowInv, AtWork
<1>3. /\ Cardinality(table) = Cardinality(present) + inserted
      /\ repeated + Cardinality(attempted) + Cardinality(batch) <= Cardinality(window)
  BY DEF AmountInv, SizeInv, AtWork
<1>4. repeated' + Cardinality(attempted') + Cardinality(batch') <= Cardinality(window)
  BY <1>3, ProcessAmounts, SizesAreNumbers
<1>5. /\ table \in SUBSET Items /\ window \in SUBSET Items /\ present \in SUBSET Items
      /\ attempted' \in SUBSET Items /\ batch' \in SUBSET Items
  BY <1>1, <1>2 DEF TypeOK, Items
<1> DEFINE Reached == attempted' \cup batch'
           Others  == window \ present
<1>6. IsFiniteSet(attempted') /\ IsFiniteSet(batch') /\ IsFiniteSet(Reached) /\ IsFiniteSet(window)
        /\ IsFiniteSet(table) /\ Reached \in SUBSET Items
        /\ Others \in SUBSET Items /\ table \ present \in SUBSET Items
  BY <1>5, ItemsFinite
<1>7. Cardinality(Reached) <= Cardinality(attempted') + Cardinality(batch')
  <2>1. attempted' \cap batch' \in SUBSET Items
    BY <1>5
  <2>2. /\ Cardinality(attempted') \in Nat /\ Cardinality(batch') \in Nat
        /\ Cardinality(attempted' \cap batch') \in Nat
    BY <1>5, <2>1, ItemsFinite
  <2>3. Cardinality(Reached) =
          Cardinality(attempted') + Cardinality(batch') - Cardinality(attempted' \cap batch')
    BY <1>6, FS_Union
  <2>4. QED
    BY <2>2, <2>3
<1>8. Cardinality(window) = Cardinality(window \cap present) + Cardinality(Others)
  <2>1. window \cap present \in SUBSET Items
    BY <1>5
  <2>2. /\ Cardinality(window) \in Nat /\ Cardinality(window \cap present) \in Nat
    BY <1>5, <2>1, ItemsFinite
  <2>3. Cardinality(Others) = Cardinality(window) - Cardinality(window \cap present)
    BY <1>6, FS_Difference
  <2>4. Cardinality(Others) \in Nat
    BY <1>6, ItemsFinite
  <2>5. QED
    BY <2>2, <2>3, <2>4
<1>9. Cardinality(window \cap present) <= Cardinality(Reached)
  BY <1>2, <1>6, ItemsFinite
<1>10. Cardinality(Others) <= Cardinality(table \ present)
  BY <1>2, <1>6, ItemsFinite
<1>11. Cardinality(table \ present) = inserted
  <2>1. table \cap present = present
    BY <1>2
  <2>2. Cardinality(table \ present) = Cardinality(table) - Cardinality(present)
    BY <1>6, <2>1, FS_Difference
  <2>3. Cardinality(present) \in Nat /\ inserted \in Nat
    BY SizesAreNumbers
  <2>4. QED
    BY <1>3, <2>2, <2>3
<1>12. /\ Cardinality(window \cap present) \in Nat /\ Cardinality(Others) \in Nat
       /\ Cardinality(Reached) \in Nat
  <2>1. window \cap present \in SUBSET Items
    BY <1>5
  <2>2. QED
    BY <1>6, <2>1, ItemsFinite
<1>13. QED
  BY <1>4, <1>7, <1>8, <1>9, <1>10, <1>11, <1>12, ProcessAmounts, SizesAreNumbers

\* Where no two stakes are equal, an operation repeats no more transactions than
\* rows were inserted while it ran: nothing else shifts the pages it reads.
THEOREM RepeatsAreBounded ==
  ASSUME DistinctStakes
  PROVE  Spec => []RepeatsBounded
<1>1. Init => RepeatsBounded
  BY DEF Init, RepeatsBounded
<1>2. TypeOK /\ PagingInv /\ AmountInv /\ RepeatsBounded /\ [Next]_vars => RepeatsBounded'
  <2> SUFFICES ASSUME TypeOK, PagingInv, AmountInv, RepeatsBounded, [Next]_vars
               PROVE  RepeatsBounded'
    OBVIOUS
  <2>1. ASSUME NEW r \in Rows, Insert(r) PROVE RepeatsBounded'
    BY <2>1, SizesAreNumbers DEF Insert, RepeatsBounded
  <2>2. CASE CallStakeReserve \/ \E o \in TableOps : CallOnTable(o)
    BY <2>2 DEF CallStakeReserve, CallOnTable, Call, RepeatsBounded
  <2>3. CASE Find \/ Count \/ Reject
    BY <2>3 DEF Find, Count, Reject, history, RepeatsBounded
  <2>4. ASSUME NEW i \in Items, Process(i) PROVE RepeatsBounded'
    <3>1. stage = "batch" /\ i \in batch /\ inserted' = inserted
      BY <2>4 DEF Process, IsNext
    <3>2. CASE op \in TableOps
      BY <2>4, <3>1, <3>2, RepeatsAreInserts DEF RepeatsBounded
    <3>3. CASE op \notin TableOps
      <4>1. i \notin attempted
        BY <3>1, <3>3 DEF AmountInv, ReserveOnceInv, AtWork
      <4>2. QED
        BY <2>4, <3>1, <4>1 DEF Process, RepeatsBounded
    <3>4. QED
      BY <3>2, <3>3
  <2>5. CASE UNCHANGED vars
    BY <2>5 DEF vars, RepeatsBounded
  <2>6. QED
    BY <2>1, <2>2, <2>3, <2>4, <2>5 DEF Next, Step
<1>3. Init => PagingInv
  BY InitialPaging
<1>4. QED
  BY <1>1, <1>2, <1>3, StepKeepsPaging, InitialAmounts, StepKeepsAmount, TypeCorrect, PTL DEF Spec

-----------------------------------------------------------------------------
(* Why an operation ends: what is left of it shrinks. A page costs two      *)
(* awaits and one for each of its rows, at most Limit + 2, and reading      *)
(* another moves the offset by Limit, which WorkBounded keeps in the table. *)

PageSizeInv == stage = "count" => Cardinality(batch) <= Limit

LEMMA StepKeepsPageSize == TypeOK /\ PageSizeInv /\ [Next]_vars => PageSizeInv'
<1> SUFFICES ASSUME TypeOK, PageSizeInv, [Next]_vars, stage' = "count"
             PROVE  Cardinality(batch') <= Limit
  BY DEF PageSizeInv
<1>1. CASE Find
  <2>1. PICK answer \in Answers(table, skip) : batch' = answer[2] \ answer[1]
    BY <1>1 DEF Find
  <2>2. Cardinality(batch') = Least(skip + Limit, Cardinality(table)) - Least(skip, Cardinality(table))
    BY <2>1, AnswerSizes DEF TypeOK
  <2>3. QED
    BY <2>2, SizesAreNumbers DEF Least
<1>2. ASSUME NEW r \in Rows, Insert(r) PROVE Cardinality(batch') <= Limit
  BY <1>2 DEF Insert, listing, PageSizeInv
<1>3. CASE UNCHANGED vars
  BY <1>3 DEF vars, PageSizeInv
<1>4. ~CallStakeReserve /\ ~(\E o \in TableOps : CallOnTable(o)) /\ ~Count /\ ~Reject
  BY DEF CallStakeReserve, CallOnTable, Count, Reject, End
<1>5. ~(\E i \in Items : Process(i))
  BY DEF Process, AfterItem, End
<1>6. QED
  BY <1>1, <1>2, <1>3, <1>4, <1>5 DEF Next, Step

\* What is left, for each place an operation may be at.
Ahead == 3 * (Cardinality(Rows) + Limit - skip)

LeftShape ==
  stage # "idle" =>
    /\ Ahead \in Nat /\ Left \in Nat
    /\ stage = "find"  => Left = Ahead + Limit + 2
    /\ stage = "count" => Left = Ahead + Limit + 1
    /\ stage = "batch" => Left = Ahead + Cardinality(batch)

LEMMA LeftIs == TypeOK /\ WorkBounded => LeftShape
<1> SUFFICES ASSUME TypeOK, WorkBounded, stage # "idle" PROVE LeftShape
  BY DEF LeftShape
<1>1. Cardinality(table) <= Cardinality(Rows) /\ Cardinality(Rows) \in Nat
  BY CrankOpsAssumption, FS_Subset, FS_CardinalityType DEF TypeOK
<1>2. skip \in Nat /\ Limit \in Nat \ {0} /\ Cardinality(table) \in Nat /\ Cardinality(batch) \in Nat
  BY SizesAreNumbers
<1>3. skip < Cardinality(Rows) + Limit
  BY <1>1, <1>2 DEF WorkBounded
<1>4. Ahead \in Nat
  BY <1>1, <1>2, <1>3 DEF Ahead
<1>5. /\ stage = "find"  => Left = Ahead + (Limit + 2)
      /\ stage = "count" => Left = Ahead + (Limit + 1)
      /\ stage = "batch" => Left = Ahead + Cardinality(batch)
  BY DEF Left, Ahead
<1>6. QED
  BY <1>2, <1>4, <1>5 DEF LeftShape, TypeOK

LEMMA StepShrinks ==
  ASSUME TypeOK, TypeOK', AmountInv, AmountInv', PageSizeInv, [Next]_vars,
         stage # "idle", table' = table, stage' # "idle", ~UNCHANGED vars
  PROVE  Left' \in 0 .. Left - 1
<1>1. LeftShape /\ LeftShape'
  <2>1. (TypeOK /\ WorkBounded => LeftShape)'
    BY LeftIs, PTL
  <2>2. QED
    BY <2>1, LeftIs DEF AmountInv
<1>2. /\ Ahead \in Nat /\ Left \in Nat
      /\ stage = "find"  => Left = Ahead + Limit + 2
      /\ stage = "count" => Left = Ahead + Limit + 1
      /\ stage = "batch" => Left = Ahead + Cardinality(batch)
      /\ Ahead' \in Nat /\ Left' \in Nat
      /\ stage' = "find"  => Left' = Ahead' + Limit + 2
      /\ stage' = "count" => Left' = Ahead' + Limit + 1
      /\ stage' = "batch" => Left' = Ahead' + Cardinality(batch')
  BY <1>1 DEF LeftShape
<1>3. /\ Limit \in Nat \ {0} /\ Cardinality(batch) \in Nat
      /\ skip' = skip => Ahead' = Ahead
      /\ skip' = skip + Limit => Ahead' = Ahead - 3 * Limit
  <2>1. Limit \in Nat \ {0} /\ skip \in Nat /\ Cardinality(Rows) \in Nat /\ Cardinality(batch) \in Nat
    BY SizesAreNumbers, CrankOpsAssumption, FS_CardinalityType
  <2>2. QED
    BY <2>1 DEF Ahead
<1>4. CASE Find
  <2>1. stage = "find" /\ stage' = "count" /\ skip' = skip
    BY <1>4 DEF Find
  <2>2. QED
    BY <1>2, <1>3, <2>1
<1>5. CASE Count
  <2>1. stage = "count" /\ stage' = "batch" /\ skip' = skip /\ batch' = batch
    BY <1>5 DEF Count, End
  <2>2. Cardinality(batch) <= Limit
    BY <2>1 DEF PageSizeInv
  <2>3. QED
    BY <1>2, <1>3, <2>1, <2>2
<1>6. ASSUME NEW i \in Items, Process(i) PROVE Left' \in 0 .. Left - 1
  <2>1. /\ stage = "batch"
        /\ \/ stage' = "batch" /\ skip' = skip
           \/ stage' = "find" /\ skip' = skip + Limit
    BY <1>6 DEF Process, AfterItem, End
  <2>2. Cardinality(batch') = Cardinality(batch) - 1 /\ Cardinality(batch') \in Nat
    BY <1>6, ProcessAmounts
  <2>3. CASE stage' = "batch" /\ skip' = skip
    BY <1>2, <1>3, <2>1, <2>2, <2>3
  <2>4. CASE stage' = "find" /\ skip' = skip + Limit
    BY <1>2, <1>3, <2>1, <2>2, <2>4
  <2>5. QED
    BY <2>1, <2>3, <2>4
<1>7. ~Reject /\ ~CallStakeReserve /\ ~(\E o \in TableOps : CallOnTable(o))
  BY DEF Reject, End, CallStakeReserve, CallOnTable, Call
<1>8. ~(\E r \in Rows : Insert(r))
  BY DEF Insert
<1>9. QED
  BY <1>4, <1>5, <1>6, <1>7, <1>8 DEF Next, Step

\* For any table, page size and insertions, an operation comes to its end after a
\* number of awaits that is bounded when it is called: each answer and each
\* transaction leaves less of it, whichever loop it runs.
THEOREM WorkAlwaysShrinks == Spec => WorkShrinks
<1>1. Init => PageSizeInv
  BY DEF Init, PageSizeInv
<1>2. /\ TypeOK /\ TypeOK' /\ AmountInv /\ AmountInv' /\ PageSizeInv /\ [Next]_vars
      => [stage # "idle" /\ table' = table => stage' = "idle" \/ Left' \in 0 .. Left - 1]_vars
  BY StepShrinks
<1>3. QED
  BY <1>1, <1>2, InitialAmounts, StepKeepsAmount, StepKeepsPageSize, TypeCorrect, PTL
     DEF Spec, WorkShrinks
=============================================================================
