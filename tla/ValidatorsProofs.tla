--------------------------- MODULE ValidatorsProofs ---------------------------
(***************************************************************************)
(* Theorems about Validators, for any accounts, requests, lists, answers   *)
(* of the API and restarts.                                                *)
(***************************************************************************)
EXTENDS Validators, TLAPS

Places == {"off", "done", "failed"} \cup Awaits
Asks(i) == asked[i[1]].list[i[2]]

\* A request asks for something from when it is made.
AskedInv == \A q \in Requests : at[q] = "off" <=> asked[q] = NULL

\* Only a request about to insert holds ids to insert, its own, of no row yet.
MissingInv ==
  \A q \in Requests : \A i \in missing[q] :
    at[q] = "insert" /\ i[1] = q /\ rows[i] = NULL /\ Asks(i) # NULL

\* A row is of the account its entry names, and its request has inserted.
OwnInv ==
  \A i \in Present :
    at[i[1]] \notin {"off", "find", "insert"} /\ rows[i].account = Asks(i)

\* Requests that are under way now were so when the later of them was made.
InHandInv == \A q, r \in InHand : q # r => {q, r} \in together

\* What a bulk request is to insert is there only if it came meanwhile.
PlanInv ==
  \A q \in Requests, j \in Present : \A i \in missing[q] :
    asked[q].op = "bulk" /\ asked[j[1]].op = "bulk" /\ rows[j].account = Asks(i) =>
      {q, j[1]} \in together

\* A request that goes on to save has seen to all its list names.
CoverInv ==
  \A q \in Requests : \A a \in Listed(q) :
    /\ at[q] \in {"save", "write", "done"} => Of(a) # {}
    /\ at[q] = "insert" => Of(a) # {} \/ \E i \in missing[q] : Asks(i) = a

IInv == TypeOK /\ AskedInv /\ MissingInv /\ OwnInv /\ InHandInv /\ PlanInv /\ CoverInv
          /\ DuplicatesExplained

-----------------------------------------------------------------------------
\* Ids are pairs; asked lists are lists.
LEMMA Shapes ==
  /\ \A i \in Ids : i[1] \in Requests /\ i[2] \in Entries /\ i # NULL
  /\ \A body \in Body : /\ body.op \in {"bulk", "create"} /\ body.stats \in Versions /\ body # NULL
                        /\ \A n \in Entries : body.list[n] \in VoteAccounts \cup {NULL}
  /\ \A row \in Row : row.account \in VoteAccounts /\ row.stats \in Versions /\ row # NULL
  /\ NULL \notin VoteAccounts
  BY ValidatorsAssumption DEF Ids, Body, Row

\* No row changes hands: those of Q stay as they are but for the API's columns.
Restated == \A i \in Ids : /\ rows'[i] = NULL <=> rows[i] = NULL
                           /\ rows'[i] # NULL => rows'[i].account = rows[i].account

LEMMA RestatedRows ==
  ASSUME Restated
  PROVE  /\ Present' = Present
         /\ \A i \in Present : rows'[i].account = rows[i].account
         /\ \A a : Of(a)' = Of(a)
  BY DEF Restated, Present, Of

\* What the refresh and the API do leaves requests alone.
LEMMA RequestsUntouched ==
  ASSUME IInv, UNCHANGED request, Restated, TypeOK'
  PROVE  IInv'
<1>1. /\ Present' = Present
      /\ \A i \in Present : rows'[i].account = rows[i].account
      /\ \A a : Of(a)' = Of(a)
      /\ UNCHANGED <<at, asked, missing, found, together>>
  BY RestatedRows DEF request
<1>2. AskedInv' /\ InHandInv'
  BY <1>1 DEF IInv, AskedInv, InHandInv, InHand
<1>3. MissingInv'
  <2>1. \A q \in Requests : missing[q] \subseteq Ids
    BY DEF IInv, TypeOK
  <2>2. QED
    BY <1>1, <2>1 DEF IInv, MissingInv, Asks, Restated
<1>4. OwnInv'
  BY <1>1 DEF IInv, OwnInv, Asks
<1>5. PlanInv'
  BY <1>1 DEF IInv, PlanInv, Asks
<1>6. CoverInv'
  BY <1>1 DEF IInv, CoverInv, Asks, Listed
<1>7. DuplicatesExplained'
  BY <1>1 DEF IInv, DuplicatesExplained
<1>8. QED
  BY <1>2, <1>3, <1>4, <1>5, <1>6, <1>7 DEF IInv

\* The refresh visits rows that are there.
LEMMA Visits ==
  ASSUME NEW left \in SUBSET Present, Visit(left)
  PROVE  /\ visiting' \in Present \cup {NULL} /\ walk' \subseteq Present
         /\ phase' \in {"idle", "get"} /\ (phase' = "get" => visiting' # NULL)
  BY Shapes DEF Visit, Present

\* The refresh changes the API's columns of rows that are there.
LEMMA RefreshStepKeeps ==
  ASSUME IInv, ApiChanges \/ CronFires \/ RefreshStep \/ RefreshFails
  PROVE  IInv'
<1>1. CASE rows' = rows
  <2>1. Restated /\ Present' = Present
    BY <1>1 DEF Restated, Present
  <2>2. UNCHANGED request
    BY DEF ApiChanges, CronFires, RefreshStep, RefreshFind, RefreshGet, RefreshUpdate, RefreshFails
  <2>3. TypeOK'
    <3>1. CASE ApiChanges
      BY <2>1, <3>1, ValidatorsAssumption DEF ApiChanges, IInv, TypeOK, Versions, request, refresh
    <3>2. CASE CronFires
      BY <2>1, <3>2 DEF CronFires, IInv, TypeOK, request
    <3>3. CASE RefreshFind
      <4>1. Visit(Present)
        BY <3>3 DEF RefreshFind
      <4>2. QED
        BY <2>1, <3>3, <4>1, Visits DEF RefreshFind, IInv, TypeOK, request
    <3>4. CASE RefreshGet
      BY <2>1, <3>4 DEF RefreshGet, IInv, TypeOK, request
    <3>5. CASE RefreshUpdate
      <4>1. Visit(walk) /\ walk \subseteq Present
        BY <3>5 DEF RefreshUpdate, IInv, TypeOK
      <4>2. QED
        BY <1>1, <2>1, <3>5, <4>1, Visits DEF RefreshUpdate, IInv, TypeOK, request
    <3>6. CASE RefreshFails
      BY <2>1, <3>6 DEF RefreshFails, IInv, TypeOK, request
    <3>7. QED
      BY <3>1, <3>2, <3>3, <3>4, <3>5, <3>6 DEF RefreshStep
  <2>4. QED
    BY <2>1, <2>2, <2>3, RequestsUntouched
<1>2. CASE RefreshUpdate
  <2>1. visiting \in Present /\ visiting \in Ids /\ got \in Versions
    BY <1>2 DEF RefreshUpdate, IInv, TypeOK, Present
  <2>2. /\ \A i \in Ids \ {visiting} : rows'[i] = rows[i]
        /\ rows[visiting] \in Row /\ rows'[visiting] = [rows[visiting] EXCEPT !.stats = got]
        /\ DOMAIN rows' = Ids
    BY <1>2, <2>1 DEF RefreshUpdate, IInv, TypeOK, Present
  <2>3. rows'[visiting] \in Row /\ rows'[visiting].account = rows[visiting].account
    BY <2>1, <2>2 DEF Row
  <2>4. Restated
    BY <2>1, <2>2, <2>3, Shapes DEF Restated, Present
  <2>5. rows' \in [Ids -> Row \cup {NULL}]
    BY <1>2, <2>1, <2>2, <2>3 DEF RefreshUpdate, IInv, TypeOK
  <2>6. TypeOK'
    <3>1. Visit(walk) /\ walk \subseteq Present /\ Present' = Present
      BY <1>2, <2>4, RestatedRows DEF RefreshUpdate, IInv, TypeOK
    <3>2. QED
      BY <1>2, <2>5, <3>1, Visits DEF RefreshUpdate, IInv, TypeOK, request
  <2>7. QED
    BY <1>2, <2>4, <2>6, RequestsUntouched DEF RefreshUpdate
<1>3. QED
  BY <1>1, <1>2 DEF ApiChanges, CronFires, RefreshStep, RefreshFind, RefreshGet, RefreshFails

-----------------------------------------------------------------------------
\* A request is made.
LEMMA RequestStep ==
  ASSUME IInv, NEW q \in Requests, Request(q)
  PROVE  IInv'
<1>1. PICK body \in Body :
        /\ asked' = [asked EXCEPT ![q] = body]
        /\ Goto(q, IF body.op = "create" THEN "insert" ELSE "find")
        /\ missing' = [missing EXCEPT ![q] =
             IF body.op = "create" THEN {i \in Ids : i[1] = q /\ body.list[i[2]] # NULL} ELSE {}]
  BY DEF Request
<1>2. /\ at[q] = "off" /\ asked[q] = NULL /\ q \notin InHand
      /\ together' = together \cup {{q, r} : r \in InHand}
      /\ UNCHANGED <<version, rows, found, phase, visiting, walk, got, restarts>>
  BY DEF Request, refresh, IInv, AskedInv, InHand, Awaits
<1>3. /\ asked'[q] = body /\ \A r \in Requests \ {q} : asked'[r] = asked[r]
      /\ at'[q] = (IF body.op = "create" THEN "insert" ELSE "find")
      /\ \A r \in Requests \ {q} : at'[r] = at[r] /\ missing'[r] = missing[r]
      /\ missing'[q] = IF body.op = "create" THEN {i \in Ids : i[1] = q /\ body.list[i[2]] # NULL} ELSE {}
  BY <1>1 DEF Goto, IInv, TypeOK
<1>4. \A i \in Present : i[1] # q /\ i[1] \in Requests
  BY <1>2, Shapes DEF IInv, OwnInv, Present
<1>5. Present' = Present /\ \A a : Of(a)' = Of(a)
  BY <1>2 DEF Present, Of
<1>6. InHand' = InHand \cup {q}
  BY <1>2, <1>3 DEF InHand, Awaits
<1>7. TypeOK'
  <2>1. asked' \in [Requests -> Body \cup {NULL}]
    BY <1>1 DEF IInv, TypeOK
  <2>2. at' \in [Requests -> {"off", "done", "failed"} \cup Awaits]
    BY <1>1 DEF Goto, IInv, TypeOK, Awaits
  <2>3. missing' \in [Requests -> SUBSET Ids]
    BY <1>1 DEF IInv, TypeOK
  <2>4. \A pair \in together' : \E p, r \in Requests : pair = {p, r}
    BY <1>2 DEF IInv, TypeOK, InHand
  <2>5. QED
    BY <1>2, <1>5, <2>1, <2>2, <2>3, <2>4 DEF IInv, TypeOK
<1>8. AskedInv'
  BY <1>3, Shapes DEF IInv, AskedInv
<1>9. MissingInv'
  <2> SUFFICES ASSUME NEW r \in Requests, NEW i \in missing'[r]
               PROVE  at'[r] = "insert" /\ i[1] = r /\ rows[i] = NULL /\ Asks(i)' # NULL
    BY <1>2 DEF MissingInv
  <2>1. CASE r = q
    <3>1. i \in Ids /\ i[1] = q /\ body.list[i[2]] # NULL /\ at'[q] = "insert"
      BY <1>3, <2>1
    <3>2. i \notin Present
      BY <1>4, <3>1
    <3>3. QED
      BY <1>3, <2>1, <3>1, <3>2 DEF Asks, Present
  <2>2. CASE r # q
    BY <1>3, <2>2 DEF IInv, MissingInv, Asks
  <2>3. QED
    BY <2>1, <2>2
<1>10. OwnInv'
  BY <1>2, <1>3, <1>4, <1>5 DEF IInv, OwnInv, Asks
<1>11. InHandInv'
  <2> SUFFICES ASSUME NEW r \in InHand \cup {q}, NEW s \in InHand \cup {q}, r # s
               PROVE  {r, s} \in together'
    BY <1>6 DEF InHandInv
  <2>1. CASE r # q /\ s # q
    BY <1>2, <2>1 DEF IInv, InHandInv
  <2>2. CASE r = q
    BY <1>2, <2>2
  <2>3. CASE s = q
    <3>1. {r, s} = {q, r}
      BY <2>3
    <3>2. QED
      BY <1>2, <2>3, <3>1
  <2>4. QED
    BY <2>1, <2>2, <2>3
<1>12. PlanInv'
  <2> SUFFICES ASSUME NEW r \in Requests, NEW j \in Present, NEW i \in missing'[r],
                      asked'[r].op = "bulk", asked'[j[1]].op = "bulk", rows[j].account = Asks(i)'
               PROVE  {r, j[1]} \in together'
    BY <1>2, <1>5 DEF PlanInv
  <2>1. r # q
    BY <1>3
  <2>2. i[1] = r
    BY <1>3, <2>1 DEF IInv, MissingInv
  <2>3. QED
    BY <1>2, <1>3, <1>4, <2>1, <2>2 DEF IInv, PlanInv, Asks
<1>13. CoverInv'
  <2> SUFFICES ASSUME NEW r \in Requests, NEW a \in Listed(r)'
               PROVE  /\ at'[r] \in {"save", "write", "done"} => Of(a) # {}
                      /\ at'[r] = "insert" => Of(a) # {} \/ \E i \in missing'[r] : Asks(i)' = a
    BY <1>5 DEF CoverInv
  <2>1. CASE r = q
    <3>1. PICK n \in Entries : body.list[n] = a /\ a # NULL
      BY <1>3, <2>1 DEF Listed
    <3>2. <<q, n>> \in Ids /\ <<q, n>>[1] = q /\ <<q, n>>[2] = n
      BY DEF Ids
    <3>3. QED
      BY <1>3, <2>1, <3>1, <3>2 DEF Asks
  <2>2. CASE r # q
    <3>1. Listed(r)' = Listed(r) /\ at'[r] = at[r] /\ missing'[r] = missing[r]
      BY <1>3, <2>2 DEF Listed
    <3>2. \A i \in missing[r] : Asks(i)' = Asks(i)
      BY <1>3, <2>2 DEF IInv, MissingInv, Asks
    <3>3. QED
      BY <3>1, <3>2 DEF IInv, CoverInv
  <2>3. QED
    BY <2>1, <2>2
<1>14. DuplicatesExplained'
  BY <1>2, <1>3, <1>4, <1>5 DEF IInv, DuplicatesExplained
<1>15. QED
  BY <1>7, <1>8, <1>9, <1>10, <1>11, <1>12, <1>13, <1>14 DEF IInv

\* A bulk request sorts its list into rows to insert and rows to update.
LEMMA FindStep ==
  ASSUME IInv, NEW q \in Requests, Find(q)
  PROVE  IInv'
<1> DEFINE new == {i \in Ids : /\ i[1] = q /\ asked[q].list[i[2]] # NULL
                              /\ Of(asked[q].list[i[2]]) = {}}
<1>1. PICK chosen \in SUBSET UNION {Of(a) : a \in Listed(q)} :
        /\ found' = [found EXCEPT ![q] = chosen]
        /\ missing' = [missing EXCEPT ![q] = new]
        /\ Goto(q, AfterFind(q, new, chosen))
  BY DEF Find
<1>2. /\ at[q] = "find" /\ UNCHANGED <<version, rows, asked, together, phase, visiting, walk, got, restarts>>
  BY DEF Find, refresh
<1>3. /\ at'[q] = (IF new # {} THEN "insert" ELSE "save")
      /\ missing'[q] = new
      /\ \A r \in Requests \ {q} : at'[r] = at[r] /\ missing'[r] = missing[r]
  BY <1>1 DEF Goto, AfterFind, IInv, TypeOK
<1>4. Present' = Present /\ (\A a : Of(a)' = Of(a)) /\ (\A i : Asks(i)' = Asks(i))
      /\ \A r \in Requests : Listed(r)' = Listed(r)
  BY <1>2 DEF Present, Of, Asks, Listed
<1>5. InHand' = InHand
  BY <1>2, <1>3 DEF InHand, Awaits
<1>6. TypeOK'
  <2>1. chosen \subseteq Present /\ new \subseteq Ids
    BY DEF Of
  <2>2. found' \in [Requests -> SUBSET Present] /\ missing' \in [Requests -> SUBSET Ids]
    BY <1>1, <2>1 DEF IInv, TypeOK
  <2>3. at' \in [Requests -> {"off", "done", "failed"} \cup Awaits]
    BY <1>1 DEF Goto, AfterFind, IInv, TypeOK, Awaits
  <2>4. QED
    BY <1>2, <1>4, <2>2, <2>3 DEF IInv, TypeOK
<1>7. AskedInv'
  BY <1>2, <1>3 DEF IInv, AskedInv
<1>8. MissingInv'
  <2>1. \A i \in Ids : Asks(i) \in VoteAccounts \cup {NULL}  \/ asked[i[1]] = NULL
    BY Shapes DEF Asks, IInv, TypeOK
  <2>2. ASSUME NEW i \in new PROVE i[1] = q /\ Asks(i) # NULL /\ rows[i] = NULL
    <3>1. i \in Ids /\ i[1] = q /\ Asks(i) # NULL
      BY DEF Asks
    <3>2. i \notin Present
      BY <1>2, <3>1 DEF IInv, OwnInv
    <3>3. QED
      BY <3>1, <3>2 DEF Present
  <2>3. QED
    BY <1>2, <1>3, <1>4, <2>2 DEF IInv, MissingInv
<1>9. OwnInv'
  <2>1. \A i \in Present : i[1] # q /\ i[1] \in Requests
    BY <1>2, Shapes DEF IInv, OwnInv, Present
  <2>2. QED
    BY <1>2, <1>3, <1>4, <2>1 DEF IInv, OwnInv
<1>10. InHandInv'
  BY <1>2, <1>5 DEF IInv, InHandInv
<1>11. PlanInv'
  <2>1. ASSUME NEW j \in Present, NEW i \in new, rows[j].account = Asks(i)
        PROVE  FALSE
    <3>1. Of(Asks(i)) = {}
      BY DEF Asks
    <3>2. QED
      BY <2>1, <3>1 DEF Of
  <2>2. QED
    BY <1>2, <1>3, <1>4, <2>1 DEF IInv, PlanInv
<1>12. CoverInv'
  <2> SUFFICES ASSUME NEW r \in Requests, NEW a \in Listed(r)
               PROVE  /\ at'[r] \in {"save", "write", "done"} => Of(a) # {}
                      /\ at'[r] = "insert" => Of(a) # {} \/ \E i \in missing'[r] : Asks(i) = a
    BY <1>4 DEF CoverInv
  <2>1. CASE r = q
    <3>1. PICK n \in Entries : asked[q].list[n] = a /\ a # NULL
      BY <2>1 DEF Listed
    <3>2. <<q, n>> \in Ids /\ <<q, n>>[1] = q /\ <<q, n>>[2] = n
      BY DEF Ids
    <3>3. Of(a) = {} => <<q, n>> \in new /\ Asks(<<q, n>>) = a
      BY <3>1, <3>2 DEF Asks
    <3>4. QED
      BY <1>3, <2>1, <3>3
  <2>2. CASE r # q
    BY <1>3, <2>2 DEF IInv, CoverInv
  <2>3. QED
    BY <2>1, <2>2
<1>13. DuplicatesExplained'
  BY <1>2, <1>4 DEF IInv, DuplicatesExplained
<1>14. QED
  BY <1>6, <1>7, <1>8, <1>9, <1>10, <1>11, <1>12, <1>13 DEF IInv

\* The rows a request inserts are of accounts that were not listed when it looked.
LEMMA InsertStep ==
  ASSUME IInv, NEW q \in Requests, Insert(q)
  PROVE  IInv'
<1>1. /\ at[q] = "insert" /\ UNCHANGED <<version, asked, found, together, phase, visiting, walk, got, restarts>>
      /\ missing' = [missing EXCEPT ![q] = {}]
      /\ at' = [at EXCEPT ![q] = IF found[q] = {} THEN "done" ELSE "save"]
  BY DEF Insert, Goto, refresh
<1>2. /\ at'[q] \in {"done", "save"} /\ missing'[q] = {}
      /\ \A r \in Requests \ {q} : at'[r] = at[r] /\ missing'[r] = missing[r]
  BY <1>1 DEF IInv, TypeOK
<1>3. /\ asked[q] \in Body /\ missing[q] \subseteq Ids
      /\ \A i \in missing[q] : i[1] = q /\ rows[i] = NULL /\ Asks(i) \in VoteAccounts
  <2>1. asked[q] \in Body /\ missing[q] \subseteq Ids
    BY <1>1 DEF IInv, AskedInv, TypeOK
  <2>2. ASSUME NEW i \in missing[q] PROVE i[1] = q /\ rows[i] = NULL /\ Asks(i) \in VoteAccounts
    BY <2>1, <2>2, Shapes DEF IInv, MissingInv, Asks
  <2>3. QED
    BY <2>1, <2>2
<1>4. /\ \A i \in missing[q] : rows'[i] = [account |-> Asks(i), stats |-> asked[q].stats]
      /\ \A i \in Ids \ missing[q] : rows'[i] = rows[i]
      /\ DOMAIN rows' = Ids
  BY <1>3 DEF Insert, Asks
<1>5. \A i \in missing[q] : rows'[i] \in Row /\ rows'[i].account = Asks(i) /\ rows'[i] # NULL
  <2>1. asked[q].stats \in Versions
    BY <1>3, Shapes
  <2>2. \A a \in VoteAccounts, s \in Versions :
          [account |-> a, stats |-> s] \in Row /\ [account |-> a, stats |-> s].account = a
    BY DEF Row
  <2>3. ASSUME NEW i \in missing[q]
        PROVE  rows'[i] \in Row /\ rows'[i].account = Asks(i) /\ rows'[i] # NULL
    <3>1. rows'[i] = [account |-> Asks(i), stats |-> asked[q].stats] /\ Asks(i) \in VoteAccounts
      BY <1>3, <1>4
    <3>2. rows'[i] \in Row /\ rows'[i].account = Asks(i)
      BY <2>1, <2>2, <3>1
    <3>3. QED
      BY <3>2, Shapes
  <2>4. QED
    BY <2>3
<1>6. /\ Present' = Present \cup missing[q] /\ Present \cap missing[q] = {}
      /\ \A i \in Present : rows'[i] = rows[i] /\ i[1] # q /\ i[1] \in Requests
      /\ \A i : Asks(i)' = Asks(i)
      /\ \A r \in Requests : Listed(r)' = Listed(r)
  <2>1. Present' = Present \cup missing[q] /\ Present \cap missing[q] = {}
    BY <1>3, <1>4, <1>5 DEF Present
  <2>2. \A i \in Present : rows'[i] = rows[i] /\ i[1] # q /\ i[1] \in Requests
    BY <1>1, <1>4, <2>1, Shapes DEF IInv, OwnInv, Present
  <2>3. (\A i : Asks(i)' = Asks(i)) /\ \A r \in Requests : Listed(r)' = Listed(r)
    BY <1>1 DEF Asks, Listed
  <2>4. QED
    BY <2>1, <2>2, <2>3
<1>7. \A a : Of(a) \subseteq Of(a)'
  BY <1>6 DEF Of
<1>8. InHand' \subseteq InHand /\ q \in InHand
  BY <1>1, <1>2 DEF InHand, Awaits
<1>9. TypeOK'
  <2>1. rows' \in [Ids -> Row \cup {NULL}]
    <3>1. rows' = [i \in Ids |-> rows'[i]]
      BY DEF Insert
    <3>2. \A i \in Ids : rows'[i] \in Row \cup {NULL}
      BY <1>4, <1>5 DEF IInv, TypeOK
    <3>3. QED
      BY <3>1, <3>2
  <2>2. missing' \in [Requests -> SUBSET Ids] /\ found' \in [Requests -> SUBSET Present']
    BY <1>1, <1>6 DEF IInv, TypeOK
  <2>3. at' \in [Requests -> {"off", "done", "failed"} \cup Awaits]
    BY <1>1 DEF IInv, TypeOK, Awaits
  <2>4. visiting' \in Present' \cup {NULL} /\ walk' \subseteq Present'
    BY <1>1, <1>6 DEF IInv, TypeOK
  <2>5. QED
    BY <1>1, <2>1, <2>2, <2>3, <2>4 DEF IInv, TypeOK
<1>10. AskedInv'
  BY <1>1, <1>2 DEF IInv, AskedInv
<1>11. MissingInv'
  <2> SUFFICES ASSUME NEW r \in Requests \ {q}, NEW i \in missing[r]
               PROVE  at[r] = "insert" /\ i[1] = r /\ rows'[i] = NULL /\ Asks(i) # NULL
    BY <1>2, <1>6 DEF MissingInv
  <2>1. i \in Ids /\ i[1] = r /\ rows[i] = NULL /\ at[r] = "insert" /\ Asks(i) # NULL
    BY DEF IInv, MissingInv, TypeOK
  <2>2. i \notin missing[q]
    BY <1>3, <2>1
  <2>3. QED
    BY <1>4, <2>1, <2>2
<1>12. OwnInv'
  <2> SUFFICES ASSUME NEW i \in Present \cup missing[q]
               PROVE  at'[i[1]] \notin {"off", "find", "insert"} /\ rows'[i].account = Asks(i)
    BY <1>6 DEF OwnInv
  <2>1. CASE i \in Present
    BY <1>2, <1>6, <2>1 DEF IInv, OwnInv
  <2>2. CASE i \in missing[q]
    BY <1>2, <1>3, <1>5, <2>2
  <2>3. QED
    BY <2>1, <2>2
<1>13. InHandInv'
  BY <1>1, <1>8 DEF IInv, InHandInv
<1>14. PlanInv'
  <2> SUFFICES ASSUME NEW r \in Requests \ {q}, NEW j \in Present \cup missing[q], NEW i \in missing[r],
                      asked[r].op = "bulk", asked[j[1]].op = "bulk", rows'[j].account = Asks(i)
               PROVE  {r, j[1]} \in together
    BY <1>1, <1>2, <1>6 DEF PlanInv
  <2>1. CASE j \in Present
    BY <1>6, <2>1 DEF IInv, PlanInv
  <2>2. CASE j \in missing[q]
    <3>1. r \in InHand
      BY DEF IInv, MissingInv, InHand, Awaits
    <3>2. j[1] = q
      BY <1>3, <2>2
    <3>3. QED
      BY <1>8, <3>1, <3>2 DEF IInv, InHandInv
  <2>3. QED
    BY <2>1, <2>2
<1>15. CoverInv'
  <2> SUFFICES ASSUME NEW r \in Requests, NEW a \in Listed(r)
               PROVE  /\ at'[r] \in {"save", "write", "done"} => Of(a)' # {}
                      /\ at'[r] = "insert" => Of(a)' # {} \/ \E i \in missing'[r] : Asks(i) = a
    BY <1>6 DEF CoverInv
  <2>1. CASE r = q
    <3>1. Of(a) # {} \/ \E i \in missing[q] : Asks(i) = a
      BY <1>1, <2>1 DEF IInv, CoverInv
    <3>2. Of(a)' # {}
      BY <1>5, <1>6, <1>7, <3>1 DEF Of
    <3>3. QED
      BY <1>2, <2>1, <3>2
  <2>2. CASE r # q
    BY <1>2, <1>7, <2>2 DEF IInv, CoverInv
  <2>3. QED
    BY <2>1, <2>2
<1>16. DuplicatesExplained'
  <2> SUFFICES ASSUME NEW i \in Present \cup missing[q], NEW j \in Present \cup missing[q],
                      i # j, rows'[i].account = rows'[j].account
               PROVE  \/ i[1] = j[1]
                      \/ {i[1], j[1]} \in together
                      \/ asked[i[1]].op = "create" \/ asked[j[1]].op = "create"
    BY <1>1, <1>6 DEF DuplicatesExplained
  <2>1. ASSUME NEW k \in missing[q], NEW l \in Present, rows'[k].account = rows'[l].account
        PROVE  {q, l[1]} \in together \/ asked[q].op = "create" \/ asked[l[1]].op = "create"
    <3>1. asked[q].op \in {"bulk", "create"} /\ asked[l[1]].op \in {"bulk", "create"}
      <4>1. asked[l[1]] \in Body
        BY <1>6 DEF IInv, OwnInv, AskedInv, TypeOK
      <4>2. QED
        BY <1>3, <4>1, Shapes
    <3>2. rows[l].account = Asks(k)
      BY <1>5, <1>6, <2>1
    <3>3. QED
      BY <3>1, <3>2 DEF IInv, PlanInv
  <2>2. CASE i \in Present /\ j \in Present
    BY <1>6, <2>2 DEF IInv, DuplicatesExplained
  <2>3. CASE i \in missing[q] /\ j \in missing[q]
    BY <1>3, <2>3
  <2>4. CASE i \in missing[q] /\ j \in Present
    BY <1>3, <2>1, <2>4
  <2>5. CASE j \in missing[q] /\ i \in Present
    <3>1. {q, i[1]} \in together \/ asked[q].op = "create" \/ asked[i[1]].op = "create"
      BY <2>1, <2>5
    <3>2. {q, i[1]} = {i[1], j[1]} /\ j[1] = q
      BY <1>3, <2>5
    <3>3. QED
      BY <3>1, <3>2
  <2>6. QED
    BY <2>2, <2>3, <2>4, <2>5
<1>17. QED
  BY <1>9, <1>10, <1>11, <1>12, <1>13, <1>14, <1>15, <1>16 DEF IInv

\* A request goes on without touching the table's ids, or rewrites rows it has found.
LEMMA MovesOn ==
  ASSUME IInv, NEW q \in Requests, at[q] \in Awaits, Restated, rows' \in [Ids -> Row \cup {NULL}],
         at[q] # "insert" \/ at'[q] = "failed",
         NEW where \in {"write", "done", "failed"}, at' = [at EXCEPT ![q] = where],
         where # "failed" => at[q] \in {"save", "write"},
         missing' = [missing EXCEPT ![q] = {}],
         NEW keep \in SUBSET found[q], found' = [found EXCEPT ![q] = keep],
         UNCHANGED <<version, asked, together, phase, visiting, walk, got, restarts>>
  PROVE  IInv'
<1>1. /\ at'[q] = where /\ missing'[q] = {}
      /\ \A r \in Requests \ {q} : at'[r] = at[r] /\ missing'[r] = missing[r]
  BY DEF IInv, TypeOK
<1>2. /\ Present' = Present /\ (\A i \in Present : rows'[i].account = rows[i].account)
      /\ (\A a : Of(a)' = Of(a))
  BY RestatedRows
<1>3. (\A i : Asks(i)' = Asks(i)) /\ \A r \in Requests : Listed(r)' = Listed(r)
  BY DEF Asks, Listed
<1>4. InHand' \subseteq InHand
  BY <1>1 DEF InHand
<1>5. TypeOK'
  <2>1. missing' \in [Requests -> SUBSET Ids] /\ found' \in [Requests -> SUBSET Present]
    BY DEF IInv, TypeOK
  <2>2. at' \in [Requests -> {"off", "done", "failed"} \cup Awaits]
    BY DEF IInv, TypeOK, Awaits
  <2>3. QED
    BY <1>2, <2>1, <2>2 DEF IInv, TypeOK
<1>6. AskedInv'
  BY <1>1 DEF IInv, AskedInv, Awaits
<1>7. MissingInv'
  <2>1. \A r \in Requests : missing[r] \subseteq Ids
    BY DEF IInv, TypeOK
  <2>2. QED
    BY <1>1, <1>3, <2>1 DEF IInv, MissingInv, Restated
<1>8. OwnInv'
  <2>1. \A i \in Present : i[1] \in Requests
    BY Shapes DEF Present
  <2>2. QED
    BY <1>1, <1>2, <1>3, <2>1 DEF IInv, OwnInv
<1>9. InHandInv'
  BY <1>4 DEF IInv, InHandInv
<1>10. PlanInv'
  BY <1>1, <1>2, <1>3 DEF IInv, PlanInv
<1>11. CoverInv'
  BY <1>1, <1>2, <1>3 DEF IInv, CoverInv
<1>12. DuplicatesExplained'
  BY <1>2 DEF IInv, DuplicatesExplained
<1>13. QED
  BY <1>5, <1>6, <1>7, <1>8, <1>9, <1>10, <1>11, <1>12 DEF IInv

\* Rows as they are are restated.
LEMMA Same == rows' = rows => Restated
  BY DEF Restated

LEMMA ReloadStep ==
  ASSUME IInv, NEW q \in Requests, Reload(q)
  PROVE  IInv'
<1>1. /\ at[q] = "save" /\ at' = [at EXCEPT ![q] = "write"]
      /\ UNCHANGED <<version, rows, asked, missing, found, together, phase, visiting, walk, got,
                    restarts>>
  BY DEF Reload, Goto, refresh
<1>2. missing[q] = {}
  BY <1>1 DEF IInv, MissingInv
<1>3. missing' = [missing EXCEPT ![q] = {}]
  BY <1>1, <1>2 DEF IInv, TypeOK
<1>4. found' = [found EXCEPT ![q] = found[q]]
  BY <1>1 DEF IInv, TypeOK
<1>5. found[q] \in SUBSET found[q]
  OBVIOUS
<1>6. at[q] \in Awaits /\ rows' \in [Ids -> Row \cup {NULL}]
  BY <1>1 DEF IInv, TypeOK, Awaits
<1>7. QED
  BY <1>1, <1>3, <1>4, <1>5, <1>6, MovesOn, Same

LEMMA WriteStep ==
  ASSUME IInv, NEW q \in Requests, Write(q)
  PROVE  IInv'
<1>1. /\ at[q] = "write" /\ found' = [found EXCEPT ![q] = {}]
      /\ at' = [at EXCEPT ![q] = "done"]
      /\ UNCHANGED <<version, asked, missing, together, phase, visiting, walk, got, restarts>>
  BY DEF Write, Goto, refresh
<1>2. missing[q] = {} /\ asked[q] \in Body
  BY <1>1 DEF IInv, MissingInv, AskedInv, TypeOK
<1>3. missing' = [missing EXCEPT ![q] = {}]
  BY <1>1, <1>2 DEF IInv, TypeOK
<1>4. ASSUME NEW i \in Ids
      PROVE  /\ rows'[i] \in Row \cup {NULL}
             /\ rows'[i] = NULL <=> rows[i] = NULL
             /\ rows'[i] # NULL => rows'[i].account = rows[i].account
  <2>1. CASE i \in found[q]
    <3>1. rows[i] \in Row /\ rows'[i] = [rows[i] EXCEPT !.stats = asked[q].stats]
      BY <2>1 DEF Write, Written, IInv, TypeOK, Present
    <3>2. asked[q].stats \in Versions
      BY <1>2, Shapes
    <3>3. rows'[i] \in Row /\ rows'[i].account = rows[i].account
      BY <3>1, <3>2 DEF Row
    <3>4. QED
      BY <3>1, <3>3, Shapes
  <2>2. CASE i \notin found[q]
    BY <2>2 DEF Write, IInv, TypeOK
  <2>3. QED
    BY <2>1, <2>2
<1>5. rows' \in [Ids -> Row \cup {NULL}]
  <2>1. rows' = [i \in Ids |-> rows'[i]]
    BY DEF Write
  <2>2. QED
    BY <1>4, <2>1
<1>6. Restated /\ at[q] \in Awaits
  BY <1>1, <1>4 DEF Restated, Awaits
<1>7. QED
  BY <1>1, <1>3, <1>5, <1>6, MovesOn

LEMMA FailsStep ==
  ASSUME IInv, NEW q \in Requests, Fails(q)
  PROVE  IInv'
<1>1. /\ q \in InHand /\ found' = [found EXCEPT ![q] = {}] /\ missing' = [missing EXCEPT ![q] = {}]
      /\ at' = [at EXCEPT ![q] = "failed"]
      /\ UNCHANGED <<version, rows, asked, together, phase, visiting, walk, got, restarts>>
  BY DEF Fails, Goto, refresh
<1>2. at[q] \in Awaits /\ at'[q] = "failed" /\ rows' \in [Ids -> Row \cup {NULL}]
  BY <1>1 DEF InHand, IInv, TypeOK
<1>3. QED
  BY <1>1, <1>2, MovesOn, Same

LEMMA RestartStep ==
  ASSUME IInv, Restart
  PROVE  IInv'
<1>1. /\ at' = [q \in Requests |-> IF q \in InHand THEN "failed" ELSE at[q]]
      /\ missing' = [q \in Requests |-> {}] /\ found' = [q \in Requests |-> {}]
      /\ UNCHANGED <<version, rows, asked, together, got>>
      /\ restarts' \in 0 .. MaxRestarts
      /\ phase' = "idle" /\ visiting' = NULL /\ walk' = {}
  BY ValidatorsAssumption DEF Restart, IInv, TypeOK
<1>2. /\ \A q \in Requests : /\ at'[q] \in {"off", "done", "failed"}
                             /\ at'[q] = "off" <=> at[q] = "off"
                             /\ at'[q] = "done" => at[q] = "done"
      /\ InHand' = {} /\ Present' = Present /\ (\A a : Of(a)' = Of(a))
  <2>1. ASSUME NEW q \in Requests
        PROVE  /\ at'[q] \in {"off", "done", "failed"}
               /\ at'[q] = "off" <=> at[q] = "off"
               /\ at'[q] = "done" => at[q] = "done"
    <3>1. at[q] \in {"off", "done", "failed"} \cup Awaits
      BY DEF IInv, TypeOK
    <3>2. CASE q \in InHand
      BY <1>1, <3>2 DEF InHand, Awaits
    <3>3. CASE q \notin InHand
      BY <1>1, <3>1, <3>3 DEF InHand
    <3>4. QED
      BY <3>2, <3>3
  <2>2. InHand' = {} /\ Present' = Present /\ (\A a : Of(a)' = Of(a))
    BY <1>1, <2>1 DEF InHand, Awaits, Present, Of
  <2>3. QED
    BY <2>1, <2>2
<1>3. TypeOK'
  BY <1>1, <1>2 DEF IInv, TypeOK, Awaits
<1>4. AskedInv' /\ MissingInv' /\ InHandInv' /\ PlanInv'
  BY <1>1, <1>2 DEF IInv, AskedInv, MissingInv, InHandInv, PlanInv
<1>5. OwnInv'
  <2>1. \A i \in Present : i[1] \in Requests
    BY Shapes DEF Present
  <2>2. QED
    BY <1>1, <1>2, <2>1 DEF IInv, OwnInv, Asks
<1>6. CoverInv'
  BY <1>1, <1>2 DEF IInv, CoverInv, Listed
<1>7. DuplicatesExplained'
  BY <1>1, <1>2 DEF IInv, DuplicatesExplained
<1>8. QED
  BY <1>3, <1>4, <1>5, <1>6, <1>7 DEF IInv

LEMMA Inductive == IInv /\ [Next]_vars => IInv'
<1> SUFFICES ASSUME IInv, [Next]_vars
             PROVE  IInv'
  OBVIOUS
<1>1. CASE UNCHANGED vars
  <2>1. Restated /\ UNCHANGED request
    BY <1>1, Same DEF vars, request
  <2>2. TypeOK'
    BY <1>1 DEF vars, IInv, TypeOK, Present
  <2>3. QED
    BY <2>1, <2>2, RequestsUntouched
<1>2. QED
  BY <1>1, RefreshStepKeeps, RequestStep, FindStep, InsertStep, ReloadStep, WriteStep, FailsStep,
     RestartStep DEF Next, Step

LEMMA Initially == Init => IInv
<1> SUFFICES ASSUME Init
             PROVE  IInv
  OBVIOUS
<1>1. Present = {} /\ InHand = {}
  BY DEF Init, Present, InHand, Awaits
<1>2. TypeOK
  BY <1>1, ValidatorsAssumption DEF Init, TypeOK, Versions
<1>3. QED
  BY <1>1, <1>2 DEF Init, IInv, AskedInv, MissingInv, OwnInv, InHandInv, PlanInv, CoverInv,
     DuplicatesExplained

LEMMA Invariant == Spec => []IInv
  BY Initially, Inductive, PTL DEF Spec

-----------------------------------------------------------------------------
\* The refresh and the requests hold on to rows that are there only.
THEOREM TypeCorrect == Spec => []TypeOK
<1>1. IInv => TypeOK
  BY DEF IInv
<1>2. QED
  BY <1>1, Invariant, PTL

\* No second row for a vote account but by a list that names it twice, by create, or by
\* requests under way at the same time.
THEOREM DuplicatesKnown == Spec => []DuplicatesExplained
<1>1. IInv => DuplicatesExplained
  BY DEF IInv
<1>2. QED
  BY <1>1, Invariant, PTL

\* A request that ends well has every validator of its list in the table.
THEOREM RequestsKept == Spec => []RequestKept
<1>1. IInv => RequestKept
  BY DEF IInv, CoverInv, RequestKept
<1>2. QED
  BY <1>1, Invariant, PTL
=============================================================================
