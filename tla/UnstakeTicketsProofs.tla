------------------------- MODULE UnstakeTicketsProofs -------------------------
(***************************************************************************)
(* Theorems about UnstakeTickets, for any tickets, times, requests and     *)
(* crashes. The invariants are in three layers: what tasks and copies are  *)
(* (IInv), where claims come from (SourceInv), and what an update that     *)
(* missed nothing may write (FreshInv).                                    *)
(***************************************************************************)
EXTENDS UnstakeTickets, TLAPS

Places == {"off", "done", "failed"} \cup Awaits

\* A request under way has a body, and a bulk insert's gives the times.
AskedInv ==
  \A q \in Requests : at[q] # "off" =>
    /\ asked[q] \in Work
    /\ asked[q].op = "postBulk" =>
         \A t \in Tickets : asked[q].updates[t] # NULL => asked[q].updates[t].time \in Times

\* Copies are of rows that are there, held only while they are saved.
HeldInv ==
  \A k \in Tasks, i \in Ids : copies[k][i] # NULL => at[k] \in {"save", "write"} /\ rows[i] # NULL

\* Handlers start after their instruction; of them only a claim's updates rows.
StartedInv ==
  \A t \in Tickets :
    /\ onChain[t] = "none" => at[<<"order", t>>] = "off" /\ at[<<"listener", t>>] = "off"
    /\ onChain[t] # "claimed" => at[<<"claim", t>>] = "off"
    /\ at[<<"order", t>>] \notin {"find", "save", "write"}
    /\ at[<<"listener", t>>] \notin {"mongo", "find", "save", "write"}

\* A task inserts once.
InsertedInv ==
  \A i \in Ids : rows[i] # NULL => at[i[1]] \notin {"off", "mongo", "epoch", "insert"}

IInv == TypeOK /\ AskedInv /\ HeldInv /\ StartedInv /\ InsertedInv

-----------------------------------------------------------------------------
\* The shape of tasks: handlers are pairs, and no request is one.
LEMMA Shapes ==
  /\ \A k \in Tasks : k \notin Requests => k \in Handlers /\ k = <<k[1], k[2]>> /\ k[2] \in Tickets
                                             /\ k[1] \in {"order", "listener", "claim"}
  /\ \A t \in Tickets, h \in {"order", "listener", "claim"} :
       <<h, t>> \in Tasks /\ <<h, t>> \notin Requests
  /\ \A i \in Ids : i[1] \in Tasks /\ i[2] \in Tickets
  /\ Requests \subseteq Tasks
  BY UnstakeTicketsAssumption DEF Tasks, Handlers, Ids, Inserters

\* What a task under way asks for is an update.
LEMMA AsksUpdate ==
  ASSUME IInv, NEW k \in Tasks, at[k] # "off", NEW t \in Tickets
  PROVE  Asks(k, t) \in Update
<1>1. CASE k \notin Requests
  BY <1>1 DEF Asks, Update
<1>2. CASE k \in Requests
  <2>1. asked[k].updates[t] \in Update \cup {NULL}
    BY <1>2 DEF IInv, AskedInv, Work
  <2>2. QED
    BY <1>2, <2>1 DEF Asks, Nothing, Update
<1>3. QED
  BY <1>1, <1>2

\* The copy an update makes of a row is a row.
LEMMA UpdatedRow ==
  ASSUME NEW row \in Row, NEW update \in Update
  PROVE  Updated(row, update) \in Row
  BY DEF Updated, Row, Update

\* So is what a task inserts; it is not claimed.
LEMMA NewRowRow ==
  ASSUME IInv, NEW k \in Tasks, at[k] = "insert", NEW t \in Of(k), t \in Tickets
  PROVE  NewRow(k, t) \in Row /\ ~NewRow(k, t).claimed
<1>1. CASE Op(k) # "postBulk"
  BY <1>1 DEF NewRow, Row
<1>2. CASE Op(k) = "postBulk" /\ k \in Requests
  <2>1. asked[k].op = "postBulk" /\ asked[k].updates[t] # NULL
    BY <1>2 DEF Op, Of
  <2>2. Asks(k, t).time \in Times
    BY <1>2, <2>1 DEF IInv, AskedInv, Asks
  <2>3. QED
    BY <1>2, <2>2 DEF NewRow, Row
<1>3. ~(Op(k) = "postBulk" /\ k \notin Requests)
  BY Shapes DEF Op
<1>4. QED
  BY <1>1, <1>2, <1>3

\* One task goes on to another await and nothing else changes.
LEMMA Moves ==
  ASSUME IInv, NEW k \in Tasks, NEW where \in Places, at' = [at EXCEPT ![k] = where],
         UNCHANGED <<onChain, up, crashes, rows, asked, copies, dirty, missed>>,
         at[k] \in {"mongo", "epoch", "find"}, where \in {"epoch", "insert", "find", "done"},
         where = "find" => at[k] = "mongo" /\ Op(k) # "order",
         where \in {"epoch", "insert"} => at[k] \in {"mongo", "epoch"}
  PROVE  IInv'
<1>1. at \in [Tasks -> Places] /\ at'[k] = where /\ \A l \in Tasks \ {k} : at'[l] = at[l]
  BY DEF IInv, TypeOK, Places
<1>2. TypeOK'
  BY <1>1 DEF IInv, TypeOK, Places
<1>3. AskedInv'
  BY <1>1, Shapes DEF IInv, AskedInv
<1>4. HeldInv'
  BY <1>1 DEF IInv, HeldInv
<1>5. StartedInv'
  BY <1>1, Shapes DEF IInv, StartedInv, Op
<1>6. InsertedInv'
  BY <1>1, Shapes DEF IInv, InsertedInv
<1>7. QED
  BY <1>2, <1>3, <1>4, <1>5, <1>6 DEF IInv

\* One task ends, and forgets its copies.
LEMMA Ends ==
  ASSUME IInv, NEW k \in Tasks, NEW where \in {"done", "failed"}, at' = [at EXCEPT ![k] = where],
         UNCHANGED <<onChain, up, crashes, rows, asked>>, Forget(k), at[k] \in Awaits
  PROVE  IInv'
<1>1. /\ at \in [Tasks -> Places] /\ at'[k] = where /\ \A l \in Tasks \ {k} : at'[l] = at[l]
      /\ copies'[k] = NoCopy /\ \A l \in Tasks \ {k} : copies'[l] = copies[l]
  BY DEF IInv, TypeOK, Places, Forget
<1>2. TypeOK'
  BY <1>1 DEF IInv, TypeOK, Places, Forget, NoCopy
<1>3. AskedInv'
  BY <1>1, Shapes DEF IInv, AskedInv, Awaits
<1>4. HeldInv'
  BY <1>1 DEF IInv, HeldInv, NoCopy
<1>5. StartedInv'
  BY <1>1, Shapes DEF IInv, StartedInv, Awaits
<1>6. InsertedInv'
  BY <1>1, Shapes DEF IInv, InsertedInv
<1>7. QED
  BY <1>2, <1>3, <1>4, <1>5, <1>6 DEF IInv

-----------------------------------------------------------------------------
LEMMA SaveEventKeeps ==
  ASSUME IInv, NEW k \in Tasks, SaveEvent(k)
  PROVE  IInv'
  BY Moves DEF SaveEvent, Goto, Places, Awaits, memory

LEMMA EstimateKeeps ==
  ASSUME IInv, NEW k \in Tasks, Estimate(k)
  PROVE  IInv'
  BY Moves DEF Estimate, Goto, Places, Awaits, memory

\* The rows inserted are new.
LEMMA InsertKeeps ==
  ASSUME IInv, NEW k \in Tasks, Insert(k)
  PROVE  IInv'
<1>1. /\ at \in [Tasks -> Places] /\ at[k] = "insert" /\ at'[k] = "done"
      /\ \A l \in Tasks \ {k} : at'[l] = at[l]
      /\ at' = [at EXCEPT ![k] = "done"]
      /\ UNCHANGED <<onChain, up, crashes, asked, copies, dirty, missed>>
  BY DEF Insert, Goto, IInv, TypeOK, Places, memory
<1>2. \A i \in Ids : i[2] \in Of(k) => NewRow(k, i[2]) \in Row
  BY <1>1, NewRowRow, Shapes
<1>3. \A i \in Ids : \/ rows'[i] = rows[i]
                     \/ i[1] = k /\ rows[i] = NULL /\ rows'[i] = NewRow(k, i[2])
  BY <1>1 DEF Insert, IInv, InsertedInv
<1>4. rows' \in [Ids -> Row \cup {NULL}]
  BY <1>2 DEF Insert, IInv, TypeOK
<1>5. TypeOK'
  BY <1>1, <1>4 DEF IInv, TypeOK, Places
<1>6. AskedInv'
  BY <1>1, Shapes DEF IInv, AskedInv
<1>7. HeldInv'
  BY <1>1, <1>3 DEF IInv, HeldInv
<1>8. StartedInv'
  BY <1>1, Shapes DEF IInv, StartedInv
<1>9. InsertedInv'
  BY <1>1, <1>3, Shapes DEF IInv, InsertedInv
<1>10. QED
  BY <1>5, <1>6, <1>7, <1>8, <1>9 DEF IInv

\* The copies a task takes are of rows that are there.
LEMMA FindKeeps ==
  ASSUME IInv, NEW k \in Tasks, Find(k)
  PROVE  IInv'
<1>1. /\ at \in [Tasks -> Places] /\ at[k] = "find" /\ at[k] # "off"
      /\ UNCHANGED <<onChain, up, crashes, rows, asked, dirty, missed>>
  BY DEF Find, IInv, TypeOK, Places
<1>2. CASE at' = [at EXCEPT ![k] = "done"] /\ UNCHANGED copies
  BY <1>1, <1>2, Moves DEF Places
<1>3. ASSUME NEW chosen \in SUBSET Found(k),
             copies' = [copies EXCEPT ![k] =
               [i \in Ids |-> IF i \in chosen THEN Updated(rows[i], Asks(k, i[2])) ELSE NULL]],
             at' = [at EXCEPT ![k] = "save"]
      PROVE  IInv'
  <2>1. /\ at'[k] = "save" /\ \A l \in Tasks \ {k} : at'[l] = at[l] /\ copies'[l] = copies[l]
        /\ \A i \in Ids : copies'[k][i] = IF i \in chosen THEN Updated(rows[i], Asks(k, i[2]))
                                          ELSE NULL
    BY <1>1, <1>3 DEF IInv, TypeOK
  <2>2. \A i \in chosen : i \in Ids /\ rows[i] \in Row /\ rows[i] # NULL
    BY DEF Found, Present, IInv, TypeOK
  <2>3. \A i \in chosen : Updated(rows[i], Asks(k, i[2])) \in Row
    BY <1>1, <2>2, AsksUpdate, UpdatedRow, Shapes
  <2>4. TypeOK'
    <3>1. [i \in Ids |-> IF i \in chosen THEN Updated(rows[i], Asks(k, i[2])) ELSE NULL]
            \in [Ids -> Row \cup {NULL}]
      BY <2>3
    <3>2. copies' \in [Tasks -> [Ids -> Row \cup {NULL}]]
      BY <1>3, <3>1 DEF IInv, TypeOK
    <3>3. at' \in [Tasks -> Places]
      BY <1>1, <1>3 DEF Places, Awaits
    <3>4. QED
      BY <1>1, <3>2, <3>3 DEF IInv, TypeOK, Places
  <2>5. AskedInv'
    BY <1>1, <2>1, Shapes DEF IInv, AskedInv
  <2>6. HeldInv'
    BY <1>1, <2>1, <2>2 DEF IInv, HeldInv
  <2>7. StartedInv'
    BY <1>1, <2>1, Shapes DEF IInv, StartedInv
  <2>8. InsertedInv'
    BY <1>1, <2>1, Shapes DEF IInv, InsertedInv
  <2>9. QED
    BY <2>4, <2>5, <2>6, <2>7, <2>8 DEF IInv
<1>4. QED
  BY <1>2, <1>3 DEF Find, Goto

LEMMA ReloadKeeps ==
  ASSUME IInv, NEW k \in Tasks, Reload(k)
  PROVE  IInv'
<1>1. /\ at \in [Tasks -> Places] /\ at[k] = "save" /\ at[k] \in Awaits
      /\ UNCHANGED <<onChain, up, crashes, rows, asked>>
  BY DEF Reload, IInv, TypeOK, Places, Awaits
<1>2. CASE Differing(k) = {}
  BY <1>1, <1>2, Ends DEF Reload, Goto
<1>3. CASE Differing(k) # {}
  <2>1. /\ at' = [at EXCEPT ![k] = "write"] /\ UNCHANGED <<copies, missed>>
        /\ dirty' = [dirty EXCEPT ![k] = Differing(k)]
        /\ at'[k] = "write" /\ \A l \in Tasks \ {k} : at'[l] = at[l]
    BY <1>1, <1>3 DEF Reload, Goto
  <2>2. TypeOK'
    BY <1>1, <2>1 DEF IInv, TypeOK, Differing, Awaits
  <2>3. AskedInv'
    BY <1>1, <2>1, Shapes DEF IInv, AskedInv
  <2>4. HeldInv'
    BY <1>1, <2>1 DEF IInv, HeldInv
  <2>5. StartedInv'
    BY <1>1, <2>1, Shapes DEF IInv, StartedInv
  <2>6. InsertedInv'
    BY <1>1, <2>1, Shapes DEF IInv, InsertedInv
  <2>7. QED
    BY <2>2, <2>3, <2>4, <2>5, <2>6 DEF IInv
<1>4. QED
  BY <1>2, <1>3

\* Each column that is written comes from the copy or stays.
LEMMA Written ==
  ASSUME IInv, NEW k \in Tasks, Write(k), NEW i \in Ids
  PROVE  /\ copies[k][i] = NULL => rows'[i] = rows[i]
         /\ copies[k][i] # NULL =>
              /\ rows[i] \in Row /\ copies[k][i] \in Row /\ rows'[i] \in Row
              /\ \A column \in Columns :
                   Value(rows'[i], column) =
                     IF <<i, column>> \in dirty[k] THEN Value(copies[k][i], column)
                     ELSE Value(rows[i], column)
<1>1. copies[k][i] # NULL => rows[i] \in Row /\ copies[k][i] \in Row
  BY DEF IInv, TypeOK, HeldInv
<1>2. copies[k][i] = NULL => rows'[i] = rows[i]
  BY DEF Write
<1>3. copies[k][i] # NULL =>
        rows'[i] = [claimed |-> IF <<i, "claimed">> \in dirty[k] THEN copies[k][i].claimed
                                ELSE rows[i].claimed,
                    time    |-> IF <<i, "time">> \in dirty[k] THEN copies[k][i].time
                                ELSE rows[i].time]
  BY DEF Write
<1>4. copies[k][i] # NULL => rows'[i] \in Row
  BY <1>1, <1>3 DEF Row
<1>5. ASSUME copies[k][i] # NULL, NEW column \in Columns
      PROVE  Value(rows'[i], column) = IF <<i, column>> \in dirty[k] THEN Value(copies[k][i], column)
                                       ELSE Value(rows[i], column)
  <2>1. CASE column = "claimed"
    BY <1>3, <1>5, <2>1 DEF Value
  <2>2. CASE column = "time"
    BY <1>3, <1>5, <2>2 DEF Value
  <2>3. QED
    BY <2>1, <2>2 DEF Columns
<1>6. QED
  BY <1>1, <1>2, <1>4, <1>5

LEMMA WriteKeeps ==
  ASSUME IInv, NEW k \in Tasks, Write(k)
  PROVE  IInv'
<1>1. /\ at \in [Tasks -> Places] /\ at[k] = "write"
      /\ at' = [at EXCEPT ![k] = "done"]
      /\ UNCHANGED <<onChain, up, crashes, asked>>
      /\ at'[k] = "done" /\ \A l \in Tasks \ {k} : at'[l] = at[l]
      /\ copies'[k] = NoCopy /\ \A l \in Tasks \ {k} : copies'[l] = copies[l]
  BY DEF Write, Goto, IInv, TypeOK, Places
<1>2. \A i \in Ids : rows'[i] \in Row \cup {NULL} /\ (rows'[i] # NULL <=> rows[i] # NULL)
  <2> SUFFICES ASSUME NEW i \in Ids
               PROVE  rows'[i] \in Row \cup {NULL} /\ (rows'[i] # NULL <=> rows[i] # NULL)
    OBVIOUS
  <2>1. rows[i] \in Row \cup {NULL} /\ NULL \notin Row
    BY UnstakeTicketsAssumption DEF IInv, TypeOK
  <2>2. QED
    BY <2>1, Written
<1>3. TypeOK'
  <2>1. rows' \in [Ids -> Row \cup {NULL}]
    BY <1>2 DEF Write
  <2>2. missed' \in [Tasks -> SUBSET Ids]
    BY DEF Write, IInv, TypeOK
  <2>3. copies' \in [Tasks -> [Ids -> Row \cup {NULL}]] /\ dirty' \in [Tasks -> SUBSET (Ids \X Columns)]
    BY DEF Write, IInv, TypeOK, NoCopy
  <2>4. QED
    BY <1>1, <2>1, <2>2, <2>3 DEF IInv, TypeOK, Places
<1>4. AskedInv'
  BY <1>1, Shapes DEF IInv, AskedInv
<1>5. HeldInv'
  BY <1>1, <1>2 DEF IInv, HeldInv, NoCopy
<1>6. StartedInv'
  BY <1>1, Shapes DEF IInv, StartedInv
<1>7. InsertedInv'
  BY <1>1, <1>2, Shapes DEF IInv, InsertedInv
<1>8. QED
  BY <1>3, <1>4, <1>5, <1>6, <1>7 DEF IInv

-----------------------------------------------------------------------------
\* The instructions start handlers that had not started.
LEMMA OrderUnstakeKeeps ==
  ASSUME IInv, NEW t \in Tickets, OrderUnstake(t)
  PROVE  IInv'
<1> DEFINE o == <<"order", t>>
           l == <<"listener", t>>
<1>1. /\ o \in Tasks /\ o \notin Requests /\ l \in Tasks /\ l \notin Requests /\ o # l
      /\ \A s \in Tickets : <<"claim", s>> # o /\ <<"claim", s>> # l
      /\ \A s \in Tickets \ {t} : <<"order", s>> \notin {o, l} /\ <<"listener", s>> \notin {o, l}
  BY Shapes
<1>2. /\ at \in [Tasks -> Places] /\ onChain[t] = "none" /\ at[o] = "off" /\ at[l] = "off"
      /\ UNCHANGED <<up, crashes, rows, asked, copies, dirty, missed>>
      /\ onChain'[t] = "open" /\ \A s \in Tickets \ {t} : onChain'[s] = onChain[s]
  BY DEF OrderUnstake, memory, IInv, TypeOK, StartedInv, Places
<1>3. /\ \A k \in Tasks \ {o, l} : at'[k] = at[k]
      /\ at'[o] \in {"off", "mongo"} /\ at'[l] \in {"off", "epoch"}
      /\ at' \in [Tasks -> Places]
  BY <1>1, <1>2 DEF OrderUnstake, Places, Awaits
<1>4. TypeOK'
  BY <1>2, <1>3 DEF OrderUnstake, IInv, TypeOK, Places
<1>5. AskedInv'
  BY <1>1, <1>2, <1>3, Shapes DEF IInv, AskedInv
<1>6. HeldInv'
  BY <1>2, <1>3 DEF IInv, HeldInv
<1>7. StartedInv'
  <2> SUFFICES ASSUME NEW s \in Tickets
               PROVE  /\ onChain'[s] = "none" =>
                           at'[<<"order", s>>] = "off" /\ at'[<<"listener", s>>] = "off"
                      /\ onChain'[s] # "claimed" => at'[<<"claim", s>>] = "off"
                      /\ at'[<<"order", s>>] \notin {"find", "save", "write"}
                      /\ at'[<<"listener", s>>] \notin {"mongo", "find", "save", "write"}
    BY DEF StartedInv
  <2>1. /\ <<"order", s>> \in Tasks /\ <<"listener", s>> \in Tasks /\ <<"claim", s>> \in Tasks
    BY Shapes
  <2>2. CASE s = t
    BY <1>1, <1>2, <1>3, <2>1, <2>2 DEF IInv, StartedInv
  <2>3. CASE s # t
    BY <1>1, <1>2, <1>3, <2>1, <2>3 DEF IInv, StartedInv
  <2>4. QED
    BY <2>2, <2>3
<1>8. InsertedInv'
  BY <1>1, <1>2, <1>3, Shapes DEF IInv, InsertedInv
<1>9. QED
  BY <1>4, <1>5, <1>6, <1>7, <1>8 DEF IInv

LEMMA ClaimKeeps ==
  ASSUME IInv, NEW t \in Tickets, Claim(t)
  PROVE  IInv'
<1> DEFINE c == <<"claim", t>>
<1>1. /\ c \in Tasks /\ c \notin Requests
      /\ \A s \in Tickets : <<"order", s>> # c /\ <<"listener", s>> # c
      /\ \A s \in Tickets \ {t} : <<"claim", s>> # c
      /\ \A i \in Ids : i[1] # c
  BY UnstakeTicketsAssumption DEF Tasks, Handlers, Ids, Inserters
<1>2. /\ at \in [Tasks -> Places] /\ onChain[t] = "open" /\ at[c] = "off"
      /\ UNCHANGED <<up, crashes, rows, asked, copies, dirty, missed>>
      /\ onChain'[t] = "claimed" /\ \A s \in Tickets \ {t} : onChain'[s] = onChain[s]
  BY DEF Claim, memory, IInv, TypeOK, StartedInv, Places
<1>3. /\ \A k \in Tasks \ {c} : at'[k] = at[k]
      /\ at' \in [Tasks -> Places]
  BY <1>1, <1>2 DEF Claim, Places, Awaits
<1>4. TypeOK'
  BY <1>2, <1>3 DEF Claim, IInv, TypeOK, Places
<1>5. AskedInv'
  BY <1>1, <1>2, <1>3, Shapes DEF IInv, AskedInv
<1>6. HeldInv'
  BY <1>2, <1>3 DEF IInv, HeldInv
<1>7. StartedInv'
  <2> SUFFICES ASSUME NEW s \in Tickets
               PROVE  /\ onChain'[s] = "none" =>
                           at'[<<"order", s>>] = "off" /\ at'[<<"listener", s>>] = "off"
                      /\ onChain'[s] # "claimed" => at'[<<"claim", s>>] = "off"
                      /\ at'[<<"order", s>>] \notin {"find", "save", "write"}
                      /\ at'[<<"listener", s>>] \notin {"mongo", "find", "save", "write"}
    BY DEF StartedInv
  <2>1. /\ <<"order", s>> \in Tasks /\ <<"listener", s>> \in Tasks /\ <<"claim", s>> \in Tasks
    BY Shapes
  <2>2. CASE s = t
    BY <1>1, <1>2, <1>3, <2>1, <2>2 DEF IInv, StartedInv
  <2>3. CASE s # t
    BY <1>1, <1>2, <1>3, <2>1, <2>3 DEF IInv, StartedInv
  <2>4. QED
    BY <2>2, <2>3
<1>8. InsertedInv'
  BY <1>1, <1>2, <1>3, Shapes DEF IInv, InsertedInv
<1>9. QED
  BY <1>4, <1>5, <1>6, <1>7, <1>8 DEF IInv

\* A request that is made has its body from then on.
LEMMA RequestKeeps ==
  ASSUME IInv, NEW q \in Requests, Request(q)
  PROVE  IInv'
<1>1. PICK w \in Work :
        /\ w.op = "postBulk" =>
             \A t \in {s \in Tickets : w.updates[s] # NULL} : w.updates[t].time \in Times
        /\ asked' = [asked EXCEPT ![q] = w]
        /\ at' = [at EXCEPT ![q] = CASE w.op = "post" -> "epoch" [] w.op = "postBulk" -> "insert"
                                     [] OTHER -> "find"]
  BY DEF Request, Goto
<1>2. /\ q \in Tasks /\ at \in [Tasks -> Places] /\ asked \in [Requests -> Work \cup {NULL}]
      /\ at[q] = "off" /\ UNCHANGED <<onChain, up, crashes, rows, copies, dirty, missed>>
  BY Shapes DEF Request, memory, IInv, TypeOK, Places
<1>3. /\ asked'[q] = w /\ \A r \in Requests \ {q} : asked'[r] = asked[r]
      /\ at'[q] \in {"epoch", "insert", "find"} /\ \A k \in Tasks \ {q} : at'[k] = at[k]
  BY <1>1, <1>2
<1>4. TypeOK'
  <2>1. at' \in [Tasks -> Places] /\ asked' \in [Requests -> Work \cup {NULL}]
    BY <1>1, <1>2, <1>3 DEF Places, Awaits
  <2>2. QED
    BY <1>2, <2>1 DEF IInv, TypeOK, Places
<1>5. AskedInv'
  <2> SUFFICES ASSUME NEW r \in Requests, at'[r] # "off"
               PROVE  /\ asked'[r] \in Work
                      /\ asked'[r].op = "postBulk" => \A t \in Tickets :
                           asked'[r].updates[t] # NULL => asked'[r].updates[t].time \in Times
    BY DEF AskedInv
  <2>1. CASE r = q
    BY <1>1, <1>3, <2>1
  <2>2. CASE r # q
    BY <1>3, <2>2, Shapes DEF IInv, AskedInv
  <2>3. QED
    BY <2>1, <2>2
<1>6. HeldInv'
  BY <1>2, <1>3 DEF IInv, HeldInv
<1>7. StartedInv'
  <2>1. \A t \in Tickets, h \in {"order", "listener", "claim"} : at'[<<h, t>>] = at[<<h, t>>]
    BY <1>2, <1>3, Shapes
  <2>2. QED
    BY <1>2, <2>1 DEF IInv, StartedInv
<1>8. InsertedInv'
  BY <1>2, <1>3, Shapes DEF IInv, InsertedInv
<1>9. QED
  BY <1>4, <1>5, <1>6, <1>7, <1>8 DEF IInv

\* The process ends, and with it all tasks; it starts again with none.
LEMMA CrashKeeps ==
  ASSUME IInv, Crash
  PROVE  IInv'
<1>1. /\ at' = [k \in Tasks |-> IF at[k] \in Awaits THEN "failed" ELSE at[k]]
      /\ copies' = [k \in Tasks |-> NoCopy] /\ UNCHANGED <<onChain, rows, asked>>
  BY DEF Crash
<1>2. TypeOK'
  <2>1. at' \in [Tasks -> {"off", "done", "failed"} \cup Awaits]
    BY <1>1 DEF IInv, TypeOK
  <2>2. NoCopy \in [Ids -> Row \cup {NULL}]
    BY DEF NoCopy
  <2>3. copies' \in [Tasks -> [Ids -> Row \cup {NULL}]]
    BY <1>1, <2>2
  <2>4. /\ dirty' \in [Tasks -> SUBSET (Ids \X Columns)] /\ missed' \in [Tasks -> SUBSET Ids]
        /\ up' \in BOOLEAN
    BY DEF Crash
  <2>5. crashes' \in 0 .. MaxCrashes
    BY UnstakeTicketsAssumption DEF Crash, IInv, TypeOK
  <2>6. QED
    BY <1>1, <2>1, <2>3, <2>4, <2>5 DEF IInv, TypeOK
<1>3. AskedInv'
  BY <1>1, Shapes DEF IInv, AskedInv, Awaits
<1>4. HeldInv'
  BY <1>1 DEF HeldInv, NoCopy
<1>5. StartedInv'
  BY <1>1, Shapes DEF IInv, StartedInv, Awaits
<1>6. InsertedInv'
  BY <1>1, Shapes DEF IInv, InsertedInv, Awaits
<1>7. QED
  BY <1>2, <1>3, <1>4, <1>5, <1>6 DEF IInv

LEMMA CallFailsKeeps ==
  ASSUME IInv, NEW k \in Tasks, CallFails(k)
  PROVE  IInv'
<1>1. CASE Uncaught(k)
  BY <1>1, CrashKeeps DEF CallFails
<1>2. CASE ~Uncaught(k)
  BY <1>2, Ends DEF CallFails, Goto
<1>3. QED
  BY <1>1, <1>2

\* Nothing of what the invariant is about changes.
LEMMA Standing ==
  ASSUME IInv, up' \in BOOLEAN,
         UNCHANGED <<onChain, crashes, rows, at, asked, copies, dirty, missed>>
  PROVE  IInv'
  BY DEF IInv, TypeOK, AskedInv, HeldInv, StartedInv, InsertedInv

-----------------------------------------------------------------------------
LEMMA InitialIInv == Init => IInv
<1> SUFFICES ASSUME Init PROVE IInv
  OBVIOUS
<1>1. TypeOK
  BY UnstakeTicketsAssumption DEF Init, TypeOK, NoCopy
<1>2. AskedInv
  BY Shapes DEF Init, AskedInv
<1>3. HeldInv
  BY DEF Init, HeldInv, NoCopy
<1>4. StartedInv
  BY Shapes DEF Init, StartedInv
<1>5. InsertedInv
  BY DEF Init, InsertedInv
<1>6. QED
  BY <1>1, <1>2, <1>3, <1>4, <1>5 DEF IInv

LEMMA StepKeepsIInv == IInv /\ [Next]_vars => IInv'
<1> SUFFICES ASSUME IInv, [Next]_vars PROVE IInv'
  OBVIOUS
<1>1. ASSUME NEW t \in Tickets, OrderUnstake(t) \/ Claim(t) PROVE IInv'
  BY <1>1, OrderUnstakeKeeps, ClaimKeeps
<1>2. ASSUME NEW q \in Requests, Request(q) PROVE IInv'
  BY <1>2, RequestKeeps
<1>3. ASSUME NEW k \in Tasks, Step(k) PROVE IInv'
  BY <1>3, SaveEventKeeps, EstimateKeeps, InsertKeeps, FindKeeps, ReloadKeeps, WriteKeeps DEF Step
<1>4. ASSUME NEW k \in Tasks, CallFails(k) PROVE IInv'
  BY <1>4, CallFailsKeeps
<1>5. CASE Crash
  BY <1>5, CrashKeeps
<1>6. CASE Start
  BY <1>6, Standing DEF Start, memory
<1>7. CASE UNCHANGED vars
  BY <1>7, Standing DEF vars, IInv, TypeOK
<1>8. QED
  BY <1>1, <1>2, <1>3, <1>4, <1>5, <1>6, <1>7 DEF Next

\* The table, what every handler and request awaits and the copies they hold
\* always have their types: rows inserted by two handlers and by requests, updates
\* that write back copies, crashes in between.
THEOREM TypeCorrect == Spec => []TypeOK
<1>1. IInv => TypeOK
  BY DEF IInv
<1>2. QED
  BY <1>1, InitialIInv, StepKeepsIInv, PTL DEF Spec

-----------------------------------------------------------------------------
(* Where rows and copies come from.                                         *)

\* The rows change by an insert or a write alone.
LEMMA RowsChange ==
  ASSUME [Next]_vars, rows' # rows
  PROVE  \E k \in Tasks : Insert(k) \/ Write(k)
<1>1. ASSUME NEW k \in Tasks, Step(k), ~Insert(k), ~Write(k) PROVE rows' = rows
  BY <1>1 DEF Step, SaveEvent, Estimate, Find, Reload
<1>2. ASSUME NEW k \in Tasks, CallFails(k) PROVE rows' = rows
  BY <1>2 DEF CallFails, Crash
<1>3. CASE Crash \/ Start \/ UNCHANGED vars
  BY <1>3 DEF Crash, Start, vars
<1>4. ASSUME NEW t \in Tickets, OrderUnstake(t) \/ Claim(t) PROVE rows' = rows
  BY <1>4 DEF OrderUnstake, Claim
<1>5. ASSUME NEW q \in Requests, Request(q) PROVE rows' = rows
  BY <1>5 DEF Request
<1>6. QED
  BY <1>1, <1>2, <1>3, <1>4, <1>5 DEF Next

\* A row that was not there is not claimed; one that was there stays, or is written.
LEMMA RowSources ==
  ASSUME IInv, [Next]_vars, NEW i \in Ids, rows'[i] # rows[i]
  PROVE  \/ rows[i] = NULL /\ ~rows'[i].claimed /\ rows'[i] # NULL
         \/ \E k \in Tasks : Write(k) /\ copies[k][i] # NULL /\ rows[i] # NULL /\ rows'[i] # NULL
<1>1. PICK k \in Tasks : Insert(k) \/ Write(k)
  BY RowsChange
<1>2. CASE Insert(k)
  <2>1. /\ i[1] = k /\ i[2] \in Of(k) /\ rows'[i] = NewRow(k, i[2]) /\ at[k] = "insert"
        /\ i[2] \in Tickets
    BY <1>2, Shapes DEF Insert
  <2>2. rows[i] = NULL
    BY <2>1 DEF IInv, InsertedInv
  <2>3. NewRow(k, i[2]) \in Row /\ ~NewRow(k, i[2]).claimed
    BY <2>1, NewRowRow
  <2>4. QED
    BY <2>1, <2>2, <2>3, UnstakeTicketsAssumption
<1>3. CASE Write(k)
  BY <1>3, Written, UnstakeTicketsAssumption
<1>4. QED
  BY <1>1, <1>2, <1>3

\* A copy is an old one, or one taken by a task of a row it finds.
LEMMA CopySources ==
  ASSUME IInv, [Next]_vars, NEW i \in Ids, NEW k \in Tasks, copies'[k][i] # NULL
  PROVE  \/ copies'[k][i] = copies[k][i] /\ missed[k] \subseteq missed'[k]
         \/ /\ at[k] = "find" /\ at'[k] = "save" /\ i \in Found(k)
            /\ copies'[k][i] = Updated(rows[i], Asks(k, i[2]))
            /\ UNCHANGED <<rows, asked>>
<1>1. copies \in [Tasks -> [Ids -> Row \cup {NULL}]] /\ NoCopy[i] = NULL
      /\ missed \in [Tasks -> SUBSET Ids] /\ at \in [Tasks -> Places]
  BY DEF IInv, TypeOK, NoCopy, Places
<1> DEFINE Old == copies'[k][i] = copies[k][i] /\ missed[k] \subseteq missed'[k]
           New == /\ at[k] = "find" /\ at'[k] = "save" /\ i \in Found(k)
                  /\ copies'[k][i] = Updated(rows[i], Asks(k, i[2]))
                  /\ UNCHANGED <<rows, asked>>
<1>2. ASSUME NEW l \in Tasks, Find(l) PROVE Old \/ New
  <2>1. CASE UNCHANGED copies
    BY <1>2, <2>1 DEF Find
  <2>2. ASSUME NEW chosen \in SUBSET Found(l), Goto(l, "save"),
               copies' = [copies EXCEPT ![l] =
                 [j \in Ids |-> IF j \in chosen THEN Updated(rows[j], Asks(l, j[2])) ELSE NULL]]
        PROVE  Old \/ New
    <3>1. CASE k = l
      <4>1. copies'[k][i] = IF i \in chosen THEN Updated(rows[i], Asks(l, i[2])) ELSE NULL
        BY <1>1, <2>2, <3>1
      <4>2. at'[k] = "save" /\ at[k] = "find" /\ UNCHANGED <<rows, asked>>
        BY <1>1, <1>2, <2>2, <3>1 DEF Goto, Find
      <4>3. QED
        BY <3>1, <4>1, <4>2
    <3>2. CASE k # l
      BY <1>1, <1>2, <2>2, <3>2 DEF Find
    <3>3. QED
      BY <3>1, <3>2
  <2>3. QED
    BY <1>2, <2>1, <2>2 DEF Find
<1>3. ASSUME copies' = copies, missed' = missed PROVE Old \/ New
  BY <1>3
<1>4. ASSUME NEW l \in Tasks, Forget(l) PROVE Old \/ New
  BY <1>1, <1>4 DEF Forget
<1>5. ASSUME NEW l \in Tasks, Write(l) PROVE Old \/ New
  BY <1>1, <1>5 DEF Write
<1>6. ASSUME NEW l \in Tasks, Step(l) PROVE Old \/ New
  <2>1. CASE Find(l)
    BY <1>2, <2>1
  <2>2. CASE Write(l)
    BY <1>5, <2>2
  <2>3. CASE ~Find(l) /\ ~Write(l)
    <3>1. (copies' = copies /\ missed' = missed) \/ Forget(l)
      BY <1>6, <2>3 DEF Step, SaveEvent, Estimate, Insert, Reload, memory
    <3>2. QED
      BY <1>3, <1>4, <3>1
  <2>4. QED
    BY <2>1, <2>2, <2>3
<1>7. ~Crash
  BY <1>1 DEF Crash
<1>8. ASSUME NEW l \in Tasks, CallFails(l) PROVE Old \/ New
  BY <1>4, <1>7, <1>8 DEF CallFails
<1>9. ASSUME NEW t \in Tickets, OrderUnstake(t) \/ Claim(t) PROVE Old \/ New
  BY <1>3, <1>9 DEF OrderUnstake, Claim, memory
<1>10. ASSUME NEW q \in Requests, Request(q) PROVE Old \/ New
  BY <1>3, <1>10 DEF Request, memory
<1>11. CASE Start \/ UNCHANGED vars
  BY <1>3, <1>11 DEF Start, vars, memory
<1>12. QED
  BY <1>6, <1>7, <1>8, <1>9, <1>10, <1>11 DEF Next

\* A task under way, or ended, keeps what it was asked for.
LEMMA AsksStay ==
  ASSUME IInv, [Next]_vars, NEW k \in Tasks, at[k] # "off"
  PROVE  /\ at'[k] # "off"
         /\ \A t : Asks(k, t)' = Asks(k, t)
<1>1. at \in [Tasks -> Places] /\ asked \in [Requests -> Work \cup {NULL}]
  BY DEF IInv, TypeOK, Places
<1>2. at'[k] # "off" /\ (k \in Requests => asked'[k] = asked[k])
  <2>1. ASSUME NEW l \in Tasks, Step(l) PROVE at'[k] # "off" /\ asked' = asked
    BY <1>1, <2>1 DEF Step, SaveEvent, Estimate, Insert, Find, Reload, Write, Goto
  <2>2. CASE Crash
    BY <1>1, <2>2 DEF Crash
  <2>3. ASSUME NEW l \in Tasks, CallFails(l), ~Crash PROVE at'[k] # "off" /\ asked' = asked
    BY <1>1, <2>3 DEF CallFails, Goto
  <2>4. ASSUME NEW t \in Tickets, OrderUnstake(t) \/ Claim(t) PROVE at'[k] # "off" /\ asked' = asked
    BY <1>1, <2>4, Shapes DEF OrderUnstake, Claim
  <2>5. ASSUME NEW q \in Requests, Request(q)
        PROVE  at'[k] # "off" /\ (k \in Requests => asked'[k] = asked[k])
    <3>1. q # k
      BY <2>5 DEF Request
    <3>2. QED
      BY <1>1, <2>5, <3>1 DEF Request, Goto
  <2>6. CASE Start \/ UNCHANGED vars
    BY <2>6 DEF Start, vars
  <2>7. QED
    BY <2>1, <2>2, <2>3, <2>4, <2>5, <2>6 DEF Next
<1>3. QED
  BY <1>2 DEF Asks

-----------------------------------------------------------------------------
(* Where claims come from.                                                  *)

\* What the chain or a client has said stays said.
LEMMA AssertedStays ==
  ASSUME IInv, [Next]_vars, NEW t \in Tickets, Asserted(t)
  PROVE  Asserted(t)'
<1>1. CASE onChain[t] = "claimed"
  <2>1. onChain'[t] = "claimed"
    BY <1>1 DEF Next, OrderUnstake, Claim, Request, Step, SaveEvent, Estimate, Insert, Find, Reload,
                Write, CallFails, Crash, Start, vars, IInv, TypeOK
  <2>2. QED
    BY <2>1 DEF Asserted
<1>2. ASSUME NEW q \in Requests, at[q] # "off", Asks(q, t).claimed = TRUE PROVE Asserted(t)'
  <2>1. at'[q] # "off" /\ Asks(q, t)' = Asks(q, t)
    BY <1>2, AsksStay, Shapes
  <2>2. QED
    BY <1>2, <2>1 DEF Asserted
<1>3. QED
  BY <1>1, <1>2 DEF Asserted

\* No copy says more than the chain or a client has said.
SourceInv ==
  /\ ClaimsExplained
  /\ \A k \in Tasks, i \in Ids : copies[k][i] # NULL /\ copies[k][i].claimed => Asserted(i[2])

\* An update makes a claim of a row only if that is what its task is asked for, and a
\* claim's handler is asked for the ticket that was claimed.
LEMMA FoundClaims ==
  ASSUME IInv, ClaimsExplained, NEW k \in Tasks, at[k] = "find", NEW i \in Found(k),
         Updated(rows[i], Asks(k, i[2])).claimed
  PROVE  i \in Ids /\ Asserted(i[2])
<1>1. i \in Ids /\ rows[i] # NULL /\ i[2] \in Tickets /\ (Op(k) # "patchBulk" => i[2] \in Of(k))
  BY Shapes DEF Found, Present
<1>2. Asks(k, i[2]) \in Update
  BY <1>1, AsksUpdate
<1>3. CASE Asks(k, i[2]).claimed = NULL
  <2>1. Claimed(i)
    BY <1>1, <1>3 DEF Updated, Claimed
  <2>2. QED
    BY <1>1, <2>1 DEF ClaimsExplained
<1>4. CASE Asks(k, i[2]).claimed # NULL /\ k \in Requests
  <2>1. Asks(k, i[2]).claimed = TRUE
    BY <1>2, <1>4 DEF Updated, Update
  <2>2. QED
    BY <1>1, <1>4, <2>1 DEF Asserted
<1>5. CASE k \notin Requests
  <2>1. k = <<k[1], k[2]>> /\ k[2] \in Tickets /\ k[1] \in {"order", "listener", "claim"}
    BY <1>5, Shapes
  <2>2. PICK h \in {"order", "listener", "claim"}, t \in Tickets : k = <<h, t>>
    BY <2>1
  <2>3. h = "claim" /\ onChain[t] = "claimed"
    BY <2>2 DEF IInv, StartedInv
  <2>4. i[2] = t
    BY <1>1, <1>5, <2>2, <2>3 DEF Op, Of
  <2>5. QED
    BY <1>1, <2>3, <2>4 DEF Asserted
<1>6. QED
  BY <1>3, <1>4, <1>5

LEMMA SourceStep ==
  ASSUME IInv, SourceInv, [Next]_vars
  PROVE  SourceInv'
<1>1. ASSUME NEW i \in Ids, Claimed(i)' PROVE Asserted(i[2])'
  <2>1. Asserted(i[2])
    <3>1. CASE rows'[i] = rows[i]
      BY <1>1, <3>1 DEF SourceInv, ClaimsExplained, Claimed
    <3>2. CASE rows'[i] # rows[i]
      <4>1. PICK k \in Tasks : Write(k) /\ copies[k][i] # NULL /\ rows[i] # NULL
        BY <1>1, <3>2, RowSources DEF Claimed
      <4>2. Value(rows'[i], "claimed") \in {Value(copies[k][i], "claimed"), Value(rows[i], "claimed")}
        BY <4>1, Written DEF Columns
      <4>3. rows'[i].claimed \in {copies[k][i].claimed, rows[i].claimed}
        BY <4>2 DEF Value
      <4>4. QED
        BY <1>1, <4>1, <4>3 DEF SourceInv, ClaimsExplained, Claimed
    <3>3. QED
      BY <3>1, <3>2
  <2>2. QED
    BY <2>1, AssertedStays, Shapes
<1>2. ASSUME NEW k \in Tasks, NEW i \in Ids, copies'[k][i] # NULL, copies'[k][i].claimed
      PROVE  Asserted(i[2])'
  <2>1. Asserted(i[2])
    <3>1. CASE copies'[k][i] = copies[k][i]
      BY <1>2, <3>1 DEF SourceInv
    <3>2. CASE at[k] = "find" /\ i \in Found(k) /\ copies'[k][i] = Updated(rows[i], Asks(k, i[2]))
      BY <1>2, <3>2, FoundClaims DEF SourceInv
    <3>3. QED
      BY <1>2, <3>1, <3>2, CopySources
  <2>2. QED
    BY <2>1, AssertedStays, Shapes
<1>3. QED
  BY <1>1, <1>2 DEF SourceInv, ClaimsExplained

\* Whatever clients ask for, of whatever tickets, updateUnstakeTicket, its bulk form
\* and the claim handler mark a row as claimed only when its ticket has been claimed
\* or a client has asked for that: no other update and no old copy makes a claim.
THEOREM ClaimsTraced == Spec => []ClaimsExplained
<1>1. Init => SourceInv
  BY DEF Init, SourceInv, ClaimsExplained, Claimed, NoCopy
<1>2. IInv /\ SourceInv /\ [Next]_vars => SourceInv'
  BY SourceStep
<1>3. SourceInv => ClaimsExplained
  BY DEF SourceInv
<1>4. QED
  BY <1>1, <1>2, <1>3, InitialIInv, StepKeepsIInv, PTL DEF Spec

-----------------------------------------------------------------------------
(* What an update that missed nothing may write.                            *)

\* Until save reads a row again, a copy of it is the row with what was asked for,
\* unless another task wrote the row since; after that, the columns that differed
\* are columns that were asked for.
FreshInv ==
  \A k \in Tasks, i \in Ids : copies[k][i] # NULL /\ i \notin missed[k] =>
    /\ at[k] = "save" => copies[k][i] = Updated(rows[i], Asks(k, i[2]))
    /\ \A column \in Columns : at[k] = "write" /\ <<i, column>> \in dirty[k] =>
         Value(copies[k][i], column) = Value(Asks(k, i[2]), column)

\* An update changes a column only to what it names.
LEMMA UpdatedNames ==
  ASSUME NEW row, NEW update, NEW column \in Columns,
         Value(Updated(row, update), column) # Value(row, column)
  PROVE  Value(Updated(row, update), column) = Value(update, column)
<1>1. CASE column = "claimed"
  BY <1>1 DEF Updated, Value
<1>2. CASE column = "time"
  BY <1>2 DEF Updated, Value
<1>3. QED
  BY <1>1, <1>2 DEF Columns

\* While a task holds a copy of a row, either it goes from its save to its write, with
\* the columns that differ, or it stays where it is.
LEMMA Holding ==
  ASSUME IInv, [Next]_vars, NEW k \in Tasks, NEW i \in Ids,
         copies[k][i] # NULL, copies'[k][i] # NULL
  PROVE  \/ at'[k] = at[k] /\ dirty'[k] = dirty[k]
         \/ at[k] = "save" /\ at'[k] = "write" /\ dirty'[k] = Differing(k)
<1>1. /\ at \in [Tasks -> Places] /\ dirty \in [Tasks -> SUBSET (Ids \X Columns)]
      /\ copies \in [Tasks -> [Ids -> Row \cup {NULL}]] /\ NoCopy[i] = NULL
      /\ at[k] \in {"save", "write"}
  BY DEF IInv, TypeOK, Places, NoCopy, HeldInv
<1>2. ASSUME NEW l \in Tasks, Forget(l) PROVE l # k
  BY <1>1, <1>2 DEF Forget
<1>3. ASSUME NEW l \in Tasks, Step(l), l # k PROVE at'[k] = at[k] /\ dirty'[k] = dirty[k]
  BY <1>1, <1>3 DEF Step, SaveEvent, Estimate, Insert, Find, Reload, Write, Goto, Forget, memory
<1>4. ASSUME Step(k) PROVE at[k] = "save" /\ at'[k] = "write" /\ dirty'[k] = Differing(k)
  <2>1. ~Write(k)
    BY <1>1 DEF Write
  <2>2. Reload(k)
    BY <1>1, <1>4, <2>1 DEF Step, SaveEvent, Estimate, Insert, Find
  <2>3. QED
    BY <1>1, <1>2, <2>2 DEF Reload, Goto
<1>5. ~Crash
  BY <1>1 DEF Crash
<1>6. ASSUME NEW l \in Tasks, CallFails(l) PROVE at'[k] = at[k] /\ dirty'[k] = dirty[k]
  <2>1. Forget(l) /\ Goto(l, "failed")
    BY <1>5, <1>6 DEF CallFails
  <2>2. QED
    BY <1>1, <1>2, <2>1 DEF Forget, Goto
<1>7. ASSUME NEW t \in Tickets, OrderUnstake(t) \/ Claim(t)
      PROVE  at'[k] = at[k] /\ dirty'[k] = dirty[k]
  <2>1. /\ OrderUnstake(t) => at[<<"order", t>>] = "off" /\ at[<<"listener", t>>] = "off"
        /\ Claim(t) => at[<<"claim", t>>] = "off"
    BY DEF OrderUnstake, Claim, IInv, StartedInv
  <2>2. QED
    BY <1>1, <1>7, <2>1 DEF OrderUnstake, Claim, memory
<1>8. ASSUME NEW q \in Requests, Request(q) PROVE at'[k] = at[k] /\ dirty'[k] = dirty[k]
  BY <1>1, <1>8 DEF Request, Goto, memory
<1>9. CASE Start \/ UNCHANGED vars
  BY <1>9 DEF Start, vars, memory
<1>10. QED
  BY <1>3, <1>4, <1>5, <1>6, <1>7, <1>8, <1>9 DEF Next

\* A row that is held by a save that has yet to read it is written only with notice.
LEMMA Noticed ==
  ASSUME IInv, [Next]_vars, NEW k \in Tasks, NEW i \in Ids, copies[k][i] # NULL,
         at[k] = "save", i \notin missed'[k]
  PROVE  rows'[i] = rows[i]
<1>1. ASSUME rows'[i] # rows[i] PROVE FALSE
  <2>1. rows[i] # NULL
    BY DEF IInv, HeldInv
  <2>2. PICK l \in Tasks : Write(l)
    BY <1>1, <2>1, RowSources
  <2>3. l # k
    BY <2>2 DEF Write
  <2>4. i \in missed'[k]
    BY <1>1, <2>2, <2>3 DEF Write
  <2>5. QED
    BY <2>4
<1>2. QED
  BY <1>1

LEMMA FreshStep ==
  ASSUME IInv, FreshInv, [Next]_vars
  PROVE  FreshInv'
<1> SUFFICES ASSUME NEW k \in Tasks, NEW i \in Ids, copies'[k][i] # NULL, i \notin missed'[k]
             PROVE  /\ at'[k] = "save" => copies'[k][i] = Updated(rows'[i], Asks(k, i[2])')
                    /\ \A column \in Columns : at'[k] = "write" /\ <<i, column>> \in dirty'[k] =>
                         Value(copies'[k][i], column) = Value(Asks(k, i[2])', column)
  BY DEF FreshInv
<1>1. CASE /\ at[k] = "find" /\ at'[k] = "save" /\ UNCHANGED <<rows, asked>>
           /\ copies'[k][i] = Updated(rows[i], Asks(k, i[2]))
  <2>1. Asks(k, i[2])' = Asks(k, i[2])
    BY <1>1 DEF Asks
  <2>2. QED
    BY <1>1, <2>1
<1>2. CASE copies'[k][i] = copies[k][i] /\ missed[k] \subseteq missed'[k]
  <2>1. at[k] \in {"save", "write"} /\ i \notin missed[k] /\ copies[k][i] # NULL
    BY <1>2 DEF IInv, HeldInv
  <2>2. Asks(k, i[2])' = Asks(k, i[2])
    BY <2>1, AsksStay
  <2>3. at[k] = "save" => rows'[i] = rows[i] /\ copies[k][i] = Updated(rows[i], Asks(k, i[2]))
    BY <2>1, Noticed DEF FreshInv
  <2>4. CASE at'[k] = at[k] /\ dirty'[k] = dirty[k]
    BY <1>2, <2>1, <2>2, <2>3, <2>4 DEF FreshInv
  <2>5. CASE at[k] = "save" /\ at'[k] = "write" /\ dirty'[k] = Differing(k)
    <3>1. ASSUME NEW column \in Columns, <<i, column>> \in Differing(k)
          PROVE  Value(copies[k][i], column) = Value(Asks(k, i[2]), column)
      <4>1. Value(copies[k][i], column) # Value(rows[i], column)
        BY <3>1 DEF Differing
      <4>2. QED
        BY <2>3, <2>5, <4>1, UpdatedNames
    <3>2. QED
      BY <1>2, <2>2, <2>5, <3>1
  <2>6. QED
    BY <1>2, <2>1, <2>4, <2>5, Holding
<1>3. QED
  BY <1>1, <1>2, CopySources

\* Whatever clients ask for and however updates overlap, a column of a row changes only
\* to what the writer was asked for, or by a save of a row that another task wrote after
\* it was read and before save read it again: that, and no other, is the lost update of
\* updateUnstakeTicket and its bulk form.
THEOREM ChangesTraced == Spec => ChangesExplained
<1> DEFINE Explains(k, i, column) ==
      /\ at[k] = "write" /\ at'[k] = "done" /\ copies[k][i] # NULL
      /\ i \in missed[k] \/ Value(rows'[i], column) = Value(Asks(k, i[2]), column)
    Explained(i, column) ==
      rows[i] # NULL =>
        /\ rows'[i] # NULL
        /\ \/ Value(rows'[i], column) = Value(rows[i], column)
           \/ \E k \in Tasks : Explains(k, i, column)
<1>1. Init => FreshInv
  BY DEF Init, FreshInv, NoCopy
<1>2. IInv /\ FreshInv /\ [Next]_vars => FreshInv'
  BY FreshStep
<1>3. ASSUME IInv, FreshInv, [Next]_vars, NEW i \in Ids, NEW column \in Columns, rows[i] # NULL
      PROVE  Explained(i, column)
  <2>1. CASE rows'[i] = rows[i]
    BY <1>3, <2>1
  <2>2. CASE rows'[i] # rows[i]
    <3>1. PICK k \in Tasks : Write(k) /\ copies[k][i] # NULL /\ rows'[i] # NULL
      BY <1>3, <2>2, RowSources
    <3>2. at[k] = "write" /\ at'[k] = "done"
      BY <1>3, <3>1 DEF Write, Goto, IInv, TypeOK
    <3>3. CASE <<i, column>> \notin dirty[k]
      BY <1>3, <3>1, <3>3, Written
    <3>4. CASE <<i, column>> \in dirty[k]
      <4>1. Value(rows'[i], column) = Value(copies[k][i], column)
        BY <1>3, <3>1, <3>4, Written
      <4>2. i \notin missed[k] => Value(copies[k][i], column) = Value(Asks(k, i[2]), column)
        BY <1>3, <3>1, <3>2, <3>4 DEF FreshInv
      <4>3. QED
        BY <3>1, <3>2, <4>1, <4>2
    <3>5. QED
      BY <1>3, <3>3, <3>4
  <2>3. QED
    BY <2>1, <2>2
<1>4. IInv /\ FreshInv /\ [Next]_vars =>
        [\A i \in Ids, column \in Columns : Explained(i, column)]_vars
  BY <1>3
<1>5. QED
  BY <1>1, <1>2, <1>4, InitialIInv, StepKeepsIInv, PTL DEF Spec, ChangesExplained

-----------------------------------------------------------------------------
(* The safety half of OrderKeptOrCrash: how an order's handler may end. *)

\* The handler of an order is at one of its own awaits, done with its row in the
\* table, or ended by the process.
OrderInv ==
  \A t \in Tickets :
    LET k == <<"order", t>> IN
    /\ at[k] \in {"off", "mongo", "epoch", "insert", "done", "failed"}
    /\ at[k] = "done" => rows[<<k, t>>] # NULL
    /\ at[k] = "failed" => crashes > 0

\* A row of the table is never deleted.
LEMMA RowsStay ==
  ASSUME IInv, [Next]_vars, NEW i \in Ids, rows[i] # NULL
  PROVE  rows'[i] # NULL
  BY RowSources

LEMMA OrderStep ==
  ASSUME IInv, OrderInv, [Next]_vars
  PROVE  OrderInv'
<1> SUFFICES ASSUME NEW t \in Tickets
             PROVE  /\ at'[<<"order", t>>] \in {"off", "mongo", "epoch", "insert", "done", "failed"}
                    /\ at'[<<"order", t>>] = "done" => rows'[<<<<"order", t>>, t>>] # NULL
                    /\ at'[<<"order", t>>] = "failed" => crashes' > 0
  BY DEF OrderInv
<1> DEFINE k == <<"order", t>>
<1>1. /\ k \in Tasks /\ k \notin Requests /\ Op(k) = "order" /\ Of(k) = {t} /\ <<k, t>> \in Ids
      /\ at \in [Tasks -> Places] /\ crashes \in Nat
  <2>1. k \in Tasks /\ k \notin Requests /\ k[1] = "order" /\ k[2] = t
    BY Shapes
  <2>2. Op(k) = "order" /\ Of(k) = {t}
    BY <2>1 DEF Op, Of
  <2>3. <<k, t>> \in Ids
    BY DEF Ids, Inserters
  <2>4. at \in [Tasks -> Places] /\ crashes \in Nat
    BY UnstakeTicketsAssumption DEF IInv, TypeOK, Places
  <2>5. QED
    BY <2>1, <2>2, <2>3, <2>4
<1>2. /\ at[k] \in {"off", "mongo", "epoch", "insert", "done", "failed"}
      /\ at[k] = "done" => rows[<<k, t>>] # NULL
      /\ at[k] = "failed" => crashes > 0
  BY DEF OrderInv
<1>3. rows[<<k, t>>] # NULL => rows'[<<k, t>>] # NULL
  BY <1>1, RowsStay
<1>4. crashes' \in {crashes, crashes + 1}
  BY DEF Next, OrderUnstake, Claim, Request, Step, SaveEvent, Estimate, Insert, Find, Reload,
         Write, CallFails, Crash, Start, vars
<1> HIDE DEF k
<1>5. CASE at'[k] = at[k]
  BY <1>1, <1>2, <1>3, <1>4, <1>5 DEF k
<1>6. ASSUME NEW l \in Tasks, Step(l), l # k PROVE at'[k] = at[k]
  BY <1>1, <1>6 DEF Step, SaveEvent, Estimate, Insert, Find, Reload, Write, Goto
<1>7. CASE Step(k)
  <2>1. CASE SaveEvent(k) \/ Estimate(k)
    BY <1>1, <2>1 DEF SaveEvent, Estimate, Goto, k
  <2>2. CASE Insert(k)
    <3>1. at'[k] = "done" /\ rows'[<<k, t>>] = NewRow(k, t) /\ at[k] = "insert"
      BY <1>1, <2>2 DEF Insert, Goto
    <3>2. NewRow(k, t) \in Row
      BY <1>1, <3>1, NewRowRow
    <3>3. QED
      BY <3>1, <3>2, UnstakeTicketsAssumption DEF k
  <2>3. ~Find(k) /\ ~Reload(k) /\ ~Write(k)
    BY <1>2 DEF Find, Reload, Write
  <2>4. QED
    BY <1>7, <2>1, <2>2, <2>3 DEF Step
<1>8. CASE Crash
  <2>1. at'[k] \in {at[k], "failed"} /\ crashes' = crashes + 1
    BY <1>1, <1>8 DEF Crash
  <2>2. QED
    BY <1>1, <1>2, <1>3, <2>1 DEF k
<1>9. ASSUME NEW l \in Tasks, CallFails(l), ~Crash PROVE at'[k] = at[k]
  <2>1. l # k
    BY <1>1, <1>9 DEF CallFails, Uncaught
  <2>2. QED
    BY <1>1, <1>9, <2>1 DEF CallFails, Goto
<1>10. ASSUME NEW u \in Tickets, OrderUnstake(u) \/ Claim(u)
       PROVE  at'[k] \in {at[k], "mongo"}
  BY <1>1, <1>10, Shapes DEF OrderUnstake, Claim, k
<1>11. ASSUME NEW q \in Requests, Request(q) PROVE at'[k] = at[k]
  BY <1>1, <1>11 DEF Request, Goto
<1>12. CASE Start \/ UNCHANGED vars
  BY <1>5, <1>12 DEF Start, vars
<1>13. at'[k] = "mongo" => at'[k] \in {"off", "mongo", "epoch", "insert", "done", "failed"}
  OBVIOUS
<1>14. QED
  BY <1>5, <1>6, <1>7, <1>8, <1>9, <1>10, <1>11, <1>12, <1>13 DEF Next, k

\* An order whose handler has begun ends in the table or with the process: no
\* rejected call, request or other handler makes it end without its row, and the
\* row stays. That it does end is OrderKeptOrCrash, which is liveness.
THEOREM OrdersEndKept ==
  Spec => [](\A t \in Tickets : /\ at[<<"order", t>>] = "done" => Present(t) # {}
                                /\ at[<<"order", t>>] = "failed" => crashes > 0)
<1>1. Init => OrderInv
  BY Shapes DEF Init, OrderInv
<1>2. IInv /\ OrderInv /\ [Next]_vars => OrderInv'
  BY OrderStep
<1>3. OrderInv => \A t \in Tickets : /\ at[<<"order", t>>] = "done" => Present(t) # {}
                                     /\ at[<<"order", t>>] = "failed" => crashes > 0
  <2> SUFFICES ASSUME OrderInv, NEW t \in Tickets, at[<<"order", t>>] = "done"
               PROVE  Present(t) # {}
    BY DEF OrderInv
  <2>1. <<<<"order", t>>, t>> \in Ids /\ rows[<<<<"order", t>>, t>>] # NULL
    BY DEF OrderInv, Ids, Inserters
  <2>2. QED
    BY <2>1 DEF Present
<1>4. QED
  BY <1>1, <1>2, <1>3, InitialIInv, StepKeepsIInv, PTL DEF Spec
=============================================================================
