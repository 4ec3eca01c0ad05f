---------------------------- MODULE UnstakeTickets ----------------------------
(***************************************************************************)
(* The table unstake_tickets and all that writes it: the OrderUnstakeEvent *)
(* and ClaimEvent handlers of EventService (infrastructure/event-monitor/  *)
(* event.service.ts), UnstakeTicketListener (listeners/), which handles    *)
(* OrderUnstakeEvent too, and the POST and PATCH requests of StateService  *)
(* (state/state.service.ts).                                               *)
(*                                                                         *)
(* The table has no unique ticket: every handler of an order inserts a row *)
(* of its own. An update reads a row, changes the copy and saves the copy. *)
(* TypeORM's save reads the row again and writes the columns in which the  *)
(* copy differs from it, also those the update did not name. An action is  *)
(* the code from one await to the next.                                    *)
(***************************************************************************)
EXTENDS Naturals

CONSTANTS
  Tickets,       \* ticket accounts that may be created
  Requests,      \* HTTP requests that may be made, one each
  Times,         \* claimable times a client may give
  CallsCanFail,  \* may RPC calls and queries be rejected?
  MaxCrashes,    \* bound: times the process ends and pm2 starts it again
  NULL

\* A row: claimableTime is the estimate from the chain, or what a client gave;
\* claimedTime is written with claimed and left out, as are the constant columns.
Row     == [claimed : BOOLEAN, time : {"estimate"} \cup Times]
Columns == {"claimed", "time"}

\* What a client asks of the rows of a ticket: a value for a column, or none.
Update  == [claimed : BOOLEAN \cup {NULL}, time : Times \cup {NULL}]
Nothing == [claimed |-> NULL, time |-> NULL]

ASSUME UnstakeTicketsAssumption ==
  /\ CallsCanFail \in BOOLEAN /\ MaxCrashes \in Nat
  /\ Requests \cap ({"order", "listener", "claim"} \X Tickets) = {}
  /\ NULL \notin Row \cup Update \cup BOOLEAN \cup Times

VARIABLES
  onChain,  \* ticket accounts: none, open, claimed
  up,       \* is the process running, with its subscriptions?
  crashes,
  rows,     \* unstake_tickets
  at,       \* what each handler and request awaits
  asked,    \* what each request asks for
  copies,   \* the entities an update holds
  dirty,    \* the columns its save found to differ
  missed    \* history: rows another task wrote after its copy was taken, before save read them

vars == <<onChain, up, crashes, rows, at, asked, copies, dirty, missed>>
memory == <<copies, dirty, missed>>

Handlers  == {"order", "listener", "claim"} \X Tickets
Inserters == ({"order", "listener"} \X Tickets) \cup Requests
Tasks     == Handlers \cup Requests

\* A row is named by its inserter and its ticket.
Ids == Inserters \X Tickets

Value(row, column) == IF column = "claimed" THEN row.claimed ELSE row.time

\* What a request may ask for: the body of a POST or PATCH, as the service checks
\* nothing of it. A ticket that is not in the body has no update.
Work == [op : {"post", "postBulk", "patch", "patchBulk"},
         updates : [Tickets -> Update \cup {NULL}]]

Op(k) == IF k \in Requests THEN asked[k].op ELSE k[1]
Of(k) == IF k \in Requests THEN {t \in Tickets : asked[k].updates[t] # NULL} ELSE {k[2]}

\* What task k asks of the rows of ticket t.
Asks(k, t) ==
  IF k \notin Requests THEN [claimed |-> TRUE, time |-> NULL]
  ELSE IF asked[k].updates[t] = NULL THEN Nothing ELSE asked[k].updates[t]

Present(t) == {i \in Ids : i[2] = t /\ rows[i] # NULL}

Awaits  == {"mongo", "epoch", "insert", "find", "save", "write"}
NoCopy  == [i \in Ids |-> NULL]

-----------------------------------------------------------------------------
Init ==
  /\ onChain = [t \in Tickets |-> "none"]
  /\ up = TRUE /\ crashes = 0
  /\ rows = [i \in Ids |-> NULL]
  /\ at = [k \in Tasks |-> "off"]
  /\ asked = [q \in Requests |-> NULL]
  /\ copies = [k \in Tasks |-> NoCopy]
  /\ dirty = [k \in Tasks |-> {}]
  /\ missed = [k \in Tasks |-> {}]

Goto(k, where) == at' = [at EXCEPT ![k] = where]

\* The program's instructions. Their event is missed while the process is down.
OrderUnstake(t) ==
  /\ onChain[t] = "none"
  /\ onChain' = [onChain EXCEPT ![t] = "open"]
  /\ at' = IF up THEN [at EXCEPT ![<<"order", t>>] = "mongo", ![<<"listener", t>>] = "epoch"]
           ELSE at
  /\ UNCHANGED <<up, crashes, rows, asked, memory>>

Claim(t) ==
  /\ onChain[t] = "open"
  /\ onChain' = [onChain EXCEPT ![t] = "claimed"]
  /\ at' = IF up THEN [at EXCEPT ![<<"claim", t>>] = "mongo"] ELSE at
  /\ UNCHANGED <<up, crashes, rows, asked, memory>>

\* A client's request: rows for tickets, each claimable at a time given only in
\* bulk, or any update, of tickets that exist or do not. A single one names a ticket.
Request(q) ==
  /\ up /\ at[q] = "off"
  /\ \E w \in Work :
       LET named == {t \in Tickets : w.updates[t] # NULL} IN
       /\ w.op \in {"post", "patch"} => \E t \in Tickets : named = {t}
       /\ w.op \in {"post", "postBulk"} => \A t \in named : w.updates[t].claimed = NULL
       /\ w.op = "post" => \A t \in named : w.updates[t].time = NULL
       /\ w.op = "postBulk" => \A t \in named : w.updates[t].time \in Times
       /\ asked' = [asked EXCEPT ![q] = w]
       /\ Goto(q, CASE w.op = "post" -> "epoch" [] w.op = "postBulk" -> "insert"
                    [] OTHER -> "find")
  /\ UNCHANGED <<onChain, up, crashes, rows, memory>>

-----------------------------------------------------------------------------
(* Seeded faults: each is the definition it is named after with a mistake a *)
(* change to the code could make; no specification uses them.               *)

NewRowUnset(k, t) ==
  [claimed |-> NULL, time |-> IF Op(k) = "postBulk" THEN Asks(k, t).time ELSE "estimate"]

UpdatedAlways(row, update) ==
  [claimed |-> TRUE, time |-> IF update.time = NULL THEN row.time ELSE update.time]

UpdatedWhole(row, update) ==
  [claimed |-> update.claimed = TRUE,
   time    |-> IF update.time = NULL THEN row.time ELSE update.time]

DifferingTimes(k) ==
  {d \in Ids \X {"time"} : copies[k][d[1]] # NULL /\ copies[k][d[1]].time # rows[d[1]].time}

EstimateNotRounded(k) ==
  /\ at[k] = "epoch"
  /\ Goto(k, "insert") \/ Goto(k, "done")
  /\ UNCHANGED <<onChain, up, crashes, rows, asked, memory>>

-----------------------------------------------------------------------------
(* Handlers and requests                                                    *)

\* The event is saved to MongoDB.
SaveEvent(k) ==
  /\ at[k] = "mongo"
  /\ Goto(k, IF Op(k) = "order" THEN "epoch" ELSE "find")
  /\ UNCHANGED <<onChain, up, crashes, rows, asked, memory>>

\* getEpochInfo answers. Only the order handler rounds the time up: BigInt throws
\* for the others when the time is fractional, and the error is caught.
Estimate(k) ==
  /\ at[k] = "epoch"
  /\ \/ Goto(k, "insert")
     \/ Op(k) # "order" /\ Goto(k, "done")
  /\ UNCHANGED <<onChain, up, crashes, rows, asked, memory>>

NewRow(k, t) ==
  [claimed |-> FALSE, time |-> IF Op(k) = "postBulk" THEN Asks(k, t).time ELSE "estimate"]

Insert(k) ==
  /\ at[k] = "insert"
  /\ rows' = [i \in Ids |-> IF i[1] = k /\ i[2] \in Of(k) THEN NewRow(k, i[2]) ELSE rows[i]]
  /\ Goto(k, "done")
  /\ UNCHANGED <<onChain, up, crashes, asked, memory>>

\* The copy of a row with what the update names changed, a claim to either value.
Updated(row, update) ==
  [claimed |-> IF update.claimed = NULL THEN row.claimed ELSE update.claimed,
   time    |-> IF update.time = NULL THEN row.time ELSE update.time]

\* find without a condition, which an empty list of updates makes it, finds all rows.
Found(k) ==
  IF Op(k) = "patchBulk" /\ Of(k) = {} THEN {i \in Ids : rows[i] # NULL}
  ELSE UNION {Present(t) : t \in Of(k)}

\* findOne answers with any row of the ticket, find with all rows of the tickets.
\* When there is none, the update throws, and its caller catches that.
Find(k) ==
  /\ at[k] = "find"
  /\ \/ /\ Found(k) = {}
        /\ Goto(k, "done") /\ UNCHANGED copies
     \/ \E chosen \in SUBSET Found(k) :
          /\ chosen # {}
          /\ IF Op(k) = "patchBulk" THEN chosen = Found(k) ELSE \E i \in chosen : chosen = {i}
          /\ copies' = [copies EXCEPT ![k] =
               [i \in Ids |-> IF i \in chosen THEN Updated(rows[i], Asks(k, i[2])) ELSE NULL]]
          /\ Goto(k, "save")
  /\ UNCHANGED <<onChain, up, crashes, rows, asked, dirty, missed>>

Differing(k) ==
  {d \in Ids \X Columns :
     copies[k][d[1]] # NULL /\ Value(copies[k][d[1]], d[2]) # Value(rows[d[1]], d[2])}

Forget(k) ==
  /\ copies' = [copies EXCEPT ![k] = NoCopy]
  /\ dirty' = [dirty EXCEPT ![k] = {}]
  /\ missed' = [missed EXCEPT ![k] = {}]

\* save reads the rows again ...
Reload(k) ==
  /\ at[k] = "save"
  /\ IF Differing(k) = {}
     THEN Goto(k, "done") /\ Forget(k)
     ELSE /\ dirty' = [dirty EXCEPT ![k] = Differing(k)]
          /\ Goto(k, "write") /\ UNCHANGED <<copies, missed>>
  /\ UNCHANGED <<onChain, up, crashes, rows, asked>>

\* ... and updates the columns that differed, in one transaction.
Write(k) ==
  /\ at[k] = "write"
  /\ rows' = [i \in Ids |->
       IF copies[k][i] = NULL THEN rows[i]
       ELSE [claimed |-> IF <<i, "claimed">> \in dirty[k] THEN copies[k][i].claimed
                         ELSE rows[i].claimed,
             time    |-> IF <<i, "time">> \in dirty[k] THEN copies[k][i].time
                         ELSE rows[i].time]]
  /\ copies' = [copies EXCEPT ![k] = NoCopy]
  /\ dirty' = [dirty EXCEPT ![k] = {}]
  /\ missed' = [l \in Tasks |->
       IF l = k THEN {}
       ELSE missed[l] \cup {i \in Ids : at[l] = "save" /\ rows'[i] # rows[i]}]
  /\ Goto(k, "done")
  /\ UNCHANGED <<onChain, up, crashes, asked>>

-----------------------------------------------------------------------------
\* The process ends, with all that was under way.
Crash ==
  /\ up /\ crashes < MaxCrashes
  /\ up' = FALSE /\ crashes' = crashes + 1
  /\ at' = [k \in Tasks |-> IF at[k] \in Awaits THEN "failed" ELSE at[k]]
  /\ copies' = [k \in Tasks |-> NoCopy]
  /\ dirty' = [k \in Tasks |-> {}]
  /\ missed' = [k \in Tasks |-> {}]
  /\ UNCHANGED <<onChain, rows, asked>>

Start ==
  /\ ~up
  /\ up' = TRUE
  /\ UNCHANGED <<onChain, crashes, rows, at, asked, memory>>

\* Nothing catches what the order handler throws, nor the first await of the claim
\* handler: an unhandled rejection, which ends the process. All else is caught.
Uncaught(k) == Op(k) = "order" \/ (Op(k) = "claim" /\ at[k] = "mongo")

CallFails(k) ==
  /\ CallsCanFail /\ at[k] \in Awaits
  /\ IF Uncaught(k) THEN Crash
     ELSE Goto(k, "failed") /\ Forget(k) /\ UNCHANGED <<onChain, up, crashes, rows, asked>>

Step(k) == SaveEvent(k) \/ Estimate(k) \/ Insert(k) \/ Find(k) \/ Reload(k) \/ Write(k)

Next ==
  \/ \E t \in Tickets : OrderUnstake(t) \/ Claim(t)
  \/ \E q \in Requests : Request(q)
  \/ \E k \in Tasks : Step(k) \/ CallFails(k)
  \/ Crash \/ Start

Spec == Init /\ [][Next]_vars

\* What is awaited settles, and pm2 starts the process again.
Fairness == WF_vars(Start) /\ \A k \in Tasks : WF_vars(Step(k) \/ CallFails(k))

LiveSpec == Spec /\ Fairness

-----------------------------------------------------------------------------
(* Properties.                                                              *)

TypeOK ==
  /\ onChain \in [Tickets -> {"none", "open", "claimed"}]
  /\ up \in BOOLEAN /\ crashes \in 0 .. MaxCrashes
  /\ rows \in [Ids -> Row \cup {NULL}]
  /\ at \in [Tasks -> {"off", "done", "failed"} \cup Awaits]
  /\ asked \in [Requests -> Work \cup {NULL}]
  /\ copies \in [Tasks -> [Ids -> Row \cup {NULL}]]
  /\ dirty \in [Tasks -> SUBSET (Ids \X Columns)]
  /\ missed \in [Tasks -> SUBSET Ids]

Claimed(i) == rows[i] # NULL /\ rows[i].claimed

\* No row is marked as claimed unless its ticket has been claimed or a client has
\* said so of that ticket: an update of another column or of other tickets, or an
\* old copy that is written back, never makes a claim.
Asserted(t) ==
  onChain[t] = "claimed" \/ \E q \in Requests : at[q] # "off" /\ Asks(q, t).claimed = TRUE
ClaimsExplained == \A i \in Ids : Claimed(i) => Asserted(i[2])

\* save writes whole rows read before, so an update can undo what it does not name.
\* It does so only for a row that was written after it was read and before save read
\* it again. Any other change to a column of a row is the value its writer was asked
\* for: what is written while save is between its own reading and writing is kept.
ChangesExplained ==
  [][\A i \in Ids, column \in Columns :
       rows[i] # NULL =>
         /\ rows'[i] # NULL
         /\ \/ Value(rows'[i], column) = Value(rows[i], column)
            \/ \E k \in Tasks :
                 /\ at[k] = "write" /\ at'[k] = "done" /\ copies[k][i] # NULL
                 /\ i \in missed[k] \/ Value(rows'[i], column) = Value(Asks(k, i[2]), column)
    ]_vars

\* A claim reaches a row of its ticket if there is one when its handler looks,
\* unless a call is rejected or the process ends, whatever requests write meanwhile.
ClaimedRow(t) == \E i \in Present(t) : Claimed(i)
ClaimReachesRow ==
  \A t \in Tickets :
    (Present(t) # {} /\ at[<<"claim", t>>] = "find") ~>
      (ClaimedRow(t) \/ at[<<"claim", t>>] = "failed")

\* Only the end of the process loses an order its handler has received, whatever
\* the time it becomes claimable and whatever calls fail.
OrderKeptOrCrash ==
  \A t \in Tickets, n \in 0 .. MaxCrashes :
    (at[<<"order", t>>] \in Awaits /\ crashes = n) ~> (Present(t) # {} \/ crashes > n)

\* GET state/unstake-tickets, which its documentation says returns tickets "from
\* the program": the unclaimed rows, or the ticket accounts if there are none.
Listed ==
  LET unclaimed == {t \in Tickets : \E i \in Present(t) : ~rows[i].claimed} IN
  IF unclaimed # {} THEN unclaimed ELSE {t \in Tickets : onChain[t] = "open"}

\* When all handlers and requests have ended, no ticket is listed that a row says
\* is claimed. The code breaks this: see the run tickets_listed.
ClaimedNotListed ==
  (\A k \in Tasks : at[k] \notin Awaits) => \A t \in Listed : ~ClaimedRow(t)
=============================================================================
