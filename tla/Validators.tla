------------------------------ MODULE Validators ------------------------------
(***************************************************************************)
(* ValidatorsDataService (validators/validators-data.service.ts): the      *)
(* table validators, the requests that insert or update its rows, and the  *)
(* refresh every two hours, which walks the rows it has read and asks the  *)
(* validators API for each.                                                *)
(*                                                                         *)
(* Nothing but the generated id is unique: a bulk request looks for rows   *)
(* of its vote accounts and inserts what it did not find. An action is the *)
(* code from one await to the next.                                        *)
(***************************************************************************)
EXTENDS Naturals

CONSTANTS
  VoteAccounts,  \* the validators there are
  Requests,      \* requests that may be made, one each
  Entries,       \* positions in the list of a request
  MaxVersion,    \* bound: changes of what the API says of the validators
  MaxRestarts,   \* bound: times pm2 restarts the process
  CallsCanFail,  \* may queries and requests to the API be rejected?
  NULL

Versions == 0 .. MaxVersion

\* A row: whose it is, and which of the API's answers the six columns hold that the
\* refresh writes (that activeStake and epochCredits do: a save leaves out those of the
\* other four that it finds equal). Only requests write the other columns.
Row == [account : VoteAccounts, stats : Versions]

\* A request gives a list of validators as the API described them at some time.
Body == [op : {"bulk", "create"}, list : [Entries -> VoteAccounts \cup {NULL}],
         stats : Versions]

ASSUME ValidatorsAssumption ==
  /\ MaxVersion \in Nat /\ MaxRestarts \in Nat
  /\ CallsCanFail \in BOOLEAN
  /\ NULL \notin VoteAccounts \cup Row \cup Body \cup (Requests \X Entries)

VARIABLES
  version,   \* what the API says now
  rows,      \* the table, a row named by the entry that inserted it
  at,        \* what each request awaits
  asked,     \* what each request asks for
  missing,   \* the ids it is to insert
  found,     \* the ids it is to update
  together,  \* the requests that were under way when another was made
  phase,     \* what the refresh awaits, or how the last one ended
  visiting,  \* the row it is at
  walk,      \* the rows it has still to visit
  got,       \* the API's answer
  restarts

vars == <<version, rows, at, asked, missing, found, together, phase, visiting, walk, got,
          restarts>>
request == <<at, asked, missing, found, together>>
refresh == <<phase, visiting, walk, got>>

Ids     == Requests \X Entries
Present == {i \in Ids : rows[i] # NULL}
Awaits  == {"find", "insert", "save", "write"}
InHand  == {q \in Requests : at[q] \in Awaits}

Of(a)     == {i \in Present : rows[i].account = a}
Listed(q) == {asked[q].list[n] : n \in Entries} \ {NULL}

-----------------------------------------------------------------------------
Init ==
  /\ version = 0
  /\ rows = [i \in Ids |-> NULL]
  /\ at = [q \in Requests |-> "off"]
  /\ asked = [q \in Requests |-> NULL]
  /\ missing = [q \in Requests |-> {}]
  /\ found = [q \in Requests |-> {}]
  /\ together = {}
  /\ phase = "idle" /\ visiting = NULL /\ walk = {} /\ got = 0
  /\ restarts = 0

Goto(q, where) == at' = [at EXCEPT ![q] = where]

\* What the API says of the validators changes.
ApiChanges ==
  /\ version < MaxVersion
  /\ version' = version + 1
  /\ UNCHANGED <<rows, request, refresh, restarts>>

-----------------------------------------------------------------------------
(* Seeded faults: each is the definition it is named after with a mistake a *)
(* change to the code could make; no specification uses them.               *)

\* Only the first validator of the list is looked for.
FindFirst(q) ==
  /\ at[q] = "find"
  /\ \E chosen \in SUBSET Of(asked[q].list[1]) :
       /\ chosen = {} => Of(asked[q].list[1]) = {}
       /\ found' = [found EXCEPT ![q] = chosen]
       /\ missing' = [missing EXCEPT ![q] =
            {i \in Ids : /\ i[1] = q /\ asked[q].list[i[2]] # NULL
                         /\ asked[q].list[i[2]] \notin {rows[j].account : j \in chosen}}]
  /\ Goto(q, IF missing'[q] # {} THEN "insert" ELSE "save")
  /\ UNCHANGED <<version, rows, asked, together, refresh, restarts>>

\* A list that has something to update is taken to have nothing to insert.
AfterFindUpdating(q, new, old) == IF old # {} THEN "save" ELSE "insert"

\* The columns a request leaves out are written too.
WrittenUnset(i, q) == [account |-> NULL, stats |-> asked[q].stats]

\* The refresh is through with the first row.
VisitOnce(left) ==
  IF left = {} \/ visiting # NULL THEN phase' = "idle" /\ visiting' = NULL /\ walk' = {}
  ELSE \E i \in left : phase' = "get" /\ visiting' = i /\ walk' = left \ {i}

-----------------------------------------------------------------------------
(* Requests                                                                 *)

\* POST bulk-update or create; create's list is one validator and never looked for.
Request(q) ==
  /\ at[q] = "off"
  /\ \E body \in Body :
       /\ body.stats <= version
       /\ \E n \in Entries : body.list[n] # NULL
       /\ body.op = "create" =>
            \A n, m \in Entries : body.list[n] # NULL /\ body.list[m] # NULL => n = m
       /\ asked' = [asked EXCEPT ![q] = body]
       /\ Goto(q, IF body.op = "create" THEN "insert" ELSE "find")
       /\ missing' = [missing EXCEPT ![q] =
            IF body.op = "create" THEN {i \in Ids : i[1] = q /\ body.list[i[2]] # NULL} ELSE {}]
  /\ together' = together \cup {{q, r} : r \in InHand}
  /\ UNCHANGED <<version, rows, found, refresh, restarts>>

AfterFind(q, new, old) == IF new # {} THEN "insert" ELSE "save"

\* The rows of the listed accounts are read; a Map keeps one of each account. What is
\* not in it is inserted, once for every entry of the list.
Find(q) ==
  /\ at[q] = "find"
  /\ \E chosen \in SUBSET UNION {Of(a) : a \in Listed(q)} :
       /\ \A a \in Listed(q) : Of(a) # {} => \E i \in chosen : Of(a) \cap chosen = {i}
       /\ LET new == {i \in Ids : /\ i[1] = q /\ asked[q].list[i[2]] # NULL
                                  /\ Of(asked[q].list[i[2]]) = {}} IN
          /\ found' = [found EXCEPT ![q] = chosen]
          /\ missing' = [missing EXCEPT ![q] = new]
          /\ Goto(q, AfterFind(q, new, chosen))
  /\ UNCHANGED <<version, rows, asked, together, refresh, restarts>>

\* All inserts are one transaction.
Insert(q) ==
  /\ at[q] = "insert"
  /\ rows' = [i \in Ids |->
       IF i \in missing[q] THEN [account |-> asked[q].list[i[2]], stats |-> asked[q].stats]
       ELSE rows[i]]
  /\ missing' = [missing EXCEPT ![q] = {}]
  /\ Goto(q, IF found[q] = {} THEN "done" ELSE "save")
  /\ UNCHANGED <<version, asked, found, together, refresh, restarts>>

\* save reads the rows again. All differ from the merged entities: the driver gives
\* bigint columns as strings, the list as numbers ...
Reload(q) ==
  /\ at[q] = "save"
  /\ Goto(q, "write")
  /\ UNCHANGED <<version, rows, asked, missing, found, together, refresh, restarts>>

Written(i, q) == [rows[i] EXCEPT !.stats = asked[q].stats]

\* ... and updates them in one transaction.
Write(q) ==
  /\ at[q] = "write"
  /\ rows' = [i \in Ids |-> IF i \in found[q] THEN Written(i, q) ELSE rows[i]]
  /\ found' = [found EXCEPT ![q] = {}]
  /\ Goto(q, "done")
  /\ UNCHANGED <<version, asked, missing, together, refresh, restarts>>

Fails(q) ==
  /\ CallsCanFail /\ q \in InHand
  /\ missing' = [missing EXCEPT ![q] = {}]
  /\ found' = [found EXCEPT ![q] = {}]
  /\ Goto(q, "failed")
  /\ UNCHANGED <<version, rows, asked, together, refresh, restarts>>

-----------------------------------------------------------------------------
(* updateValidators                                                         *)

\* The loop goes on to one of the rows that are left, in the order they were read.
Visit(left) ==
  IF left = {} THEN phase' = "idle" /\ visiting' = NULL /\ walk' = {}
  ELSE \E i \in left : phase' = "get" /\ visiting' = i /\ walk' = left \ {i}

CronFires ==
  /\ phase \in {"idle", "failed"}
  /\ phase' = "find"
  /\ UNCHANGED <<version, rows, request, visiting, walk, got, restarts>>

RefreshFind ==
  /\ phase = "find"
  /\ Visit(Present)
  /\ UNCHANGED <<version, rows, request, got, restarts>>

RefreshGet ==
  /\ phase = "get"
  /\ got' = version
  /\ phase' = "update"
  /\ UNCHANGED <<version, rows, request, visiting, walk, restarts>>

RefreshUpdate ==
  /\ phase = "update"
  /\ rows' = [rows EXCEPT ![visiting].stats = got]
  /\ Visit(walk)
  /\ UNCHANGED <<version, request, got, restarts>>

\* Whatever is rejected ends the refresh; the scheduler logs it.
RefreshFails ==
  /\ CallsCanFail /\ phase \in {"find", "get", "update"}
  /\ phase' = "failed" /\ visiting' = NULL /\ walk' = {}
  /\ UNCHANGED <<version, rows, request, got, restarts>>

Restart ==
  /\ restarts < MaxRestarts
  /\ restarts' = restarts + 1
  /\ at' = [q \in Requests |-> IF q \in InHand THEN "failed" ELSE at[q]]
  /\ missing' = [q \in Requests |-> {}]
  /\ found' = [q \in Requests |-> {}]
  /\ phase' = "idle" /\ visiting' = NULL /\ walk' = {}
  /\ UNCHANGED <<version, rows, asked, together, got>>

-----------------------------------------------------------------------------
Step(q) == Find(q) \/ Insert(q) \/ Reload(q) \/ Write(q)

RefreshStep == RefreshFind \/ RefreshGet \/ RefreshUpdate

Next ==
  \/ ApiChanges
  \/ \E q \in Requests : Request(q) \/ Step(q) \/ Fails(q)
  \/ CronFires \/ RefreshStep \/ RefreshFails
  \/ Restart

Spec == Init /\ [][Next]_vars

\* What is awaited settles, and the cron fires again and again.
LiveSpec ==
  /\ Spec
  /\ \A q \in Requests : WF_vars(Step(q) \/ Fails(q))
  /\ WF_vars(RefreshStep \/ RefreshFails) /\ WF_vars(CronFires)

-----------------------------------------------------------------------------
(* Properties                                                               *)

TypeOK ==
  /\ version \in Versions /\ got \in Versions
  /\ rows \in [Ids -> Row \cup {NULL}]
  /\ at \in [Requests -> {"off", "done", "failed"} \cup Awaits]
  /\ asked \in [Requests -> Body \cup {NULL}]
  /\ missing \in [Requests -> SUBSET Ids]
  /\ found \in [Requests -> SUBSET Present]
  /\ \A pair \in together : \E q, r \in Requests : pair = {q, r}
  /\ phase \in {"idle", "failed", "find", "get", "update"}
  /\ visiting \in Present \cup {NULL} /\ walk \subseteq Present
  /\ phase \in {"get", "update"} => visiting # NULL
  /\ restarts \in 0 .. MaxRestarts

(* Two rows of one vote account come from one list that names it twice,     *)
(* from create, or from two requests that were under way at the same time:  *)
(* a bulk request made after another has ended finds what that inserted.    *)
DuplicatesExplained ==
  \A i, j \in Present :
    i # j /\ rows[i].account = rows[j].account =>
      \/ i[1] = j[1]
      \/ {i[1], j[1]} \in together
      \/ asked[i[1]].op = "create" \/ asked[j[1]].op = "create"

(* A request that ends well has every validator of its list in the table,   *)
(* whatever other requests and the refresh do meanwhile.                    *)
RequestKept ==
  \A q \in Requests : at[q] = "done" => \A a \in Listed(q) : Of(a) # {}

(* Once no call of a refresh fails any more, every row comes to say what    *)
(* the API says, even one that a request made from an old answer overwrote, *)
(* and a duplicate no request updates.                                      *)
RefreshedInTheEnd ==
  <>[](phase # "failed") => <>[](\A i \in Present : rows[i].stats = version)
===============================================================================
