----------------------------- MODULE EventMonitor -----------------------------
(***************************************************************************)
(* EventService at work: handlers of several events interleave at their    *)
(* awaits, nobody awaits a handler, so whatever it throws is an unhandled  *)
(* rejection and ends the process; pm2 starts it again and it subscribes   *)
(* anew. Events emitted meanwhile are missed, and nothing repeats what was *)
(* under way. An action is the code from one await to the next. The second *)
(* subscriber of OrderUnstakeEvent is in UnstakeTickets.                   *)
(***************************************************************************)
EXTENDS EventHandlers, Naturals, FiniteSets

CONSTANTS
  MaxEvents,     \* bound: events emitted
  WideFields,    \* fields whose number may be 2^53 or more
  CallsCanFail,  \* may RPC calls and queries be rejected for reasons of their own?
  MaxCrashes,    \* bound: times pm2 or the machine ends the process
  NULL

Events == 1 .. MaxEvents

\* An event leaves out all its optional fields or none: handlers treat them alike.
Event ==
  {ev \in [kind : Kinds, absent : {{}} \cup {Payloads[k].optional : k \in Kinds},
           wide : SUBSET WideFields] :
     /\ ev.absent \in {{}, Payloads[ev.kind].optional}
     /\ ev.wide \subseteq Numbers(ev.kind)}

ASSUME EventMonitorAssumption ==
  /\ MaxEvents \in Nat /\ MaxCrashes \in Nat
  /\ CallsCanFail \in BOOLEAN
  /\ NULL \notin Event /\ NULL \notin Nat

VARIABLES
  event,     \* the events emitted so far, numbered in that order
  status,    \* of each: none, missed, running, done, lost
  answered,  \* how many of its calls have answered
  written,   \* the calls whose write is in its store
  up,        \* is the process running, with its subscriptions?
  culprit,   \* the event whose data ended the process last
  crashes

vars == <<event, status, answered, written, up, culprit, crashes>>

Running     == {e \in Events : status[e] = "running"}
CallsOf(e)  == Calls(event[e].kind)
Awaited(e)  == CallsOf(e)[answered[e] + 1]
LastCall(e) == answered[e] + 1 = Len(CallsOf(e))

\* The code between the awaited call and the next one throws.
ThenThrows(e) == ~LastCall(e) /\ Throws(event[e], CallsOf(e)[answered[e] + 2])

\* The write a handler waits for; none if it waits for an answer, or the store
\* refuses it.
Pending(e) ==
  IF Writes(Awaited(e)) /\ Accepted(event[e], Awaited(e)) THEN {<<e, answered[e] + 1>>} ELSE {}

-----------------------------------------------------------------------------
Init ==
  /\ event = [e \in Events |-> NULL]
  /\ status = [e \in Events |-> "none"]
  /\ answered = [e \in Events |-> 0]
  /\ written = {}
  /\ up = TRUE /\ culprit = NULL /\ crashes = 0

\* The program emits its next event; the handler builds its document and saves it.
Emit(e) ==
  /\ event[e] = NULL
  /\ \A d \in 1 .. e - 1 : event[d] # NULL
  /\ \E ev \in Event : event' = [event EXCEPT ![e] = ev]
  /\ status' = [status EXCEPT ![e] = IF up THEN "running" ELSE "missed"]
  /\ UNCHANGED <<answered, written, up, culprit, crashes>>

-----------------------------------------------------------------------------
(* Seeded faults: each is the definition it is named after with a mistake a *)
(* change to the code could make; no specification uses them.               *)

\* The save to MongoDB is not awaited.
AnswerUnawaited(e) ==
  /\ e \in Running /\ Accepted(event[e], Awaited(e))
  /\ written' = written \cup (IF Awaited(e).op = "log" THEN {} ELSE Pending(e))
  /\ answered' = [answered EXCEPT ![e] = @ + 1]
  /\ status' = [status EXCEPT ![e] = IF LastCall(e) THEN "done" ELSE @]
  /\ ~ThenThrows(e)
  /\ UNCHANGED <<event, up, culprit, crashes>>

\* A handler waits once more after its last call.
AnswerOnceMore(e) ==
  /\ e \in Running /\ Accepted(event[e], Awaited(e))
  /\ written' = written \cup Pending(e)
  /\ answered' = [answered EXCEPT ![e] = @ + 1]
  /\ ~ThenThrows(e)
  /\ UNCHANGED <<event, status, up, culprit, crashes>>

\* A caught error starts the handler again.
CatchRetrying(e) ==
  /\ e \in Running /\ Awaited(e).caught
  /\ \E late \in SUBSET Pending(e) : written' = written \cup late
  /\ answered' = [answered EXCEPT ![e] = 0]
  /\ UNCHANGED <<event, status, up, culprit, crashes>>

\* The next process takes up what the last one lost.
StartReplaying ==
  /\ ~up /\ up' = TRUE
  /\ status' = [e \in Events |-> IF status[e] = "lost" THEN "running" ELSE status[e]]
  /\ UNCHANGED <<event, answered, written, culprit, crashes>>

-----------------------------------------------------------------------------
\* The process ends with all that is under way. Writes already sent may succeed.
Collapse ==
  /\ up' = FALSE
  /\ status' = [e \in Events |-> IF e \in Running THEN "lost" ELSE status[e]]

\* The awaited call succeeds; the handler goes on to its next call or is done.
Answer(e) ==
  /\ e \in Running /\ Accepted(event[e], Awaited(e))
  /\ ~ThenThrows(e)
  /\ written' = written \cup Pending(e)
  /\ answered' = [answered EXCEPT ![e] = @ + 1]
  /\ status' = [status EXCEPT ![e] = IF LastCall(e) THEN "done" ELSE @]
  /\ UNCHANGED <<event, up, culprit, crashes>>

\* The awaited call succeeds and the code after it throws: a number is null or too
\* large for toNumber.
AnswerThenThrow(e) ==
  /\ e \in Running /\ Accepted(event[e], Awaited(e))
  /\ ThenThrows(e)
  /\ \E late \in SUBSET UNION {Pending(d) : d \in Running} :
       written' = written \cup Pending(e) \cup late
  /\ culprit' = e
  /\ Collapse
  /\ UNCHANGED <<event, answered, crashes>>

\* The store refuses what it is given.
Refuse(e) ==
  /\ e \in Running /\ ~Accepted(event[e], Awaited(e))
  /\ \E late \in SUBSET UNION {Pending(d) : d \in Running} : written' = written \cup late
  /\ culprit' = e
  /\ Collapse
  /\ UNCHANGED <<event, answered, crashes>>

\* The call fails for a reason of its own; nothing catches it.
Fail(e) ==
  /\ CallsCanFail
  /\ e \in Running /\ ~Awaited(e).caught
  /\ \E late \in SUBSET UNION {Pending(d) : d \in Running} : written' = written \cup late
  /\ culprit' = NULL
  /\ Collapse
  /\ UNCHANGED <<event, answered, crashes>>

\* A caught error ends the handler: the ticket was not found, or the call failed,
\* perhaps after it took effect.
Catch(e) ==
  /\ e \in Running /\ Awaited(e).caught
  /\ \E late \in SUBSET Pending(e) : written' = written \cup late
  /\ status' = [status EXCEPT ![e] = "done"]
  /\ UNCHANGED <<event, answered, up, culprit, crashes>>

-----------------------------------------------------------------------------
\* pm2 ends a process that takes too much memory.
Crash ==
  /\ up /\ crashes < MaxCrashes
  /\ crashes' = crashes + 1
  /\ \E late \in SUBSET UNION {Pending(d) : d \in Running} : written' = written \cup late
  /\ culprit' = NULL
  /\ Collapse
  /\ UNCHANGED <<event, answered>>

\* pm2 starts the process, and onModuleInit subscribes in one go: nothing there
\* waits for anything.
Start ==
  /\ ~up /\ up' = TRUE
  /\ UNCHANGED <<event, status, answered, written, culprit, crashes>>

Finished ==
  /\ up /\ \A e \in Events : status[e] \in {"missed", "done", "lost"}
  /\ UNCHANGED vars

Settle(e) == Answer(e) \/ AnswerThenThrow(e) \/ Refuse(e) \/ Fail(e) \/ Catch(e)

Next ==
  \/ \E e \in Events : Emit(e) \/ Settle(e)
  \/ Crash
  \/ Start
  \/ Finished

Spec == Init /\ [][Next]_vars

\* What a handler awaits settles.
LiveSpec == Spec /\ \A e \in Events : WF_vars(Settle(e))

-----------------------------------------------------------------------------
(* Properties                                                               *)

TypeOK ==
  /\ event \in [Events -> Event \cup {NULL}]
  /\ status \in [Events -> {"none", "missed", "running", "done", "lost"}]
  /\ answered \in [Events -> Nat]
  /\ written \subseteq Events \X (Nat \ {0})
  /\ up \in BOOLEAN /\ culprit \in Events \cup {NULL} /\ crashes \in 0 .. MaxCrashes
  /\ \A e \in Events :
       /\ status[e] = "none" <=> event[e] = NULL
       /\ e \in Running => up /\ answered[e] < Len(CallsOf(e))

(* The stores agree: a handler's write is in its store only if all that the *)
(* handler writes before it is (no row without the document of its event),  *)
(* and a handler that is done has left nothing out but a caught update.     *)
StoresAgree ==
  \A e \in Events : event[e] # NULL =>
    LET calls == CallsOf(e) IN
    /\ \A w \in written : w[1] = e =>
         \A i \in 1 .. w[2] - 1 : Writes(calls[i]) => <<e, i>> \in written
    /\ status[e] = "done" =>
         \A i \in 1 .. Len(calls) :
           Writes(calls[i]) /\ ~calls[i].caught => <<e, i>> \in written

(* The events the code cannot handle: their document lacks a required field *)
(* or gives a struct for a number (AddValidator, SetValidatorScore), their  *)
(* row lacks a value that is converted (StakeReserve, DepositStakeAccount,  *)
(* UpdateDeactivated), or a number is null or above 2^53, in the event or   *)
(* in the state read for it (UpdateActive).                                 *)
Poison(ev) ==
  \/ ev.kind \in {"AddValidator", "SetValidatorScore", "StakeReserve", "DepositStakeAccount",
                  "UpdateDeactivated"}
  \/ ev.kind = "UpdateActive" /\ ev.absent \cup ev.wide # {}

(* Exactly the poison events are at fault: no other event's data ever ends  *)
(* the process, and no poison event is ever done. Nineteen of the handlers  *)
(* agree with their schemas and entities in every field.                    *)
PoisonIsKnown ==
  /\ culprit # NULL => Poison(event[culprit])
  /\ \A e \in Events : status[e] = "done" => ~Poison(event[e])

\* The monitor implements EventLog: what is lost is lost together, and only then.
EventLogOfMonitor == INSTANCE EventLog WITH
  stage <- [e \in Events |-> CASE status[e] = "running" -> "open"
                               [] status[e] = "done" -> "complete"
                               [] OTHER -> status[e]],
  log   <- {e \in Events : <<e, 1>> \in written}
LogImplemented == EventLogOfMonitor!Spec

\* No handler waits for ever: it is done, or the process ends.
EveryHandlerEnds == \A e \in Events : status[e] = "running" ~> status[e] # "running"

\* The ends of the process that are still to come: one for each event not handled
\* yet, and those that pm2 or the machine cause.
EndsLeft ==
  Cardinality({e \in Events : status[e] \in {"none", "running"}}) + (MaxCrashes - crashes)

(* There is no crash loop: each end of the process uses up the event that   *)
(* caused it, or a crash that no event caused, for good. Nothing that a     *)
(* later process does, reads or retries gives it another end.               *)
EndsRunOut == [][EndsLeft' <= EndsLeft /\ (up /\ ~up' => EndsLeft' < EndsLeft)]_vars

\* The calls of its handler that insert a delegation.
Delegating(e) ==
  IF event[e] = NULL THEN {}
  ELSE {i \in DOMAIN CallsOf(e) : CallsOf(e)[i].table = "stakedelegation"}

(* A stake account or validator the program adds reaches the delegations    *)
(* ("Save the stake account and validator account to pg db").               *)
DelegationsSaved ==
  \A e \in Events :
    status[e] = "running" ~> \A i \in Delegating(e) : <<e, i>> \in written
===============================================================================
