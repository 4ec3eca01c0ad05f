-------------------------- MODULE EventMonitorProofs --------------------------
(***************************************************************************)
(* Theorems about EventMonitor, for any number of events and crashes and   *)
(* any numbers too wide for toNumber.                                      *)
(***************************************************************************)
EXTENDS EventMonitor, SequenceTheorems, FiniteSetTheorems, TLAPS

\* The handlers that await nothing after their document is saved.
QuietKinds ==
  {"ChangeAuthority", "ConfigLp", "ConfigStaderLiquidStaking", "EmergencyPause", "Initialize",
   "ReallocStakeList", "ReallocValidatorList", "Resume", "DeactivateStake", "MergeStakes",
   "Redelegate", "AddLiquidity", "LiquidUnstake", "RemoveLiquidity", "RemoveValidator",
   "SetValidatorScore", "Deposit", "WithdrawStakeAccount"}

BusyKinds ==
  {"StakeReserve", "UpdateActive", "UpdateDeactivated", "Claim", "OrderUnstake",
   "AddValidator", "DepositStakeAccount"}

LogCall == Call("log", "", {}, {}, FALSE)

Emitted == {e \in Events : event[e] # NULL}

\* A handler has answered some of its calls, and each write among them is stored.
KeptInv ==
  \A e \in Emitted :
    /\ answered[e] <= Len(CallsOf(e))
    /\ \A i \in 1 .. answered[e] : Writes(CallsOf(e)[i]) => <<e, i>> \in written

\* Nothing is stored ahead of the awaited call.
BoundInv ==
  \A w \in written : w[1] \in Emitted /\ w[2] <= answered[w[1]] + 1

\* A handler that is done has answered all its calls but a last one that is caught.
DoneInv ==
  \A e \in Emitted : status[e] = "done" =>
    LET n == Len(CallsOf(e)) IN
    answered[e] = n \/ (answered[e] + 1 = n /\ CallsOf(e)[n].caught)

\* What a handler has passed was accepted and did not throw.
PassedInv ==
  \A e \in Emitted :
    /\ \A i \in 1 .. answered[e] : Accepted(event[e], CallsOf(e)[i])
    /\ \A i \in 2 .. answered[e] + 1 :
         i <= Len(CallsOf(e)) => ~Throws(event[e], CallsOf(e)[i])

\* Only poison is blamed.
BlameInv == culprit # NULL => culprit \in Emitted /\ Poison(event[culprit])

\* An event that has not been emitted has no answers.
AnsweredInv == \A e \in Events \ Emitted : answered[e] = 0

IInv == TypeOK /\ KeptInv /\ BoundInv /\ DoneInv /\ PassedInv /\ BlameInv /\ AnsweredInv

-----------------------------------------------------------------------------
LEMMA KindsAre == Kinds = QuietKinds \cup BusyKinds
  BY DEF Kinds, Handlers, QuietKinds, BusyKinds

LEMMA QuietHandlers == \A k \in QuietKinds : Handlers[k].calls = <<>>
  BY DEF QuietKinds, Handlers, LogOnly, ChangeAuthorityHandler, ConfigLpHandler,
     ConfigStaderLiquidStakingHandler, EmergencyPauseHandler, InitializeHandler,
     ReallocStakeListHandler, ReallocValidatorListHandler, ResumeHandler,
     DeactivateStakeHandler, MergeStakesHandler, RedelegateHandler, AddLiquidityHandler,
     LiquidUnstakeHandler, RemoveLiquidityHandler, RemoveValidatorHandler,
     SetValidatorScoreHandler, DepositHandler, WithdrawStakeAccountHandler

\* What a handler awaits after the save, in order.
LEMMA BusyHandlers ==
  /\ \E a : Handlers["StakeReserve"].calls = <<a>> /\ ~a.caught /\ a.op = "insert"
  /\ \E a : Handlers["UpdateDeactivated"].calls = <<a>> /\ ~a.caught /\ a.op = "insert"
  /\ \E a : Handlers["DepositStakeAccount"].calls = <<a>> /\ ~a.caught /\ a.op = "insert"
  /\ Handlers["Claim"].calls = <<UpdateTicket>>
  /\ \E b : Handlers["OrderUnstake"].calls = <<Rpc, b>> /\ ~b.caught /\ b.op = "insert"
  /\ \E a, b : /\ Handlers["AddValidator"].calls = <<a, b>>
               /\ ~a.caught /\ ~b.caught /\ a.op = "insert" /\ b.op = "insert"
  /\ \E a, b : /\ Handlers["UpdateActive"].calls = <<Rpc, a, b>>
               /\ ~a.caught /\ ~b.caught /\ a.op = "insert" /\ b.op = "insert"
<1> USE DEF Handlers, LogThen, Insert, Call
<1>1. \E a : Handlers["StakeReserve"].calls = <<a>> /\ ~a.caught /\ a.op = "insert"
  BY DEF StakeReserveHandler
<1>2. \E a : Handlers["UpdateDeactivated"].calls = <<a>> /\ ~a.caught /\ a.op = "insert"
  BY DEF UpdateDeactivatedHandler
<1>3. \E a : Handlers["DepositStakeAccount"].calls = <<a>> /\ ~a.caught /\ a.op = "insert"
  BY DEF DepositStakeAccountHandler
<1>4. Handlers["Claim"].calls = <<UpdateTicket>>
  BY DEF ClaimHandler
<1>5. \E b : Handlers["OrderUnstake"].calls = <<Rpc, b>> /\ ~b.caught /\ b.op = "insert"
  BY DEF OrderUnstakeHandler
<1>6. \E a, b : /\ Handlers["AddValidator"].calls = <<a, b>>
               /\ ~a.caught /\ ~b.caught /\ a.op = "insert" /\ b.op = "insert"
  BY DEF AddValidatorHandler
<1>7. \E a, b : /\ Handlers["UpdateActive"].calls = <<Rpc, a, b>>
               /\ ~a.caught /\ ~b.caught /\ a.op = "insert" /\ b.op = "insert"
  BY DEF UpdateActiveHandler
<1>8. QED
  BY <1>1, <1>2, <1>3, <1>4, <1>5, <1>6, <1>7





\* One element ahead of a sequence.
LEMMA Prepend ==
  ASSUME NEW S, NEW l \in S, NEW s \in Seq(S)
  PROVE  /\ <<l>> \o s \in Seq(S)
         /\ Len(<<l>> \o s) = 1 + Len(s)
         /\ (<<l>> \o s)[1] = l
         /\ \A i \in 2 .. 1 + Len(s) : (<<l>> \o s)[i] = s[i - 1]
<1>1. <<l>> \in Seq(S) /\ Len(<<l>>) = 1 /\ <<l>>[1] = l
  OBVIOUS
<1>2. /\ <<l>> \o s \in Seq(S)
      /\ Len(<<l>> \o s) = Len(<<l>>) + Len(s)
      /\ \A i \in 1 .. Len(<<l>>) + Len(s) :
           (<<l>> \o s)[i] = IF i <= Len(<<l>>) THEN <<l>>[i] ELSE s[i - Len(<<l>>)]
  BY <1>1, ConcatProperties
<1>3. Len(s) \in Nat
  OBVIOUS
<1>4. QED
  BY <1>1, <1>2, <1>3

\* The calls of a kind: its save, then what its handler lists.
LEMMA CallsAppend ==
  ASSUME NEW k, NEW a, NEW b, NEW c
  PROVE  /\ Handlers[k].calls = <<>> => Calls(k) = <<LogCall>>
         /\ Handlers[k].calls = <<a>> => Calls(k) = <<LogCall, a>>
         /\ Handlers[k].calls = <<a, b>> => Calls(k) = <<LogCall, a, b>>
         /\ Handlers[k].calls = <<a, b, c>> => Calls(k) = <<LogCall, a, b, c>>
<1> DEFINE S == {LogCall, a, b, c}
<1>1. <<a>> \in Seq(S) /\ <<a, b>> \in Seq(S) /\ <<a, b, c>> \in Seq(S) /\ LogCall \in S
  OBVIOUS
<1> HIDE DEF S
<1>2. <<LogCall>> \o <<>> = <<LogCall>>
  OBVIOUS
<1>3. <<LogCall>> \o <<a>> = <<LogCall, a>>
  <2> DEFINE t == <<a>>  r == <<LogCall>> \o t
  <2>1. t \in Seq(S) /\ Len(t) = 1 /\ t[1] = a
    BY <1>1
  <2> HIDE DEF t
  <2>2. /\ <<LogCall>> \o t \in Seq(S) /\ Len(<<LogCall>> \o t) = 1 + Len(t)
        /\ (<<LogCall>> \o t)[1] = LogCall
        /\ \A i \in 2 .. 1 + Len(t) : (<<LogCall>> \o t)[i] = t[i - 1]
    <3>1. LogCall \in S /\ t \in Seq(S)
      BY <1>1, <2>1
    <3>2. QED
      BY <3>1, Prepend
  <2>3. r \in Seq(S) /\ Len(r) = 2 /\ r[1] = LogCall /\ r[2] = a
    BY <2>1, <2>2
  <2> HIDE DEF r
  <2>4. r = <<LogCall, a>>
    BY <2>3
  <2>5. QED
    BY <2>4 DEF r, t
<1>4. <<LogCall>> \o <<a, b>> = <<LogCall, a, b>>
  <2> DEFINE t == <<a, b>>  r == <<LogCall>> \o t
  <2>1. t \in Seq(S) /\ Len(t) = 2 /\ t[1] = a /\ t[2] = b
    BY <1>1
  <2> HIDE DEF t
  <2>2. /\ <<LogCall>> \o t \in Seq(S) /\ Len(<<LogCall>> \o t) = 1 + Len(t)
        /\ (<<LogCall>> \o t)[1] = LogCall
        /\ \A i \in 2 .. 1 + Len(t) : (<<LogCall>> \o t)[i] = t[i - 1]
    <3>1. LogCall \in S /\ t \in Seq(S)
      BY <1>1, <2>1
    <3>2. QED
      BY <3>1, Prepend
  <2>3. r \in Seq(S) /\ Len(r) = 3 /\ r[1] = LogCall /\ r[2] = a /\ r[3] = b
    BY <2>1, <2>2
  <2> HIDE DEF r
  <2>4. r = <<LogCall, a, b>>
    BY <2>3
  <2>5. QED
    BY <2>4 DEF r, t
<1>5. <<LogCall>> \o <<a, b, c>> = <<LogCall, a, b, c>>
  <2> DEFINE t == <<a, b, c>>  r == <<LogCall>> \o t
  <2>1. t \in Seq(S) /\ Len(t) = 3 /\ t[1] = a /\ t[2] = b /\ t[3] = c
    BY <1>1
  <2> HIDE DEF t
  <2>2. /\ <<LogCall>> \o t \in Seq(S) /\ Len(<<LogCall>> \o t) = 1 + Len(t)
        /\ (<<LogCall>> \o t)[1] = LogCall
        /\ \A i \in 2 .. 1 + Len(t) : (<<LogCall>> \o t)[i] = t[i - 1]
    <3>1. LogCall \in S /\ t \in Seq(S)
      BY <1>1, <2>1
    <3>2. QED
      BY <3>1, Prepend
  <2>3. r \in Seq(S) /\ Len(r) = 4 /\ r[1] = LogCall /\ r[2] = a /\ r[3] = b /\ r[4] = c
    BY <2>1, <2>2
  <2> HIDE DEF r
  <2>4. r = <<LogCall, a, b, c>>
    BY <2>3
  <2>5. QED
    BY <2>4 DEF r, t
<1>6. Calls(k) = <<LogCall>> \o Handlers[k].calls
  BY DEF Calls, LogCall
<1>7. QED
  BY <1>2, <1>3, <1>4, <1>5, <1>6

\* Every handler saves its document first, and what it catches it awaits last.
LEMMA CallsShape ==
  ASSUME NEW k \in Kinds
  PROVE  /\ Len(Calls(k)) \in 1 .. 4
         /\ Calls(k)[1] = LogCall
         /\ \A i \in 1 .. Len(Calls(k)) : Calls(k)[i].caught => i = Len(Calls(k))
         /\ \A i \in 2 .. Len(Calls(k)) : Calls(k)[i].op # "log"
<1>0. ~LogCall.caught /\ UpdateTicket.op = "update" /\ ~Rpc.caught /\ Rpc.op = "rpc"
  BY DEF LogCall, UpdateTicket, Rpc, Call
<1>1. CASE k \in QuietKinds
  <2>1. Calls(k) = <<LogCall>>
    BY <1>1, QuietHandlers, CallsAppend
  <2>2. QED
    BY <1>0, <2>1
<1>2. CASE k \in {"StakeReserve", "UpdateDeactivated", "DepositStakeAccount", "Claim"}
  <2>1. PICK a : Handlers[k].calls = <<a>> /\ a.op # "log"
    BY <1>0, <1>2, BusyHandlers
  <2>2. Calls(k) = <<LogCall, a>>
    BY <2>1, CallsAppend
  <2>3. QED
    BY <1>0, <2>1, <2>2
<1>4. CASE k \in {"OrderUnstake", "AddValidator"}
  <2>1. PICK a, b : /\ Handlers[k].calls = <<a, b>> /\ ~a.caught
                    /\ a.op # "log" /\ b.op # "log"
    BY <1>0, <1>4, BusyHandlers
  <2>2. Calls(k) = <<LogCall, a, b>>
    BY <2>1, CallsAppend
  <2>3. QED
    BY <1>0, <2>1, <2>2
<1>5. CASE k = "UpdateActive"
  <2>1. PICK a, b : /\ Handlers[k].calls = <<Rpc, a, b>> /\ ~a.caught
                    /\ a.op # "log" /\ b.op # "log"
    BY <1>5, BusyHandlers
  <2>2. Calls(k) = <<LogCall, Rpc, a, b>>
    BY <2>1, CallsAppend
  <2>3. QED
    BY <1>0, <2>1, <2>2
<1>6. QED
  BY <1>1, <1>2, <1>4, <1>5, KindsAre DEF BusyKinds

-----------------------------------------------------------------------------
\* The documents the handlers build are accepted by the schemas of their collections.
LEMMA GoodDocuments ==
  ASSUME NEW k \in Kinds \ {"AddValidator", "SetValidatorScore", "StakeReserve",
                           "DepositStakeAccount", "UpdateDeactivated"},
         NEW absent \in {{}, Payloads[k].optional}
  PROVE  DocumentAccepted(Schemas[k], Handlers[k].copied \ absent, Payloads[k].structs)
<1>1. CASE k = "ChangeAuthority"
  <2>1. Schemas[k] = ChangeAuthoritySchema /\ Handlers[k] = ChangeAuthorityHandler /\ Payloads[k] = ChangeAuthorityPayload
    BY <1>1 DEF Schemas, Handlers, Payloads
  <2>2. QED
    BY <2>1 DEF ChangeAuthoritySchema, ChangeAuthorityHandler, ChangeAuthorityPayload, Schema, Payload, LogOnly, LogThen,
       DocumentAccepted
<1>2. CASE k = "ConfigLp"
  <2>1. Schemas[k] = ConfigLpSchema /\ Handlers[k] = ConfigLpHandler /\ Payloads[k] = ConfigLpPayload
    BY <1>2 DEF Schemas, Handlers, Payloads
  <2>2. QED
    BY <2>1 DEF ConfigLpSchema, ConfigLpHandler, ConfigLpPayload, Schema, Payload, LogOnly, LogThen,
       DocumentAccepted
<1>3. CASE k = "ConfigStaderLiquidStaking"
  <2>1. Schemas[k] = ConfigStaderLiquidStakingSchema /\ Handlers[k] = ConfigStaderLiquidStakingHandler /\ Payloads[k] = ConfigStaderLiquidStakingPayload
    BY <1>3 DEF Schemas, Handlers, Payloads
  <2>2. QED
    BY <2>1 DEF ConfigStaderLiquidStakingSchema, ConfigStaderLiquidStakingHandler, ConfigStaderLiquidStakingPayload, Schema, Payload, LogOnly, LogThen,
       DocumentAccepted
<1>4. CASE k = "EmergencyPause"
  <2>1. Schemas[k] = EmergencyPauseSchema /\ Handlers[k] = EmergencyPauseHandler /\ Payloads[k] = EmergencyPausePayload
    BY <1>4 DEF Schemas, Handlers, Payloads
  <2>2. QED
    BY <2>1 DEF EmergencyPauseSchema, EmergencyPauseHandler, EmergencyPausePayload, Schema, Payload, LogOnly, LogThen,
       DocumentAccepted
<1>5. CASE k = "Initialize"
  <2>1. Schemas[k] = InitializeSchema /\ Handlers[k] = InitializeHandler /\ Payloads[k] = InitializePayload
    BY <1>5 DEF Schemas, Handlers, Payloads
  <2>2. QED
    BY <2>1 DEF InitializeSchema, InitializeHandler, InitializePayload, Schema, Payload, LogOnly, LogThen,
       DocumentAccepted
<1>6. CASE k = "ReallocStakeList"
  <2>1. Schemas[k] = ReallocStakeListSchema /\ Handlers[k] = ReallocStakeListHandler /\ Payloads[k] = ReallocStakeListPayload
    BY <1>6 DEF Schemas, Handlers, Payloads
  <2>2. QED
    BY <2>1 DEF ReallocStakeListSchema, ReallocStakeListHandler, ReallocStakeListPayload, Schema, Payload, LogOnly, LogThen,
       DocumentAccepted
<1>7. CASE k = "ReallocValidatorList"
  <2>1. Schemas[k] = ReallocValidatorListSchema /\ Handlers[k] = ReallocValidatorListHandler /\ Payloads[k] = ReallocValidatorListPayload
    BY <1>7 DEF Schemas, Handlers, Payloads
  <2>2. QED
    BY <2>1 DEF ReallocValidatorListSchema, ReallocValidatorListHandler, ReallocValidatorListPayload, Schema, Payload, LogOnly, LogThen,
       DocumentAccepted
<1>8. CASE k = "Resume"
  <2>1. Schemas[k] = ResumeSchema /\ Handlers[k] = ResumeHandler /\ Payloads[k] = ResumePayload
    BY <1>8 DEF Schemas, Handlers, Payloads
  <2>2. QED
    BY <2>1 DEF ResumeSchema, ResumeHandler, ResumePayload, Schema, Payload, LogOnly, LogThen,
       DocumentAccepted
<1>9. CASE k = "DeactivateStake"
  <2>1. Schemas[k] = DeactivateStakeSchema /\ Handlers[k] = DeactivateStakeHandler /\ Payloads[k] = DeactivateStakePayload
    BY <1>9 DEF Schemas, Handlers, Payloads
  <2>2. QED
    BY <2>1 DEF DeactivateStakeSchema, DeactivateStakeHandler, DeactivateStakePayload, Schema, Payload, LogOnly, LogThen,
       DocumentAccepted
<1>10. CASE k = "MergeStakes"
  <2>1. Schemas[k] = MergeStakesSchema /\ Handlers[k] = MergeStakesHandler /\ Payloads[k] = MergeStakesPayload
    BY <1>10 DEF Schemas, Handlers, Payloads
  <2>2. QED
    BY <2>1 DEF MergeStakesSchema, MergeStakesHandler, MergeStakesPayload, Schema, Payload, LogOnly, LogThen,
       DocumentAccepted
<1>11. CASE k = "Redelegate"
  <2>1. Schemas[k] = RedelegateSchema /\ Handlers[k] = RedelegateHandler /\ Payloads[k] = RedelegatePayload
    BY <1>11 DEF Schemas, Handlers, Payloads
  <2>2. QED
    BY <2>1 DEF RedelegateSchema, RedelegateHandler, RedelegatePayload, Schema, Payload, LogOnly, LogThen,
       DocumentAccepted
<1>12. CASE k = "UpdateActive"
  <2>1. Schemas[k] = UpdateActiveSchema /\ Handlers[k] = UpdateActiveHandler /\ Payloads[k] = UpdateActivePayload
    BY <1>12 DEF Schemas, Handlers, Payloads
  <2>2. QED
    BY <2>1 DEF UpdateActiveSchema, UpdateActiveHandler, UpdateActivePayload, Schema, Payload, LogOnly, LogThen,
       DocumentAccepted
<1>13. CASE k = "Claim"
  <2>1. Schemas[k] = ClaimSchema /\ Handlers[k] = ClaimHandler /\ Payloads[k] = ClaimPayload
    BY <1>13 DEF Schemas, Handlers, Payloads
  <2>2. QED
    BY <2>1 DEF ClaimSchema, ClaimHandler, ClaimPayload, Schema, Payload, LogOnly, LogThen,
       DocumentAccepted
<1>14. CASE k = "OrderUnstake"
  <2>1. Schemas[k] = OrderUnstakeSchema /\ Handlers[k] = OrderUnstakeHandler /\ Payloads[k] = OrderUnstakePayload
    BY <1>14 DEF Schemas, Handlers, Payloads
  <2>2. QED
    BY <2>1 DEF OrderUnstakeSchema, OrderUnstakeHandler, OrderUnstakePayload, Schema, Payload, LogOnly, LogThen,
       DocumentAccepted
<1>15. CASE k = "AddLiquidity"
  <2>1. Schemas[k] = AddLiquiditySchema /\ Handlers[k] = AddLiquidityHandler /\ Payloads[k] = AddLiquidityPayload
    BY <1>15 DEF Schemas, Handlers, Payloads
  <2>2. QED
    BY <2>1 DEF AddLiquiditySchema, AddLiquidityHandler, AddLiquidityPayload, Schema, Payload, LogOnly, LogThen,
       DocumentAccepted
<1>16. CASE k = "LiquidUnstake"
  <2>1. Schemas[k] = LiquidUnstakeSchema /\ Handlers[k] = LiquidUnstakeHandler /\ Payloads[k] = LiquidUnstakePayload
    BY <1>16 DEF Schemas, Handlers, Payloads
  <2>2. QED
    BY <2>1 DEF LiquidUnstakeSchema, LiquidUnstakeHandler, LiquidUnstakePayload, Schema, Payload, LogOnly, LogThen,
       DocumentAccepted
<1>17. CASE k = "RemoveLiquidity"
  <2>1. Schemas[k] = RemoveLiquiditySchema /\ Handlers[k] = RemoveLiquidityHandler /\ Payloads[k] = RemoveLiquidityPayload
    BY <1>17 DEF Schemas, Handlers, Payloads
  <2>2. QED
    BY <2>1 DEF RemoveLiquiditySchema, RemoveLiquidityHandler, RemoveLiquidityPayload, Schema, Payload, LogOnly, LogThen,
       DocumentAccepted
<1>18. CASE k = "RemoveValidator"
  <2>1. Schemas[k] = RemoveValidatorSchema /\ Handlers[k] = RemoveValidatorHandler /\ Payloads[k] = RemoveValidatorPayload
    BY <1>18 DEF Schemas, Handlers, Payloads
  <2>2. QED
    BY <2>1 DEF RemoveValidatorSchema, RemoveValidatorHandler, RemoveValidatorPayload, Schema, Payload, LogOnly, LogThen,
       DocumentAccepted
<1>19. CASE k = "Deposit"
  <2>1. Schemas[k] = DepositSchema /\ Handlers[k] = DepositHandler /\ Payloads[k] = DepositPayload
    BY <1>19 DEF Schemas, Handlers, Payloads
  <2>2. QED
    BY <2>1 DEF DepositSchema, DepositHandler, DepositPayload, Schema, Payload, LogOnly, LogThen,
       DocumentAccepted
<1>20. CASE k = "WithdrawStakeAccount"
  <2>1. Schemas[k] = WithdrawStakeAccountSchema /\ Handlers[k] = WithdrawStakeAccountHandler /\ Payloads[k] = WithdrawStakeAccountPayload
    BY <1>20 DEF Schemas, Handlers, Payloads
  <2>2. QED
    BY <2>1 DEF WithdrawStakeAccountSchema, WithdrawStakeAccountHandler, WithdrawStakeAccountPayload, Schema, Payload, LogOnly, LogThen,
       DocumentAccepted
<1>21. QED
  BY <1>1, <1>2, <1>3, <1>4, <1>5, <1>6, <1>7, <1>8, <1>9, <1>10, <1>11, <1>12, <1>13, <1>14, <1>15, <1>16, <1>17, <1>18, <1>19, <1>20, KindsAre DEF QuietKinds, BusyKinds

\* What an event is made of.
LEMMA EventParts ==
  ASSUME NEW ev \in Event
  PROVE  /\ ev.kind \in Kinds
         /\ ev.absent \in {{}, Payloads[ev.kind].optional}
         /\ ev.wide \subseteq Numbers(ev.kind)
  BY DEF Event

\* The calls of the three kinds whose handlers can end well and that await more.
LEMMA CallsOfSound ==
  /\ Calls("Claim") = <<LogCall, UpdateTicket>>
  /\ \E a : /\ Calls("OrderUnstake") = <<LogCall, Rpc, a>>
           /\ a.op = "insert" /\ a.numbers = {} /\ RowAccepted(Tables[a.table], a.columns)
  /\ \E a, b : /\ Calls("UpdateActive") = <<LogCall, Rpc, a, b>>
              /\ a.op = "insert" /\ RowAccepted(Tables[a.table], a.columns)
              /\ b.op = "insert" /\ RowAccepted(Tables[b.table], b.columns)
              /\ ~a.caught /\ ~b.caught
              /\ a.numbers \cup b.numbers = Numbers("UpdateActive")
              /\ UpdateActivePayload.optional \subseteq b.numbers
<1>1. Calls("Claim") = <<LogCall, UpdateTicket>>
  BY BusyHandlers, CallsAppend
<1>2. \E a : /\ Calls("OrderUnstake") = <<LogCall, Rpc, a>>
           /\ a.op = "insert" /\ a.numbers = {} /\ RowAccepted(Tables[a.table], a.columns)
  <2>1. PICK a : /\ Handlers["OrderUnstake"].calls = <<Rpc, a>>
                 /\ a.op = "insert" /\ a.numbers = {} /\ RowAccepted(Tables[a.table], a.columns)
    BY DEF Handlers, OrderUnstakeHandler, LogThen, Insert, Call, RowAccepted, Tables,
       UnstakeTicket, Table
  <2>2. QED
    BY <2>1, CallsAppend
<1>3. \E a, b : /\ Calls("UpdateActive") = <<LogCall, Rpc, a, b>>
              /\ a.op = "insert" /\ RowAccepted(Tables[a.table], a.columns)
              /\ b.op = "insert" /\ RowAccepted(Tables[b.table], b.columns)
              /\ ~a.caught /\ ~b.caught
              /\ a.numbers \cup b.numbers = Numbers("UpdateActive")
              /\ UpdateActivePayload.optional \subseteq b.numbers
  <2>1. PICK a, b : /\ Handlers["UpdateActive"].calls = <<Rpc, a, b>>
              /\ a.op = "insert" /\ RowAccepted(Tables[a.table], a.columns)
              /\ b.op = "insert" /\ RowAccepted(Tables[b.table], b.columns)
              /\ ~a.caught /\ ~b.caught
              /\ UpdateActivePayload.optional \subseteq b.numbers
    BY DEF Handlers, UpdateActiveHandler, LogThen, Insert, Call, RowAccepted, Tables,
       StateMetrics, StaderSolPriceHistory, Table, UpdateActivePayload, Payload
  <2>2. Numbers("UpdateActive") = a.numbers \cup b.numbers
    <3>0. Rpc.numbers = {}
      BY DEF Rpc, Call
    <3>1. DOMAIN Handlers["UpdateActive"].calls = 1 .. 3
      BY <2>1
    <3>2. /\ Handlers["UpdateActive"].calls[1] = Rpc /\ Handlers["UpdateActive"].calls[2] = a
          /\ Handlers["UpdateActive"].calls[3] = b
      BY <2>1
    <3>3. QED
      BY <3>0, <3>1, <3>2 DEF Numbers
  <2>3. QED
    BY <2>1, <2>2, CallsAppend
<1>4. QED
  BY <1>1, <1>2, <1>3

\* What is awaited beside inserts.
LEMMA OtherCalls ==
  /\ LogCall.op = "log" /\ LogCall.numbers = {} /\ ~LogCall.caught
  /\ Rpc.op = "rpc" /\ Rpc.numbers = {} /\ ~Rpc.caught
  /\ UpdateTicket.op = "update" /\ UpdateTicket.numbers = {}
  BY DEF LogCall, Rpc, UpdateTicket, Call

\* No call of an event that is not poison is refused, and nothing between its
\* calls throws: schemas, entities and handlers agree.
LEMMA Faultless ==
  ASSUME NEW ev \in Event, ~Poison(ev), NEW i \in 1 .. Len(Calls(ev.kind))
  PROVE  /\ Accepted(ev, Calls(ev.kind)[i])
         /\ i # 1 => ~Throws(ev, Calls(ev.kind)[i])
<1> DEFINE k == ev.kind
<1>1. k \in Kinds /\ ev.absent \in {{}, Payloads[k].optional} /\ ev.wide \subseteq Numbers(k)
  BY EventParts
<1>2. /\ k \notin {"AddValidator", "SetValidatorScore", "StakeReserve", "DepositStakeAccount",
                  "UpdateDeactivated"}
      /\ k = "UpdateActive" => ev.absent = {} /\ ev.wide = {}
  BY DEF Poison
<1>3. CASE i = 1
  <2>1. Calls(k)[1] = LogCall /\ LogCall.op = "log"
    BY <1>1, CallsShape, OtherCalls
  <2>2. DocumentAccepted(Schemas[k], Handlers[k].copied \ ev.absent, Payloads[k].structs)
    BY <1>1, <1>2, GoodDocuments
  <2>3. QED
    BY <1>3, <2>1, <2>2 DEF Accepted
<1>4. CASE i # 1 /\ k \in QuietKinds
  <2>1. Calls(k) = <<LogCall>>
    BY <1>4, QuietHandlers, CallsAppend
  <2>2. QED
    BY <1>4, <2>1
<1>5. CASE i # 1 /\ k = "Claim"
  <2>1. Calls(k)[i] = UpdateTicket
    BY <1>5, CallsOfSound
  <2>2. QED
    BY <1>5, <2>1, OtherCalls DEF Accepted, Throws
<1>6. CASE i # 1 /\ k = "OrderUnstake"
  <2>1. PICK a : /\ Calls("OrderUnstake") = <<LogCall, Rpc, a>>
                 /\ a.op = "insert" /\ a.numbers = {} /\ RowAccepted(Tables[a.table], a.columns)
    BY CallsOfSound
  <2>2. Calls(k)[i] \in {Rpc, a}
    BY <1>6, <2>1
  <2>3. QED
    BY <1>6, <2>1, <2>2, OtherCalls DEF Accepted, Throws
<1>7. CASE i # 1 /\ k = "UpdateActive"
  <2>1. PICK a, b : /\ Calls("UpdateActive") = <<LogCall, Rpc, a, b>>
                    /\ a.op = "insert" /\ RowAccepted(Tables[a.table], a.columns)
                    /\ b.op = "insert" /\ RowAccepted(Tables[b.table], b.columns)
    BY CallsOfSound
  <2>2. Calls(k)[i] \in {Rpc, a, b}
    BY <1>7, <2>1
  <2>3. Accepted(ev, Calls(k)[i])
    BY <1>7, <2>1, <2>2, OtherCalls DEF Accepted
  <2>4. ~Throws(ev, Calls(k)[i])
    BY <1>2, <1>7 DEF Throws
  <2>5. QED
    BY <2>3, <2>4
<1>8. QED
  BY <1>1, <1>2, <1>3, <1>4, <1>5, <1>6, <1>7, KindsAre DEF BusyKinds

\* A poison event has a call that is refused or not reached, and it is not the one
\* whose failure is caught.
LEMMA Faulty ==
  ASSUME NEW ev \in Event, Poison(ev)
  PROVE  \E i \in 1 .. Len(Calls(ev.kind)) :
           /\ ~Calls(ev.kind)[i].caught
           /\ ~Accepted(ev, Calls(ev.kind)[i]) \/ (i # 1 /\ Throws(ev, Calls(ev.kind)[i]))
<1>1. /\ ev.kind \in Kinds
      /\ ev.absent \in {{}, Payloads[ev.kind].optional}
      /\ ev.wide \subseteq Numbers(ev.kind)
  BY EventParts
<1>2. 1 \in 1 .. Len(Calls(ev.kind)) /\ Calls(ev.kind)[1] = LogCall
  BY <1>1, CallsShape
<1>3. CASE ev.kind = "AddValidator"
  <2>1. ~DocumentAccepted(Schemas["AddValidator"], Handlers["AddValidator"].copied \ ev.absent,
                          Payloads["AddValidator"].structs)
    BY DEF Schemas, Handlers, AddValidatorSchema, AddValidatorHandler, Schema, LogThen,
       DocumentAccepted
  <2>2. ~Accepted(ev, LogCall)
    BY <1>3, <2>1, OtherCalls DEF Accepted
  <2>3. QED
    BY <1>2, <2>2, OtherCalls
<1>4. CASE ev.kind = "SetValidatorScore"
  <2>1. Payloads["SetValidatorScore"].optional = {} /\ ev.absent = {}
    BY <1>1, <1>4 DEF Payloads, SetValidatorScorePayload, Payload
  <2>2. ~DocumentAccepted(Schemas["SetValidatorScore"],
                          Handlers["SetValidatorScore"].copied \ ev.absent,
                          Payloads["SetValidatorScore"].structs)
    BY <2>1 DEF Schemas, Handlers, Payloads, SetValidatorScoreSchema, SetValidatorScoreHandler,
       SetValidatorScorePayload, Schema, LogOnly, Payload, DocumentAccepted
  <2>3. ~Accepted(ev, LogCall)
    BY <1>4, <2>2, OtherCalls DEF Accepted
  <2>4. QED
    BY <1>2, <2>3, OtherCalls
<1>5. CASE ev.kind \in {"StakeReserve", "DepositStakeAccount", "UpdateDeactivated"}
  <2>1. PICK a : /\ Handlers[ev.kind].calls = <<a>> /\ a.op = "insert" /\ ~a.caught
                 /\ ~RowAccepted(Tables[a.table], a.columns)
    <3>1. CASE ev.kind = "StakeReserve"
      BY <3>1 DEF Handlers, StakeReserveHandler, LogThen, Insert, Call, RowAccepted, Tables,
         StakeDelegation, Table
    <3>2. CASE ev.kind = "DepositStakeAccount"
      BY <3>2 DEF Handlers, DepositStakeAccountHandler, LogThen, Insert, Call, RowAccepted,
         Tables, StakeDelegation, Table
    <3>3. CASE ev.kind = "UpdateDeactivated"
      BY <3>3 DEF Handlers, UpdateDeactivatedHandler, LogThen, Insert, Call, RowAccepted,
         Tables, StaderSolPriceHistory, Table
    <3>4. QED
      BY <1>5, <3>1, <3>2, <3>3
  <2>2. Calls(ev.kind) = <<LogCall, a>>
    BY <2>1, CallsAppend
  <2>3. ~Accepted(ev, a)
    BY <2>1 DEF Accepted
  <2>4. 2 \in 1 .. Len(Calls(ev.kind)) /\ Calls(ev.kind)[2] = a
    BY <2>2
  <2>5. QED
    BY <2>1, <2>3, <2>4
<1>6. CASE ev.kind = "UpdateActive" /\ ev.absent \cup ev.wide # {}
  <2>1. PICK a, b : /\ Calls("UpdateActive") = <<LogCall, Rpc, a, b>>
                    /\ ~a.caught /\ ~b.caught
                    /\ a.numbers \cup b.numbers = Numbers("UpdateActive")
                    /\ UpdateActivePayload.optional \subseteq b.numbers
    BY CallsOfSound
  <2>2. /\ 3 \in 1 .. Len(Calls(ev.kind)) /\ Calls(ev.kind)[3] = a
        /\ 4 \in 1 .. Len(Calls(ev.kind)) /\ Calls(ev.kind)[4] = b
    BY <1>6, <2>1
  <2>3. ev.absent \cup ev.wide \subseteq a.numbers \cup b.numbers
    BY <1>1, <1>6, <2>1 DEF Payloads
  <2>4. Throws(ev, a) \/ Throws(ev, b)
    BY <1>6, <2>3 DEF Throws
  <2>5. QED
    BY <2>1, <2>2, <2>4
<1>7. QED
  BY <1>3, <1>4, <1>5, <1>6 DEF Poison

-----------------------------------------------------------------------------
\* The calls of an event that has been emitted.
LEMMA CallsOfEmitted ==
  ASSUME TypeOK, NEW e \in Emitted
  PROVE  /\ e \in Events /\ event[e] \in Event /\ event[e].kind \in Kinds
         /\ Len(CallsOf(e)) \in 1 .. 4 /\ CallsOf(e)[1] = LogCall
         /\ \A i \in 1 .. Len(CallsOf(e)) : CallsOf(e)[i].caught => i = Len(CallsOf(e))
         /\ answered[e] \in Nat
<1>1. e \in Events /\ event[e] \in Event
  BY DEF TypeOK, Emitted
<1>2. event[e].kind \in Kinds
  BY <1>1, EventParts
<1>3. QED
  BY <1>1, <1>2, CallsShape DEF CallsOf, TypeOK

LEMMA RunningEmitted ==
  ASSUME TypeOK, NEW e \in Running
  PROVE  e \in Emitted /\ up /\ answered[e] + 1 \in 1 .. Len(CallsOf(e))
<1>1. e \in Emitted
  BY DEF TypeOK, Running, Emitted
<1>2. QED
  BY <1>1, CallsOfEmitted DEF TypeOK, Running

\* What may be stored while handlers wait.
LEMMA PendingWrites ==
  ASSUME TypeOK, NEW w \in UNION {Pending(d) : d \in Running}
  PROVE  \E d \in Running : w = <<d, answered[d] + 1>> /\ Writes(Awaited(d))
  BY DEF Pending

\* Everything that happens to a process that ends.
LEMMA Collapses ==
  ASSUME IInv, Collapse, UNCHANGED <<event, answered>>,
         NEW late \in SUBSET UNION {Pending(d) : d \in Running},
         written' = written \cup late,
         culprit' # NULL => culprit' \in Emitted /\ Poison(event[culprit']),
         crashes' \in 0 .. MaxCrashes
  PROVE  IInv'
<1>1. Emitted' = Emitted /\ \A e \in Events : CallsOf(e)' = CallsOf(e)
  BY DEF Emitted, CallsOf
<1>2. \A w \in late : w \in Events \X (Nat \ {0}) /\ w[1] \in Emitted /\ w[2] = answered[w[1]] + 1
  BY PendingWrites, RunningEmitted, CallsOfEmitted DEF IInv
<1>3. /\ status' \in [Events -> {"none", "missed", "running", "done", "lost"}]
      /\ \A e \in Events : /\ status'[e] # "running"
                           /\ status'[e] = "done" <=> status[e] = "done"
                           /\ status'[e] = "none" <=> status[e] = "none"
  BY DEF Collapse, Running, IInv, TypeOK
<1>4. TypeOK'
  <2>1. culprit' \in Events \cup {NULL}
    BY DEF Emitted
  <2>2. up' \in BOOLEAN /\ Running' = {}
    BY <1>3 DEF Collapse, Running
  <2>3. QED
    BY <1>2, <1>3, <2>1, <2>2 DEF IInv, TypeOK
<1>5. KeptInv'
  BY <1>1 DEF IInv, KeptInv, Emitted
<1>6. BoundInv'
  <2>1. SUFFICES ASSUME NEW w \in written \cup late
                 PROVE  w[1] \in Emitted /\ w[2] <= answered[w[1]] + 1
    BY <1>1 DEF BoundInv
  <2>2. CASE w \in written
    BY <2>2 DEF IInv, BoundInv
  <2>3. CASE w \in late
    BY <1>2, <2>3
  <2>4. QED
    BY <2>1, <2>2, <2>3
<1>7. DoneInv'
  BY <1>1, <1>3 DEF IInv, DoneInv, Emitted
<1>8. PassedInv'
  BY <1>1 DEF IInv, PassedInv, Emitted
<1>9. BlameInv' /\ AnsweredInv'
  BY <1>1 DEF IInv, BlameInv, AnsweredInv
<1>10. QED
  BY <1>4, <1>5, <1>6, <1>7, <1>8, <1>9 DEF IInv

LEMMA EmitStep ==
  ASSUME IInv, NEW e \in Events, Emit(e)
  PROVE  IInv'
<1>1. PICK ev \in Event : event' = [event EXCEPT ![e] = ev]
  BY DEF Emit
<1>2. /\ event'[e] = ev /\ ev # NULL /\ event[e] = NULL /\ status[e] = "none"
      /\ \A d \in Events \ {e} : event'[d] = event[d] /\ status'[d] = status[d]
      /\ status'[e] \in {"running", "missed"} /\ (status'[e] = "running" => up)
      /\ UNCHANGED <<answered, written, up, culprit, crashes>>
  BY <1>1, EventMonitorAssumption DEF Emit, IInv, TypeOK
<1>3. Emitted' = Emitted \cup {e} /\ e \notin Emitted /\ \A d \in Emitted : CallsOf(d)' = CallsOf(d)
  BY <1>2 DEF Emitted, CallsOf
<1>4. answered[e] = 0
  BY <1>2 DEF IInv, AnsweredInv, Emitted
<1>5. CallsOf(e)' = Calls(ev.kind) /\ Len(Calls(ev.kind)) \in 1 .. 4
  BY <1>2, EventParts, CallsShape DEF CallsOf
<1>6. TypeOK'
  <2>1. event' \in [Events -> Event \cup {NULL}]
    BY <1>1 DEF IInv, TypeOK
  <2>2. status' \in [Events -> {"none", "missed", "running", "done", "lost"}]
    BY DEF IInv, TypeOK, Emit
  <2>3. ASSUME NEW d \in Events
        PROVE  /\ status'[d] = "none" <=> event'[d] = NULL
               /\ d \in Running' => up' /\ answered'[d] < Len(CallsOf(d)')
    <3>1. CASE d = e
      BY <1>2, <1>4, <1>5, <3>1 DEF Running
    <3>2. CASE d # e
      BY <1>2, <1>3, <3>2 DEF IInv, TypeOK, Running, Emitted
    <3>3. QED
      BY <3>1, <3>2
  <2>4. QED
    BY <1>2, <2>1, <2>2, <2>3 DEF IInv, TypeOK
<1>7. KeptInv'
  BY <1>2, <1>3, <1>4, <1>5 DEF IInv, KeptInv
<1>8. BoundInv'
  BY <1>2, <1>3 DEF IInv, BoundInv
<1>9. DoneInv'
  <2>1. SUFFICES ASSUME NEW d \in Emitted', status'[d] = "done"
                 PROVE  d \in Emitted /\ status[d] = "done"
    BY <1>2, <1>3 DEF IInv, DoneInv
  <2>2. QED
    BY <1>2, <1>3, <2>1 DEF Emitted
<1>10. PassedInv'
  <2>1. ASSUME NEW d \in Emitted
        PROVE  event'[d] = event[d] /\ answered'[d] = answered[d] /\ CallsOf(d)' = CallsOf(d)
    BY <1>2, <1>3 DEF Emitted
  <2>2. 1 .. answered'[e] = {} /\ 2 .. answered'[e] + 1 = {}
    BY <1>2, <1>4
  <2>3. QED
    BY <1>3, <2>1, <2>2 DEF IInv, PassedInv
<1>11. BlameInv'
  BY <1>2, <1>3 DEF IInv, BlameInv, Emitted
<1>12. AnsweredInv'
  BY <1>2, <1>3 DEF IInv, AnsweredInv, Emitted
<1>13. QED
  BY <1>6, <1>7, <1>8, <1>9, <1>10, <1>11, <1>12 DEF IInv

LEMMA AnswerStep ==
  ASSUME IInv, NEW e \in Events, Answer(e)
  PROVE  IInv'
<1> DEFINE n == Len(CallsOf(e))
           a == answered[e] + 1
<1>1. /\ e \in Emitted /\ up /\ a \in 1 .. n /\ answered[e] \in Nat /\ n \in 1 .. 4
      /\ Awaited(e) = CallsOf(e)[a]
  BY RunningEmitted, CallsOfEmitted DEF IInv, Answer, Awaited
<1>2. /\ answered'[e] = a /\ \A d \in Events \ {e} : answered'[d] = answered[d]
      /\ status'[e] = (IF a = n THEN "done" ELSE "running")
      /\ \A d \in Events \ {e} : status'[d] = status[d]
      /\ status[e] = "running"
      /\ UNCHANGED <<event, up, culprit, crashes>>
  BY DEF Answer, IInv, TypeOK, LastCall, Running
<1>3. /\ Emitted' = Emitted /\ \A d \in Events : CallsOf(d)' = CallsOf(d)
  BY <1>2 DEF Emitted, CallsOf
<1>4. /\ Accepted(event[e], Awaited(e))
      /\ written' = written \cup (IF Writes(Awaited(e)) THEN {<<e, a>>} ELSE {})
      /\ a + 1 <= n => ~Throws(event[e], CallsOf(e)[a + 1])
  <2>1. answered[e] + 2 = a + 1 /\ (a + 1 <= n => a # n)
    BY <1>1
  <2>2. QED
    BY <1>1, <2>1 DEF Answer, Pending, ThenThrows, LastCall
<1> HIDE DEF a, n
<1>5. TypeOK'
  <2>1. written' \subseteq Events \X (Nat \ {0})
    BY <1>1, <1>4 DEF IInv, TypeOK
  <2>2. answered' \in [Events -> Nat]
    BY DEF IInv, TypeOK, Answer
  <2>3. status' \in [Events -> {"none", "missed", "running", "done", "lost"}]
    BY DEF IInv, TypeOK, Answer
  <2>4. ASSUME NEW d \in Events
        PROVE  /\ status'[d] = "none" <=> event'[d] = NULL
               /\ d \in Running' => up' /\ answered'[d] < Len(CallsOf(d)')
    <3>1. CASE d = e
      BY <1>1, <1>2, <1>3, <3>1 DEF Running, Emitted, n
    <3>2. CASE d # e
      BY <1>2, <1>3, <3>2 DEF IInv, TypeOK, Running
    <3>3. QED
      BY <3>1, <3>2
  <2>5. QED
    BY <1>2, <2>1, <2>2, <2>3, <2>4 DEF IInv, TypeOK
<1>6. KeptInv'
  <2> SUFFICES ASSUME NEW d \in Emitted
               PROVE  /\ answered'[d] <= Len(CallsOf(d))
                      /\ \A i \in 1 .. answered'[d] : Writes(CallsOf(d)[i]) => <<d, i>> \in written'
    BY <1>3 DEF KeptInv, Emitted
  <2>1. CASE d = e
    <3>1. \A i \in 1 .. a : i = a \/ i \in 1 .. answered[e]
      BY <1>1 DEF a
    <3>2. QED
      BY <1>1, <1>2, <1>4, <2>1, <3>1 DEF IInv, KeptInv, n
  <2>2. CASE d # e
    BY <1>2, <1>4, <2>2 DEF IInv, KeptInv, Emitted
  <2>3. QED
    BY <2>1, <2>2
<1>7. BoundInv'
  <2> SUFFICES ASSUME NEW w \in written'
               PROVE  w[1] \in Emitted /\ w[2] <= answered'[w[1]] + 1
    BY <1>3 DEF BoundInv
  <2>1. CASE w = <<e, a>>
    BY <1>1, <1>2, <2>1 DEF a
  <2>2. CASE w \in written
    <3>1. w[1] \in Emitted /\ w[2] <= answered[w[1]] + 1 /\ w[2] \in Nat
      BY <2>2 DEF IInv, BoundInv, TypeOK
    <3>2. w[1] \in Events /\ answered[w[1]] \in Nat /\ answered'[w[1]] \in {answered[w[1]], answered[w[1]] + 1}
      BY <1>2, <3>1 DEF a, IInv, TypeOK, Emitted
    <3>3. QED
      BY <3>1, <3>2
  <2>3. QED
    BY <1>4, <2>1, <2>2
<1>8. DoneInv'
  <2> SUFFICES ASSUME NEW d \in Emitted, status'[d] = "done"
               PROVE  \/ answered'[d] = Len(CallsOf(d))
                      \/ answered'[d] + 1 = Len(CallsOf(d)) /\ CallsOf(d)[Len(CallsOf(d))].caught
    BY <1>3 DEF DoneInv, Emitted
  <2>1. CASE d = e
    BY <1>2, <2>1 DEF n
  <2>2. CASE d # e
    BY <1>2, <2>2 DEF IInv, DoneInv, Emitted
  <2>3. QED
    BY <2>1, <2>2
<1>9. PassedInv'
  <2> SUFFICES ASSUME NEW d \in Emitted
               PROVE  /\ \A i \in 1 .. answered'[d] : Accepted(event[d], CallsOf(d)[i])
                      /\ \A i \in 2 .. answered'[d] + 1 :
                           i <= Len(CallsOf(d)) => ~Throws(event[d], CallsOf(d)[i])
    BY <1>2, <1>3 DEF PassedInv, Emitted
  <2>1. CASE d = e
    <3>1. /\ \A i \in 1 .. a : i = a \/ i \in 1 .. answered[e]
          /\ \A i \in 2 .. a + 1 : i = a + 1 \/ i \in 2 .. answered[e] + 1
      BY <1>1 DEF a
    <3>2. QED
      BY <1>1, <1>2, <1>4, <2>1, <3>1 DEF IInv, PassedInv, n
  <2>2. CASE d # e
    BY <1>2, <2>2 DEF IInv, PassedInv, Emitted
  <2>3. QED
    BY <2>1, <2>2
<1>10. BlameInv' /\ AnsweredInv'
  BY <1>1, <1>2, <1>3 DEF IInv, BlameInv, AnsweredInv, Emitted
<1>11. QED
  BY <1>5, <1>6, <1>7, <1>8, <1>9, <1>10 DEF IInv

LEMMA CatchStep ==
  ASSUME IInv, NEW e \in Events, Catch(e)
  PROVE  IInv'
<1>1. /\ e \in Emitted /\ up /\ answered[e] + 1 \in 1 .. Len(CallsOf(e))
      /\ answered[e] \in Nat /\ Len(CallsOf(e)) \in 1 .. 4
      /\ CallsOf(e)[answered[e] + 1].caught
  BY RunningEmitted, CallsOfEmitted DEF IInv, Catch, Awaited
<1>2. answered[e] + 1 = Len(CallsOf(e))
  BY <1>1, CallsOfEmitted DEF IInv
<1>3. PICK late \in SUBSET Pending(e) : written' = written \cup late
  BY DEF Catch
<1>4. \A w \in late : w = <<e, answered[e] + 1>>
  BY <1>3 DEF Pending
<1>5. /\ status'[e] = "done" /\ \A d \in Events \ {e} : status'[d] = status[d]
      /\ status' \in [Events -> {"none", "missed", "running", "done", "lost"}]
      /\ UNCHANGED <<event, answered, up, culprit, crashes>>
      /\ Emitted' = Emitted /\ \A d \in Events : CallsOf(d)' = CallsOf(d)
  BY DEF Catch, IInv, TypeOK, Emitted, CallsOf
<1>6. TypeOK'
  <2>1. written' \subseteq Events \X (Nat \ {0})
    BY <1>1, <1>3, <1>4 DEF IInv, TypeOK
  <2>2. ASSUME NEW d \in Events
        PROVE  /\ status'[d] = "none" <=> event'[d] = NULL
               /\ d \in Running' => up' /\ answered'[d] < Len(CallsOf(d)')
    <3>1. CASE d = e
      BY <1>1, <1>5, <3>1 DEF Running, Emitted
    <3>2. CASE d # e
      BY <1>5, <3>2 DEF IInv, TypeOK, Running
    <3>3. QED
      BY <3>1, <3>2
  <2>3. QED
    BY <1>5, <2>1, <2>2 DEF IInv, TypeOK
<1>7. KeptInv'
  BY <1>3, <1>5 DEF IInv, KeptInv, Emitted
<1>8. BoundInv'
  <2> SUFFICES ASSUME NEW w \in written \cup late
               PROVE  w[1] \in Emitted /\ w[2] <= answered[w[1]] + 1
    BY <1>3, <1>5 DEF BoundInv
  <2>1. CASE w \in written
    BY <2>1 DEF IInv, BoundInv
  <2>2. CASE w \in late
    BY <1>1, <1>4, <2>2
  <2>3. QED
    BY <2>1, <2>2
<1>9. DoneInv'
  <2> SUFFICES ASSUME NEW d \in Emitted, status'[d] = "done"
               PROVE  \/ answered[d] = Len(CallsOf(d))
                      \/ answered[d] + 1 = Len(CallsOf(d)) /\ CallsOf(d)[Len(CallsOf(d))].caught
    BY <1>5 DEF DoneInv, Emitted
  <2>1. CASE d = e
    BY <1>1, <1>2, <2>1
  <2>2. CASE d # e
    BY <1>5, <2>2 DEF IInv, DoneInv, Emitted
  <2>3. QED
    BY <2>1, <2>2
<1>10. PassedInv'
  BY <1>5 DEF IInv, PassedInv, Emitted
<1>11. BlameInv' /\ AnsweredInv'
  BY <1>5 DEF IInv, BlameInv, AnsweredInv
<1>12. QED
  BY <1>6, <1>7, <1>8, <1>9, <1>10, <1>11 DEF IInv

\* The other ways a handler's wait ends end the process.
LEMMA EndingStep ==
  ASSUME IInv, NEW e \in Events, AnswerThenThrow(e) \/ Refuse(e) \/ Fail(e)
  PROVE  IInv'
<1>1. e \in Running /\ e \in Emitted /\ answered[e] + 1 \in 1 .. Len(CallsOf(e))
      /\ answered[e] \in Nat /\ Len(CallsOf(e)) \in 1 .. 4 /\ event[e] \in Event
      /\ CallsOf(e) = Calls(event[e].kind)
  BY RunningEmitted, CallsOfEmitted DEF IInv, AnswerThenThrow, Refuse, Fail, CallsOf
<1>2. crashes \in 0 .. MaxCrashes
  BY DEF IInv, TypeOK
<1>3. CASE AnswerThenThrow(e)
  <2>1. PICK late \in SUBSET UNION {Pending(d) : d \in Running} :
          written' = written \cup Pending(e) \cup late
    BY <1>3 DEF AnswerThenThrow
  <2>2. Poison(event[e])
    <3>1. /\ answered[e] + 2 \in 1 .. Len(CallsOf(e)) /\ answered[e] + 2 # 1
          /\ Throws(event[e], CallsOf(e)[answered[e] + 2])
      BY <1>1, <1>3 DEF AnswerThenThrow, ThenThrows, LastCall
    <3>2. QED
      BY <1>1, <3>1, Faultless
  <2>3. Pending(e) \cup late \in SUBSET UNION {Pending(d) : d \in Running}
    BY <1>1
  <2>4. written' = written \cup (Pending(e) \cup late)
    BY <2>1
  <2>5. Collapse /\ UNCHANGED <<event, answered, crashes>> /\ culprit' = e
    BY <1>3 DEF AnswerThenThrow
  <2>6. QED
    BY <1>1, <1>2, <2>2, <2>3, <2>4, <2>5, Collapses
<1>4. CASE Refuse(e)
  <2>1. Poison(event[e])
    BY <1>1, <1>4, Faultless DEF Refuse, Awaited
  <2>2. PICK late \in SUBSET UNION {Pending(d) : d \in Running} : written' = written \cup late
    BY <1>4 DEF Refuse
  <2>3. Collapse /\ UNCHANGED <<event, answered, crashes>> /\ culprit' = e
    BY <1>4 DEF Refuse
  <2>4. QED
    BY <1>1, <1>2, <2>1, <2>2, <2>3, Collapses
<1>5. CASE Fail(e)
  <2>1. PICK late \in SUBSET UNION {Pending(d) : d \in Running} : written' = written \cup late
    BY <1>5 DEF Fail
  <2>2. Collapse /\ UNCHANGED <<event, answered, crashes>> /\ culprit' = NULL
    BY <1>5 DEF Fail
  <2>3. QED
    BY <1>2, <2>1, <2>2, Collapses
<1>6. QED
  BY <1>3, <1>4, <1>5

LEMMA Inductive == IInv /\ [Next]_vars => IInv'
<1> SUFFICES ASSUME IInv, [Next]_vars
             PROVE  IInv'
  OBVIOUS
<1>1. CASE UNCHANGED vars
  BY <1>1 DEF vars, IInv, TypeOK, KeptInv, BoundInv, DoneInv, PassedInv, BlameInv, AnsweredInv,
     Emitted, Running, CallsOf
<1>2. CASE Crash
  <2>1. PICK late \in SUBSET UNION {Pending(d) : d \in Running} : written' = written \cup late
    BY <1>2 DEF Crash
  <2>2. Collapse /\ UNCHANGED <<event, answered>> /\ culprit' = NULL
    BY <1>2 DEF Crash
  <2>3. crashes' \in 0 .. MaxCrashes
    BY <1>2, EventMonitorAssumption DEF Crash, IInv, TypeOK
  <2>4. QED
    BY <2>1, <2>2, <2>3, Collapses
<1>3. CASE Start
  BY <1>3 DEF Start, IInv, TypeOK, KeptInv, BoundInv, DoneInv, PassedInv, BlameInv, AnsweredInv,
     Emitted, Running, CallsOf
<1>4. CASE Finished
  BY <1>1, <1>4 DEF Finished
<1>5. QED
  BY <1>1, <1>2, <1>3, <1>4, EmitStep, AnswerStep, CatchStep, EndingStep DEF Next, Settle

LEMMA Initially == Init => IInv
<1> SUFFICES ASSUME Init
             PROVE  IInv
  OBVIOUS
<1>1. Emitted = {} /\ Running = {}
  BY DEF Init, Emitted, Running
<1>2. TypeOK
  BY <1>1, EventMonitorAssumption DEF Init, TypeOK
<1>3. QED
  BY <1>1, <1>2 DEF Init, IInv, KeptInv, BoundInv, DoneInv, PassedInv, BlameInv, AnsweredInv

LEMMA Invariant == Spec => []IInv
  BY Initially, Inductive, PTL DEF Spec

-----------------------------------------------------------------------------
\* Whatever handlers interleave and however the process ends, a handler runs only in
\* a process that is up, and waits for one of its own calls.
THEOREM TypeCorrect == Spec => []TypeOK
<1>1. IInv => TypeOK
  BY DEF IInv
<1>2. QED
  BY <1>1, Invariant, PTL

\* No row without the document of its event and the rows before it, and nothing left
\* out by a handler that is done but a caught update.
THEOREM Agreement == Spec => []StoresAgree
<1>1. ASSUME IInv PROVE StoresAgree
  <2> SUFFICES ASSUME NEW e \in Emitted
               PROVE  /\ \A w \in written : w[1] = e =>
                           \A i \in 1 .. w[2] - 1 : Writes(CallsOf(e)[i]) => <<e, i>> \in written
                      /\ status[e] = "done" =>
                           \A i \in 1 .. Len(CallsOf(e)) :
                             Writes(CallsOf(e)[i]) /\ ~CallsOf(e)[i].caught => <<e, i>> \in written
    BY DEF StoresAgree, Emitted
  <2>1. /\ answered[e] \in Nat /\ Len(CallsOf(e)) \in 1 .. 4
        /\ \A i \in 1 .. answered[e] : Writes(CallsOf(e)[i]) => <<e, i>> \in written
    BY <1>1, CallsOfEmitted DEF IInv, KeptInv
  <2>2. ASSUME NEW w \in written, w[1] = e, NEW i \in 1 .. w[2] - 1
        PROVE  i \in 1 .. answered[e]
    <3>1. w[2] \in Nat /\ w[2] <= answered[e] + 1
      BY <1>1, <2>2 DEF IInv, BoundInv, TypeOK
    <3>2. QED
      BY <2>1, <3>1
  <2>3. ASSUME status[e] = "done", NEW i \in 1 .. Len(CallsOf(e)), ~CallsOf(e)[i].caught
        PROVE  i \in 1 .. answered[e]
    <3>1. CASE answered[e] = Len(CallsOf(e))
      BY <3>1
    <3>2. CASE answered[e] + 1 = Len(CallsOf(e)) /\ CallsOf(e)[Len(CallsOf(e))].caught
      <4>1. i # Len(CallsOf(e))
        BY <2>3, <3>2
      <4>2. QED
        BY <2>1, <3>2, <4>1
    <3>3. QED
      BY <1>1, <2>3, <3>1, <3>2 DEF IInv, DoneInv
  <2>4. QED
    BY <2>1, <2>2, <2>3
<1>2. QED
  BY <1>1, Invariant, PTL

\* The events the code cannot handle are the ones Poison lists, and no others: the
\* three lists of names agree for the nineteen other kinds.
THEOREM PoisonKnown == Spec => []PoisonIsKnown
<1>1. ASSUME IInv PROVE PoisonIsKnown
  <2>1. ASSUME NEW e \in Events, status[e] = "done", Poison(event[e])
        PROVE  FALSE
    <3>1. e \in Emitted
      BY <1>1, <2>1 DEF IInv, TypeOK, Emitted
    <3>2. /\ event[e] \in Event /\ CallsOf(e) = Calls(event[e].kind)
          /\ answered[e] \in Nat /\ Len(CallsOf(e)) \in 1 .. 4
      BY <1>1, <3>1, CallsOfEmitted DEF IInv, CallsOf
    <3>3. PICK i \in 1 .. Len(CallsOf(e)) :
            /\ ~CallsOf(e)[i].caught
            /\ ~Accepted(event[e], CallsOf(e)[i]) \/ (i # 1 /\ Throws(event[e], CallsOf(e)[i]))
      BY <2>1, <3>2, Faulty
    <3>4. i \in 1 .. answered[e]
      <4>1. CASE answered[e] = Len(CallsOf(e))
        BY <4>1
      <4>2. CASE answered[e] + 1 = Len(CallsOf(e)) /\ CallsOf(e)[Len(CallsOf(e))].caught
        <5>1. i # Len(CallsOf(e))
          BY <3>3, <4>2
        <5>2. QED
          BY <3>2, <4>2, <5>1
      <4>3. QED
        BY <1>1, <2>1, <3>1, <4>1, <4>2 DEF IInv, DoneInv
    <3>5. Accepted(event[e], CallsOf(e)[i])
      BY <1>1, <3>1, <3>4 DEF IInv, PassedInv
    <3>6. i # 1 => ~Throws(event[e], CallsOf(e)[i])
      <4>1. i # 1 => i \in 2 .. answered[e] + 1 /\ i <= Len(CallsOf(e))
        BY <3>2, <3>4
      <4>2. QED
        BY <1>1, <3>1, <4>1 DEF IInv, PassedInv
    <3>7. QED
      BY <3>3, <3>5, <3>6
  <2>2. QED
    BY <1>1, <2>1 DEF PoisonIsKnown, IInv, BlameInv
<1>2. QED
  BY <1>1, Invariant, PTL

-----------------------------------------------------------------------------
StageOf(s) == CASE s = "running" -> "open" [] s = "done" -> "complete" [] OTHER -> s

stage == [e \in Events |-> StageOf(status[e])]
log   == {e \in Events : <<e, 1>> \in written}

\* What the process ending looks like in the log.
LEMMA CollapseIsCrash ==
  ASSUME IInv, up, Collapse, NEW late \in SUBSET UNION {Pending(d) : d \in Running},
         written' = written \cup late
  PROVE  EventLogOfMonitor!Crash
<1>1. \A e \in Events : /\ stage[e] = "open" <=> e \in Running
                       /\ stage'[e] = IF e \in Running THEN "lost" ELSE stage[e]
  BY DEF stage, StageOf, Collapse, Running, IInv, TypeOK
<1>2. stage' = [e \in Events |-> IF e \in Running THEN "lost" ELSE stage[e]]
  BY <1>1 DEF stage
<1>3. \A w \in late : w[1] \in Running
  BY PendingWrites DEF IInv
<1>4. PICK more \in SUBSET Running : log' = log \cup more
  <2>1. {e \in Running : <<e, 1>> \in late} \in SUBSET Running
    OBVIOUS
  <2>2. log' = log \cup {e \in Running : <<e, 1>> \in late}
    BY <1>3 DEF log, Running
  <2>3. QED
    BY <2>1, <2>2
<1>5. EventLogOfMonitor!Open = Running
  BY <1>1 DEF EventLogOfMonitor!Open, Running, stage, StageOf
<1>6. QED
  BY <1>2, <1>4, <1>5
     DEF EventLogOfMonitor!Crash, Collapse, stage, log, StageOf

\* One handler goes on or is done.
LEMMA OneHandler ==
  ASSUME IInv, NEW e \in Running, UNCHANGED up,
         status' = [status EXCEPT ![e] = "done"] \/ status' = status,
         log' = log \cup {e}
  PROVE  EventLogOfMonitor!Complete(e) \/ EventLogOfMonitor!Log(e)
<1>1. e \in Events /\ status[e] = "running" /\ stage[e] = "open"
  BY DEF Running, stage, StageOf
<1>2. CASE status' = [status EXCEPT ![e] = "done"]
  <2>1. stage' = [stage EXCEPT ![e] = "complete"]
    BY <1>1, <1>2 DEF stage, StageOf, IInv, TypeOK
  <2>2. QED
    BY <1>1, <2>1 DEF EventLogOfMonitor!Complete, stage, log, StageOf
<1>3. CASE status' = status
  BY <1>1, <1>3 DEF EventLogOfMonitor!Log, stage, log, StageOf
<1>4. QED
  BY <1>2, <1>3

LEMMA LogStep == IInv /\ [Next]_vars => [EventLogOfMonitor!Next]_EventLogOfMonitor!vars
<1> SUFFICES ASSUME IInv, [Next]_vars
             PROVE  EventLogOfMonitor!Next \/ UNCHANGED EventLogOfMonitor!vars
  OBVIOUS
<1>1. CASE UNCHANGED vars
  BY <1>1 DEF vars, EventLogOfMonitor!vars
<1>2. ASSUME NEW e \in Events, Emit(e) PROVE EventLogOfMonitor!Arrive(e)
  <2>1. status[e] = "none"
    BY <1>2 DEF Emit, IInv, TypeOK
  <2>2. stage' = [stage EXCEPT ![e] = IF up THEN "open" ELSE "missed"]
    BY <1>2, <2>1 DEF Emit, stage, StageOf, IInv, TypeOK
  <2>3. QED
    BY <1>2, <2>1, <2>2 DEF Emit, EventLogOfMonitor!Arrive, stage, log, StageOf
<1>3. ASSUME NEW e \in Events, Answer(e) PROVE EventLogOfMonitor!Complete(e) \/ EventLogOfMonitor!Log(e)
  <2>1. /\ e \in Running /\ e \in Emitted /\ answered[e] \in Nat /\ CallsOf(e)[1] = LogCall
        /\ Accepted(event[e], Awaited(e)) /\ written' = written \cup Pending(e)
    BY <1>3, RunningEmitted, CallsOfEmitted DEF IInv, Answer
  <2>2. <<e, 1>> \in written'
    <3>1. Writes(LogCall)
      BY OtherCalls DEF Writes
    <3>2. CASE answered[e] = 0
      BY <2>1, <3>1, <3>2 DEF Pending, Awaited
    <3>3. CASE answered[e] # 0
      <4>1. 1 \in 1 .. answered[e]
        BY <2>1, <3>3
      <4>2. QED
        BY <2>1, <3>1, <4>1 DEF IInv, KeptInv
    <3>4. QED
      BY <3>2, <3>3
  <2>3. log' = log \cup {e}
    <3>1. \A w \in Pending(e) : w[1] = e
      BY DEF Pending
    <3>2. QED
      BY <2>1, <2>2, <3>1 DEF log
  <2>4. status' = [status EXCEPT ![e] = "done"] \/ status' = status
    BY <1>3 DEF Answer, IInv, TypeOK
  <2>5. QED
    BY <1>3, <2>1, <2>3, <2>4, OneHandler DEF Answer
<1>4. ASSUME NEW e \in Events, Catch(e) PROVE EventLogOfMonitor!Complete(e) \/ EventLogOfMonitor!Log(e)
  <2>1. /\ e \in Running /\ e \in Emitted /\ answered[e] \in Nat
        /\ CallsOf(e)[1] = LogCall /\ Awaited(e).caught
    BY <1>4, RunningEmitted, CallsOfEmitted DEF IInv, Catch
  <2>2. 1 \in 1 .. answered[e]
    BY <2>1, OtherCalls DEF Awaited
  <2>3. <<e, 1>> \in written
    BY <2>1, <2>2, OtherCalls DEF IInv, KeptInv, Writes
  <2>4. \A w \in Pending(e) : w = <<e, answered[e] + 1>>
    BY DEF Pending
  <2>5. log' = log \cup {e}
    BY <1>4, <2>3, <2>4 DEF Catch, log
  <2>6. QED
    BY <1>4, <2>1, <2>5, OneHandler DEF Catch
<1>5. ASSUME NEW e \in Events, AnswerThenThrow(e) \/ Refuse(e) \/ Fail(e)
      PROVE  EventLogOfMonitor!Crash
  <2>1. e \in Running /\ up /\ Collapse
    BY <1>5, RunningEmitted DEF IInv, AnswerThenThrow, Refuse, Fail
  <2>2. PICK late \in SUBSET UNION {Pending(d) : d \in Running} :
          written' = written \cup late \/ written' = written \cup Pending(e) \cup late
    BY <1>5 DEF AnswerThenThrow, Refuse, Fail
  <2>3. PICK more \in SUBSET UNION {Pending(d) : d \in Running} : written' = written \cup more
    <3>1. CASE written' = written \cup late
      BY <3>1
    <3>2. CASE written' = written \cup Pending(e) \cup late
      <4>1. Pending(e) \cup late \in SUBSET UNION {Pending(d) : d \in Running}
        BY <2>1
      <4>2. written' = written \cup (Pending(e) \cup late)
        BY <3>2
      <4>3. QED
        BY <4>1, <4>2
    <3>3. QED
      BY <2>2, <3>1, <3>2
  <2>4. QED
    BY <2>1, <2>3, CollapseIsCrash
<1>6. CASE Crash
  <2>1. PICK late \in SUBSET UNION {Pending(d) : d \in Running} : written' = written \cup late
    BY <1>6 DEF Crash
  <2>2. up /\ Collapse
    BY <1>6 DEF Crash
  <2>3. QED
    BY <2>1, <2>2, CollapseIsCrash DEF EventLogOfMonitor!Next
<1>7. CASE Start
  BY <1>7 DEF Start, EventLogOfMonitor!Restart, EventLogOfMonitor!Next
<1>8. CASE Finished
  BY <1>1, <1>8 DEF Finished
<1>9. QED
  BY <1>1, <1>2, <1>3, <1>4, <1>5, <1>6, <1>7, <1>8 DEF Next, Settle, EventLogOfMonitor!Next

\* The monitor keeps what EventLog promises: an event is complete only when it is
\* logged, nothing leaves the log, what is lost is lost together and not taken up again.
THEOREM MonitorLogs == Spec => LogImplemented
<1>1. Init => EventLogOfMonitor!Init
  BY DEF Init, EventLogOfMonitor!Init
<1>2. IInv /\ [Next]_vars => [EventLogOfMonitor!Next]_EventLogOfMonitor!vars
  BY LogStep
<1>3. QED
  BY <1>1, <1>2, Invariant, PTL DEF Spec, LogImplemented, EventLogOfMonitor!Spec


-----------------------------------------------------------------------------
(* The ends of the process: what each of them uses up is gone for good. *)

\* The events no process has been through with.
Unsettled == {e \in Events : status[e] \in {"none", "running"}}

LEMMA UnsettledCount ==
  /\ IsFiniteSet(Unsettled) /\ Cardinality(Unsettled) \in Nat
  /\ EndsLeft = Cardinality(Unsettled) + (MaxCrashes - crashes)
<1>1. IsFiniteSet(Events)
  BY FS_Interval, EventMonitorAssumption DEF Events
<1>2. IsFiniteSet(Unsettled)
  BY <1>1, FS_Subset DEF Unsettled
<1>3. QED
  BY <1>2, FS_CardinalityType DEF Unsettled, EndsLeft

\* Where fewer events are left, and no fewer crashes counted, fewer ends are.
LEMMA FewerEnds ==
  ASSUME TypeOK, TypeOK', Unsettled' \subseteq Unsettled, crashes <= crashes'
  PROVE  /\ EndsLeft' <= EndsLeft
         /\ (Unsettled' # Unsettled \/ crashes # crashes') => EndsLeft' < EndsLeft
<1>1. IsFiniteSet(Unsettled) /\ IsFiniteSet(Unsettled') /\ Cardinality(Unsettled) \in Nat
  BY UnsettledCount, FS_Subset
<1>2. Cardinality(Unsettled') <= Cardinality(Unsettled)
  BY <1>1, FS_Subset
<1>3. Cardinality(Unsettled') \in Nat
  BY <1>1, FS_CardinalityType
<1>4. EndsLeft' = Cardinality(Unsettled') + (MaxCrashes - crashes')
  BY DEF EndsLeft, Unsettled, Events
<1>5. crashes \in Nat /\ crashes' \in Nat /\ MaxCrashes \in Nat
  BY EventMonitorAssumption DEF TypeOK
<1>6. Cardinality(Unsettled) = Cardinality(Unsettled') => Unsettled' = Unsettled
  BY <1>1, FS_Subset
<1>7. QED
  BY <1>1, <1>2, <1>3, <1>4, <1>5, <1>6, UnsettledCount

\* A handler that ends the process is unsettled before and lost after.
LEMMA CollapseSettles ==
  ASSUME TypeOK, Collapse
  PROVE  /\ Unsettled' \subseteq Unsettled
         /\ \A e \in Running : e \in Unsettled \ Unsettled'
  BY DEF Collapse, TypeOK, Unsettled, Running

\* The ends left are a number, before and after a step.
LEMMA CountsOfEnds ==
  ASSUME TypeOK, TypeOK'
  PROVE  EndsLeft' \in Int /\ EndsLeft \in Int
<1>1. IsFiniteSet(Unsettled')
  <2>1. IsFiniteSet(Events)
    BY FS_Interval, EventMonitorAssumption DEF Events
  <2>2. QED
    BY <2>1, FS_Subset DEF Unsettled
<1>2. Cardinality(Unsettled') \in Nat
  BY <1>1, FS_CardinalityType
<1>3. EndsLeft' = Cardinality(Unsettled') + (MaxCrashes - crashes')
  BY DEF EndsLeft, Unsettled
<1>4. QED
  BY <1>2, <1>3, UnsettledCount, EventMonitorAssumption DEF TypeOK

\* No step adds an end, and each end of the process takes one.
LEMMA EndsStep ==
  ASSUME TypeOK, TypeOK', [Next]_vars
  PROVE  EndsLeft' <= EndsLeft /\ (up /\ ~up' => EndsLeft' < EndsLeft)
<1>1. crashes \in Nat
  BY DEF TypeOK
<1>2. CASE UNCHANGED vars
  <2>1. Unsettled' = Unsettled /\ crashes' = crashes /\ up' = up
    BY <1>2 DEF vars, Unsettled
  <2>2. QED
    BY <1>1, <2>1, FewerEnds
<1>3. ASSUME NEW e \in Events, Emit(e)
      PROVE  EndsLeft' <= EndsLeft /\ up' = up
  <2>1. status[e] = "none" /\ crashes' = crashes /\ up' = up
    BY <1>3 DEF Emit, TypeOK
  <2>2. Unsettled' \subseteq Unsettled
    BY <1>3, <2>1 DEF Emit, TypeOK, Unsettled
  <2>3. QED
    BY <1>1, <2>1, <2>2, FewerEnds
<1>4. ASSUME NEW e \in Events, Answer(e) \/ Catch(e)
      PROVE  EndsLeft' <= EndsLeft /\ up' = up
  <2>1. e \in Running /\ crashes' = crashes /\ up' = up
    BY <1>4 DEF Answer, Catch
  <2>2. Unsettled' \subseteq Unsettled
    BY <1>4, <2>1 DEF Answer, Catch, Running, TypeOK, Unsettled
  <2>3. QED
    BY <1>1, <2>1, <2>2, FewerEnds
<1>5. ASSUME NEW e \in Events, AnswerThenThrow(e) \/ Refuse(e) \/ Fail(e)
      PROVE  EndsLeft' < EndsLeft
  <2>1. Collapse /\ e \in Running /\ crashes' = crashes
    BY <1>5 DEF AnswerThenThrow, Refuse, Fail
  <2>2. Unsettled' \subseteq Unsettled /\ Unsettled' # Unsettled
    BY <2>1, CollapseSettles
  <2>3. QED
    BY <1>1, <2>1, <2>2, FewerEnds
<1>6. CASE Crash
  <2>1. Collapse /\ crashes' = crashes + 1
    BY <1>6 DEF Crash
  <2>2. Unsettled' \subseteq Unsettled /\ crashes <= crashes' /\ crashes # crashes'
    BY <1>1, <2>1, CollapseSettles
  <2>3. QED
    BY <2>2, FewerEnds
<1>7. CASE Start
  <2>1. Unsettled' = Unsettled /\ crashes' = crashes /\ ~up
    BY <1>7 DEF Start, Unsettled
  <2>2. QED
    BY <1>1, <2>1, FewerEnds
<1>8. CASE Finished
  BY <1>2, <1>8 DEF Finished
<1>9. EndsLeft' \in Int /\ EndsLeft \in Int
  BY CountsOfEnds
<1>10. QED
  BY <1>2, <1>3, <1>4, <1>5, <1>6, <1>7, <1>8, <1>9 DEF Next, Settle

\* There is no crash loop: however events, failures, crashes and restarts follow
\* one another, each end of the process uses up an event, or one of the crashes no
\* event causes, and no restart brings one back, so that the ends run out.
THEOREM NoCrashLoop == Spec => EndsRunOut
<1>1. IInv /\ IInv' /\ [Next]_vars =>
        [EndsLeft' <= EndsLeft /\ (up /\ ~up' => EndsLeft' < EndsLeft)]_vars
  BY EndsStep DEF IInv
<1>2. QED
  BY <1>1, Invariant, PTL DEF Spec, EndsRunOut
=============================================================================
