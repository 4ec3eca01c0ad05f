---------------------------- MODULE EventHandlers ----------------------------
(***************************************************************************)
(* The 25 handlers of EventService (infrastructure/event-monitor/          *)
(* event.service.ts) as programs: the document a handler builds from its   *)
(* event and saves to MongoDB first, and the calls it awaits after that.   *)
(***************************************************************************)
EXTENDS EventSchemas, Sequences

(* A call: numbers are the fields of the event, or of the state getState    *)
(* answered, that the handler turns into numbers (toNumber) between the     *)
(* call before and this one; columns are those the inserted row gives a     *)
(* value; a caught call is inside a try.                                    *)
Call(op, table, columns, numbers, caught) ==
  [op |-> op, table |-> table, columns |-> columns, numbers |-> numbers, caught |-> caught]

Rpc == Call("rpc", "", {}, {}, FALSE)
Insert(table, columns, numbers) == Call("insert", table, columns, numbers, FALSE)

LogOnly(copied)        == [copied |-> copied, calls |-> <<>>]
LogThen(copied, calls) == [copied |-> copied, calls |-> calls]

-----------------------------------------------------------------------------
(* Seeded faults: each is the definition it is named after with a mistake a *)
(* change to the code could make; no specification uses them.               *)

\* A new field of the event is made required in the schema, and not copied.
DepositHandlerShort == LogOnly(
    {"state", "solOwner", "userSolBalance", "userStaderSolBalance", "solLegBalance",
     "staderSolLegBalance", "reserveBalance", "solSwapped", "staderSolSwapped",
     "solDeposited", "staderSolMinted", "totalVirtualStakedLamports"})

-----------------------------------------------------------------------------
(* updateUnstakeTicket, which UnstakeTickets looks into: here one call that *)
(* may find no ticket.                                                      *)
UpdateTicket == Call("update", "unstake_tickets", {}, {}, TRUE)

ChangeAuthorityHandler == LogOnly(
    {"state", "adminChange", "validatorManagerChange", "operationalSolAccountChange",
     "treasuryStaderSolAccountChange", "pauseAuthorityChange"})
ConfigLpHandler == LogOnly(
    {"state", "minFeeChange", "maxFeeChange", "liquidityTargetChange",
     "treasuryCutChange"})
ConfigStaderLiquidStakingHandler == LogOnly(
    {"state", "rewardsFeeChange", "slotsForStakeDeltaChange", "minStakeChange",
     "minDepositChange", "minWithdrawChange", "stakingSolCapChange",
     "liquiditySolCapChange", "withdrawStakeAccountEnabledChange",
     "delayedUnstakeFeeChange", "withdrawStakeAccountFeeChange",
     "maxStakeMovedPerEpochChange"})
EmergencyPauseHandler == LogOnly({"state"})
InitializeHandler == LogOnly(
    {"state", "params", "stakeList", "validatorList", "staderSolMint",
     "operationalSolAccount", "lpMint", "lpStaderSolLeg", "treasuryStaderSolAccount"})
ReallocStakeListHandler == LogOnly({"state", "count", "newCapacity"})
ReallocValidatorListHandler == LogOnly({"state", "count", "newCapacity"})
ResumeHandler == LogOnly({"state"})
DeactivateStakeHandler == LogOnly(
    {"state", "epoch", "stakeIndex", "stakeAccount", "lastUpdateStakeDelegation",
     "splitStakeAccount", "validatorIndex", "validatorVote", "totalStakeTarget",
     "validatorStakeTarget", "totalActiveBalance", "delayedUnstakeCoolingDown",
     "validatorActiveBalance", "totalUnstakeDelta", "unstakedAmount"})
MergeStakesHandler == LogOnly(
    {"state", "epoch", "destinationStakeIndex", "destinationStakeAccount",
     "lastUpdateDestinationStakeDelegation", "sourceStakeIndex", "sourceStakeAccount",
     "lastUpdateSourceStakeDelegation", "validatorIndex", "validatorVote",
     "extraDelegated", "returnedStakeRent", "validatorActiveBalance",
     "totalActiveBalance", "operationalSolBalance"})
RedelegateHandler == LogOnly(
    {"state", "epoch", "stakeIndex", "stakeAccount", "lastUpdateDelegation",
     "sourceValidatorIndex", "sourceValidatorVote", "sourceValidatorScore",
     "sourceValidatorBalance", "sourceValidatorStakeTarget", "destValidatorIndex",
     "destValidatorVote", "destValidatorScore", "destValidatorBalance",
     "destValidatorStakeTarget", "redelegateAmount", "splitStakeAccount",
     "redelegateStakeIndex", "redelegateStakeAccount"})
StakeReserveHandler == LogThen(
    {"state", "epoch", "stakeIndex", "stakeAccount", "validatorIndex",
     "validatorVote", "totalStakeTarget", "validatorStakeTarget", "reserveBalance",
     "totalActiveBalance", "validatorActiveBalance", "totalStakeDelta", "amount"},
  <<Insert("stakedelegation",
           {"stakeAccount", "stakeAcIndex", "validatorAccount", "validatorAcIndex"}, {})>>)
UpdateActiveHandler == LogThen(
    {"state", "epoch", "stakeIndex", "stakeAccount", "validatorIndex",
     "validatorVote", "delegationChange", "delegationGrowthStaderSolFees",
     "extraLamports", "extraStaderSolFees", "validatorActiveBalance",
     "totalActiveBalance", "staderSolPriceChange", "rewardFeeUsed",
     "totalVirtualStakedLamports", "staderSolSupply"},
  <<Rpc,
    Insert("state_metrics",
           {"state", "currentEpoch", "delayedUnstakeCoolingDown", "emergencyCoolingDown",
            "availableReserveBalance", "validatorIndex", "validatorVote",
            "validatorActiveBalance", "totalActiveBalance"},
           {"state.delayedUnstakeCoolingDown", "state.emergencyCoolingDown",
            "state.availableReserveBalance", "state.totalActiveBalance",
            "validatorActiveBalance"}),
    Insert("stader_sol_price_history",
           {"state", "currentEpoch", "stakeIndex", "stakeAccount", "oldDelegatedLamports",
            "newDelegatedLamports", "stakeBalanceWithoutRent", "staderSolFees",
            "extraLamports", "extraStaderSolFees", "oldStaderSolPrice",
            "newStaderSolPrice", "rewardFeeUsed", "staderSolSupply",
            "totalVirtualStakedLamports"},
           {"staderSolPriceChange", "extraLamports", "delegationChange",
            "delegationGrowthStaderSolFees", "extraStaderSolFees", "staderSolSupply",
            "totalVirtualStakedLamports"})>>)
UpdateDeactivatedHandler == LogThen(
    {"state", "epoch", "stakeIndex", "stakeAccount", "balanceWithoutRentExempt",
     "lastUpdateDelegatedLamports", "staderSolFees", "staderSolPriceChange",
     "rewardFeeUsed", "operationalSolBalance", "totalVirtualStakedLamports",
     "staderSolSupply"},
  <<Insert("stader_sol_price_history",
           {"state", "currentEpoch", "stakeIndex", "stakeAccount", "oldDelegatedLamports",
            "stakeBalanceWithoutRent", "staderSolFees", "oldStaderSolPrice",
            "newStaderSolPrice", "rewardFeeUsed", "staderSolSupply",
            "totalVirtualStakedLamports", "operationalSolBalance"},
           {"staderSolPriceChange", "lastUpdateDelegatedLamports",
            "balanceWithoutRentExempt", "staderSolFees", "staderSolSupply",
            "totalVirtualStakedLamports", "operationalSolBalance"})>>)
ClaimHandler == LogThen(
    {"state", "epoch", "ticket", "beneficiary", "circulatingTicketBalance",
     "circulatingTicketCount", "reserveBalance", "userBalance", "amount"},
  <<UpdateTicket>>)
OrderUnstakeHandler == LogThen(
    {"state", "ticketEpoch", "ticket", "beneficiary", "circulatingTicketBalance",
     "circulatingTicketCount", "userStaderSolBalance", "burnedStaderSolAmount",
     "solAmount", "feeBpCents", "totalVirtualStakedLamports", "staderSolSupply"},
  <<Rpc,
    Insert("unstake_tickets",
           {"state", "ticket", "ticketCreatedEpoch", "beneficiary", "solAmount",
            "claimableTime"}, {})>>)
AddLiquidityHandler == LogOnly(
    {"state", "solOwner", "userSolBalance", "userLpBalance", "solLegBalance",
     "lpSupply", "solAddedAmount", "lpMinted", "totalVirtualStakedLamports",
     "staderSolSupply"})
LiquidUnstakeHandler == LogOnly(
    {"state", "staderSolOwner", "liqPoolSolBalance", "liqPoolStaderSolBalance",
     "treasuryStaderSolBalance", "userStaderSolBalance", "userSolBalance",
     "staderSolAmount", "staderSolFee", "treasuryStaderSolCut", "solAmount",
     "lpLiquidityTarget", "lpMaxFee", "lpMinFee", "treasuryCut"})
RemoveLiquidityHandler == LogOnly(
    {"state", "solLegBalance", "staderSolLegBalance", "userLpBalance",
     "userSolBalance", "userStaderSolBalance", "lpMintSupply", "lpBurned",
     "solOutAmount", "staderSolOutAmount"})
AddValidatorHandler == LogThen(
    {"state", "validator", "index", "score"},
  <<Insert("validators", {}, {}),
    Insert("stakedelegation", {"validatorAccount", "validatorAcIndex"}, {})>>)
RemoveValidatorHandler == LogOnly(
    {"state", "validator", "index", "operationalSolBalance"})
SetValidatorScoreHandler == LogOnly({"state", "validator", "index", "scoreChange"})
DepositHandler == LogOnly(
    {"state", "solOwner", "userSolBalance", "userStaderSolBalance", "solLegBalance",
     "staderSolLegBalance", "reserveBalance", "solSwapped", "staderSolSwapped",
     "solDeposited", "staderSolMinted", "totalVirtualStakedLamports",
     "staderSolSupply"})
DepositStakeAccountHandler == LogThen(
    {"state", "stake", "delegated", "withdrawer", "stakeIndex", "validator",
     "validatorIndex", "validatorActiveBalance", "totalActiveBalance",
     "userStaderSolBalance", "staderSolMinted", "totalVirtualStakedLamports",
     "staderSolSupply"},
  <<Insert("stakedelegation",
           {"stakeAccount", "stakeAcIndex", "validatorAccount", "validatorAcIndex"}, {})>>)
WithdrawStakeAccountHandler == LogOnly(
    {"state", "epoch", "stake", "lastUpdateStakeDelegation", "stakeIndex",
     "validator", "validatorIndex", "userStaderSolBalance", "userStaderSolAuth",
     "staderSolBurned", "staderSolFees", "splitStake", "beneficiary", "splitLamports",
     "feeBpCents", "totalVirtualStakedLamports", "staderSolSupply"})

Handlers ==
  [ChangeAuthority |-> ChangeAuthorityHandler, ConfigLp |-> ConfigLpHandler,
   ConfigStaderLiquidStaking |-> ConfigStaderLiquidStakingHandler,
   EmergencyPause |-> EmergencyPauseHandler, Initialize |-> InitializeHandler,
   ReallocStakeList |-> ReallocStakeListHandler,
   ReallocValidatorList |-> ReallocValidatorListHandler, Resume |-> ResumeHandler,
   DeactivateStake |-> DeactivateStakeHandler, MergeStakes |-> MergeStakesHandler,
   Redelegate |-> RedelegateHandler, StakeReserve |-> StakeReserveHandler,
   UpdateActive |-> UpdateActiveHandler, UpdateDeactivated |-> UpdateDeactivatedHandler,
   Claim |-> ClaimHandler, OrderUnstake |-> OrderUnstakeHandler,
   AddLiquidity |-> AddLiquidityHandler, LiquidUnstake |-> LiquidUnstakeHandler,
   RemoveLiquidity |-> RemoveLiquidityHandler, AddValidator |-> AddValidatorHandler,
   RemoveValidator |-> RemoveValidatorHandler,
   SetValidatorScore |-> SetValidatorScoreHandler, Deposit |-> DepositHandler,
   DepositStakeAccount |-> DepositStakeAccountHandler,
   WithdrawStakeAccount |-> WithdrawStakeAccountHandler]

Kinds == DOMAIN Handlers

\* What a handler awaits, in order.
Calls(kind) == <<Call("log", "", {}, {}, FALSE)>> \o Handlers[kind].calls

\* The fields that the handler of a kind turns into numbers.
Numbers(kind) == UNION {Handlers[kind].calls[i].numbers : i \in DOMAIN Handlers[kind].calls}

(* An event: its kind, the optional fields it leaves null, and the numbers  *)
(* of 2^53 or more it carries, or the state has when its handler reads it.  *)
(* toNumber throws for either.                                              *)
Throws(ev, call) == call.numbers \cap (ev.absent \cup ev.wide) # {}

\* Does the store take what the handler gives it?
Accepted(ev, call) ==
  CASE call.op = "log" ->
         DocumentAccepted(Schemas[ev.kind], Handlers[ev.kind].copied \ ev.absent,
                          Payloads[ev.kind].structs)
    [] call.op = "insert" -> RowAccepted(Tables[call.table], call.columns)
    [] OTHER -> TRUE

Writes(call) == call.op # "rpc"
=============================================================================
