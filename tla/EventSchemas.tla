---------------------------- MODULE EventSchemas ----------------------------
(***************************************************************************)
(* The data the event monitor moves: what the program's events carry       *)
(* (utils/targets/types/stader_liquid_staking.ts), which documents MongoDB *)
(* accepts (infrastructure/mongoose/schemas/) and which rows Postgres      *)
(* accepts (entities/). Three lists of the same names, kept by hand in     *)
(* three places of the repository; whether they agree decides which events *)
(* can be handled. Types are told apart as far as a store's answer does.   *)
(***************************************************************************)

(* What an event carries: plain values (keys, numbers), structs (a change   *)
(* of old and new value, a fee), and which of both may be null.             *)
Payload(values, structs, optional) ==
  [values |-> values, structs |-> structs, optional |-> optional]

ChangeAuthorityPayload ==
  LET changes == {"adminChange", "validatorManagerChange",
                  "operationalSolAccountChange", "treasuryStaderSolAccountChange",
                  "pauseAuthorityChange"}
  IN Payload({"state"}, changes, changes)
ConfigLpPayload ==
  LET changes == {"minFeeChange", "maxFeeChange", "liquidityTargetChange",
                  "treasuryCutChange"}
  IN Payload({"state"}, changes, changes)
ConfigStaderLiquidStakingPayload ==
  LET changes == {"rewardsFeeChange", "slotsForStakeDeltaChange", "minStakeChange",
                  "minDepositChange", "minWithdrawChange", "stakingSolCapChange",
                  "liquiditySolCapChange", "withdrawStakeAccountEnabledChange",
                  "delayedUnstakeFeeChange", "withdrawStakeAccountFeeChange",
                  "maxStakeMovedPerEpochChange"}
  IN Payload({"state"}, changes, changes)
EmergencyPausePayload == Payload({"state"}, {}, {})
InitializePayload == Payload(
    {"state", "stakeList", "validatorList", "staderSolMint", "operationalSolAccount",
     "lpMint", "lpStaderSolLeg", "treasuryStaderSolAccount"}, {"params"}, {})
ReallocStakeListPayload == Payload({"state", "count", "newCapacity"}, {}, {})
ReallocValidatorListPayload == Payload({"state", "count", "newCapacity"}, {}, {})
ResumePayload == Payload({"state"}, {}, {})
DeactivateStakePayload == Payload(
    {"state", "epoch", "stakeIndex", "stakeAccount", "lastUpdateStakeDelegation",
     "validatorIndex", "validatorVote", "totalStakeTarget", "validatorStakeTarget",
     "totalActiveBalance", "delayedUnstakeCoolingDown", "validatorActiveBalance",
     "totalUnstakeDelta", "unstakedAmount"}, {"splitStakeAccount"},
    {"splitStakeAccount"})
MergeStakesPayload == Payload(
    {"state", "epoch", "destinationStakeIndex", "destinationStakeAccount",
     "lastUpdateDestinationStakeDelegation", "sourceStakeIndex", "sourceStakeAccount",
     "lastUpdateSourceStakeDelegation", "validatorIndex", "validatorVote",
     "extraDelegated", "returnedStakeRent", "validatorActiveBalance",
     "totalActiveBalance", "operationalSolBalance"}, {}, {})
RedelegatePayload == Payload(
    {"state", "epoch", "stakeIndex", "stakeAccount", "lastUpdateDelegation",
     "sourceValidatorIndex", "sourceValidatorVote", "sourceValidatorScore",
     "sourceValidatorBalance", "sourceValidatorStakeTarget", "destValidatorIndex",
     "destValidatorVote", "destValidatorScore", "destValidatorBalance",
     "destValidatorStakeTarget", "redelegateAmount", "redelegateStakeIndex",
     "redelegateStakeAccount"}, {"splitStakeAccount"}, {"splitStakeAccount"})
StakeReservePayload == Payload(
    {"state", "epoch", "stakeIndex", "stakeAccount", "validatorIndex",
     "validatorVote", "totalStakeTarget", "validatorStakeTarget", "reserveBalance",
     "totalActiveBalance", "validatorActiveBalance", "totalStakeDelta", "amount"}, {},
    {})
UpdateActivePayload == Payload(
    {"state", "epoch", "stakeIndex", "stakeAccount", "validatorIndex",
     "validatorVote", "delegationGrowthStaderSolFees", "extraLamports",
     "extraStaderSolFees", "validatorActiveBalance", "totalActiveBalance",
     "totalVirtualStakedLamports", "staderSolSupply"},
    {"delegationChange", "staderSolPriceChange", "rewardFeeUsed"},
    {"delegationGrowthStaderSolFees", "extraStaderSolFees"})
UpdateDeactivatedPayload == Payload(
    {"state", "epoch", "stakeIndex", "stakeAccount", "balanceWithoutRentExempt",
     "lastUpdateDelegatedLamports", "staderSolFees", "operationalSolBalance",
     "totalVirtualStakedLamports", "staderSolSupply"},
    {"staderSolPriceChange", "rewardFeeUsed"}, {"staderSolFees"})
ClaimPayload == Payload(
    {"state", "epoch", "ticket", "beneficiary", "circulatingTicketBalance",
     "circulatingTicketCount", "reserveBalance", "userBalance", "amount"}, {}, {})
OrderUnstakePayload == Payload(
    {"state", "ticketEpoch", "ticket", "beneficiary", "circulatingTicketBalance",
     "circulatingTicketCount", "userStaderSolBalance", "burnedStaderSolAmount",
     "solAmount", "feeBpCents", "totalVirtualStakedLamports", "staderSolSupply"}, {},
    {})
AddLiquidityPayload == Payload(
    {"state", "solOwner", "userSolBalance", "userLpBalance", "solLegBalance",
     "lpSupply", "solAddedAmount", "lpMinted", "totalVirtualStakedLamports",
     "staderSolSupply"}, {}, {})
LiquidUnstakePayload == Payload(
    {"state", "staderSolOwner", "liqPoolSolBalance", "liqPoolStaderSolBalance",
     "treasuryStaderSolBalance", "userStaderSolBalance", "userSolBalance",
     "staderSolAmount", "staderSolFee", "treasuryStaderSolCut", "solAmount",
     "lpLiquidityTarget"}, {"lpMaxFee", "lpMinFee", "treasuryCut"},
    {"treasuryStaderSolBalance"})
RemoveLiquidityPayload == Payload(
    {"state", "solLegBalance", "staderSolLegBalance", "userLpBalance",
     "userSolBalance", "userStaderSolBalance", "lpMintSupply", "lpBurned",
     "solOutAmount", "staderSolOutAmount"}, {}, {})
AddValidatorPayload == Payload({"state", "validator", "index", "score"}, {}, {})
RemoveValidatorPayload == Payload({"state", "validator", "index", "operationalSolBalance"}, {}, {})
SetValidatorScorePayload == Payload(
    {"state", "validator", "index"}, {"scoreChange"}, {})
DepositPayload == Payload(
    {"state", "solOwner", "userSolBalance", "userStaderSolBalance", "solLegBalance",
     "staderSolLegBalance", "reserveBalance", "solSwapped", "staderSolSwapped",
     "solDeposited", "staderSolMinted", "totalVirtualStakedLamports",
     "staderSolSupply"}, {}, {})
DepositStakeAccountPayload == Payload(
    {"state", "stake", "delegated", "withdrawer", "stakeIndex", "validator",
     "validatorIndex", "validatorActiveBalance", "totalActiveBalance",
     "userStaderSolBalance", "staderSolMinted", "totalVirtualStakedLamports",
     "staderSolSupply"}, {}, {})
WithdrawStakeAccountPayload == Payload(
    {"state", "epoch", "stake", "lastUpdateStakeDelegation", "stakeIndex",
     "validator", "validatorIndex", "userStaderSolBalance", "userStaderSolAuth",
     "staderSolBurned", "staderSolFees", "splitStake", "beneficiary", "splitLamports",
     "feeBpCents", "totalVirtualStakedLamports", "staderSolSupply"}, {}, {})

Payloads ==
  [ChangeAuthority |-> ChangeAuthorityPayload, ConfigLp |-> ConfigLpPayload,
   ConfigStaderLiquidStaking |-> ConfigStaderLiquidStakingPayload,
   EmergencyPause |-> EmergencyPausePayload, Initialize |-> InitializePayload,
   ReallocStakeList |-> ReallocStakeListPayload,
   ReallocValidatorList |-> ReallocValidatorListPayload, Resume |-> ResumePayload,
   DeactivateStake |-> DeactivateStakePayload, MergeStakes |-> MergeStakesPayload,
   Redelegate |-> RedelegatePayload, StakeReserve |-> StakeReservePayload,
   UpdateActive |-> UpdateActivePayload, UpdateDeactivated |-> UpdateDeactivatedPayload,
   Claim |-> ClaimPayload, OrderUnstake |-> OrderUnstakePayload,
   AddLiquidity |-> AddLiquidityPayload, LiquidUnstake |-> LiquidUnstakePayload,
   RemoveLiquidity |-> RemoveLiquidityPayload, AddValidator |-> AddValidatorPayload,
   RemoveValidator |-> RemoveValidatorPayload,
   SetValidatorScore |-> SetValidatorScorePayload, Deposit |-> DepositPayload,
   DepositStakeAccount |-> DepositStakeAccountPayload,
   WithdrawStakeAccount |-> WithdrawStakeAccountPayload]

-----------------------------------------------------------------------------
(* What a document is made of. A field typed by a class without @Schema     *)
(* takes any value (Mixed); every other field takes a plain value only.     *)
Schema(required, optional, mixed) ==
  [required |-> required, optional |-> optional, mixed |-> mixed]

ChangeAuthoritySchema ==
  LET changes == {"adminChange", "validatorManagerChange",
                  "operationalSolAccountChange", "treasuryStaderSolAccountChange",
                  "pauseAuthorityChange"}
  IN Schema({"state"}, changes, changes)
ConfigLpSchema ==
  LET changes == {"minFeeChange", "maxFeeChange", "liquidityTargetChange",
                  "treasuryCutChange"}
  IN Schema({"state"}, changes, changes)
ConfigStaderLiquidStakingSchema ==
  LET changes == {"rewardsFeeChange", "slotsForStakeDeltaChange", "minStakeChange",
                  "minDepositChange", "minWithdrawChange", "stakingSolCapChange",
                  "liquiditySolCapChange", "withdrawStakeAccountEnabledChange",
                  "delayedUnstakeFeeChange", "withdrawStakeAccountFeeChange",
                  "maxStakeMovedPerEpochChange"}
  IN Schema({"state"}, changes, changes)
EmergencyPauseSchema == Schema({"state"}, {}, {})
InitializeSchema == Schema(
    {"state", "stakeList", "validatorList", "staderSolMint", "operationalSolAccount",
     "lpMint", "lpStaderSolLeg", "treasuryStaderSolAccount"}, {}, {})
ReallocStakeListSchema == Schema({"state", "count", "newCapacity"}, {}, {})
ReallocValidatorListSchema == Schema({"state", "count", "newCapacity"}, {}, {})
ResumeSchema == Schema({"state"}, {}, {})
DeactivateStakeSchema == Schema(
    {"state", "epoch", "stakeIndex", "stakeAccount", "lastUpdateStakeDelegation",
     "validatorIndex", "validatorVote", "totalStakeTarget", "validatorStakeTarget",
     "totalActiveBalance", "delayedUnstakeCoolingDown", "validatorActiveBalance",
     "totalUnstakeDelta", "unstakedAmount"}, {"splitStakeAccount"},
    {"splitStakeAccount"})
MergeStakesSchema == Schema(
    {"state", "epoch", "destinationStakeIndex", "destinationStakeAccount",
     "lastUpdateDestinationStakeDelegation", "sourceStakeIndex", "sourceStakeAccount",
     "lastUpdateSourceStakeDelegation", "validatorIndex", "validatorVote",
     "extraDelegated", "returnedStakeRent", "validatorActiveBalance",
     "totalActiveBalance", "operationalSolBalance"}, {}, {})
RedelegateSchema == Schema(
    {"state", "epoch", "stakeIndex", "stakeAccount", "lastUpdateDelegation",
     "sourceValidatorIndex", "sourceValidatorVote", "sourceValidatorScore",
     "sourceValidatorBalance", "sourceValidatorStakeTarget", "destValidatorIndex",
     "destValidatorVote", "destValidatorScore", "destValidatorBalance",
     "destValidatorStakeTarget", "redelegateAmount", "redelegateStakeIndex",
     "redelegateStakeAccount"}, {"splitStakeAccount"}, {"splitStakeAccount"})
StakeReserveSchema == Schema(
    {"state", "epoch", "stakeIndex", "stakeAccount", "validatorIndex",
     "validatorVote", "totalStakeTarget", "validatorStakeTarget", "reserveBalance",
     "totalActiveBalance", "validatorActiveBalance", "totalStakeDelta", "amount"}, {},
    {})
UpdateActiveSchema == Schema(
    {"state", "epoch", "stakeIndex", "stakeAccount", "validatorIndex",
     "validatorVote", "delegationChange", "extraLamports", "validatorActiveBalance",
     "totalActiveBalance", "staderSolPriceChange", "rewardFeeUsed",
     "totalVirtualStakedLamports", "staderSolSupply"},
    {"delegationGrowthStaderSolFees", "extraStaderSolFees"},
    {"delegationChange", "staderSolPriceChange", "rewardFeeUsed"})
UpdateDeactivatedSchema == Schema(
    {"state", "epoch", "stakeIndex", "stakeAccount", "balanceWithoutRentExempt",
     "lastUpdateDelegatedLamports", "staderSolPriceChange", "rewardFeeUsed",
     "operationalSolBalance", "totalVirtualStakedLamports", "staderSolSupply"},
    {"staderSolFees"}, {"staderSolPriceChange", "rewardFeeUsed"})
ClaimSchema == Schema(
    {"state", "epoch", "ticket", "beneficiary", "circulatingTicketBalance",
     "circulatingTicketCount", "reserveBalance", "userBalance", "amount"}, {}, {})
OrderUnstakeSchema == Schema(
    {"state", "ticketEpoch", "ticket", "beneficiary", "circulatingTicketBalance",
     "circulatingTicketCount", "userStaderSolBalance", "burnedStaderSolAmount",
     "solAmount", "feeBpCents", "totalVirtualStakedLamports", "staderSolSupply"}, {},
    {})
AddLiquiditySchema == Schema(
    {"state", "solOwner", "userSolBalance", "userLpBalance", "solLegBalance",
     "lpSupply", "solAddedAmount", "lpMinted", "totalVirtualStakedLamports",
     "staderSolSupply"}, {}, {})
LiquidUnstakeSchema == Schema(
    {"state", "staderSolOwner", "liqPoolSolBalance", "liqPoolStaderSolBalance",
     "userStaderSolBalance", "userSolBalance", "staderSolAmount", "staderSolFee",
     "treasuryStaderSolCut", "solAmount", "lpLiquidityTarget", "lpMaxFee", "lpMinFee",
     "treasuryCut"}, {"treasuryStaderSolBalance"},
    {"lpMaxFee", "lpMinFee", "treasuryCut"})
RemoveLiquiditySchema == Schema(
    {"state", "solLegBalance", "staderSolLegBalance", "userLpBalance",
     "userSolBalance", "userStaderSolBalance", "lpMintSupply", "lpBurned",
     "solOutAmount", "staderSolOutAmount"}, {}, {})
AddValidatorSchema == Schema(
    {"validatorId", "timestamp", "state", "validator", "index", "score"}, {}, {})
RemoveValidatorSchema == Schema(
    {"state", "validator", "index", "operationalSolBalance"}, {}, {})
SetValidatorScoreSchema == Schema(
    {"state", "validator", "index", "scoreChange"}, {}, {})
DepositSchema == Schema(
    {"state", "solOwner", "userSolBalance", "userStaderSolBalance", "solLegBalance",
     "staderSolLegBalance", "reserveBalance", "solSwapped", "staderSolSwapped",
     "solDeposited", "staderSolMinted", "totalVirtualStakedLamports",
     "staderSolSupply"}, {}, {})
DepositStakeAccountSchema == Schema(
    {"state", "stake", "delegated", "withdrawer", "stakeIndex", "validator",
     "validatorIndex", "validatorActiveBalance", "totalActiveBalance",
     "userStaderSolBalance", "staderSolMinted", "totalVirtualStakedLamports",
     "staderSolSupply"}, {}, {})
WithdrawStakeAccountSchema == Schema(
    {"state", "epoch", "stake", "lastUpdateStakeDelegation", "stakeIndex",
     "validator", "validatorIndex", "userStaderSolBalance", "userStaderSolAuth",
     "staderSolBurned", "staderSolFees", "splitStake", "beneficiary", "splitLamports",
     "feeBpCents", "totalVirtualStakedLamports", "staderSolSupply"}, {}, {})

Schemas ==
  [ChangeAuthority |-> ChangeAuthoritySchema, ConfigLp |-> ConfigLpSchema,
   ConfigStaderLiquidStaking |-> ConfigStaderLiquidStakingSchema,
   EmergencyPause |-> EmergencyPauseSchema, Initialize |-> InitializeSchema,
   ReallocStakeList |-> ReallocStakeListSchema,
   ReallocValidatorList |-> ReallocValidatorListSchema, Resume |-> ResumeSchema,
   DeactivateStake |-> DeactivateStakeSchema, MergeStakes |-> MergeStakesSchema,
   Redelegate |-> RedelegateSchema, StakeReserve |-> StakeReserveSchema,
   UpdateActive |-> UpdateActiveSchema, UpdateDeactivated |-> UpdateDeactivatedSchema,
   Claim |-> ClaimSchema, OrderUnstake |-> OrderUnstakeSchema,
   AddLiquidity |-> AddLiquiditySchema, LiquidUnstake |-> LiquidUnstakeSchema,
   RemoveLiquidity |-> RemoveLiquiditySchema, AddValidator |-> AddValidatorSchema,
   RemoveValidator |-> RemoveValidatorSchema,
   SetValidatorScore |-> SetValidatorScoreSchema, Deposit |-> DepositSchema,
   DepositStakeAccount |-> DepositStakeAccountSchema,
   WithdrawStakeAccount |-> WithdrawStakeAccountSchema]

\* A document of these fields is saved if each required field has a value and no
\* struct is given for a plain one; mongoose drops fields the schema does not name.
DocumentAccepted(schema, fields, structs) ==
  /\ schema.required \subseteq fields
  /\ fields \cap structs \cap (schema.required \cup schema.optional) \subseteq schema.mixed

-----------------------------------------------------------------------------
(* Postgres. A column must be given a value if it is NOT NULL without a     *)
(* default, or if its transformer calls toString on whatever it is given:   *)
(* TypeORM applies it to columns that are null or left out as well.         *)
Table(notNull, converted) == [notNull |-> notNull, converted |-> converted]

StakeDelegation == Table(
  {"stakeAccount", "stakeAcIndex", "validatorAccount", "validatorAcIndex"}, {"stakedAmount"})

StateMetrics == Table(
  {"state", "currentEpoch", "validatorIndex", "validatorVote"},
  {"delayedUnstakeCoolingDown", "emergencyCoolingDown", "availableReserveBalance",
   "validatorActiveBalance", "totalActiveBalance"})

StaderSolPriceHistory == Table(
  {"state", "currentEpoch", "stakeIndex", "stakeAccount", "oldStaderSolPrice",
   "newStaderSolPrice", "rewardFeeUsed", "staderSolSupply", "totalVirtualStakedLamports"},
  {"oldDelegatedLamports", "newDelegatedLamports", "stakeBalanceWithoutRent",
   "staderSolFees", "extraLamports", "extraStaderSolFees"})

UnstakeTicket == Table(
  {"state", "ticket", "ticketCreatedEpoch", "beneficiary"}, {"solAmount", "claimableTime"})

Validator == Table({"account", "voteAccount"}, {})

Tables ==
  [stakedelegation |-> StakeDelegation, state_metrics |-> StateMetrics,
   stader_sol_price_history |-> StaderSolPriceHistory, unstake_tickets |-> UnstakeTicket,
   validators |-> Validator]

\* An insert that gives values to these columns goes through.
RowAccepted(table, columns) == table.notNull \cup table.converted \subseteq columns
=============================================================================
