------------------------------- MODULE Lottery --------------------------------
(***************************************************************************)
(* The slot lottery: how many tickets an account holds (ledger.go), which  *)
(* draws win, and how hard the lottery is (blockchain.go, Genesis.go).     *)
(* Signatures make the draw of an account in a slot a fixed number, so a   *)
(* draw is a constant table.                                               *)
(***************************************************************************)
EXTENDS Ledger, Sequences, FiniteSetsExt

CONSTANT
  GenesisConfig   \* the consensus fields of GenesisMetaData

(***************************************************************************)
(* Every field is positive: applyDefaultDynamicHardnessConfig replaces     *)
(* what is not, and raises the maximum to the minimum.                     *)
(***************************************************************************)
ASSUME ConfigAssumption ==
  /\ GenesisConfig \in [hardness: Nat, forkHeight: Nat \ {0}, min: Nat \ {0}, max: Nat \ {0},
                        window: Nat \ {0}, fastTarget: Nat \ {0}, idleTarget: Nat \ {0}]
  /\ GenesisConfig.min <= GenesisConfig.max

TicketScale == 1000000

AtLeastOne(n) == IF n < 1 THEN 1 ELSE n

(***************************************************************************)
(* The registered validators split 97% of the scale by balance and 3% by   *)
(* head count.  An account outside the registry is counted among the heads *)
(* when it holds nothing, and not among the balances when it holds some.   *)
(***************************************************************************)
TotalPositive(l) == MapThenSumSet(LAMBDA a : IF l.bal[PKN][a] > 0 THEN l.bal[PKN][a] ELSE 0, l.validators)

ZeroValidators(l, a) ==
  Cardinality({b \in l.validators : l.bal[PKN][b] <= 0})
    + (IF a \notin l.validators /\ l.bal[PKN][a] = 0 THEN 1 ELSE 0)

\* Mutant: the funded validators compete for the whole scale.
TicketsWithoutReserve(l, a) ==
  IF l.bal[PKN][a] > 0 THEN AtLeastOne((l.bal[PKN][a] * TicketScale) \div TotalPositive(l))
  ELSE AtLeastOne((3 * TicketScale) \div (100 * ZeroValidators(l, a)))

\* Mutant: tickets are for the funded only.
TicketsForFunded(l, a) ==
  IF l.bal[PKN][a] > 0 THEN AtLeastOne((l.bal[PKN][a] * 97 * TicketScale) \div (100 * TotalPositive(l)))
  ELSE 0

LotteryTickets(l, a) ==
  LET balance == l.bal[PKN][a]
      total   == TotalPositive(l)
      zeros   == ZeroValidators(l, a)
  IN  IF a \notin Native THEN 0
      ELSE IF balance > 0
           THEN IF total <= 0 THEN TicketScale
                ELSE AtLeastOne((balance * 97 * TicketScale) \div (100 * total))
           ELSE IF zeros <= 0 THEN 0
                ELSE AtLeastOne((3 * TicketScale) \div (100 * zeros))

WinsLottery(tickets, hardness, draw) == draw < hardness * tickets

-----------------------------------------------------------------------------
(* Hardness.  slots is the sequence of slot numbers from genesis (slot 0)  *)
(* to the parent of the candidate block.                                   *)

ClampHardness(h) ==
  IF h < GenesisConfig.min THEN GenesisConfig.min
  ELSE IF h > GenesisConfig.max THEN GenesisConfig.max ELSE h

AverageRecentSlotInterval(slots) ==
  LET first  == Max({1, Len(slots) - GenesisConfig.window})
      steps  == {i \in first + 1 .. Len(slots) : slots[i] > slots[i - 1]}
      total  == MapThenSumSet(LAMBDA i : slots[i] - slots[i - 1], steps)
      count  == Cardinality(steps)
  IN  IF count = 0 THEN 0 ELSE (total + (count \div 2)) \div count

EffectiveHardness(slots, txCount) ==
  LET target == IF txCount > 0 THEN GenesisConfig.fastTarget ELSE GenesisConfig.idleTarget
      avg    == AverageRecentSlotInterval(slots)
  IN  ClampHardness(IF Len(slots) < GenesisConfig.forkHeight \/ avg = 0 THEN GenesisConfig.hardness
                    ELSE (GenesisConfig.hardness * avg) \div target)

OptimisticLotteryHardness == GenesisConfig.max

(***************************************************************************)
(* AddBlock: a newcomer, neither registered nor funded, plays at the       *)
(* genesis hardness when that is the easier one.                           *)
(***************************************************************************)
HardnessForBlock(l, slots, a, txCount) ==
  LET h == EffectiveHardness(slots, txCount)
  IN  IF a \notin l.validators /\ l.bal[PKN][a] = 0 /\ GenesisConfig.hardness > h
      THEN GenesisConfig.hardness ELSE h
=============================================================================
