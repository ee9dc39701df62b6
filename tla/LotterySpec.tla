----------------------------- MODULE LotterySpec ------------------------------
(***************************************************************************)
(* The lottery over every ledger that LedgerSpec reaches: how the tickets  *)
(* move while transfers, mints and rewards move the stake.                 *)
(***************************************************************************)
EXTENDS LedgerSpec, Lottery

Tickets(a) == LotteryTickets(ledger, a)

Funded == {a \in ledger.validators \cap Native : ledger.bal[PKN][a] > 0}

Unfunded == {a \in ledger.validators \cap Native : ledger.bal[PKN][a] = 0}

(***************************************************************************)
(* "validators with positive balance collectively compete for 97% of       *)
(* mining probability ... zero-balance validators collectively share the   *)
(* remaining 3%" (README.md:49): up to the one ticket of rounding each is  *)
(* owed, the two groups stay inside their budgets in every reachable       *)
(* ledger, so no stake movement lets the funded take the 3%.               *)
(***************************************************************************)
TicketBudget ==
  /\ MapThenSumSet(Tickets, Funded) <= (97 * TicketScale) \div 100 + Cardinality(Funded)
  /\ MapThenSumSet(Tickets, Unfunded) <= (3 * TicketScale) \div 100 + Cardinality(Unfunded)

(***************************************************************************)
(* "Spendable balance affects mining weight, but does not decide whether a *)
(* validator can mine" (docs/node-endpoints.md:597), as AddBlock counts    *)
(* tickets: a registered validator keeps a ticket after it spends its      *)
(* last coin, and one that holds more never has fewer.                     *)
(***************************************************************************)
ValidatorsKeepTickets ==
  \A a \in ledger.validators \cap Native :
    /\ Tickets(a) >= 1
    /\ \A b \in ledger.validators \cap Native :
         ledger.bal[PKN][a] >= ledger.bal[PKN][b] /\ ledger.bal[PKN][b] > 0 => Tickets(a) >= Tickets(b)
=============================================================================
