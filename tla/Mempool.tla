-------------------------------- MODULE Mempool -------------------------------
(***************************************************************************)
(* The mempool of a node (peer.go), as operators on the set of pending     *)
(* transactions: what may enter, what an entering transaction replaces,    *)
(* what pruning keeps and what a miner selects.  The code walks a map, so  *)
(* the order of the walk is arbitrary.                                     *)
(***************************************************************************)
EXTENDS Blockchain

(***************************************************************************)
(* The checks of handlePoSTransaction that need no state.                  *)
(***************************************************************************)
WellFormed(t) ==
  /\ t.kind \in {"transfer", "mint"} /\ ~t.evm => t.amount >= 1
  /\ t.signed

(***************************************************************************)
(* pruneInvalidMempool tries the pending transactions in map order, again  *)
(* and again, and keeps those it could apply: the members of any maximal   *)
(* list that the best ledger accepts in sequence.                          *)
(***************************************************************************)
Prunings(l, pool) ==
  {Range(s) : s \in {o \in SetToAllKPermutations(pool) :
     /\ AllAccepted(l, o)
     /\ \A t \in pool \ Range(o) : ~Accepts(FoldLeft(Transaction, l, o), t)}}

(***************************************************************************)
(* MineOneSlot tries them once in map order, until the block is full: what *)
(* it leaves out was refused at some point of the list.                    *)
(***************************************************************************)
Selections(l, pool) ==
  {o \in SetToAllKPermutations(pool) :
     /\ AllAccepted(l, o)
     /\ Len(o) <= BlockSize
     /\ Len(o) < BlockSize => \A t \in pool \ Range(o) :
          \E k \in 0 .. Len(o) : ~Accepts(FoldLeft(Transaction, l, SubSeq(o, 1, k)), t)}

(***************************************************************************)
(* A wallet transaction replaces the pending one with its sender and nonce.*)
(***************************************************************************)
Replaced(pool, t) == {p \in pool : t.evm /\ p.evm /\ p.from = t.from /\ p.nonce = t.nonce}

\* Mutant: a replacement joins the transaction it replaces.
EnteredBeside(pool, t) == pool \cup {t}

Entered(pool, t) == (pool \ Replaced(pool, t)) \cup {t}

NotIncluded(pool, b) == {t \in pool : \A i \in DOMAIN b.txs : b.txs[i].id # t.id}

(***************************************************************************)
(* PendingNonceOf, once it has read the account's best nonce.              *)
(***************************************************************************)
PendingNonce(pool, a, best) ==
  Max({best} \cup {t.nonce + 1 : t \in {p \in pool : p.evm /\ p.from = a /\ p.nonce >= best}})
=============================================================================
