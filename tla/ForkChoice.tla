------------------------------ MODULE ForkChoice ------------------------------
(***************************************************************************)
(* What the network of nodes promises about the best branch, without       *)
(* messages, mempools, timers or ledgers: miners publish blocks, at most   *)
(* one each per slot, on blocks that were published, and a node's tip      *)
(* moves only to a published block that the fork choice of blockchain.go   *)
(* prefers to the tip the node has, or to one that was longer than the tip *)
(* the node had when it decided for it.  A block is known by its hash, the *)
(* path of <<miner, slot>> pairs from genesis.                             *)
(***************************************************************************)
EXTENDS Naturals, Sequences

CONSTANTS
  Node,               \* the nodes, each a miner
  Slot,               \* slot numbers
  HashBefore(_, _)    \* the lexicographic order on hashes

VARIABLES
  published,   \* the hashes of the blocks that some node took
  tip,         \* the best block of each node
  plan         \* the blocks that each node has decided to move to

abstractVars == <<published, tip, plan>>

GenesisHash == << >>

(***************************************************************************)
(* The fork choice: the longer path, and of two equally long ones the      *)
(* smaller hash.                                                           *)
(***************************************************************************)
Better(g, h) == Len(g) > Len(h) \/ (Len(g) = Len(h) /\ g # h /\ HashBefore(g, h))

AbstractInit ==
  /\ published = {}
  /\ tip = [n \in Node |-> GenesisHash]
  /\ plan = [n \in Node |-> {}]

(***************************************************************************)
(* n publishes a block.  Its tip moves there unless it learned of a better *)
(* block while it was mining.                                              *)
(***************************************************************************)
Publish(n) ==
  \E parent \in published \cup {GenesisHash}, s \in Slot :
    LET new == Append(parent, <<n, s>>)
    IN  /\ \A h \in published : h[Len(h)] # <<n, s>>
        /\ published' = published \cup {new}
        /\ tip' = [tip EXCEPT ![n] = IF Better(new, @) THEN new ELSE @]
        /\ UNCHANGED plan

Learn(n) ==
  \E h \in published :
    /\ Better(h, tip[n])
    /\ tip' = [tip EXCEPT ![n] = h]
    /\ UNCHANGED <<published, plan>>

(***************************************************************************)
(* Chain sync decides for a longer branch and moves later: other steps may *)
(* come in between, and the move then goes to a block that is no longer    *)
(* preferred.  Several readers may have decided for one block.             *)
(***************************************************************************)
Decide(n) ==
  \E h \in published :
    /\ Len(h) > Len(tip[n])
    /\ plan' = [plan EXCEPT ![n] = @ \cup {h}]
    /\ UNCHANGED <<published, tip>>

Move(n) ==
  \E h \in plan[n] :
    /\ tip' = [tip EXCEPT ![n] = h]
    /\ \/ plan' = [plan EXCEPT ![n] = @ \ {h}]
       \/ UNCHANGED plan
    /\ UNCHANGED published

AbstractNext == \E n \in Node : Publish(n) \/ Learn(n) \/ Decide(n) \/ Move(n)

AbstractSpec == AbstractInit /\ [][AbstractNext]_abstractVars
=============================================================================
