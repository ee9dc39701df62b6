------------------------------- MODULE ChainSync ------------------------------
(***************************************************************************)
(* Chain synchronisation between two nodes that share their genesis        *)
(* (peer.go, handleChainSyncRequest and handleChainSyncResponse), as       *)
(* operators on the chains of the two.  A reply that was asked from height *)
(* 0 is whole: it starts with the genesis block, which chains leave out.   *)
(* The installers replace the block list by one branch: side branches are  *)
(* forgotten, and the received blocks are not validated.                   *)
(***************************************************************************)
EXTENDS Blockchain

SyncReply(bs, from) ==
  LET best == CanonicalBlocks(bs, 0)
  IN  [height |-> Len(best), whole |-> from = 0, blocks |-> SubSeq(best, Max({1, from}), Len(best))]

Contiguous(bs) == \A i \in 2 .. Len(bs) : bs[i].parent = GetBlockHash(bs[i - 1])

(***************************************************************************)
(* The last block of the remote list that the local branch holds too, or 0.*)
(***************************************************************************)
CommonIndex(local, remote) ==
  Max({0} \cup {i \in DOMAIN remote : \E b \in Range(local) : GetBlockHash(b) = GetBlockHash(remote[i])})

\* Mutant: the two halves are joined in the wrong order.
SplicedSwapped(local, remote) ==
  LET i == CommonIndex(local, remote)
  IN  SubSeq(remote, i + 1, Len(remote)) \o SubSeq(local, 1, Len(GetBlockHash(remote[i])))

(***************************************************************************)
(* The local branch up to the common block, then the remote one.           *)
(***************************************************************************)
Spliced(local, remote) ==
  LET i == CommonIndex(local, remote)
  IN  SubSeq(local, 1, Len(GetBlockHash(remote[i]))) \o SubSeq(remote, i + 1, Len(remote))

CanInstallFull(local, remote) ==
  /\ Len(remote) > Len(local)
  /\ CommonIndex(local, remote) > 0
  /\ remote[1].parent = GenesisHash
  /\ Contiguous(remote)

CanInstallOverlap(local, remote) ==
  /\ Contiguous(remote)
  /\ CommonIndex(local, remote) \in 1 .. (Len(remote) - 1)
  /\ Len(Spliced(local, remote)) > Len(local)

\* Mutant: the parent of the suffix is not looked at.
FollowsAnything(bs, remote) == TRUE

FollowsTip(bs, remote) == remote[1].parent = BestLeafHash(bs)

(***************************************************************************)
(* Which installer handleChainSyncResponse calls, by the local height it   *)
(* reads first.                                                            *)
(***************************************************************************)
Installer(height, r) ==
  CASE r.height <= height \/ r.blocks = << >> -> "none"
    [] r.height > height /\ r.blocks # << >> /\ r.whole -> "full"
    [] r.height > height /\ r.blocks # << >> /\ ~r.whole /\ r.height = height + Len(r.blocks) -> "suffix"
    [] OTHER -> "overlap"

(***************************************************************************)
(* The installers take a snapshot of the best branch of their own.         *)
(***************************************************************************)
CanInstall(how, bs, r) ==
  LET local == CanonicalBlocks(bs, 0)
  IN  \/ how = "full" /\ CanInstallFull(local, r.blocks)
      \/ how = "suffix" /\ FollowsTip(bs, r.blocks) /\ Contiguous(r.blocks)
      \/ how = "overlap" /\ CanInstallOverlap(local, r.blocks)

\* Mutant: the local branch below a suffix is left out.
ReplacementWithoutLocal(how, bs, r) == r.blocks

Replacement(how, bs, r) ==
  LET local == CanonicalBlocks(bs, 0)
  IN  IF how = "suffix" THEN local \o r.blocks ELSE Spliced(local, r.blocks)

(***************************************************************************)
(* A suffix that does not follow the local tip comes from another branch:  *)
(* the node asks for the whole chain.                                      *)
(***************************************************************************)
AsksForWholeChain(how, bs, r) == how = "suffix" /\ ~FollowsTip(bs, r.blocks)
=============================================================================
