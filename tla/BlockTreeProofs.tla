---------------------------- MODULE BlockTreeProofs ---------------------------
(***************************************************************************)
(* Facts about the block tree for every list of blocks: what               *)
(* calculateDepths keeps, which leaf it prefers, and that neither depends  *)
(* on the order in which the blocks arrived.  Then facts about the replay  *)
(* of a branch, for every branch: the ledger after a list of blocks or     *)
(* transactions is the step-by-step one, nonces only grow, and an early    *)
(* entry in the validator registry changes no answer.                      *)
(***************************************************************************)
EXTENDS ChainSync, SequenceTheorems, LedgerProofs

-----------------------------------------------------------------------------
(* Hashes. *)

(***************************************************************************)
(* The prefixes of a hash are the hashes of its ancestors.                 *)
(***************************************************************************)
LEMMA Prefix ==
  ASSUME NEW h \in Hash, NEW k \in 0 .. Len(h)
  PROVE  /\ SubSeq(h, 1, k) \in Hash /\ Len(SubSeq(h, 1, k)) = k
         /\ \A j \in 0 .. k : SubSeq(SubSeq(h, 1, k), 1, j) = SubSeq(h, 1, j)
         /\ k = Len(h) => SubSeq(h, 1, k) = h
         /\ k = 0 => SubSeq(h, 1, k) = GenesisHash
<1>1. h \in Seq(Native \X Slot) BY DEF Hash
<1>2. SubSeq(h, 1, k) \in Hash /\ Len(SubSeq(h, 1, k)) = k BY <1>1 DEF Hash
<1>3. ASSUME NEW j \in 0 .. k PROVE SubSeq(SubSeq(h, 1, k), 1, j) = SubSeq(h, 1, j)
  <2>1. SubSeq(SubSeq(h, 1, k), 1, j) = [i \in 1 .. j |-> SubSeq(h, 1, k)[i]] BY <1>1, <1>2 DEF Hash
  <2>2. SubSeq(h, 1, j) = [i \in 1 .. j |-> h[i]] BY <1>1
  <2>3. \A i \in 1 .. j : SubSeq(h, 1, k)[i] = h[i] BY <1>1
  <2> QED BY <2>1, <2>2, <2>3
<1> QED BY <1>1, <1>2, <1>3 DEF GenesisHash

(***************************************************************************)
(* A block's hash determines its parent, its miner and its slot, and no    *)
(* block hashes to genesis.                                                *)
(***************************************************************************)
LEMMA BlockHash ==
  ASSUME NEW b \in Block
  PROVE  /\ GetBlockHash(b) \in Hash /\ b.parent \in Hash
         /\ Len(GetBlockHash(b)) = Len(b.parent) + 1
         /\ GetBlockHash(b) # GenesisHash
         /\ SubSeq(GetBlockHash(b), 1, Len(b.parent)) = b.parent
         /\ GetBlockHash(b)[Len(GetBlockHash(b))] = <<b.miner, b.slot>>
<1> DEFINE p == b.parent
           e == <<b.miner, b.slot>>
<1>1. p \in Seq(Native \X Slot) /\ e \in Native \X Slot BY DEF Block, Hash
<1> HIDE DEF p, e
<1>2. Append(p, e) \in Seq(Native \X Slot) /\ Len(Append(p, e)) = Len(p) + 1
  BY <1>1
<1>3. Append(p, e)[Len(p) + 1] = e /\ \A i \in 1 .. Len(p) : Append(p, e)[i] = p[i] BY <1>1
<1>4. SubSeq(Append(p, e), 1, Len(p)) = p BY <1>1, <1>2, <1>3
<1>5. Append(p, e) # << >> BY <1>1, <1>2
<1> QED BY <1>1, <1>2, <1>3, <1>4, <1>5 DEF GetBlockHash, Hash, GenesisHash, p, e

-----------------------------------------------------------------------------
(* What calculateDepths keeps. *)

(***************************************************************************)
(* The blocks it keeps are the signed ones of the list whose ancestors it  *)
(* keeps.                                                                  *)
(***************************************************************************)
LEMMA AttachedClosed ==
  ASSUME NEW bs \in Seq(Block)
  PROVE  /\ Attached(bs) \subseteq HashesIn(bs) /\ HashesIn(bs) \subseteq Hash
         /\ GenesisHash \notin HashesIn(bs)
         /\ \A h \in Attached(bs) : \A k \in 1 .. Len(h) : SubSeq(h, 1, k) \in Attached(bs)
<1>1. Range(bs) \subseteq Block BY DEF Range
<1>2. HashesIn(bs) \subseteq Hash /\ GenesisHash \notin HashesIn(bs)
  BY <1>1, BlockHash DEF HashesIn
<1>3. Attached(bs) \subseteq HashesIn(bs) BY DEF Attached
<1>4. ASSUME NEW h \in Attached(bs), NEW k \in 1 .. Len(h)
      PROVE  SubSeq(h, 1, k) \in Attached(bs)
  <2>1. h \in Hash /\ Len(h) \in Nat BY <1>2, <1>3 DEF Hash
  <2> DEFINE g == SubSeq(h, 1, k)
  <2>2. Len(g) = k /\ \A j \in 0 .. k : SubSeq(g, 1, j) = SubSeq(h, 1, j) BY <2>1, Prefix
  <2>3. g \in HashesIn(bs) BY DEF Attached
  <2>4. ASSUME NEW j \in 1 .. Len(g) PROVE SubSeq(g, 1, j) \in HashesIn(bs)
    <3>1. SubSeq(g, 1, j) = SubSeq(h, 1, j) BY <2>1, <2>2
    <3>2. j \in 1 .. Len(h) BY <2>1, <2>2
    <3> HIDE DEF g
    <3> QED BY <3>1, <3>2 DEF Attached
  <2> HIDE DEF g
  <2>5. g \in Attached(bs) BY <2>3, <2>4 DEF Attached
  <2> QED BY <2>5 DEF g
<1> QED BY <1>2, <1>3, <1>4

(***************************************************************************)
(* A signed block of the list is kept exactly when its parent is.          *)
(***************************************************************************)
LEMMA AttachedByParent ==
  ASSUME NEW bs \in Seq(Block), NEW b \in Range(bs), b.signed
  PROVE  GetBlockHash(b) \in Attached(bs) <=> b.parent \in Attached(bs) \cup {GenesisHash}
<1> DEFINE h == GetBlockHash(b)
           p == b.parent
<1>1. b \in Block BY DEF Range
<1>2. /\ h \in Hash /\ p \in Hash /\ Len(h) = Len(p) + 1 /\ SubSeq(h, 1, Len(p)) = p
      /\ Len(p) \in Nat
  BY <1>1, BlockHash DEF Hash
<1>3. h \in HashesIn(bs) BY DEF HashesIn
<1> HIDE DEF h, p
<1>4. \A j \in 0 .. Len(p) : SubSeq(p, 1, j) = SubSeq(h, 1, j) BY <1>2, Prefix
<1>5. ASSUME h \in Attached(bs) PROVE p \in Attached(bs) \cup {GenesisHash}
  <2>1. CASE Len(p) = 0 BY <1>2, <2>1 DEF Hash, GenesisHash
  <2>2. CASE Len(p) # 0
    <3>1. Len(p) \in 1 .. Len(h) BY <1>2, <2>2
    <3>2. SubSeq(h, 1, Len(p)) \in Attached(bs) BY <1>5, <3>1, AttachedClosed
    <3> QED BY <1>2, <3>2
  <2> QED BY <2>1, <2>2
<1>6. ASSUME p \in Attached(bs) \cup {GenesisHash} PROVE h \in Attached(bs)
  <2> SUFFICES ASSUME NEW k \in 1 .. Len(h) PROVE SubSeq(h, 1, k) \in HashesIn(bs)
    BY <1>3 DEF Attached
  <2>1. CASE k = Len(h)
    <3>1. SubSeq(h, 1, Len(h)) = h
      <4>1. Len(h) \in 0 .. Len(h) BY <1>2
      <4> QED BY <1>2, <4>1, Prefix
    <3> QED BY <1>3, <2>1, <3>1
  <2>2. CASE k # Len(h)
    <3>1. k \in 1 .. Len(p) BY <1>2, <2>2
    <3>2. p \in Attached(bs) BY <1>2, <1>6, <3>1 DEF GenesisHash
    <3>3. SubSeq(p, 1, k) \in HashesIn(bs) BY <3>1, <3>2 DEF Attached
    <3>4. k \in 0 .. Len(p) BY <3>1
    <3> QED BY <1>4, <3>3, <3>4
  <2> QED BY <2>1, <2>2
<1> QED BY <1>5, <1>6 DEF h, p

(***************************************************************************)
(* A longer list keeps at least as much.                                   *)
(***************************************************************************)
LEMMA AttachedGrows ==
  ASSUME NEW bs, NEW cs, Range(bs) \subseteq Range(cs)
  PROVE  HashesIn(bs) \subseteq HashesIn(cs) /\ Attached(bs) \subseteq Attached(cs)
BY DEF HashesIn, Attached

(***************************************************************************)
(* The entry of a hash is a signed block of the list with that hash.       *)
(***************************************************************************)
LEMMA DepthsEntry ==
  ASSUME NEW bs \in Seq(Block), NEW h \in Attached(bs)
  PROVE  /\ CalculateDepths(bs)[h] \in Range(bs) /\ CalculateDepths(bs)[h] \in Block
         /\ CalculateDepths(bs)[h].signed /\ GetBlockHash(CalculateDepths(bs)[h]) = h
<1> DEFINE S == {i \in DOMAIN bs : bs[i].signed /\ GetBlockHash(bs[i]) = h}
<1>1. DOMAIN bs = 1 .. Len(bs) /\ Len(bs) \in Nat OBVIOUS
<1>2. S \in SUBSET Nat /\ \A x \in S : x <= Len(bs) BY <1>1
<1>3. S # {}
  <2>1. PICK b \in Range(bs) : b.signed /\ GetBlockHash(b) = h BY DEF Attached, HashesIn
  <2>2. PICK i \in DOMAIN bs : bs[i] = b BY DEF Range
  <2> QED BY <2>1, <2>2
<1>4. CalculateDepths(bs)[h] = bs[Max(S)] BY DEF CalculateDepths
<1>5. Max(S) \in S
  <2> HIDE DEF S
  <2> QED BY <1>1, <1>2, <1>3, MaxOfBounded
<1>6. DOMAIN bs = 1 .. Len(bs) /\ \A i \in DOMAIN bs : bs[i] \in Block OBVIOUS
<1> QED BY <1>4, <1>5, <1>6 DEF Range
(***************************************************************************)
(* When no two blocks share a hash, the branch that leads to a hash is the *)
(* same in every list that keeps it.                                       *)
(***************************************************************************)
LEMMA SameBranch ==
  ASSUME NEW bs \in Seq(Block), NEW cs \in Seq(Block), NEW h,
         h \in Attached(bs) \cup {GenesisHash}, h \in Attached(cs) \cup {GenesisHash},
         \A b \in Range(bs), c \in Range(cs) : GetBlockHash(b) = GetBlockHash(c) => b = c
  PROVE  BlocksTo(CalculateDepths(bs), h) = BlocksTo(CalculateDepths(cs), h)
<1>1. ASSUME NEW i \in 1 .. Len(h)
      PROVE  CalculateDepths(bs)[SubSeq(h, 1, i)] = CalculateDepths(cs)[SubSeq(h, 1, i)]
  <2>1. h \in Attached(bs) /\ h \in Attached(cs) BY DEF GenesisHash
  <2> DEFINE g == SubSeq(h, 1, i)
  <2>2. g \in Attached(bs) /\ g \in Attached(cs) BY <2>1, AttachedClosed
  <2> HIDE DEF g
  <2>3. /\ CalculateDepths(bs)[g] \in Range(bs) /\ GetBlockHash(CalculateDepths(bs)[g]) = g
        /\ CalculateDepths(cs)[g] \in Range(cs) /\ GetBlockHash(CalculateDepths(cs)[g]) = g
    BY <2>2, DepthsEntry
  <2> QED BY <2>3 DEF g
<1> QED BY <1>1 DEF BlocksTo

(***************************************************************************)
(* When no two blocks share a hash, the tree depends on which blocks there *)
(* are and not on their order.                                             *)
(***************************************************************************)
LEMMA SameTree ==
  ASSUME NEW bs \in Seq(Block), NEW cs \in Seq(Block), Range(bs) = Range(cs),
         \A b, c \in Range(bs) : GetBlockHash(b) = GetBlockHash(c) => b = c
  PROVE  CalculateDepths(bs) = CalculateDepths(cs)
<1>1. Attached(bs) = Attached(cs)
  <2>1. Attached(bs) \subseteq Attached(cs) /\ Attached(cs) \subseteq Attached(bs)
    BY AttachedGrows, Zenon
  <2> QED BY <2>1
<1>2. ASSUME NEW h \in Attached(bs) PROVE CalculateDepths(bs)[h] = CalculateDepths(cs)[h]
  <2>1. h \in Attached(cs) BY <1>1
  <2>2. /\ CalculateDepths(bs)[h] \in Range(bs) /\ GetBlockHash(CalculateDepths(bs)[h]) = h
        /\ CalculateDepths(cs)[h] \in Range(cs) /\ GetBlockHash(CalculateDepths(cs)[h]) = h
    BY <2>1, DepthsEntry
  <2> QED BY <2>2
<1>3. /\ CalculateDepths(bs) = [h \in Attached(bs) |-> CalculateDepths(bs)[h]]
      /\ CalculateDepths(cs) = [h \in Attached(cs) |-> CalculateDepths(cs)[h]]
  BY DEF CalculateDepths
<1> QED BY <1>1, <1>2, <1>3

-----------------------------------------------------------------------------
(* The best leaf. *)

(***************************************************************************)
(* What GetLeafHash prefers: the longer branch, and of two equally long    *)
(* ones the smaller hash.                                                  *)
(***************************************************************************)
Beats(h, g) == Len(g) < Len(h) \/ (Len(g) = Len(h) /\ HashBefore(h, g))

(***************************************************************************)
(* The preference is a strict total order.                                 *)
(***************************************************************************)
LEMMA BeatsOrder ==
  ASSUME Ordered(Hash), NEW f \in Hash, NEW g \in Hash, f # g
  PROVE  /\ Beats(f, g) <=> ~Beats(g, f)
         /\ \A h \in Hash : h # g /\ Beats(f, g) /\ Beats(g, h) => Beats(f, h) /\ f # h
<1>1. Len(f) \in Nat /\ Len(g) \in Nat BY DEF Hash
<1>2. Beats(f, g) <=> ~Beats(g, f) BY <1>1 DEF Beats, Ordered
<1>3. ASSUME NEW h \in Hash, h # g, Beats(f, g), Beats(g, h) PROVE Beats(f, h) /\ f # h
  <2>1. Len(h) \in Nat BY DEF Hash
  <2>2. f # h BY <1>2, <1>3
  <2>3. CASE Len(f) = Len(g) /\ Len(g) = Len(h) BY <1>1, <1>3, <2>1, <2>3 DEF Beats, Ordered
  <2>4. CASE ~(Len(f) = Len(g) /\ Len(g) = Len(h)) BY <1>1, <1>3, <2>1, <2>4 DEF Beats
  <2> QED BY <2>2, <2>3, <2>4
<1> QED BY <1>2, <1>3

(***************************************************************************)
(* A hash that the tree knows and that beats all others is the best leaf.  *)
(***************************************************************************)
IsBest(h, H) == h \in H /\ \A g \in H \ {h} : Beats(h, g)

(***************************************************************************)
(* The hashes that calculateDepths knows, genesis included.                *)
(***************************************************************************)
LEMMA KnownHashes ==
  ASSUME NEW bs \in Seq(Block)
  PROVE  /\ Known(CalculateDepths(bs)) = Attached(bs) \cup {GenesisHash}
         /\ Known(CalculateDepths(bs)) \subseteq Hash
<1>1. Known(CalculateDepths(bs)) = Attached(bs) \cup {GenesisHash} BY DEF Known, CalculateDepths
<1>2. GenesisHash \in Hash BY DEF GenesisHash, Hash
<1> QED BY <1>1, <1>2, AttachedClosed

(***************************************************************************)
(* There is a best leaf: by induction on the number of blocks looked at.   *)
(***************************************************************************)
LEMMA BestExists ==
  ASSUME Ordered(Hash), NEW bs \in Seq(Block)
  PROVE  \E h : IsBest(h, Known(CalculateDepths(bs)))
<1> DEFINE Upto(n) == {h \in Attached(bs) : \E i \in 1 .. n : i <= Len(bs) /\ GetBlockHash(bs[i]) = h}
           Top(n) == {GenesisHash} \cup Upto(n)
           S == {n \in Nat : \E h : IsBest(h, Top(n))}
<1>1. \A n \in Nat : Top(n) \subseteq Hash
  <2>1. GenesisHash \in Hash BY DEF GenesisHash, Hash
  <2>2. Attached(bs) \subseteq Hash BY AttachedClosed
  <2> QED BY <2>1, <2>2
<1>2. 0 \in S
  <2>1. Top(0) = {GenesisHash} OBVIOUS
  <2>2. IsBest(GenesisHash, {GenesisHash}) BY DEF IsBest
  <2> QED BY <2>1, <2>2
<1>3. ASSUME NEW n \in S PROVE n + 1 \in S
  <2>1. PICK h : IsBest(h, Top(n)) OBVIOUS
  <2> DEFINE x == GetBlockHash(bs[n + 1])
  <2>2. Top(n + 1) = Top(n) \/ Top(n + 1) = Top(n) \cup {x}
    <3>1. \A i \in Nat : i \in 1 .. (n + 1) <=> i \in 1 .. n \/ i = n + 1 OBVIOUS
    <3>2. CASE n + 1 <= Len(bs) /\ x \in Attached(bs) BY <3>1, <3>2
    <3>3. CASE ~(n + 1 <= Len(bs) /\ x \in Attached(bs)) BY <3>1, <3>3
    <3> QED BY <3>2, <3>3
  <2>3. Top(n) \subseteq Hash /\ Top(n + 1) \subseteq Hash BY <1>1
  <2> HIDE DEF Top, x
  <2>4. CASE Top(n + 1) = Top(n) BY <2>1, <2>4
  <2>5. CASE Top(n + 1) = Top(n) \cup {x}
    <3>1. x \in Hash /\ h \in Hash BY <2>1, <2>3, <2>5 DEF IsBest
    <3>2. CASE x = h BY <2>1, <2>5, <3>2 DEF IsBest
    <3>3. CASE x # h /\ Beats(h, x) BY <2>1, <2>5, <3>3 DEF IsBest
    <3>4. CASE x # h /\ ~Beats(h, x)
      <4>1. Beats(x, h) BY <3>1, <3>4, BeatsOrder
      <4>2. ASSUME NEW g \in Top(n + 1) \ {x} PROVE Beats(x, g)
        <5>1. g \in Top(n) /\ g \in Hash BY <2>3, <2>5
        <5>2. g = h \/ (g # h /\ Beats(h, g)) BY <2>1, <5>1 DEF IsBest
        <5> QED BY <3>1, <3>4, <4>1, <5>1, <5>2, BeatsOrder
      <4>3. IsBest(x, Top(n + 1)) BY <2>5, <4>2 DEF IsBest
      <4> QED BY <4>3
    <3> QED BY <3>2, <3>3, <3>4
  <2> QED BY <2>2, <2>4, <2>5
<1>4. S \in SUBSET Nat OBVIOUS
<1>5. Top(Len(bs)) = Known(CalculateDepths(bs))
  <2>1. ASSUME NEW h \in Attached(bs) PROVE h \in Upto(Len(bs))
    <3>1. PICK b \in Range(bs) : GetBlockHash(b) = h BY DEF Attached, HashesIn
    <3>2. PICK i \in 1 .. Len(bs) : bs[i] = b BY DEF Range
    <3> QED BY <3>1, <3>2
  <2> QED BY <2>1, KnownHashes
<1>6. Len(bs) \in S
  <2> HIDE DEF S
  <2>1. \A n \in Nat : n \in S BY <1>2, <1>3, <1>4, Induction
  <2> QED BY <2>1
<1> QED BY <1>5, <1>6

(***************************************************************************)
(* GetLeafHash finds it, and it is the only one.                           *)
(***************************************************************************)
LEMMA BestLeaf ==
  ASSUME Ordered(Hash), NEW bs \in Seq(Block)
  PROVE  /\ IsBest(BestLeafHash(bs), Known(CalculateDepths(bs)))
         /\ BestLeafHash(bs) \in Hash
         /\ BestLeafHash(bs) \in Attached(bs) \cup {GenesisHash}
         /\ \A h : IsBest(h, Known(CalculateDepths(bs))) => h = BestLeafHash(bs)
<1> DEFINE K == Known(CalculateDepths(bs))
           t == BestLeafHash(bs)
<1>1. PICK h : IsBest(h, K) BY BestExists
<1>2. t = CHOOSE x \in K : \A g \in K \ {x} : Beats(x, g) BY DEF BestLeafHash, GetLeafHash, Beats
<1>3. K \subseteq Hash /\ K = Attached(bs) \cup {GenesisHash} BY KnownHashes
<1> HIDE DEF K, t
<1>4. IsBest(t, K) BY <1>1, <1>2 DEF IsBest
<1>5. ASSUME NEW x, IsBest(x, K) PROVE x = t
  <2> SUFFICES ASSUME x # t PROVE FALSE OBVIOUS
  <2>1. Beats(x, t) /\ Beats(t, x) /\ x \in Hash /\ t \in Hash BY <1>3, <1>4, <1>5 DEF IsBest
  <2> QED BY <2>1, BeatsOrder
<1>6. t \in K BY <1>4 DEF IsBest
<1> QED BY <1>3, <1>4, <1>5, <1>6 DEF K, t

(***************************************************************************)
(* When the tree grows, the tip stays or moves to a better leaf.           *)
(***************************************************************************)
LEMMA TipImproves ==
  ASSUME Ordered(Hash), NEW bs \in Seq(Block), NEW cs \in Seq(Block), Range(bs) \subseteq Range(cs)
  PROVE  BestLeafHash(cs) # BestLeafHash(bs) => Beats(BestLeafHash(cs), BestLeafHash(bs))
<1>1. BestLeafHash(bs) \in Known(CalculateDepths(cs)) BY BestLeaf, KnownHashes, AttachedGrows
<1> QED BY <1>1, BestLeaf DEF IsBest
-----------------------------------------------------------------------------
(* Branches. *)

Signed == {b \in Block : b.signed}

(***************************************************************************)
(* A branch starts on genesis, and every block stands on the one before;   *)
(* End is the hash it leads to.                                            *)
(***************************************************************************)
Follows(p, i) == p[i].parent = IF i = 1 THEN GenesisHash ELSE GetBlockHash(p[i - 1])

Path(p) == \A i \in 1 .. Len(p) : Follows(p, i)

End(p) == IF p = << >> THEN GenesisHash ELSE GetBlockHash(p[Len(p)])

(***************************************************************************)
(* Every block stands on genesis or on an earlier block of the list.       *)
(***************************************************************************)
Rooted(bs) ==
  \A i \in 1 .. Len(bs) :
    bs[i].parent = GenesisHash \/ \E j \in 1 .. (i - 1) : GetBlockHash(bs[j]) = bs[i].parent

(***************************************************************************)
(* A block is as high as its place in the branch.                          *)
(***************************************************************************)
LEMMA PathHeights ==
  ASSUME NEW p \in Seq(Block), Path(p)
  PROVE  \A i \in 1 .. Len(p) : Len(GetBlockHash(p[i])) = i
<1> DEFINE S == {i \in 1 .. Len(p) : Len(GetBlockHash(p[i])) # i}
<1> SUFFICES ASSUME S # {} PROVE FALSE OBVIOUS
<1>1. S \in SUBSET Nat OBVIOUS
<1>2. PICK x \in S : \A y \in S : x <= y
  <2> HIDE DEF S
  <2> QED BY <1>1, LeastNatural
<1>3. x \in 1 .. Len(p) /\ Len(p) \in Nat /\ p[x] \in Block OBVIOUS
<1>4. Len(GetBlockHash(p[x])) = Len(p[x].parent) + 1 BY <1>3, BlockHash
<1>5. CASE x = 1
  <2>1. p[1].parent = << >> /\ Len(<< >>) = 0 BY <1>3, <1>5 DEF Path, Follows, GenesisHash
  <2>2. Len(GetBlockHash(p[x])) = x BY <1>4, <1>5, <2>1
  <2> QED BY <2>2
<1>6. CASE x # 1
  <2>1. x - 1 \in 1 .. Len(p) /\ x - 1 \notin S BY <1>2, <1>3, <1>6
  <2>2. Len(GetBlockHash(p[x - 1])) = x - 1 BY <2>1
  <2>3. p[x].parent = GetBlockHash(p[x - 1]) BY <1>3, <1>6 DEF Path, Follows
  <2>4. Len(GetBlockHash(p[x])) = x BY <1>3, <1>4, <2>2, <2>3
  <2> QED BY <2>4
<1> QED BY <1>5, <1>6

(***************************************************************************)
(* Every block of a branch stands on an earlier one.                       *)
(***************************************************************************)
LEMMA PathRooted ==
  ASSUME NEW p \in Seq(Block), Path(p) PROVE Rooted(p)
<1> SUFFICES ASSUME NEW i \in 1 .. Len(p)
             PROVE  p[i].parent = GenesisHash \/ \E j \in 1 .. (i - 1) : GetBlockHash(p[j]) = p[i].parent
  BY DEF Rooted
<1>1. CASE i = 1 BY <1>1 DEF Path, Follows
<1>2. CASE i # 1
  <2>1. i - 1 \in 1 .. (i - 1) BY <1>2
  <2>2. p[i].parent = GetBlockHash(p[i - 1]) BY <1>2 DEF Path, Follows
  <2> QED BY <2>1, <2>2
<1> QED BY <1>1, <1>2

(***************************************************************************)
(* calculateDepths keeps all of a list that holds parents before children. *)
(***************************************************************************)
LEMMA RootedAttached ==
  ASSUME NEW bs \in Seq(Block), Rooted(bs), \A i \in 1 .. Len(bs) : bs[i].signed
  PROVE  \A i \in 1 .. Len(bs) : GetBlockHash(bs[i]) \in Attached(bs)
<1> DEFINE S == {i \in 1 .. Len(bs) : GetBlockHash(bs[i]) \notin Attached(bs)}
<1> SUFFICES ASSUME S # {} PROVE FALSE OBVIOUS
<1>1. S \in SUBSET Nat OBVIOUS
<1>2. PICK x \in S : \A y \in S : x <= y
  <2> HIDE DEF S
  <2> QED BY <1>1, LeastNatural
<1>3. x \in 1 .. Len(bs) /\ Len(bs) \in Nat /\ bs[x] \in Range(bs) /\ bs[x].signed BY DEF Range
<1>4. bs[x].parent \in Attached(bs) \cup {GenesisHash}
  <2>1. CASE bs[x].parent = GenesisHash BY <2>1
  <2>2. ASSUME NEW j \in 1 .. (x - 1), GetBlockHash(bs[j]) = bs[x].parent
        PROVE  bs[x].parent \in Attached(bs)
    <3>1. j \in 1 .. Len(bs) /\ j \notin S BY <1>2, <1>3
    <3> QED BY <2>2, <3>1
  <2> QED BY <1>3, <2>1, <2>2 DEF Rooted
<1>5. GetBlockHash(bs[x]) \in Attached(bs) BY <1>3, <1>4, AttachedByParent
<1> QED BY <1>5

(***************************************************************************)
(* The tip of a list that is one branch is the end of the branch.          *)
(***************************************************************************)
LEMMA PathBest ==
  ASSUME Ordered(Hash), NEW p \in Seq(Signed), Path(p)
  PROVE  BestLeafHash(p) = End(p) /\ Len(End(p)) = Len(p)
<1>1. p \in Seq(Block) /\ \A i \in 1 .. Len(p) : p[i].signed BY DEF Signed
<1>2. Len(p) \in Nat /\ (Len(p) = 0 <=> p = << >>) OBVIOUS
<1>3. \A i \in 1 .. Len(p) : Len(GetBlockHash(p[i])) = i BY <1>1, PathHeights
<1>4. \A i \in 1 .. Len(p) : GetBlockHash(p[i]) \in Attached(p) BY <1>1, PathRooted, RootedAttached
<1>5. Len(End(p)) = Len(p) BY <1>2, <1>3 DEF End, GenesisHash
<1>6. End(p) \in Attached(p) \cup {GenesisHash} BY <1>2, <1>4 DEF End
<1>7. ASSUME NEW g \in Attached(p) \cup {GenesisHash}, g # End(p) PROVE Beats(End(p), g)
  <2>1. CASE g = GenesisHash
    <3>1. p # << >> BY <1>7, <2>1 DEF End
    <3>2. Len(g) = 0 BY <2>1 DEF GenesisHash
    <3> QED BY <1>2, <1>5, <3>1, <3>2 DEF Beats
  <2>2. CASE g \in Attached(p)
    <3>1. PICK b \in Range(p) : GetBlockHash(b) = g BY <2>2 DEF Attached, HashesIn
    <3>2. PICK i \in 1 .. Len(p) : p[i] = b BY <1>1 DEF Range
    <3>3. i # Len(p) BY <1>2, <1>7, <3>1, <3>2 DEF End
    <3>4. Len(g) = i BY <1>3, <3>1, <3>2
    <3>5. Len(g) < Len(p) BY <1>2, <3>2, <3>3, <3>4
    <3> QED BY <1>5, <3>5 DEF Beats
  <2> QED BY <1>7, <2>1, <2>2
<1>8. Known(CalculateDepths(p)) = Attached(p) \cup {GenesisHash} BY <1>1, KnownHashes
<1>9. IsBest(End(p), Known(CalculateDepths(p))) BY <1>6, <1>7, <1>8 DEF IsBest
<1>10. End(p) = BestLeafHash(p) BY <1>1, <1>9, BestLeaf
<1> QED BY <1>5, <1>10
(***************************************************************************)
(* The branch that leads to a hash.                                        *)
(***************************************************************************)
LEMMA BranchPath ==
  ASSUME NEW bs \in Seq(Block), NEW h \in Attached(bs) \cup {GenesisHash}
  PROVE  /\ BlocksTo(CalculateDepths(bs), h) \in Seq(Block)
         /\ Len(BlocksTo(CalculateDepths(bs), h)) = Len(h)
         /\ \A i \in 1 .. Len(h) :
              /\ BlocksTo(CalculateDepths(bs), h)[i] \in Range(bs)
              /\ BlocksTo(CalculateDepths(bs), h)[i].signed
              /\ GetBlockHash(BlocksTo(CalculateDepths(bs), h)[i]) = SubSeq(h, 1, i)
         /\ Path(BlocksTo(CalculateDepths(bs), h))
         /\ End(BlocksTo(CalculateDepths(bs), h)) = h
<1> DEFINE d == CalculateDepths(bs)
           p == BlocksTo(d, h)
<1>1. h \in Hash /\ Len(h) \in Nat /\ (h = << >> <=> Len(h) = 0)
  <2>1. GenesisHash \in Hash BY DEF GenesisHash, Hash
  <2>2. h \in Hash BY <2>1, AttachedClosed
  <2> QED BY <2>2 DEF Hash
<1>2. ASSUME NEW i \in 1 .. Len(h)
      PROVE  /\ p[i] \in Range(bs) /\ p[i] \in Block /\ p[i].signed
             /\ GetBlockHash(p[i]) = SubSeq(h, 1, i)
  <2>1. h \in Attached(bs) BY <1>1 DEF GenesisHash
  <2>2. SubSeq(h, 1, i) \in Attached(bs) BY <2>1, AttachedClosed
  <2>3. p[i] = d[SubSeq(h, 1, i)] BY DEF BlocksTo
  <2> HIDE DEF p
  <2> QED BY <2>2, <2>3, DepthsEntry
<1>3. p = [i \in 1 .. Len(h) |-> p[i]] BY DEF BlocksTo
<1> HIDE DEF p
<1>4. p \in Seq(Block) /\ Len(p) = Len(h)
  <2>1. p \in [1 .. Len(h) -> Block] BY <1>2, <1>3
  <2> QED BY <1>1, <2>1
<1>5. ASSUME NEW i \in 1 .. Len(p) PROVE Follows(p, i)
  <2>1. p[i] \in Block /\ GetBlockHash(p[i]) = SubSeq(h, 1, i) BY <1>2, <1>4
  <2>2. i \in 0 .. Len(h) /\ i - 1 \in 0 .. i /\ i - 1 \in 0 .. Len(h) BY <1>1, <1>4
  <2>3. Len(SubSeq(h, 1, i)) = i /\ SubSeq(SubSeq(h, 1, i), 1, i - 1) = SubSeq(h, 1, i - 1)
    BY <1>1, <2>2, Prefix
  <2>4. Len(p[i].parent) + 1 = i /\ Len(p[i].parent) \in Nat
    BY <2>1, <2>3, BlockHash DEF Hash
  <2>5. Len(p[i].parent) = i - 1 BY <2>4
  <2>6. p[i].parent = SubSeq(h, 1, i - 1) BY <2>1, <2>3, <2>5, BlockHash
  <2>7. CASE i = 1
    <3>1. SubSeq(h, 1, 0) = GenesisHash BY <1>1, <2>2, <2>7, Prefix
    <3> QED BY <2>6, <2>7, <3>1 DEF Follows
  <2>8. CASE i # 1
    <3>1. i - 1 \in 1 .. Len(h) BY <1>4, <2>8
    <3>2. GetBlockHash(p[i - 1]) = SubSeq(h, 1, i - 1) BY <1>2, <3>1
    <3> QED BY <2>6, <2>8, <3>2 DEF Follows
  <2> QED BY <2>7, <2>8
<1>6. Path(p) BY <1>5 DEF Path
<1>7. End(p) = h
  <2>1. CASE h = << >> BY <1>1, <1>4, <2>1 DEF End, GenesisHash
  <2>2. CASE h # << >>
    <3>1. Len(h) \in 1 .. Len(h) /\ Len(h) \in 0 .. Len(h) BY <1>1, <2>2
    <3>2. GetBlockHash(p[Len(h)]) = SubSeq(h, 1, Len(h)) BY <1>2, <3>1
    <3>3. SubSeq(h, 1, Len(h)) = h BY <1>1, <3>1, Prefix
    <3>4. p # << >> BY <1>4, <3>1
    <3> QED BY <1>4, <3>2, <3>3, <3>4 DEF End
  <2> QED BY <2>1, <2>2
<1> QED BY <1>2, <1>4, <1>6, <1>7 DEF p

(***************************************************************************)
(* The best branch: it leads to the tip, and its blocks are in the list.   *)
(***************************************************************************)
LEMMA CanonicalPath ==
  ASSUME Ordered(Hash), NEW W \in SUBSET Block, NEW bs \in Seq(W)
  PROVE  /\ CanonicalBlocks(bs, 0) \in Seq(W) /\ CanonicalBlocks(bs, 0) \in Seq(Signed)
         /\ Path(CanonicalBlocks(bs, 0))
         /\ End(CanonicalBlocks(bs, 0)) = BestLeafHash(bs)
         /\ Len(CanonicalBlocks(bs, 0)) = BestHeight(bs)
<1> DEFINE h == BestLeafHash(bs)
           p == CanonicalBlocks(bs, 0)
<1>1. bs \in Seq(Block) /\ Range(bs) \subseteq W BY DEF Range
<1>2. h \in Hash /\ h \in Attached(bs) \cup {GenesisHash} BY <1>1, BestLeaf
<1>3. p = BlocksTo(CalculateDepths(bs), h)
  <2>1. Len(h) \in Nat BY <1>2 DEF Hash
  <2>2. Len(h) - 0 = Len(h) /\ Len(h) \in 0 .. Len(h) BY <2>1
  <2>3. SubSeq(h, 1, Len(h)) = h BY <1>2, <2>2, Prefix
  <2>4. SubSeq(h, 1, Len(h) - 0) = h BY <2>2, <2>3
  <2> QED BY <2>4 DEF CanonicalBlocks, BestLeafHash
<1> HIDE DEF h
<1>4. /\ p \in Seq(Block) /\ Len(p) = Len(h) /\ Path(p) /\ End(p) = h
      /\ \A i \in 1 .. Len(h) : p[i] \in Range(bs) /\ p[i].signed
  BY <1>1, <1>2, <1>3, BranchPath
<1> HIDE DEF p
<1>5. \A i \in 1 .. Len(p) : p[i] \in W /\ p[i] \in Signed BY <1>1, <1>4 DEF Signed
<1>6. p \in Seq(W) /\ p \in Seq(Signed) BY <1>4, <1>5
<1> QED BY <1>4, <1>6 DEF p, h, BestHeight
-----------------------------------------------------------------------------
(* Chain synchronisation. *)

(***************************************************************************)
(* The common block of a local branch and a remote list stands in the      *)
(* local branch at its own height.                                         *)
(***************************************************************************)
LEMMA CommonBlock ==
  ASSUME NEW local \in Seq(Block), Path(local), NEW remote \in Seq(Block),
         CommonIndex(local, remote) # 0
  PROVE  /\ CommonIndex(local, remote) \in 1 .. Len(remote)
         /\ Len(GetBlockHash(remote[CommonIndex(local, remote)])) \in 1 .. Len(local)
         /\ GetBlockHash(local[Len(GetBlockHash(remote[CommonIndex(local, remote)]))])
              = GetBlockHash(remote[CommonIndex(local, remote)])
<1> DEFINE S == {i \in DOMAIN remote : \E b \in Range(local) : GetBlockHash(b) = GetBlockHash(remote[i])}
           c == CommonIndex(local, remote)
<1>1. DOMAIN remote = 1 .. Len(remote) /\ Len(remote) \in Nat OBVIOUS
<1>2. {0} \cup S \in SUBSET Nat /\ \A x \in {0} \cup S : x <= Len(remote) BY <1>1
<1>3. c = Max({0} \cup S) BY DEF CommonIndex
<1>4. c \in {0} \cup S
  <2> HIDE DEF S
  <2> QED BY <1>1, <1>2, <1>3, MaxOfBounded
<1>5. c \in S BY <1>4
<1>6. PICK b \in Range(local) : GetBlockHash(b) = GetBlockHash(remote[c]) BY <1>5
<1>7. PICK j \in 1 .. Len(local) : local[j] = b BY DEF Range
<1>8. Len(GetBlockHash(local[j])) = j BY PathHeights
<1> HIDE DEF S
<1> QED BY <1>1, <1>5, <1>6, <1>7, <1>8 DEF S

(***************************************************************************)
(* A branch that is continued by a list that hangs together is a branch.   *)
(***************************************************************************)
LEMMA Continued ==
  ASSUME NEW W \in SUBSET Block, NEW p \in Seq(W), NEW q \in Seq(W), Path(p),
         \A i \in 2 .. Len(q) : q[i].parent = GetBlockHash(q[i - 1]),
         q # << >> => q[1].parent = End(p)
  PROVE  /\ p \o q \in Seq(W) /\ Path(p \o q) /\ Len(p \o q) = Len(p) + Len(q)
         /\ q # << >> => End(p \o q) = GetBlockHash(q[Len(q)])
<1> DEFINE s == p \o q
<1>1. Len(p) \in Nat /\ Len(q) \in Nat OBVIOUS
<1>2. s \in Seq(W) /\ Len(s) = Len(p) + Len(q) OBVIOUS
<1>3. /\ \A i \in 1 .. Len(p) : s[i] = p[i]
      /\ \A i \in 1 .. Len(q) : s[Len(p) + i] = q[i]
  OBVIOUS
<1> HIDE DEF s
<1>4. ASSUME NEW i \in 1 .. Len(s) PROVE Follows(s, i)
  <2>1. CASE i <= Len(p)
    <3>1. i \in 1 .. Len(p) /\ (i # 1 => i - 1 \in 1 .. Len(p)) BY <1>1, <2>1
    <3>2. Follows(p, i) BY <3>1 DEF Path
    <3> QED BY <1>3, <3>1, <3>2 DEF Follows
  <2>2. CASE i = Len(p) + 1
    <3>1. q # << >> /\ 1 \in 1 .. Len(q) BY <1>1, <1>2, <2>2
    <3>2. s[i].parent = End(p) BY <1>3, <2>2, <3>1
    <3>3. CASE p = << >> BY <1>1, <2>2, <3>2, <3>3 DEF End, Follows
    <3>4. CASE p # << >>
      <4>1. i # 1 /\ i - 1 = Len(p) /\ Len(p) \in 1 .. Len(p) BY <1>1, <2>2, <3>4
      <4> QED BY <1>3, <3>2, <3>4, <4>1 DEF End, Follows
    <3> QED BY <3>3, <3>4
  <2>3. CASE i > Len(p) + 1
    <3> DEFINE j == i - Len(p)
    <3>1. /\ j \in 2 .. Len(q) /\ j \in 1 .. Len(q) /\ j - 1 \in 1 .. Len(q) /\ i # 1
          /\ i = Len(p) + j /\ i - 1 = Len(p) + (j - 1)
      BY <1>1, <1>2, <2>3
    <3> HIDE DEF j
    <3>2. s[i] = q[j] /\ s[i - 1] = q[j - 1] BY <1>3, <3>1
    <3> QED BY <3>1, <3>2 DEF Follows
  <2> QED BY <1>1, <1>2, <2>1, <2>2, <2>3
<1>5. Path(s) BY <1>4 DEF Path
<1>6. ASSUME q # << >> PROVE End(s) = GetBlockHash(q[Len(q)])
  <2>1. Len(q) \in 1 .. Len(q) /\ s # << >> BY <1>1, <1>2, <1>6
  <2> QED BY <1>2, <1>3, <2>1 DEF End
<1> QED BY <1>2, <1>5, <1>6 DEF s

(***************************************************************************)
(* The first blocks of a branch are a branch.                              *)
(***************************************************************************)
LEMMA PathFront ==
  ASSUME NEW W \in SUBSET Block, NEW p \in Seq(W), Path(p), NEW k \in 1 .. Len(p)
  PROVE  /\ SubSeq(p, 1, k) \in Seq(W) /\ Len(SubSeq(p, 1, k)) = k
         /\ Path(SubSeq(p, 1, k)) /\ End(SubSeq(p, 1, k)) = GetBlockHash(p[k])
<1> DEFINE s == SubSeq(p, 1, k)
<1>1. s \in Seq(W) /\ Len(s) = k /\ \A i \in 1 .. k : s[i] = p[i] OBVIOUS
<1> HIDE DEF s
<1>2. ASSUME NEW i \in 1 .. Len(s) PROVE Follows(s, i)
  <2>1. i \in 1 .. k /\ i \in 1 .. Len(p) /\ (i # 1 => i - 1 \in 1 .. k) BY <1>1
  <2>2. Follows(p, i) BY <2>1 DEF Path
  <2> QED BY <1>1, <2>1, <2>2 DEF Follows
<1>3. s # << >> BY <1>1
<1> QED BY <1>1, <1>2, <1>3 DEF Path, End, s

(***************************************************************************)
(* Splicing a local branch and a remote list at their common block gives a *)
(* branch that ends where the remote list does.                            *)
(***************************************************************************)
LEMMA SplicedPath ==
  ASSUME NEW W \in SUBSET Block, NEW local \in Seq(W), Path(local), NEW remote \in Seq(W),
         Contiguous(remote), CommonIndex(local, remote) # 0
  PROVE  /\ Spliced(local, remote) \in Seq(W) /\ Path(Spliced(local, remote))
         /\ Len(Spliced(local, remote))
              = Len(GetBlockHash(remote[CommonIndex(local, remote)]))
                  + (Len(remote) - CommonIndex(local, remote))
         /\ End(Spliced(local, remote)) = GetBlockHash(remote[Len(remote)])
<1> DEFINE c == CommonIndex(local, remote)
           k == Len(GetBlockHash(remote[c]))
           p == SubSeq(local, 1, k)
           q == SubSeq(remote, c + 1, Len(remote))
<1>1. local \in Seq(Block) /\ remote \in Seq(Block) /\ Len(remote) \in Nat OBVIOUS
<1>2. c \in 1 .. Len(remote) /\ k \in 1 .. Len(local) /\ GetBlockHash(local[k]) = GetBlockHash(remote[c])
  BY <1>1, CommonBlock
<1>3. Spliced(local, remote) = p \o q BY DEF Spliced
<1> HIDE DEF c, k
<1>4. p \in Seq(W) /\ Len(p) = k /\ Path(p) /\ End(p) = GetBlockHash(remote[c])
  BY <1>2, PathFront
<1>5. /\ q \in Seq(W) /\ Len(q) = Len(remote) - c
      /\ \A i \in 1 .. Len(q) : q[i] = remote[c + i]
  BY <1>2
<1> HIDE DEF p, q
<1>6. ASSUME NEW i \in 2 .. Len(q) PROVE q[i].parent = GetBlockHash(q[i - 1])
  <2>1. i \in 1 .. Len(q) /\ i - 1 \in 1 .. Len(q) /\ c + i \in 2 .. Len(remote) BY <1>1, <1>2, <1>5
  <2>2. q[i] = remote[c + i] /\ q[i - 1] = remote[c + (i - 1)] BY <1>5, <2>1
  <2>3. c + (i - 1) = (c + i) - 1 BY <1>2
  <2> QED BY <2>1, <2>2, <2>3 DEF Contiguous
<1>7. ASSUME q # << >> PROVE q[1].parent = End(p)
  <2>1. 1 \in 1 .. Len(q) /\ c + 1 \in 2 .. Len(remote) /\ (c + 1) - 1 = c BY <1>1, <1>2, <1>5, <1>7
  <2>2. q[1] = remote[c + 1] BY <1>5, <2>1
  <2>3. remote[c + 1].parent = GetBlockHash(remote[(c + 1) - 1]) BY <2>1 DEF Contiguous
  <2> QED BY <1>4, <2>1, <2>2, <2>3
<1>8. /\ p \o q \in Seq(W) /\ Path(p \o q) /\ Len(p \o q) = k + (Len(remote) - c)
      /\ q # << >> => End(p \o q) = GetBlockHash(q[Len(q)])
  BY <1>4, <1>5, <1>6, <1>7, Continued
<1>9. End(p \o q) = GetBlockHash(remote[Len(remote)])
  <2>1. CASE q = << >>
    <3>1. c = Len(remote) BY <1>1, <1>2, <1>5, <2>1
    <3>2. p \o q = p BY <1>4, <2>1
    <3> QED BY <1>4, <3>1, <3>2
  <2>2. CASE q # << >>
    <3>1. Len(q) \in 1 .. Len(q) /\ c + Len(q) = Len(remote) BY <1>1, <1>2, <1>5, <2>2
    <3> QED BY <1>5, <1>8, <2>2, <3>1
  <2> QED BY <2>1, <2>2
<1> QED BY <1>3, <1>8, <1>9 DEF c, k
(***************************************************************************)
(* What an installer puts in place of the block list is one branch, made   *)
(* of local and received blocks, that ends where the reply does and is     *)
(* longer than the local one.                                              *)
(***************************************************************************)
LEMMA ReplacementPath ==
  ASSUME Ordered(Hash), NEW W \in SUBSET Block, NEW bs \in Seq(W), NEW r, r.blocks \in Seq(W),
         r.blocks # << >>, NEW how, CanInstall(how, bs, r)
  PROVE  /\ Replacement(how, bs, r) \in Seq(W) /\ Path(Replacement(how, bs, r))
         /\ Len(Replacement(how, bs, r)) > BestHeight(bs)
         /\ End(Replacement(how, bs, r)) = GetBlockHash(r.blocks[Len(r.blocks)])
<1> DEFINE local == CanonicalBlocks(bs, 0)
           remote == r.blocks
<1>1. /\ local \in Seq(W) /\ Path(local) /\ End(local) = BestLeafHash(bs)
      /\ Len(local) = BestHeight(bs)
  BY CanonicalPath
<1>2. remote \in Seq(W) /\ remote # << >> /\ Len(remote) \in Nat /\ Len(remote) # 0 OBVIOUS
<1>3. \/ how = "full" /\ CanInstallFull(local, remote)
      \/ how = "suffix" /\ FollowsTip(bs, remote) /\ Contiguous(remote)
      \/ how = "overlap" /\ CanInstallOverlap(local, remote)
  BY DEF CanInstall
<1>4. Replacement(how, bs, r) = IF how = "suffix" THEN local \o remote ELSE Spliced(local, remote)
  BY DEF Replacement
<1> HIDE DEF local, remote
<1>5. CASE how = "suffix" /\ FollowsTip(bs, remote) /\ Contiguous(remote)
  <2>1. /\ local \o remote \in Seq(W) /\ Path(local \o remote)
        /\ Len(local \o remote) = Len(local) + Len(remote)
        /\ End(local \o remote) = GetBlockHash(remote[Len(remote)])
    BY <1>1, <1>2, <1>5, Continued DEF FollowsTip, Contiguous
  <2>2. Len(local) \in Nat BY <1>1
  <2>3. Len(local \o remote) > BestHeight(bs) BY <1>1, <1>2, <2>1, <2>2
  <2> QED BY <1>4, <1>5, <2>1, <2>3 DEF remote
<1>6. CASE how = "full" /\ CanInstallFull(local, remote)
  <2> DEFINE c == CommonIndex(local, remote)
  <2>1. /\ Len(remote) > Len(local) /\ c > 0 /\ remote[1].parent = GenesisHash /\ Contiguous(remote)
    BY <1>6 DEF CanInstallFull
  <2>2. c # 0 BY <2>1
  <2>3. c \in 1 .. Len(remote) BY <1>1, <1>2, <2>2, CommonBlock
  <2>4. Path(remote)
    <3>1. ASSUME NEW i \in 1 .. Len(remote) PROVE Follows(remote, i)
      <4>1. CASE i = 1 BY <2>1, <4>1 DEF Follows
      <4>2. CASE i # 1
        <5>1. i \in 2 .. Len(remote) BY <4>2
        <5> QED BY <2>1, <4>2, <5>1 DEF Follows, Contiguous
      <4> QED BY <4>1, <4>2
    <3> QED BY <3>1 DEF Path
  <2>5. Len(GetBlockHash(remote[c])) = c BY <1>2, <2>3, <2>4, PathHeights
  <2>6. /\ Spliced(local, remote) \in Seq(W) /\ Path(Spliced(local, remote))
        /\ Len(Spliced(local, remote)) = Len(GetBlockHash(remote[c])) + (Len(remote) - c)
        /\ End(Spliced(local, remote)) = GetBlockHash(remote[Len(remote)])
    BY <1>1, <1>2, <2>1, <2>2, SplicedPath
  <2>7. Len(local) \in Nat BY <1>1
  <2> HIDE DEF c
  <2>8. Len(Spliced(local, remote)) > BestHeight(bs) BY <1>1, <1>2, <2>1, <2>3, <2>5, <2>6, <2>7
  <2> QED BY <1>4, <1>6, <2>6, <2>8 DEF remote
<1>7. CASE how = "overlap" /\ CanInstallOverlap(local, remote)
  <2>1. /\ Contiguous(remote) /\ CommonIndex(local, remote) # 0
        /\ Len(Spliced(local, remote)) > Len(local)
    BY <1>7 DEF CanInstallOverlap
  <2>2. /\ Spliced(local, remote) \in Seq(W) /\ Path(Spliced(local, remote))
        /\ End(Spliced(local, remote)) = GetBlockHash(remote[Len(remote)])
    BY <1>1, <1>2, <2>1, SplicedPath
  <2> QED BY <1>1, <1>4, <1>7, <2>1, <2>2 DEF remote
<1> QED BY <1>3, <1>5, <1>6, <1>7

-----------------------------------------------------------------------------
(* AddBlock. *)

(***************************************************************************)
(* An accepted block stands behind its parent, and the tip moves to it     *)
(* exactly when the fork choice prefers it.                                *)
(***************************************************************************)
LEMMA AcceptedBlock ==
  ASSUME Ordered(Hash), NEW bs \in Seq(Signed), Rooted(bs), NEW b \in Signed,
         b.parent \in Known(CalculateDepths(bs))
  PROVE  /\ Append(bs, b) \in Seq(Signed) /\ Rooted(Append(bs, b))
         /\ BestLeafHash(Append(bs, b)) =
              IF GetBlockHash(b) # BestLeafHash(bs) /\ Beats(GetBlockHash(b), BestLeafHash(bs))
              THEN GetBlockHash(b) ELSE BestLeafHash(bs)
<1> DEFINE cs == Append(bs, b)
           h == GetBlockHash(b)
           t == BestLeafHash(bs)
<1>1. /\ bs \in Seq(Block) /\ b \in Block /\ Len(bs) \in Nat
      /\ \A i \in 1 .. Len(bs) : bs[i].signed
  BY DEF Signed
<1>2. /\ cs \in Seq(Signed) /\ Len(cs) = Len(bs) + 1 /\ cs[Len(bs) + 1] = b
      /\ \A i \in 1 .. Len(bs) : cs[i] = bs[i]
  OBVIOUS
<1>3. cs \in Seq(Block) /\ \A i \in 1 .. Len(cs) : cs[i].signed BY <1>2 DEF Signed
<1> HIDE DEF cs
<1>4. b.parent = GenesisHash \/ \E j \in 1 .. Len(bs) : GetBlockHash(bs[j]) = b.parent
  <2> SUFFICES ASSUME b.parent # GenesisHash
               PROVE  \E j \in 1 .. Len(bs) : GetBlockHash(bs[j]) = b.parent
    OBVIOUS
  <2>1. b.parent \in HashesIn(bs) BY <1>1, KnownHashes, AttachedClosed
  <2>2. PICK c \in Range(bs) : GetBlockHash(c) = b.parent BY <2>1 DEF HashesIn
  <2> QED BY <1>1, <2>2 DEF Range
<1>5. Rooted(cs)
  <2> SUFFICES ASSUME NEW i \in 1 .. Len(cs)
               PROVE  \/ cs[i].parent = GenesisHash
                      \/ \E j \in 1 .. (i - 1) : GetBlockHash(cs[j]) = cs[i].parent
    BY DEF Rooted
  <2>1. CASE i = Len(bs) + 1
    <3>1. i - 1 = Len(bs) BY <1>1, <2>1
    <3> QED BY <1>2, <1>4, <2>1, <3>1
  <2>2. CASE i # Len(bs) + 1
    <3>1. i \in 1 .. Len(bs) BY <1>1, <1>2, <2>2
    <3>2. \/ bs[i].parent = GenesisHash
          \/ \E j \in 1 .. (i - 1) : GetBlockHash(bs[j]) = bs[i].parent
      BY <3>1 DEF Rooted
    <3>3. \A j \in 1 .. (i - 1) : cs[j] = bs[j] BY <1>1, <1>2, <3>1
    <3> QED BY <1>2, <3>1, <3>2, <3>3
  <2> QED BY <2>1, <2>2
<1>6. Known(CalculateDepths(cs)) = Known(CalculateDepths(bs)) \cup {h}
  <2>1. \A i \in 1 .. Len(cs) : GetBlockHash(cs[i]) \in Attached(cs) BY <1>3, <1>5, RootedAttached
  <2>2. \A i \in 1 .. Len(bs) : GetBlockHash(bs[i]) \in Attached(bs) BY <1>1, RootedAttached
  <2>3. Range(bs) \subseteq Range(cs)
    <3>1. \A i \in DOMAIN bs : i \in DOMAIN cs /\ cs[i] = bs[i] BY <1>1, <1>2
    <3> QED BY <3>1 DEF Range
  <2>4. Attached(bs) \subseteq Attached(cs) BY <2>3, AttachedGrows
  <2>5. h \in Attached(cs)
    <3>1. Len(bs) + 1 \in 1 .. Len(cs) BY <1>1, <1>2
    <3> QED BY <1>2, <2>1, <3>1
  <2>6. ASSUME NEW g \in Attached(cs) PROVE g \in Attached(bs) \cup {h}
    <3>1. PICK c \in Range(cs) : GetBlockHash(c) = g BY DEF Attached, HashesIn
    <3>2. PICK i \in 1 .. Len(cs) : cs[i] = c BY <1>3 DEF Range
    <3>3. CASE i = Len(bs) + 1 BY <1>2, <3>1, <3>2, <3>3
    <3>4. CASE i # Len(bs) + 1
      <4>1. i \in 1 .. Len(bs) BY <1>1, <1>2, <3>4
      <4> QED BY <1>2, <2>2, <3>1, <3>2, <4>1
    <3> QED BY <3>3, <3>4
  <2> QED BY <1>1, <1>3, <2>4, <2>5, <2>6, KnownHashes
<1> DEFINE K == Known(CalculateDepths(bs))
<1>7. IsBest(t, K) /\ t \in Hash BY <1>1, BestLeaf
<1>8. h \in Hash BY <1>1, BlockHash
<1>9. K \subseteq Hash BY <1>1, KnownHashes
<1>10. \A x : IsBest(x, K \cup {h}) => x = BestLeafHash(cs) BY <1>3, <1>6, BestLeaf
<1> HIDE DEF h, t, K
<1>11. CASE h # t /\ Beats(h, t)
  <2>1. ASSUME NEW g \in (K \cup {h}) \ {h} PROVE Beats(h, g)
    <3>1. CASE g = t BY <1>11, <3>1
    <3>2. CASE g # t
      <4>1. Beats(t, g) /\ g \in Hash BY <1>7, <1>9, <3>2 DEF IsBest
      <4> QED BY <1>7, <1>8, <1>11, <3>2, <4>1, BeatsOrder
    <3> QED BY <3>1, <3>2
  <2>2. IsBest(h, K \cup {h}) BY <2>1 DEF IsBest
  <2> QED BY <1>10, <1>11, <1>2, <1>5, <2>2 DEF h, t, cs
<1>12. CASE ~(h # t /\ Beats(h, t))
  <2>1. h = t \/ Beats(t, h) BY <1>7, <1>8, <1>12, BeatsOrder
  <2>2. IsBest(t, K \cup {h}) BY <1>7, <2>1 DEF IsBest
  <2> QED BY <1>10, <1>12, <1>2, <1>5, <2>2 DEF h, t, cs
<1> QED BY <1>11, <1>12

-----------------------------------------------------------------------------
(* Unfolding FoldLeft, for the folds of the replay and of the index. *)

(***************************************************************************)
(* The ledger moves by transactions, or by whole blocks; a list grows by   *)
(* the lists that a function names.                                        *)
(***************************************************************************)
Act(op, l, e) ==
  IF op[1] = "tx" THEN Transaction(l, e)
  ELSE IF op[1] = "block" THEN ReplayBlock(l, e) ELSE l \o op[2][e]

Fold(op, l, s) ==
  IF op[1] = "tx" THEN FoldLeft(Transaction, l, s)
  ELSE IF op[1] = "block" THEN FoldLeft(ReplayBlock, l, s) ELSE FoldLeft(LAMBDA r, e : r \o op[2][e], l, s)

(***************************************************************************)
(* The function that FoldLeft recurs with: it takes the last of a set of   *)
(* places.                                                                 *)
(***************************************************************************)
Iterates(op, l, s, D, f) ==
  f = [d \in SUBSET D |-> IF d = {} THEN l ELSE Act(op, f[d \ {Max(d)}], s[Max(d)])]

TxIterates(l, s, D, f) ==
  f = [d \in SUBSET D |-> IF d = {} THEN l ELSE Transaction(f[d \ {Max(d)}], s[Max(d)])]

BlockIterates(l, s, D, f) ==
  f = [d \in SUBSET D |-> IF d = {} THEN l ELSE ReplayBlock(f[d \ {Max(d)}], s[Max(d)])]

GlueIterates(op, l, s, D, f) ==
  f = [d \in SUBSET D |-> IF d = {} THEN l ELSE f[d \ {Max(d)}] \o op[2][s[Max(d)]]]

(***************************************************************************)
(* It exists, by induction on the number of places.                        *)
(***************************************************************************)
LEMMA IterateExists ==
  ASSUME NEW op, NEW l, NEW s, NEW k \in Nat
  PROVE  \E f : Iterates(op, l, s, 1 .. k, f)
<1> DEFINE S == {n \in Nat : \E f : Iterates(op, l, s, 1 .. n, f)}
<1>1. 0 \in S
  <2> DEFINE f == [d \in SUBSET (1 .. 0) |-> l]
  <2>1. \A d \in SUBSET (1 .. 0) : d = {} OBVIOUS
  <2>2. f = [d \in SUBSET (1 .. 0) |-> IF d = {} THEN l ELSE Act(op, f[d \ {Max(d)}], s[Max(d)])]
    BY <2>1
  <2>3. Iterates(op, l, s, 1 .. 0, f) BY <2>2 DEF Iterates
  <2> QED BY <2>3
<1>2. ASSUME NEW n \in S PROVE n + 1 \in S
  <2>1. n \in Nat OBVIOUS
  <2>2. PICK f : Iterates(op, l, s, 1 .. n, f) OBVIOUS
  <2> DEFINE D == 1 .. n
             E == 1 .. (n + 1)
             g == [d \in SUBSET E |-> IF n + 1 \in d THEN Act(op, f[d \ {n + 1}], s[n + 1]) ELSE f[d]]
             h == [d \in SUBSET E |-> IF d = {} THEN l ELSE Act(op, g[d \ {Max(d)}], s[Max(d)])]
  <2>3. D \subseteq E /\ n + 1 \in E /\ n + 1 \notin D /\ E \subseteq Nat /\ E = D \cup {n + 1} BY <2>1
  <2>4. ASSUME NEW d \in SUBSET E, d # {}
        PROVE  Max(d) \in d /\ \A y \in d : y <= Max(d)
    <3>1. \A x \in d : x \in Nat /\ x <= n + 1 BY <2>1
    <3>2. d \in SUBSET Nat /\ n + 1 \in Nat BY <2>1, <3>1
    <3> QED BY <2>4, <3>1, <3>2, MaxOfBounded
  <2>5. \A d \in SUBSET D : f[d] = IF d = {} THEN l ELSE Act(op, f[d \ {Max(d)}], s[Max(d)])
    BY <2>2 DEF Iterates
  <2> HIDE DEF D, E
  <2>6. ASSUME NEW d \in SUBSET E PROVE g[d] = h[d]
    <3>1. CASE n + 1 \in d
      <4>1. Max(d) = n + 1
        <5>1. Max(d) \in d /\ n + 1 <= Max(d) BY <2>4, <3>1
        <5>2. \A x \in E : x \in Nat /\ x <= n + 1 BY <2>1 DEF E
        <5>3. PICK m : m = Max(d) OBVIOUS
        <5>4. m \in d /\ n + 1 <= m BY <5>1, <5>3
        <5>5. m \in Nat /\ m <= n + 1 BY <5>2, <5>4, Zenon
        <5>6. m = n + 1 BY <2>1, <5>4, <5>5
        <5> QED BY <5>3, <5>6
      <4>2. d \ {n + 1} \in SUBSET E /\ n + 1 \notin d \ {n + 1} OBVIOUS
      <4>3. g[d \ {n + 1}] = f[d \ {n + 1}] BY <4>2
      <4> QED BY <3>1, <4>1, <4>3
    <3>2. CASE n + 1 \notin d
      <4>1. d \in SUBSET D BY <2>3, <3>2
      <4>2. CASE d = {} BY <2>5, <4>1, <4>2
      <4>3. CASE d # {}
        <5>1. d \ {Max(d)} \in SUBSET E /\ n + 1 \notin d \ {Max(d)} BY <3>2
        <5>2. g[d \ {Max(d)}] = f[d \ {Max(d)}] BY <5>1
        <5>3. g[d] = f[d] BY <3>2
        <5> QED BY <2>5, <4>1, <4>3, <5>2, <5>3
      <4> QED BY <4>2, <4>3
    <3> QED BY <3>1, <3>2
  <2>7. g = h BY <2>6
  <2>8. Iterates(op, l, s, E, g) BY <2>7 DEF Iterates
  <2> QED BY <2>1, <2>8 DEF E
<1> HIDE DEF S
<1>3. S \in SUBSET Nat BY DEF S
<1>4. k \in S BY <1>1, <1>2, <1>3, Induction
<1> QED BY <1>4 DEF S

(***************************************************************************)
(* The ledgers on the way.                                                 *)
(***************************************************************************)
Way(op, l, s, n, g) == g[0] = l /\ \A k \in 1 .. n : g[k] = Act(op, g[k - 1], s[k])

(***************************************************************************)
(* An iteration ends where some way through the list ends.                 *)
(***************************************************************************)
LEMMA IterateWay ==
  ASSUME NEW op, NEW l, NEW X, NEW s \in Seq(X), NEW f, Iterates(op, l, s, DOMAIN s, f)
  PROVE  \E g : Way(op, l, s, Len(s), g) /\ f[DOMAIN s] = g[Len(s)]
<1>1. Len(s) \in Nat /\ DOMAIN s = 1 .. Len(s) OBVIOUS
<1> DEFINE g == [k \in 0 .. Len(s) |-> f[1 .. k]]
<1>4. \A d \in SUBSET (1 .. Len(s)) :
        f[d] = IF d = {} THEN l ELSE Act(op, f[d \ {Max(d)}], s[Max(d)])
  BY <1>1 DEF Iterates
<1>5. g[0] = l
  <2>1. 1 .. 0 = {} /\ 0 \in 0 .. Len(s) BY <1>1
  <2>2. f[{}] = l BY <1>4
  <2>3. g[0] = f[1 .. 0] BY <2>1
  <2> QED BY <2>1, <2>2, <2>3
<1>6. ASSUME NEW k \in 1 .. Len(s) PROVE g[k] = Act(op, g[k - 1], s[k])
  <2>1. k \in 0 .. Len(s) /\ k - 1 \in 0 .. Len(s) BY <1>1
  <2> DEFINE d == 1 .. k
  <2>2. d \in SUBSET (1 .. Len(s)) /\ d # {} /\ d \in SUBSET Nat /\ k \in Nat /\ k \in d /\ \A x \in d : x <= k
    <3>1. k \in Nat /\ k \in d BY <1>1
    <3>2. \A x \in d : x \in 1 .. Len(s) /\ x \in Nat /\ x <= k BY <1>1
    <3> HIDE DEF d
    <3> QED BY <3>1, <3>2, Zenon
  <2>3. d \ {k} = 1 .. (k - 1)
    <3>1. \A x : x \in 1 .. (k - 1) => x \in d /\ x # k BY <1>1
    <3>2. \A x : x \in d /\ x # k => x \in 1 .. (k - 1) BY <1>1
    <3> HIDE DEF d
    <3> QED BY <3>1, <3>2, Zenon
  <2> HIDE DEF d
  <2>4. Max(d) \in d /\ k <= Max(d) BY <2>2, MaxOfBounded
  <2>5. Max(d) = k
    <3>1. PICK m : m = Max(d) OBVIOUS
    <3>2. m \in Nat /\ m <= k /\ k <= m BY <2>2, <2>4, <3>1, Zenon
    <3>3. m = k BY <2>2, <3>2
    <3> QED BY <3>1, <3>3
  <2>6. f[d] = Act(op, f[d \ {k}], s[k]) BY <1>4, <2>2, <2>5
  <2>7. g[k] = f[d] /\ g[k - 1] = f[1 .. (k - 1)] BY <2>1 DEF d
  <2> QED BY <2>3, <2>6, <2>7
<1>7. g[Len(s)] = f[DOMAIN s] BY <1>1
<1> HIDE DEF g
<1> QED BY <1>5, <1>6, <1>7 DEF Way

(***************************************************************************)
(* A fold ends where some way through the list ends.                       *)
(***************************************************************************)
LEMMA FoldWay ==
  ASSUME NEW op, NEW l, NEW X, NEW s \in Seq(X)
  PROVE  \E g : Way(op, l, s, Len(s), g) /\ Fold(op, l, s) = g[Len(s)]
<1>1. Len(s) \in Nat /\ DOMAIN s = 1 .. Len(s) OBVIOUS
<1>2. \E f : Iterates(op, l, s, DOMAIN s, f) BY <1>1, IterateExists
<1>3. PICK f : Iterates(op, l, s, DOMAIN s, f) /\ Fold(op, l, s) = f[DOMAIN s]
  <2>1. CASE op[1] = "tx"
    <3>1. \A h : Iterates(op, l, s, DOMAIN s, h) <=> TxIterates(l, s, DOMAIN s, h)
      BY <2>1 DEF Iterates, TxIterates, Act
    <3>2. \E h : TxIterates(l, s, DOMAIN s, h) BY <1>2, <3>1
    <3>3. \E h : TxIterates(l, s, DOMAIN s, h) /\ FoldLeft(Transaction, l, s) = h[DOMAIN s]
      BY <3>2 DEF FoldLeft, MapThenFoldSet, TxIterates
    <3>4. Fold(op, l, s) = FoldLeft(Transaction, l, s) BY <2>1 DEF Fold
    <3> QED BY <3>1, <3>3, <3>4
  <2>2. CASE op[1] = "block"
    <3>1. \A h : Iterates(op, l, s, DOMAIN s, h) <=> BlockIterates(l, s, DOMAIN s, h)
      BY <2>2 DEF Iterates, BlockIterates, Act
    <3>2. \E h : BlockIterates(l, s, DOMAIN s, h) BY <1>2, <3>1
    <3>3. \E h : BlockIterates(l, s, DOMAIN s, h) /\ FoldLeft(ReplayBlock, l, s) = h[DOMAIN s]
      BY <3>2 DEF FoldLeft, MapThenFoldSet, BlockIterates
    <3>4. Fold(op, l, s) = FoldLeft(ReplayBlock, l, s) BY <2>2 DEF Fold
    <3> QED BY <3>1, <3>3, <3>4
  <2>3. CASE op[1] \notin {"tx", "block"}
    <3>1. \A h : Iterates(op, l, s, DOMAIN s, h) <=> GlueIterates(op, l, s, DOMAIN s, h)
      BY <2>3 DEF Iterates, GlueIterates, Act
    <3>2. \E h : GlueIterates(op, l, s, DOMAIN s, h) BY <1>2, <3>1
    <3>3. \E h : GlueIterates(op, l, s, DOMAIN s, h) /\ FoldLeft(LAMBDA r, e : r \o op[2][e], l, s) = h[DOMAIN s]
      BY <3>2 DEF FoldLeft, MapThenFoldSet, GlueIterates
    <3>4. Fold(op, l, s) = FoldLeft(LAMBDA r, e : r \o op[2][e], l, s) BY <2>3 DEF Fold
    <3> QED BY <3>1, <3>3, <3>4
  <2> QED BY <2>1, <2>2, <2>3
<1> QED BY <1>3, IterateWay

(***************************************************************************)
(* There is one way.                                                       *)
(***************************************************************************)
LEMMA OneWay ==
  ASSUME NEW op, NEW l, NEW s, NEW r, NEW n \in Nat, \A k \in 1 .. n : r[k] = s[k],
         NEW g, NEW h, Way(op, l, s, n, g), Way(op, l, r, n, h)
  PROVE  g[n] = h[n]
<1> DEFINE S == {k \in Nat : k <= n => g[k] = h[k]}
<1>1. 0 \in S BY DEF Way
<1>2. ASSUME NEW k \in S PROVE k + 1 \in S
  <2>1. SUFFICES ASSUME k + 1 <= n PROVE g[k + 1] = h[k + 1] OBVIOUS
  <2>2. k \in Nat /\ k + 1 \in 1 .. n /\ (k + 1) - 1 = k /\ k <= n BY <2>1
  <2>3. g[k] = h[k] BY <2>2
  <2>4. g[k + 1] = Act(op, g[k], s[k + 1]) /\ h[k + 1] = Act(op, h[k], r[k + 1]) BY <2>2 DEF Way
  <2>5. r[k + 1] = s[k + 1] BY <2>2
  <2> QED BY <2>3, <2>4, <2>5
<1> HIDE DEF S
<1>3. S \in SUBSET Nat BY DEF S
<1>4. n \in S BY <1>1, <1>2, <1>3, Induction
<1> QED BY <1>4 DEF S

(***************************************************************************)
(* The ledgers on the way are the folds of the prefixes.                   *)
(***************************************************************************)
LEMMA FoldPrefixes ==
  ASSUME NEW op, NEW l, NEW X, NEW s \in Seq(X)
  PROVE  \E g : Way(op, l, s, Len(s), g) /\ \A k \in 0 .. Len(s) : Fold(op, l, SubSeq(s, 1, k)) = g[k]
<1>1. Len(s) \in Nat OBVIOUS
<1>2. PICK g : Way(op, l, s, Len(s), g) BY FoldWay
<1>3. ASSUME NEW k \in 0 .. Len(s) PROVE Fold(op, l, SubSeq(s, 1, k)) = g[k]
  <2> DEFINE r == SubSeq(s, 1, k)
  <2>1. r \in Seq(X) /\ Len(r) = k /\ \A i \in 1 .. k : r[i] = s[i] /\ i \in 1 .. Len(s) BY <1>1
  <2> HIDE DEF r
  <2>2. PICK h : Way(op, l, r, k, h) /\ Fold(op, l, r) = h[k] BY <2>1, FoldWay
  <2>3. Way(op, l, s, k, g) BY <1>1, <1>2, <2>1 DEF Way
  <2>4. k \in Nat BY <1>1
  <2>5. g[k] = h[k] BY <2>1, <2>2, <2>3, <2>4, OneWay
  <2> QED BY <2>2, <2>5 DEF r
<1> QED BY <1>2, <1>3

(***************************************************************************)
(* The fold of a list, one element at a time.                              *)
(***************************************************************************)
LEMMA FoldStart ==
  ASSUME NEW op, NEW l, NEW X, NEW s \in Seq(X)
  PROVE  /\ Fold(op, l, SubSeq(s, 1, 0)) = l
         /\ SubSeq(s, 1, Len(s)) = s
<1>1. Len(s) \in Nat /\ 0 \in 0 .. Len(s) OBVIOUS
<1>2. PICK g : Way(op, l, s, Len(s), g) /\ \A k \in 0 .. Len(s) : Fold(op, l, SubSeq(s, 1, k)) = g[k]
  BY FoldPrefixes
<1>3. Fold(op, l, SubSeq(s, 1, 0)) = g[0] BY <1>1, <1>2
<1>4. SubSeq(s, 1, Len(s)) = s BY <1>1
<1> QED BY <1>2, <1>3, <1>4 DEF Way

(***************************************************************************)
(* The step to the next element.                                           *)
(***************************************************************************)
LEMMA FoldStep ==
  ASSUME NEW op, NEW l, NEW X, NEW s \in Seq(X), NEW k \in 1 .. Len(s)
  PROVE  Fold(op, l, SubSeq(s, 1, k)) = Act(op, Fold(op, l, SubSeq(s, 1, k - 1)), s[k])
<1>1. Len(s) \in Nat OBVIOUS
<1>2. PICK g : Way(op, l, s, Len(s), g) /\ \A i \in 0 .. Len(s) : Fold(op, l, SubSeq(s, 1, i)) = g[i]
  BY FoldPrefixes
<1>3. k \in 0 .. Len(s) /\ k - 1 \in 0 .. Len(s) BY <1>1
<1>4. g[k] = Act(op, g[k - 1], s[k]) BY <1>2 DEF Way
<1> QED BY <1>2, <1>3, <1>4

(***************************************************************************)
(* The same of the two folds of the replay and of a list glued together.   *)
(***************************************************************************)
LEMMA TxFold ==
  ASSUME NEW l, NEW X, NEW s \in Seq(X)
  PROVE  /\ FoldLeft(Transaction, l, SubSeq(s, 1, 0)) = l
         /\ \A k \in 1 .. Len(s) :
              FoldLeft(Transaction, l, SubSeq(s, 1, k)) = Transaction(FoldLeft(Transaction, l, SubSeq(s, 1, k - 1)), s[k])
<1>1. Fold(<<"tx">>, l, SubSeq(s, 1, 0)) = l BY FoldStart
<1>2. \A k \in 1 .. Len(s) :
        Fold(<<"tx">>, l, SubSeq(s, 1, k)) = Act(<<"tx">>, Fold(<<"tx">>, l, SubSeq(s, 1, k - 1)), s[k])
  BY FoldStep
<1> QED BY <1>1, <1>2 DEF Fold, Act

(***************************************************************************)
(* Blocks.                                                                 *)
(***************************************************************************)
LEMMA BlockFold ==
  ASSUME NEW X, NEW s \in Seq(X)
  PROVE  /\ BuildLedgerFromBlocks(SubSeq(s, 1, 0)) = InitializeFromGenesis
         /\ \A k \in 1 .. Len(s) :
              BuildLedgerFromBlocks(SubSeq(s, 1, k)) = ReplayBlock(BuildLedgerFromBlocks(SubSeq(s, 1, k - 1)), s[k])
<1> DEFINE l == InitializeFromGenesis
<1> HIDE DEF l
<1>1. Fold(<<"block">>, l, SubSeq(s, 1, 0)) = l BY FoldStart
<1>2. \A k \in 1 .. Len(s) :
        Fold(<<"block">>, l, SubSeq(s, 1, k)) = Act(<<"block">>, Fold(<<"block">>, l, SubSeq(s, 1, k - 1)), s[k])
  BY FoldStep
<1> QED BY <1>1, <1>2 DEF Fold, Act, BuildLedgerFromBlocks, l

-----------------------------------------------------------------------------
(* The nonces on the way. *)

Wallets(l) == DOMAIN l = DOMAIN InitializeFromGenesis /\ l.nonces \in [Account -> Nat]

(***************************************************************************)
(* Every wallet transaction that l has consumed, m has consumed too.       *)
(***************************************************************************)
Later(l, m) == Wallets(l) /\ Wallets(m) /\ \A a \in Account : l.nonces[a] <= m.nonces[a]

(***************************************************************************)
(* What the fields of a signed transaction are.                            *)
(***************************************************************************)
LEMMA SignedFields ==
  ASSUME NEW t \in Tx
  PROVE  /\ t.kind \in Kinds /\ t.from \in Account /\ t.to \in Account /\ t.nonce \in Nat
         /\ t.evm \in BOOLEAN /\ t.ok \in BOOLEAN /\ t.signed \in BOOLEAN
         /\ t.evm => t.kind \in {"transfer", "amm_swap", "evm_create", "evm_call"}
<1>1. t \in TxRecord BY TxAssumption
<1>2. t.evm => t.kind \in ContractKinds \cup {"transfer", "amm_swap"} BY TxAssumption
<1> QED BY <1>1, <1>2 DEF TxRecord, ContractKinds

(***************************************************************************)
(* Whatever else it does, an accepted transaction records itself.          *)
(***************************************************************************)
LEMMA ApplyRecords ==
  ASSUME NEW l, Wallets(l), NEW t \in Tx
  PROVE  DOMAIN Apply(l, t) = DOMAIN l /\ Apply(l, t).nonces = Recorded(l, t).nonces
<1>1. t.kind \in Kinds BY SignedFields
<1>2. DOMAIN l = {"bal", "nonces", "validators", "nfts", "pools", "evmNonce", "history"}
  BY DEF Wallets, InitializeFromGenesis
<1> DEFINE r == Recorded(l, t)
<1>3. DOMAIN r = DOMAIN l BY DEF Recorded
<1> HIDE DEF r
<1>4. CASE t.kind = "transfer"
  BY <1>2, <1>3, <1>4 DEF Apply, Transfer, r, ContractKinds
<1>5. CASE t.kind = "mint"
  BY <1>2, <1>3, <1>5 DEF Apply, Mint, r, ContractKinds
<1>6. CASE t.kind = "nft_mint"
  BY <1>2, <1>3, <1>6 DEF Apply, NFTMint, r, ContractKinds
<1>7. CASE t.kind = "nft_transfer"
  BY <1>2, <1>3, <1>7 DEF Apply, NFTTransfer, r, ContractKinds
<1>8. CASE t.kind = "asset_credit"
  BY <1>2, <1>3, <1>8 DEF Apply, AssetCredit, r, ContractKinds
<1>9. CASE t.kind = "asset_debit"
  BY <1>2, <1>3, <1>9 DEF Apply, AssetDebit, r, ContractKinds
<1>10. CASE t.kind = "amm_create_pool"
  BY <1>2, <1>3, <1>10 DEF Apply, CreatePool, r, ContractKinds
<1>11. CASE t.kind = "amm_add_liquidity"
  BY <1>2, <1>3, <1>11 DEF Apply, AddLiquidity, r, ContractKinds
<1>12. CASE t.kind = "amm_swap"
  BY <1>2, <1>3, <1>12 DEF Apply, Swap, r, ContractKinds
<1>13. CASE t.kind \in ContractKinds
  <2>1. Apply(l, t) = RunContract(l, t) BY <1>13 DEF Apply, ContractKinds
  <2> QED BY <1>2, <1>3, <2>1 DEF RunContract, BumpEVMNonce, r
<1> QED BY <1>1, <1>4, <1>5, <1>6, <1>7, <1>8, <1>9, <1>10, <1>11, <1>12, <1>13 DEF Kinds, AMMKinds

(***************************************************************************)
(* A wallet transaction is accepted at its own nonce only.                 *)
(***************************************************************************)
LEMMA AcceptedAtNonce ==
  ASSUME NEW l, NEW t \in Tx, Accepts(l, t), t.evm
  PROVE  l.nonces[t.from] = t.nonce
<1>1. t.kind \in {"transfer", "amm_swap", "evm_create", "evm_call"} BY SignedFields
<1>2. CASE t.kind = "transfer" BY <1>2 DEF Accepts, CanTransfer, NonceMatches, ContractKinds
<1>3. CASE t.kind = "amm_swap" BY <1>3 DEF Accepts, CanSwap, NonceMatches, ContractKinds
<1>4. CASE t.kind \in ContractKinds
  BY <1>4 DEF Accepts, CanRunContract, NonceMatches, ContractKinds
<1> QED BY <1>1, <1>2, <1>3, <1>4 DEF ContractKinds

(***************************************************************************)
(* No transaction takes a nonce back, and an accepted wallet transaction   *)
(* consumes its own.                                                       *)
(***************************************************************************)
LEMMA TransactionNonces ==
  ASSUME NEW l, Wallets(l), NEW t \in Tx
  PROVE  /\ Later(l, Transaction(l, t))
         /\ Accepts(l, t) /\ t.evm => Transaction(l, t).nonces[t.from] = l.nonces[t.from] + 1
                                      /\ l.nonces[t.from] = t.nonce
<1>1. /\ t.from \in Account /\ t.nonce \in Nat /\ t.evm \in BOOLEAN /\ l.nonces \in [Account -> Nat]
  BY SignedFields DEF Wallets
<1>2. CASE Accepts(l, t)
  <2>1. Transaction(l, t) = Apply(l, t) BY <1>2 DEF Transaction
  <2>2. DOMAIN Apply(l, t) = DOMAIN l /\ Apply(l, t).nonces = Recorded(l, t).nonces BY ApplyRecords
  <2>3. Recorded(l, t).nonces = IF t.evm THEN [l.nonces EXCEPT ![t.from] = t.nonce + 1] ELSE l.nonces
    BY DEF Recorded, Wallets, InitializeFromGenesis
  <2>4. t.evm => l.nonces[t.from] = t.nonce BY <1>2, AcceptedAtNonce
  <2>5. PICK m : m = Apply(l, t) OBVIOUS
  <2>6. CASE t.evm
    <3>1. m.nonces = [l.nonces EXCEPT ![t.from] = t.nonce + 1] BY <2>2, <2>3, <2>5, <2>6
    <3>2. m.nonces \in [Account -> Nat] /\ \A a \in Account : l.nonces[a] <= m.nonces[a]
      BY <1>1, <2>4, <2>6, <3>1
    <3>3. m.nonces[t.from] = l.nonces[t.from] + 1 BY <1>1, <2>4, <2>6, <3>1
    <3> QED BY <2>1, <2>2, <2>4, <2>5, <2>6, <3>2, <3>3 DEF Later, Wallets
  <2>7. CASE ~t.evm
    <3>1. m.nonces = l.nonces BY <2>2, <2>3, <2>5, <2>7
    <3>2. \A a \in Account : l.nonces[a] <= m.nonces[a] BY <1>1, <3>1
    <3> QED BY <2>1, <2>2, <2>5, <2>7, <3>1, <3>2 DEF Later, Wallets
  <2> QED BY <1>1, <2>6, <2>7
<1>3. CASE ~Accepts(l, t)
  <2>1. Transaction(l, t) = Rejected(l, t) BY <1>3 DEF Transaction
  <2>2. DOMAIN Rejected(l, t) = DOMAIN l /\ Rejected(l, t).nonces = l.nonces
    BY DEF Rejected, RejectedContract, BumpEVMNonce, Wallets, InitializeFromGenesis
  <2>3. \A a \in Account : l.nonces[a] <= Rejected(l, t).nonces[a] BY <1>1, <2>2
  <2> QED BY <1>3, <2>1, <2>2, <2>3 DEF Later, Wallets
<1> QED BY <1>2, <1>3
(***************************************************************************)
(* Consumed once, consumed for good.                                       *)
(***************************************************************************)
LEMMA LaterStill ==
  ASSUME NEW l, NEW m, NEW n, Later(l, m), Later(m, n) PROVE Later(l, n)
<1>1. \A a \in Account : l.nonces[a] \in Nat /\ m.nonces[a] \in Nat /\ n.nonces[a] \in Nat
  BY DEF Later, Wallets
<1>2. ASSUME NEW a \in Account PROVE l.nonces[a] <= n.nonces[a]
  <2>1. l.nonces[a] <= m.nonces[a] /\ m.nonces[a] <= n.nonces[a] BY DEF Later
  <2>2. PICK x \in Nat : x = l.nonces[a] BY <1>1
  <2>3. PICK y \in Nat : y = m.nonces[a] BY <1>1
  <2>4. PICK z \in Nat : z = n.nonces[a] BY <1>1
  <2>5. x <= y /\ y <= z BY <2>1, <2>2, <2>3, <2>4
  <2>6. x <= z BY <2>5
  <2> QED BY <2>2, <2>4, <2>6
<1> QED BY <1>2 DEF Later

(***************************************************************************)
(* So no list of them does, whichever of the two folds replays it.         *)
(***************************************************************************)
LEMMA FoldLater ==
  ASSUME NEW op, NEW l, Wallets(l), NEW X, NEW s \in Seq(X),
         \A m : \A k \in 1 .. Len(s) : Wallets(m) => Later(m, Act(op, m, s[k])),
         NEW j \in 0 .. Len(s), NEW i \in 0 .. j
  PROVE  Later(Fold(op, l, SubSeq(s, 1, i)), Fold(op, l, SubSeq(s, 1, j)))
<1> DEFINE F(k) == Fold(op, l, SubSeq(s, 1, k))
           S == {n \in Nat : n <= Len(s) => \A k \in 0 .. n : Later(F(k), F(n))}
<1>1. Len(s) \in Nat OBVIOUS
<1>2. F(0) = l /\ \A k \in 1 .. Len(s) : F(k) = Act(op, F(k - 1), s[k])
  <2>1. Fold(op, l, SubSeq(s, 1, 0)) = l BY FoldStart
  <2>2. ASSUME NEW k \in 1 .. Len(s)
        PROVE  Fold(op, l, SubSeq(s, 1, k)) = Act(op, Fold(op, l, SubSeq(s, 1, k - 1)), s[k])
    BY FoldStep
  <2> QED BY <2>1, <2>2
<1> HIDE DEF F
<1>3. \A m : Wallets(m) => Later(m, m) BY DEF Later, Wallets
<1>4. 0 \in S
  <2>1. \A k \in 0 .. 0 : k = 0 OBVIOUS
  <2>2. Later(F(0), F(0)) BY <1>2, <1>3
  <2> QED BY <2>1, <2>2
<1>5. ASSUME NEW n \in S PROVE n + 1 \in S
  <2>0. n + 1 \in Nat OBVIOUS
  <2> SUFFICES ASSUME n + 1 <= Len(s), NEW k \in 0 .. (n + 1) PROVE Later(F(k), F(n + 1)) BY <2>0
  <2>1. n \in Nat /\ n <= Len(s) /\ n + 1 \in 1 .. Len(s) /\ (n + 1) - 1 = n BY <1>1
  <2>2. \A x \in 0 .. n : Later(F(x), F(n)) BY <2>1
  <2>3. Wallets(F(n))
    <3>1. n \in 0 .. n BY <2>1
    <3> QED BY <2>2, <3>1 DEF Later
  <2>4. F(n + 1) = Act(op, F(n), s[n + 1]) BY <1>2, <2>1
  <2>5. Later(F(n), F(n + 1)) BY <2>1, <2>3, <2>4
  <2>6. CASE k = n + 1 BY <1>3, <2>5, <2>6 DEF Later
  <2>7. CASE k # n + 1
    <3>1. k \in 0 .. n BY <2>1, <2>7
    <3>2. Later(F(k), F(n)) BY <2>2, <3>1
    <3> QED BY <2>5, <3>2, LaterStill
  <2> QED BY <2>6, <2>7
<1> HIDE DEF S
<1>6. S \in SUBSET Nat BY DEF S
<1>7. \A n \in Nat : n \in S BY <1>4, <1>5, <1>6, Induction
<1>8. j \in Nat /\ j <= Len(s) BY <1>1
<1>9. j \in S BY <1>7, <1>8
<1>10. Later(F(i), F(j)) BY <1>8, <1>9 DEF S
<1> QED BY <1>10 DEF F

(***************************************************************************)
(* The lists of transactions of a block, and the block itself.             *)
(***************************************************************************)
LEMMA TxsLater ==
  ASSUME NEW l, Wallets(l), NEW txs \in Seq(Tx), NEW j \in 0 .. Len(txs), NEW i \in 0 .. j
  PROVE  Later(FoldLeft(Transaction, l, SubSeq(txs, 1, i)), FoldLeft(Transaction, l, SubSeq(txs, 1, j)))
<1>1. \A k \in 1 .. Len(txs) : txs[k] \in Tx OBVIOUS
<1>2. \A m : \A k \in 1 .. Len(txs) : Wallets(m) => Later(m, Act(<<"tx">>, m, txs[k]))
  BY <1>1, TransactionNonces DEF Act
<1>3. Later(Fold(<<"tx">>, l, SubSeq(txs, 1, i)), Fold(<<"tx">>, l, SubSeq(txs, 1, j))) BY <1>2, FoldLater
<1> QED BY <1>3 DEF Fold

(***************************************************************************)
(* Registering the miner and paying it leave the nonces alone.             *)
(***************************************************************************)
LEMMA MinerNonces ==
  ASSUME NEW l, Wallets(l), NEW a
  PROVE  Later(l, MarkValidator(l, a)) /\ Later(l, PayReward(l, a))
<1>1. /\ DOMAIN MarkValidator(l, a) = DOMAIN l /\ MarkValidator(l, a).nonces = l.nonces
      /\ DOMAIN PayReward(l, a) = DOMAIN l /\ PayReward(l, a).nonces = l.nonces
  BY DEF Wallets, InitializeFromGenesis, MarkValidator, PayReward
<1>2. \A x \in Account : l.nonces[x] <= l.nonces[x] BY DEF Wallets
<1> QED BY <1>1, <1>2 DEF Later, Wallets

(***************************************************************************)
(* A block replayed: what its transactions consume stays consumed.         *)
(***************************************************************************)
LEMMA BlockLater ==
  ASSUME NEW l, Wallets(l), NEW b \in Block
  PROVE  /\ Wallets(MarkValidator(l, b.miner))
         /\ Later(l, ReplayBlock(l, b))
         /\ \A j \in 0 .. Len(b.txs) :
              Later(FoldLeft(Transaction, MarkValidator(l, b.miner), SubSeq(b.txs, 1, j)), ReplayBlock(l, b))
<1> DEFINE m == MarkValidator(l, b.miner)
           F(j) == FoldLeft(Transaction, m, SubSeq(b.txs, 1, j))
<1>1. b.txs \in Seq(Tx) /\ Len(b.txs) \in Nat BY DEF Block
<1>2. Later(l, m) BY MinerNonces
<1> HIDE DEF m
<1>3. Wallets(m) BY <1>2 DEF Later
<1>4. \A j \in 0 .. Len(b.txs) : \A i \in 0 .. j : Later(F(i), F(j)) BY <1>1, <1>3, TxsLater
<1>5. F(0) = m /\ SubSeq(b.txs, 1, Len(b.txs)) = b.txs
  <2>1. Fold(<<"tx">>, m, SubSeq(b.txs, 1, 0)) = m BY <1>1, FoldStart
  <2>2. SubSeq(b.txs, 1, Len(b.txs)) = b.txs BY <1>1
  <2>3. F(0) = m BY <2>1 DEF Fold
  <2> QED BY <2>2, <2>3
<1>6. ReplayBlock(l, b) = PayReward(F(Len(b.txs)), b.miner) BY <1>5 DEF ReplayBlock, m
<1> HIDE DEF F
<1>7. Len(b.txs) \in 0 .. Len(b.txs) /\ 0 \in 0 .. Len(b.txs) /\ \A j \in 0 .. Len(b.txs) : j \in 0 .. Len(b.txs)
  BY <1>1
<1>8. Later(F(Len(b.txs)), ReplayBlock(l, b))
  <2>1. Wallets(F(Len(b.txs))) BY <1>4, <1>7 DEF Later
  <2> QED BY <1>6, <2>1, MinerNonces
<1>9. \A j \in 0 .. Len(b.txs) : Later(F(j), ReplayBlock(l, b))
  BY <1>4, <1>7, <1>8, LaterStill
<1>10. Later(l, ReplayBlock(l, b))
  <2>1. Later(m, ReplayBlock(l, b)) BY <1>5, <1>7, <1>9
  <2> QED BY <1>2, <2>1, LaterStill
<1> QED BY <1>3, <1>9, <1>10 DEF F, m
-----------------------------------------------------------------------------
(* A wallet transaction on a branch. *)

(***************************************************************************)
(* Genesis has no nonces, so every ledger of a branch has well-formed ones *)
(* and they grow with the branch.                                          *)
(***************************************************************************)
LEMMA BranchLater ==
  ASSUME NEW best \in Seq(Block), NEW j \in 0 .. Len(best), NEW i \in 0 .. j
  PROVE  Later(BuildLedgerFromBlocks(SubSeq(best, 1, i)), BuildLedgerFromBlocks(SubSeq(best, 1, j)))
<1>1. Wallets(InitializeFromGenesis) BY DEF Wallets, InitializeFromGenesis
<1>2. \A m : \A k \in 1 .. Len(best) : Wallets(m) => Later(m, Act(<<"block">>, m, best[k]))
  <2>1. \A k \in 1 .. Len(best) : best[k] \in Block OBVIOUS
  <2> QED BY <2>1, BlockLater DEF Act
<1> DEFINE g == InitializeFromGenesis
<1> HIDE DEF g
<1>3. Wallets(g) BY <1>1 DEF g
<1>4. Later(Fold(<<"block">>, g, SubSeq(best, 1, i)), Fold(<<"block">>, g, SubSeq(best, 1, j)))
  BY <1>2, <1>3, FoldLater
<1> QED BY <1>4 DEF Fold, BuildLedgerFromBlocks, g

(***************************************************************************)
(* The ledger on which the j-th transaction of the i-th block is tried,    *)
(* and the one it leaves.                                                  *)
(***************************************************************************)
After(best, i, j) == Transaction(Before(best, i, j), best[i].txs[j])

(***************************************************************************)
(* A place on a branch: the ledger left there is the one of the next place *)
(* of the block, and the ledger of the block consumes what it consumed.    *)
(***************************************************************************)
LEMMA PlaceLater ==
  ASSUME NEW best \in Seq(Block), NEW i \in 1 .. Len(best), NEW j \in 1 .. Len(best[i].txs)
  PROVE  /\ Wallets(Before(best, i, j))
         /\ Later(BuildLedgerFromBlocks(SubSeq(best, 1, i - 1)), Before(best, i, j))
         /\ \A k \in (j + 1) .. Len(best[i].txs) : Later(After(best, i, j), Before(best, i, k))
         /\ Later(After(best, i, j), BuildLedgerFromBlocks(SubSeq(best, 1, i)))
<1> DEFINE b == best[i]
           txs == b.txs
           g == BuildLedgerFromBlocks(SubSeq(best, 1, i - 1))
           l == MarkValidator(g, b.miner)
           F(k) == FoldLeft(Transaction, l, SubSeq(txs, 1, k))
<1>1. Len(best) \in Nat /\ b \in Block OBVIOUS
<1>2. txs \in Seq(Tx) /\ Len(txs) \in Nat BY <1>1 DEF Block
<1>3. i - 1 \in 0 .. Len(best) /\ i - 1 \in 0 .. (i - 1) BY <1>1
<1>4. Wallets(g)
  <2>1. Later(g, g) BY <1>3, BranchLater
  <2> QED BY <2>1 DEF Later
<1>5. BuildLedgerFromBlocks(SubSeq(best, 1, i)) = ReplayBlock(g, b)
  <2>1. Fold(<<"block">>, InitializeFromGenesis, SubSeq(best, 1, i))
          = Act(<<"block">>, Fold(<<"block">>, InitializeFromGenesis, SubSeq(best, 1, i - 1)), best[i])
    BY FoldStep
  <2> QED BY <2>1 DEF Fold, Act, BuildLedgerFromBlocks
<1>6. After(best, i, j) = F(j)
  <2>1. Fold(<<"tx">>, l, SubSeq(txs, 1, j)) = Act(<<"tx">>, Fold(<<"tx">>, l, SubSeq(txs, 1, j - 1)), txs[j])
    BY <1>2, FoldStep
  <2> QED BY <2>1 DEF Fold, Act, After, Before
<1>7. \A k : Before(best, i, k) = F(k - 1) BY DEF Before
<1>8. Wallets(l) /\ Later(g, l) BY <1>4, MinerNonces DEF Later
<1> HIDE DEF g
<1>9. \A k \in 0 .. Len(txs) : Later(F(k), ReplayBlock(g, b)) BY <1>1, <1>4, BlockLater
<1> HIDE DEF l
<1>10. \A k \in 0 .. Len(txs) : \A m \in 0 .. k : Later(F(m), F(k)) BY <1>2, <1>8, TxsLater
<1>11. F(0) = l
  <2>1. Fold(<<"tx">>, l, SubSeq(txs, 1, 0)) = l BY <1>2, FoldStart
  <2> QED BY <2>1 DEF Fold
<1> HIDE DEF F, txs
<1>12. j \in 1 .. Len(txs) BY DEF txs
<1>13. j - 1 \in 0 .. Len(txs) /\ 0 \in 0 .. (j - 1) /\ j \in 0 .. Len(txs) BY <1>2, <1>12
<1>14. Later(F(0), F(j - 1)) BY <1>10, <1>13
<1>15. Later(g, F(j - 1)) BY <1>8, <1>11, <1>14, LaterStill
<1>16. ASSUME NEW k \in (j + 1) .. Len(txs) PROVE Later(After(best, i, j), Before(best, i, k))
  <2>1. k - 1 \in 0 .. Len(txs) /\ j \in 0 .. (k - 1) BY <1>2, <1>12
  <2>2. Later(F(j), F(k - 1)) BY <1>10, <2>1
  <2> QED BY <1>6, <1>7, <2>2
<1>17. Later(After(best, i, j), BuildLedgerFromBlocks(SubSeq(best, 1, i))) BY <1>5, <1>6, <1>9, <1>13
<1> QED BY <1>7, <1>15, <1>16, <1>17 DEF Later, g, txs

(***************************************************************************)
(* What a place consumes, every later place of the branch has consumed.    *)
(***************************************************************************)
LEMMA PlacesLater ==
  ASSUME NEW best \in Seq(Block),
         NEW i \in 1 .. Len(best), NEW j \in 1 .. Len(best[i].txs),
         NEW x \in 1 .. Len(best), NEW y \in 1 .. Len(best[x].txs),
         i < x \/ (i = x /\ j < y)
  PROVE  Later(After(best, i, j), Before(best, x, y))
<1>1. Len(best) \in Nat /\ best[x] \in Block OBVIOUS
<1>2. best[x].txs \in Seq(Tx) /\ Len(best[x].txs) \in Nat BY <1>1 DEF Block
<1>3. CASE i = x /\ j < y
  <2>1. \A k \in (j + 1) .. Len(best[i].txs) : Later(After(best, i, j), Before(best, i, k))
    BY PlaceLater
  <2>2. y \in (j + 1) .. Len(best[i].txs) BY <1>2, <1>3
  <2> QED BY <1>3, <2>1, <2>2
<1>4. CASE i < x
  <2>1. Later(After(best, i, j), BuildLedgerFromBlocks(SubSeq(best, 1, i))) BY PlaceLater
  <2>2. Later(BuildLedgerFromBlocks(SubSeq(best, 1, x - 1)), Before(best, x, y)) BY PlaceLater
  <2>3. x - 1 \in 0 .. Len(best) /\ i \in 0 .. (x - 1) BY <1>1, <1>4
  <2>4. Later(BuildLedgerFromBlocks(SubSeq(best, 1, i)), BuildLedgerFromBlocks(SubSeq(best, 1, x - 1)))
    BY <2>3, BranchLater
  <2> QED BY <2>1, <2>2, <2>4, LaterStill
<1> QED BY <1>3, <1>4

(***************************************************************************)
(* So a wallet transaction is accepted in one place of a branch at most.   *)
(***************************************************************************)
LEMMA AcceptedOnce ==
  ASSUME NEW best \in Seq(Block), NEW t \in Tx, t.evm,
         NEW i \in 1 .. Len(best), NEW j \in 1 .. Len(best[i].txs),
         NEW x \in 1 .. Len(best), NEW y \in 1 .. Len(best[x].txs),
         best[i].txs[j] = t, Accepts(Before(best, i, j), t),
         best[x].txs[y] = t, Accepts(Before(best, x, y), t)
  PROVE  ~(i < x \/ (i = x /\ j < y))
<1> SUFFICES ASSUME i < x \/ (i = x /\ j < y) PROVE FALSE OBVIOUS
<1> DEFINE l == Before(best, i, j)
           m == Before(best, x, y)
<1>1. Later(After(best, i, j), m) BY PlacesLater
<1>2. Wallets(l) /\ After(best, i, j) = Transaction(l, t) BY PlaceLater DEF After
<1> HIDE DEF l, m
<1>3. t.from \in Account /\ t.nonce \in Nat BY SignedFields
<1>4. Transaction(l, t).nonces[t.from] = t.nonce + 1
  <2>1. Accepts(l, t) BY DEF l
  <2> QED BY <1>2, <2>1, TransactionNonces
<1>5. m.nonces[t.from] = t.nonce
  <2>1. Accepts(m, t) BY DEF m
  <2> QED BY <2>1, AcceptedAtNonce
<1>6. Transaction(l, t).nonces[t.from] <= m.nonces[t.from] BY <1>1, <1>2, <1>3 DEF Later
<1> QED BY <1>3, <1>4, <1>5, <1>6

(***************************************************************************)
(* A set whose elements are all the same counts one at most.               *)
(***************************************************************************)
LEMMA AtMostOne ==
  ASSUME NEW S, \A p, q \in S : p = q PROVE Cardinality(S) <= 1
<1>1. CASE S = {}
  <2>1. Cardinality(S) = 0 BY <1>1, FS_EmptySet
  <2> QED BY <2>1
<1>2. CASE S # {}
  <2>1. PICK p \in S : TRUE BY <1>2
  <2>2. S = {p} BY <2>1
  <2>3. Cardinality({p}) = 1 BY FS_Singleton
  <2> QED BY <2>2, <2>3
<1> QED BY <1>1, <1>2

(***************************************************************************)
(* The replay of the best branch applies a wallet transaction once,        *)
(* however often the blocks of the branch list it.                         *)
(***************************************************************************)
LEMMA WalletApplied ==
  ASSUME NEW bs, CanonicalBlocks(bs, 0) \in Seq(Block), NEW t \in Tx, t.evm
  PROVE  TimesApplied(bs, t) <= 1
<1> DEFINE best == CanonicalBlocks(bs, 0)
           here(i, j) == best[i].txs[j] = t /\ Accepts(Before(best, i, j), t)
           S == {p \in (DOMAIN best) \X (1 .. BlockSize) :
                   p[2] \in DOMAIN best[p[1]].txs /\ here(p[1], p[2])}
<1>1. TimesApplied(bs, t) = Cardinality(S) BY DEF TimesApplied
<1> HIDE DEF best
<1>2. best \in Seq(Block) BY DEF best
<1>3. ASSUME NEW p \in S, NEW q \in S PROVE p = q
  <2>1. PICK i \in DOMAIN best, j \in 1 .. BlockSize :
          p = <<i, j>> /\ j \in DOMAIN best[i].txs /\ best[i].txs[j] = t /\ Accepts(Before(best, i, j), t)
    OBVIOUS
  <2>2. PICK x \in DOMAIN best, y \in 1 .. BlockSize :
          q = <<x, y>> /\ y \in DOMAIN best[x].txs /\ best[x].txs[y] = t /\ Accepts(Before(best, x, y), t)
    OBVIOUS
  <2>3. DOMAIN best = 1 .. Len(best) /\ Len(best) \in Nat /\ best[i] \in Block /\ best[x] \in Block BY <1>2
  <2>4. best[i].txs \in Seq(Tx) /\ best[x].txs \in Seq(Tx) BY <2>3 DEF Block
  <2>5. j \in 1 .. Len(best[i].txs) /\ y \in 1 .. Len(best[x].txs) BY <2>1, <2>2, <2>4
  <2>6. i \in 1 .. Len(best) /\ x \in 1 .. Len(best) BY <2>3
  <2>7. ~(i < x \/ (i = x /\ j < y)) BY <1>2, <2>1, <2>2, <2>5, <2>6, AcceptedOnce
  <2>8. ~(x < i \/ (x = i /\ y < j)) BY <1>2, <2>1, <2>2, <2>5, <2>6, AcceptedOnce
  <2>9. i \in Nat /\ x \in Nat /\ j \in Nat /\ y \in Nat BY <2>3, SlotAssumption
  <2>10. i = x /\ j = y BY <2>7, <2>8, <2>9
  <2> QED BY <2>1, <2>2, <2>10
<1> HIDE DEF S
<1>4. Cardinality(S) <= 1 BY <1>3, AtMostOne
<1> QED BY <1>1, <1>4
-----------------------------------------------------------------------------
(* The miner enters the registry before its transactions are replayed. *)

(***************************************************************************)
(* m is l with more accounts in the validator registry.                    *)
(***************************************************************************)
Ahead(l, m) ==
  /\ DOMAIN l = DOMAIN InitializeFromGenesis /\ DOMAIN m = DOMAIN InitializeFromGenesis
  /\ m.bal = l.bal /\ m.nonces = l.nonces /\ m.nfts = l.nfts /\ m.pools = l.pools
  /\ m.evmNonce = l.evmNonce /\ m.history = l.history
  /\ l.validators \subseteq m.validators

(***************************************************************************)
(* A larger registry refuses nothing that the smaller one lets through.    *)
(***************************************************************************)
LEMMA AheadAccepts ==
  ASSUME NEW l, NEW m, Ahead(l, m), NEW t \in Tx, Accepts(l, t)
  PROVE  Accepts(m, t)
<1>1. t.kind \in Kinds /\ t.signed BY SignedFields DEF Accepts
<1>2. \A a : IsOperator(l, a) => IsOperator(m, a) BY DEF IsOperator, Ahead
<1>3. CASE t.kind = "transfer"
  BY <1>1, <1>3 DEF Accepts, CanTransfer, NonceMatches, Ahead, ContractKinds
<1>4. CASE t.kind = "mint" BY <1>1, <1>4 DEF Accepts, CanMint, Ahead, ContractKinds
<1>5. CASE t.kind = "nft_mint" BY <1>1, <1>5 DEF Accepts, CanNFTMint, Ahead, ContractKinds
<1>6. CASE t.kind = "nft_transfer" BY <1>1, <1>6 DEF Accepts, CanNFTTransfer, Ahead, ContractKinds
<1>7. CASE t.kind = "asset_credit"
  BY <1>1, <1>2, <1>7 DEF Accepts, CanAssetCredit, ContractKinds
<1>8. CASE t.kind = "asset_debit"
  BY <1>1, <1>2, <1>8 DEF Accepts, CanAssetDebit, CanDebitAsset, Ahead, ContractKinds
<1>9. CASE t.kind = "amm_create_pool"
  BY <1>1, <1>2, <1>9 DEF Accepts, CanCreatePool, Ahead, ContractKinds
<1>10. CASE t.kind = "amm_add_liquidity"
  BY <1>1, <1>2, <1>10 DEF Accepts, CanAddLiquidity, CanDebitAsset, Ahead, ContractKinds
<1>11. CASE t.kind = "amm_swap"
  BY <1>1, <1>11 DEF Accepts, CanSwap, NonceMatches, CanDebitAsset, Ahead, ContractKinds
<1>12. CASE t.kind \in ContractKinds
  <2>1. Accepts(l, t) <=> t.signed /\ CanRunContract(l, t) BY <1>12 DEF Accepts, ContractKinds
  <2>2. Accepts(m, t) <=> t.signed /\ CanRunContract(m, t) BY <1>12 DEF Accepts, ContractKinds
  <2> QED BY <1>1, <2>1, <2>2 DEF CanRunContract, NonceMatches, Ahead
<1> QED BY <1>1, <1>3, <1>4, <1>5, <1>6, <1>7, <1>8, <1>9, <1>10, <1>11, <1>12 DEF Kinds, AMMKinds

(***************************************************************************)
(* The same transaction on both leaves them as far apart as before.        *)
(***************************************************************************)
LEMMA AheadApply ==
  ASSUME NEW l, NEW m, Ahead(l, m), NEW t \in Tx
  PROVE  Ahead(Apply(l, t), Apply(m, t))
<1>1. t.kind \in Kinds BY SignedFields
<1> DEFINE D == {"bal", "nonces", "validators", "nfts", "pools", "evmNonce", "history"}
           r == Recorded(l, t)
           q == Recorded(m, t)
<1>2. DOMAIN l = D /\ DOMAIN m = D /\ DOMAIN InitializeFromGenesis = D
  BY DEF Ahead, InitializeFromGenesis
<1>3. Ahead(r, q) BY <1>2 DEF Recorded, Ahead
<1>4. DOMAIN r = D /\ DOMAIN q = D BY <1>2 DEF Recorded
<1> HIDE DEF r, q
<1>5. CASE t.kind = "transfer"
  <2>1. Apply(l, t) = [r EXCEPT !.bal = CreditAsset(DebitAsset(l.bal, PKN, t.from, t.amount), PKN, t.to, t.amount)]
    BY <1>5 DEF Apply, Transfer, r, ContractKinds
  <2>2. Apply(m, t) = [q EXCEPT !.bal = CreditAsset(DebitAsset(m.bal, PKN, t.from, t.amount), PKN, t.to, t.amount)]
    BY <1>5 DEF Apply, Transfer, q, ContractKinds
  <2> QED BY <1>2, <1>3, <1>4, <2>1, <2>2 DEF Ahead
<1>6. CASE t.kind = "mint"
  <2>1. Apply(l, t) = [r EXCEPT !.bal = CreditAsset(l.bal, PKN, t.to, t.amount),
                                !.validators = IF t.to \in Native THEN @ \cup {t.to} ELSE @]
    BY <1>6 DEF Apply, Mint, r, ContractKinds
  <2>2. Apply(m, t) = [q EXCEPT !.bal = CreditAsset(m.bal, PKN, t.to, t.amount),
                                !.validators = IF t.to \in Native THEN @ \cup {t.to} ELSE @]
    BY <1>6 DEF Apply, Mint, q, ContractKinds
  <2> QED BY <1>2, <1>3, <1>4, <2>1, <2>2 DEF Ahead
<1>7. CASE t.kind = "nft_mint"
  <2> DEFINE v == [owner |-> t.to, minter |-> t.from, mintTx |-> t.id, lastTx |-> t.id]
  <2>1. Apply(l, t) = [r EXCEPT !.nfts[t.token] = v] BY <1>7 DEF Apply, NFTMint, r, ContractKinds
  <2>2. Apply(m, t) = [q EXCEPT !.nfts[t.token] = v] BY <1>7 DEF Apply, NFTMint, q, ContractKinds
  <2> HIDE DEF v
  <2> QED BY <1>2, <1>3, <1>4, <2>1, <2>2 DEF Ahead
<1>8. CASE t.kind = "nft_transfer"
  <2>1. Apply(l, t) = [r EXCEPT !.nfts[t.token] = [@ EXCEPT !.owner = t.to, !.lastTx = t.id]]
    BY <1>8 DEF Apply, NFTTransfer, r, ContractKinds
  <2>2. Apply(m, t) = [q EXCEPT !.nfts[t.token] = [@ EXCEPT !.owner = t.to, !.lastTx = t.id]]
    BY <1>8 DEF Apply, NFTTransfer, q, ContractKinds
  <2> QED BY <1>2, <1>3, <1>4, <2>1, <2>2 DEF Ahead
<1>9. CASE t.kind = "asset_credit"
  <2>1. Apply(l, t) = [r EXCEPT !.bal = CreditAsset(l.bal, t.assetA, t.to, t.amount)]
    BY <1>9 DEF Apply, AssetCredit, r, ContractKinds
  <2>2. Apply(m, t) = [q EXCEPT !.bal = CreditAsset(m.bal, t.assetA, t.to, t.amount)]
    BY <1>9 DEF Apply, AssetCredit, q, ContractKinds
  <2> QED BY <1>2, <1>3, <1>4, <2>1, <2>2 DEF Ahead
<1>10. CASE t.kind = "asset_debit"
  <2>1. Apply(l, t) = [r EXCEPT !.bal = DebitAsset(l.bal, t.assetA, t.to, t.amount)]
    BY <1>10 DEF Apply, AssetDebit, r, ContractKinds
  <2>2. Apply(m, t) = [q EXCEPT !.bal = DebitAsset(m.bal, t.assetA, t.to, t.amount)]
    BY <1>10 DEF Apply, AssetDebit, q, ContractKinds
  <2> QED BY <1>2, <1>3, <1>4, <2>1, <2>2 DEF Ahead
<1>11. CASE t.kind = "amm_create_pool"
  <2> DEFINE v == [assetA |-> t.assetA, assetB |-> t.assetB, reserveA |-> 0, reserveB |-> 0]
  <2>1. Apply(l, t) = [r EXCEPT !.pools[{t.assetA, t.assetB}] = v]
    BY <1>11 DEF Apply, CreatePool, r, ContractKinds
  <2>2. Apply(m, t) = [q EXCEPT !.pools[{t.assetA, t.assetB}] = v]
    BY <1>11 DEF Apply, CreatePool, q, ContractKinds
  <2> HIDE DEF v
  <2> QED BY <1>2, <1>3, <1>4, <2>1, <2>2 DEF Ahead
<1>12. CASE t.kind = "amm_add_liquidity"
  <2> DEFINE p == l.pools[t.pool]
             bal == DebitAsset(DebitAsset(l.bal, p.assetA, t.from, t.amount), p.assetB, t.from, t.amountB)
             v == [p EXCEPT !.reserveA = @ + t.amount, !.reserveB = @ + t.amountB]
  <2>1. Apply(l, t) = [r EXCEPT !.bal = bal, !.pools[t.pool] = v]
    BY <1>12 DEF Apply, AddLiquidity, r, ContractKinds
  <2>2. m.pools = l.pools /\ m.bal = l.bal BY DEF Ahead
  <2>3. Apply(m, t) = [q EXCEPT !.bal = bal, !.pools[t.pool] = v]
    BY <1>12, <2>2 DEF Apply, AddLiquidity, q, ContractKinds
  <2> HIDE DEF v, bal
  <2> QED BY <1>2, <1>3, <1>4, <2>1, <2>3 DEF Ahead
<1>13. CASE t.kind = "amm_swap"
  <2> DEFINE p == l.pools[t.pool]
             out == QuoteSwap(p, t.assetA, t.amount)
             bal == CreditAsset(DebitAsset(l.bal, t.assetA, t.from, t.amount), t.assetB, t.from, out)
             v == ApplySwap(p, t.assetA, t.amount, out)
  <2>1. Apply(l, t) = [r EXCEPT !.bal = bal, !.pools[t.pool] = v]
    BY <1>13 DEF Apply, Swap, r, ContractKinds
  <2>2. m.pools = l.pools /\ m.bal = l.bal BY DEF Ahead
  <2>3. Apply(m, t) = [q EXCEPT !.bal = bal, !.pools[t.pool] = v]
    BY <1>13, <2>2 DEF Apply, Swap, q, ContractKinds
  <2> HIDE DEF v, bal
  <2> QED BY <1>2, <1>3, <1>4, <2>1, <2>3 DEF Ahead
<1>14. CASE t.kind \in ContractKinds
  <2>1. Apply(l, t) = BumpEVMNonce(r, t) /\ Apply(m, t) = BumpEVMNonce(q, t)
    BY <1>14 DEF Apply, RunContract, r, q, ContractKinds
  <2> QED BY <1>2, <1>3, <1>4, <2>1 DEF Ahead, BumpEVMNonce
<1> QED
  BY <1>1, <1>5, <1>6, <1>7, <1>8, <1>9, <1>10, <1>11, <1>12, <1>13, <1>14 DEF Kinds, AMMKinds
(***************************************************************************)
(* A list that is accepted from l on is accepted, transaction by           *)
(* transaction, from any ledger ahead of l.                                *)
(***************************************************************************)
LEMMA AheadAll ==
  ASSUME NEW l, NEW m, Ahead(l, m), NEW txs \in Seq(Tx), AllAccepted(l, txs)
  PROVE  AllAccepted(m, txs)
<1> DEFINE F(k) == FoldLeft(Transaction, l, SubSeq(txs, 1, k))
           G(k) == FoldLeft(Transaction, m, SubSeq(txs, 1, k))
           S == {n \in Nat : n <= Len(txs) => Ahead(F(n), G(n))}
<1>1. Len(txs) \in Nat /\ \A k \in 1 .. Len(txs) : txs[k] \in Tx OBVIOUS
<1>2. F(0) = l /\ G(0) = m
  <2>1. Fold(<<"tx">>, l, SubSeq(txs, 1, 0)) = l /\ Fold(<<"tx">>, m, SubSeq(txs, 1, 0)) = m BY FoldStart
  <2> QED BY <2>1 DEF Fold
<1>3. ASSUME NEW k \in 1 .. Len(txs)
      PROVE  F(k) = Transaction(F(k - 1), txs[k]) /\ G(k) = Transaction(G(k - 1), txs[k])
  <2>1. Fold(<<"tx">>, l, SubSeq(txs, 1, k)) = Act(<<"tx">>, Fold(<<"tx">>, l, SubSeq(txs, 1, k - 1)), txs[k]) BY FoldStep
  <2>2. Fold(<<"tx">>, m, SubSeq(txs, 1, k)) = Act(<<"tx">>, Fold(<<"tx">>, m, SubSeq(txs, 1, k - 1)), txs[k]) BY FoldStep
  <2> QED BY <2>1, <2>2 DEF Fold, Act
<1>4. \A k \in 1 .. Len(txs) : Accepts(F(k - 1), txs[k]) BY DEF AllAccepted
<1>5. SUFFICES \A k \in 1 .. Len(txs) : Accepts(G(k - 1), txs[k]) BY DEF AllAccepted
<1> HIDE DEF F, G
<1>6. 0 \in S BY <1>2
<1>7. ASSUME NEW n \in S PROVE n + 1 \in S
  <2>0. n + 1 \in Nat OBVIOUS
  <2> SUFFICES ASSUME n + 1 <= Len(txs) PROVE Ahead(F(n + 1), G(n + 1)) BY <2>0
  <2>1. n \in Nat /\ n <= Len(txs) /\ n + 1 \in 1 .. Len(txs) /\ (n + 1) - 1 = n BY <1>1
  <2>2. Ahead(F(n), G(n)) BY <2>1
  <2>3. Accepts(F(n), txs[n + 1]) BY <1>4, <2>1
  <2>4. Accepts(G(n), txs[n + 1]) BY <1>1, <2>1, <2>2, <2>3, AheadAccepts
  <2>5. F(n + 1) = Apply(F(n), txs[n + 1]) /\ G(n + 1) = Apply(G(n), txs[n + 1])
    BY <1>3, <2>1, <2>3, <2>4 DEF Transaction
  <2> QED BY <1>1, <2>1, <2>2, <2>5, AheadApply
<1> HIDE DEF S
<1>8. S \in SUBSET Nat BY DEF S
<1>9. \A n \in Nat : n \in S BY <1>6, <1>7, <1>8, Induction
<1>10. ASSUME NEW k \in 1 .. Len(txs) PROVE Accepts(G(k - 1), txs[k])
  <2>1. k - 1 \in Nat /\ k - 1 <= Len(txs) BY <1>1
  <2>2. Ahead(F(k - 1), G(k - 1)) BY <1>9, <2>1 DEF S
  <2> QED BY <1>1, <1>4, <2>2, AheadAccepts
<1> QED BY <1>10

(***************************************************************************)
(* Entering the miner in the registry before its transactions, as replay   *)
(* does, refuses none that AddBlock accepted before entering it.           *)
(***************************************************************************)
LEMMA EarlyEntry ==
  ASSUME NEW p \in Seq(Block), NEW b \in Block, AllAccepted(BuildLedgerFromBlocks(p), b.txs)
  PROVE  AllAccepted(MarkValidator(BuildLedgerFromBlocks(p), b.miner), b.txs)
<1> DEFINE l == BuildLedgerFromBlocks(p)
<1>1. Wallets(l)
  <2>1. Len(p) \in 0 .. Len(p) /\ SubSeq(p, 1, Len(p)) = p OBVIOUS
  <2>2. Later(l, l) BY <2>1, BranchLater
  <2> QED BY <2>2 DEF Later
<1> HIDE DEF l
<1>2. Ahead(l, MarkValidator(l, b.miner)) BY <1>1 DEF Ahead, MarkValidator, Wallets, InitializeFromGenesis
<1>3. b.txs \in Seq(Tx) BY DEF Block
<1>4. AllAccepted(l, b.txs) BY DEF l
<1>5. AllAccepted(MarkValidator(l, b.miner), b.txs) BY <1>2, <1>3, <1>4, AheadAll
<1> QED BY <1>5 DEF l
=============================================================================
