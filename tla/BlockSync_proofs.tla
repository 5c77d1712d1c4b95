--------------------------- MODULE BlockSync_proofs ---------------------------
(***************************************************************************)
(* BlockSync, for any senders, prices, depth and number of blocks,         *)
(* transactions and faults.  First the chain: that the anchor and the      *)
(* unfinalized chain are a path of the node's blocks, and implement a log  *)
(* of finalized blocks.  Then the transactions, by sender and nonce: what  *)
(* is pending, repriced or answered as included agrees with the head chain *)
(* through every reorganisation.  Last what users are charged for it: a    *)
(* balance is what the head's path says they paid in and used up.          *)
(***************************************************************************)
EXTENDS Balances, Sums, SequenceTheorems, TLAPS

-----------------------------------------------------------------------------
(* The chain *)

\* A prefix of a sequence: its type, its length and its elements.
LEMMA PrefixFacts ==
  ASSUME NEW S, NEW s \in Seq(S), NEW n \in 0 .. Len(s)
  PROVE  /\ SubSeq(s, 1, n) \in Seq(S)
         /\ Len(SubSeq(s, 1, n)) = n
         /\ \A i \in 1 .. n : SubSeq(s, 1, n)[i] = s[i]
  OBVIOUS

\* PrefixOfAppend: the prefixes of a sequence that gets one element more.
LEMMA PrefixOfAppend ==
  ASSUME NEW S, NEW s \in Seq(S), NEW x \in S
  PROVE  /\ \A n \in 0 .. Len(s) : SubSeq(Append(s, x), 1, n) = SubSeq(s, 1, n)
         /\ SubSeq(Append(s, x), 1, Len(s) + 1) = Append(s, x)
  OBVIOUS

\* A hash is the index of its block.
LEMMA HashesAre ==
  ASSUME TypeOK
  PROVE  /\ Hashes = 1 .. Len(blocks) /\ Len(blocks) \in Nat
         /\ \A h \in Hashes : blocks[h] \in Block
BY DEF TypeOK, Hashes

\* The bundler starts on the starting block alone, where the invariant holds.
LEMMA InitInv == Init => Inv
<1> SUFFICES ASSUME Init PROVE Inv
  OBVIOUS
<1> USE DEF Init, EthInit, StartingAnchor, Genesis
<1> DEFINE first == [path |-> <<1>>, txs |-> {}, topups |-> <<>>, price |-> GenesisPrice]
<1>1. blocks \in Seq(Block) /\ Hashes = {1} /\ Path(1) = <<1>> /\ blocks[1].txs = {}
  <2>1. first \in Block
    BY PricesAssumption DEF Block
  <2>2. blocks = <<first>>
    OBVIOUS
  <2> QED
    BY <2>1, <2>2 DEF Hashes, Path
<1>2. TypeOK
  BY <1>1, BlockSyncAssumption DEF TypeOK, AnchorRecord, NoResult
<1>3. TreeOK
  <2>1. <<1>> \in Seq({1}) /\ Len(<<1>>) = 1 /\ <<1>>[1] = 1
    OBVIOUS
  <2>2. SubSeq(<<1>>, 1, 1) = <<1>>
    BY <2>1, SubSeqFull
  <2> QED
    BY <1>1, <2>1, <2>2 DEF TreeOK
<1>4. TxsFinite
  BY <1>1, FS_EmptySet DEF TxsFinite
<1>5. ChainIsPath /\ AppliedOnce
  BY <1>1 DEF ChainIsPath, AppliedOnce, AnchorLength, HeadHash
<1> QED
  BY <1>2, <1>3, <1>4, <1>5 DEF Inv

-----------------------------------------------------------------------------
(* The chain as part of the block tree *)

\* A path is a non-empty sequence of blocks.
LEMMA PathType ==
  ASSUME TreeOK, NEW h \in Hashes
  PROVE  Path(h) \in Seq(Hashes) /\ Len(Path(h)) \in Nat \ {0}
<1>1. Path(h) \in Seq(Hashes) /\ Len(Path(h)) > 0
  BY DEF TreeOK
<1> QED
  BY <1>1, LenProperties

\* The head is a block, and each block of the unfinalized chain has the path that
\* leads to it through the anchor.
LEMMA ChainOnPath ==
  ASSUME Inv
  PROVE  /\ anchor.hash \in Hashes /\ HeadHash \in Hashes
         /\ \A i \in DOMAIN chain : chain[i].hash \in Hashes
         /\ DOMAIN chain = 1 .. Len(chain) /\ Len(chain) \in Nat
         /\ AnchorLength \in Nat \ {0}
         /\ Len(Path(HeadHash)) = AnchorLength + Len(chain)
         /\ Path(HeadHash) \in Seq(Hashes)
         /\ Path(anchor.hash) = SubSeq(Path(HeadHash), 1, AnchorLength)
         /\ \A i \in 1 .. Len(chain) :
              Path(chain[i].hash) = SubSeq(Path(HeadHash), 1, AnchorLength + i)
<1>1. /\ anchor.hash \in Hashes /\ DOMAIN chain = 1 .. Len(chain) /\ Len(chain) \in Nat
      /\ \A i \in DOMAIN chain : chain[i].hash \in Hashes
  <2>1. chain \in Seq([hash : Hashes, held : SUBSET Tx]) /\ anchor \in AnchorRecord
    BY DEF Inv, TypeOK
  <2>2. DOMAIN chain = 1 .. Len(chain) /\ Len(chain) \in Nat
    BY <2>1, LenProperties
  <2>3. \A i \in DOMAIN chain : chain[i] \in [hash : Hashes, held : SUBSET Tx]
    BY <2>1, <2>2, ElementOfSeq
  <2> QED
    BY <2>1, <2>2, <2>3 DEF AnchorRecord
<1>2. HeadHash \in Hashes
  <2>1. CASE chain = <<>>
    BY <1>1, <2>1 DEF HeadHash
  <2>2. CASE chain # <<>>
    <3>1. chain \in Seq([hash : Hashes, held : SUBSET Tx])
      BY DEF Inv, TypeOK
    <3>2. Len(chain) \in DOMAIN chain
      BY <1>1, <2>2, <3>1, EmptySeq
    <3> QED
      BY <1>1, <2>2, <3>2 DEF HeadHash
  <2> QED
    BY <2>1, <2>2
<1>3. AnchorLength \in Nat \ {0} /\ Path(HeadHash) \in Seq(Hashes)
  BY <1>1, <1>2, PathType DEF Inv, AnchorLength
<1>4. /\ Len(Path(HeadHash)) = AnchorLength + Len(chain)
      /\ Path(HeadHash)[AnchorLength] = anchor.hash
      /\ \A i \in 1 .. Len(chain) : Path(HeadHash)[AnchorLength + i] = chain[i].hash
  BY <1>1 DEF Inv, ChainIsPath
<1>5. \A j \in 1 .. Len(Path(HeadHash)) :
        Path(Path(HeadHash)[j]) = SubSeq(Path(HeadHash), 1, j)
  BY <1>2 DEF Inv, TreeOK
<1>6. Path(anchor.hash) = SubSeq(Path(HeadHash), 1, AnchorLength)
  <2>1. AnchorLength \in 1 .. Len(Path(HeadHash))
    BY <1>1, <1>3, <1>4
  <2> QED
    BY <1>4, <1>5, <2>1
<1>7. ASSUME NEW i \in 1 .. Len(chain)
      PROVE  Path(chain[i].hash) = SubSeq(Path(HeadHash), 1, AnchorLength + i)
  <2>1. AnchorLength + i \in 1 .. Len(Path(HeadHash))
    BY <1>1, <1>3, <1>4
  <2> QED
    BY <1>4, <1>5, <2>1
<1> QED
  BY <1>1, <1>2, <1>3, <1>4, <1>6, <1>7, Zenon

\* What the chain invariants say depends on these variables only.
LEMMA SameTree ==
  ASSUME Inv, UNCHANGED <<blocks, anchor, chain, saved>>
  PROVE  TreeOK' /\ ChainIsPath' /\ AppliedOnce'
BY DEF Inv, TreeOK, ChainIsPath, AppliedOnce, AnchorLength, HeadHash, Path, Hashes

\* A mined block joins the tree and leaves the others alone.
LEMMA MineExtends ==
  ASSUME Inv, NEW parent \in Hashes, NEW T \in SUBSET pool, NEW tops \in TopupChoices,
         NEW price \in Prices, MineBlock(parent, T, tops, price)
  PROVE  /\ blocks' \in Seq(Block)
         /\ Len(blocks) + 1 \notin Hashes /\ Hashes' = Hashes \union {Len(blocks) + 1}
         /\ \A h \in Hashes : blocks'[h] = blocks[h]
         /\ TreeOK' /\ TxsFinite'
<1> DEFINE newPath(g) == blocks'[g].path
           h == Len(blocks) + 1
           new == [path |-> Append(Path(parent), h), txs |-> T, topups |-> tops,
                   price |-> price]
<1>0. TypeOK /\ TreeOK /\ TxsFinite
  BY DEF Inv
<1>1. Hashes = 1 .. Len(blocks) /\ Len(blocks) \in Nat
  BY <1>0, HashesAre
<1>2. Path(parent) \in Seq(Hashes) /\ Path(parent) \in Seq(Nat) /\ h \in Nat
  BY <1>0, <1>1, SeqMonotonic DEF TreeOK
<1>3. new \in Block
  <2>1. tops \in Seq(Users)
    BY ChoicesAssumption
  <2>2. T \subseteq Tx
    BY <1>0 DEF TypeOK
  <2> QED
    BY <1>2, <2>1, <2>2, AppendProperties DEF Block
<1>4. blocks' = Append(blocks, new) /\ pool' = pool
  BY DEF MineBlock
<1>5. /\ blocks' \in Seq(Block) /\ Hashes' = Hashes \union {h} /\ h \notin Hashes
      /\ \A g \in Hashes : blocks'[g] = blocks[g]
      /\ blocks'[h] = new
  <2>1. blocks \in Seq(Block)
    BY <1>0 DEF TypeOK
  <2>2. Hashes' = 1 .. Len(blocks')
    BY <1>3, <1>4, <2>1, AppendProperties, LenProperties DEF Hashes
  <2>3. Len(blocks') = Len(blocks) + 1
    BY <1>3, <1>4, <2>1, AppendProperties
  <2>4. \A g \in 1 .. Len(blocks) : blocks'[g] = blocks[g]
    BY <1>3, <1>4, <2>1, AppendProperties
  <2>5. blocks' \in Seq(Block) /\ blocks'[h] = new
    BY <1>3, <1>4, <2>1, AppendProperties
  <2> HIDE DEF new
  <2> QED
    BY <1>1, <2>2, <2>3, <2>4, <2>5
<1>6. \A g \in Hashes : newPath(g) = Path(g)
  BY <1>5 DEF Path
<1>7. newPath(h) = Append(Path(parent), h)
  BY <1>5 DEF Path
<1> HIDE DEF newPath
<1>8. TreeOK'
  <2>1. /\ Genesis \in Hashes' /\ newPath(Genesis) = <<Genesis>>
    BY <1>0, <1>5, <1>6 DEF TreeOK
  <2>2. ASSUME NEW g \in Hashes
        PROVE  /\ newPath(g) \in Seq(Hashes') /\ Len(newPath(g)) > 0
               /\ newPath(g)[1] = Genesis /\ newPath(g)[Len(newPath(g))] = g
               /\ \A i \in 1 .. Len(newPath(g)) : newPath(newPath(g)[i]) = SubSeq(newPath(g), 1, i)
    <3>1. /\ Path(g) \in Seq(Hashes) /\ Len(Path(g)) > 0
          /\ Path(g)[1] = Genesis /\ Path(g)[Len(Path(g))] = g
          /\ \A i \in 1 .. Len(Path(g)) : Path(Path(g)[i]) = SubSeq(Path(g), 1, i)
      BY <1>0 DEF TreeOK
    <3>2. \A i \in 1 .. Len(Path(g)) : Path(g)[i] \in Hashes
      BY <3>1
    <3>3. Path(g) \in Seq(Hashes')
      BY <1>5, <3>1, SeqMonotonic
    <3> QED
      BY <1>6, <3>1, <3>2, <3>3
  <2>3. /\ newPath(h) \in Seq(Hashes') /\ Len(newPath(h)) > 0
        /\ newPath(h)[1] = Genesis /\ newPath(h)[Len(newPath(h))] = h
        /\ \A i \in 1 .. Len(newPath(h)) : newPath(newPath(h)[i]) = SubSeq(newPath(h), 1, i)
    <3> DEFINE p == Path(parent)
    <3>1. /\ p \in Seq(Hashes) /\ Len(p) > 0 /\ p[1] = Genesis
          /\ \A i \in 1 .. Len(p) : Path(p[i]) = SubSeq(p, 1, i)
      BY <1>0 DEF TreeOK
    <3>2. p \in Seq(Hashes')
      BY <1>5, <3>1, SeqMonotonic
    <3>3. /\ Append(p, h) \in Seq(Hashes') /\ Len(Append(p, h)) = Len(p) + 1
          /\ \A i \in 1 .. Len(p) : Append(p, h)[i] = p[i]
          /\ Append(p, h)[Len(p) + 1] = h
      BY <1>5, <3>2, AppendProperties
    <3>4. \A i \in 1 .. Len(p) : newPath(p[i]) = SubSeq(Append(p, h), 1, i)
      <4>1. \A i \in 1 .. Len(p) : p[i] \in Hashes
        BY <3>1
      <4>2. \A n \in 0 .. Len(p) : SubSeq(Append(p, h), 1, n) = SubSeq(p, 1, n)
        BY <3>2, <1>5, PrefixOfAppend
      <4> QED
        BY <1>6, <3>1, <4>1, <4>2
    <3>5. SubSeq(Append(p, h), 1, Len(p) + 1) = Append(p, h)
      BY <3>2, <1>5, PrefixOfAppend
    <3>6. Len(p) \in Nat
      BY <3>1
    <3>7. newPath(h) = Append(p, h)
      BY <1>7
    <3>8. \A i \in 1 .. Len(p) + 1 : newPath(newPath(h)[i]) = SubSeq(newPath(h), 1, i)
      <4> TAKE i \in 1 .. Len(p) + 1
      <4>1. CASE i \in 1 .. Len(p)
        <5>1. newPath(h)[i] = p[i]
          BY <3>3, <3>7, <4>1
        <5>2. newPath(p[i]) = SubSeq(Append(p, h), 1, i)
          BY <3>4, <4>1
        <5> QED
          BY <3>7, <5>1, <5>2
      <4>2. CASE i = Len(p) + 1
        BY <3>3, <3>5, <3>7, <4>2
      <4> QED
        BY <3>6, <4>1, <4>2
    <3> HIDE DEF p, h
    <3> QED
      BY <3>1, <3>3, <3>6, <3>7, <3>8
  <2> QED
    BY <1>5, <2>1, <2>2, <2>3 DEF TreeOK, Path, newPath
<1>9. TxsFinite'
  <2>1. IsFiniteSet(T)
    BY <1>0, FS_Subset DEF TxsFinite
  <2>2. blocks'[h].txs = T
    BY <1>5
  <2>3. \A g \in Hashes : IsFiniteSet(blocks'[g].txs)
    BY <1>0, <1>5 DEF TxsFinite
  <2>4. \A g \in Hashes' : IsFiniteSet(blocks'[g].txs)
    <3> HIDE DEF h
    <3> QED
      BY <1>5, <2>1, <2>2, <2>3
  <2> QED
    BY <1>0, <1>4, <2>4 DEF TxsFinite
<1> QED
  BY <1>5, <1>6, <1>8, <1>9
-----------------------------------------------------------------------------
(* The environment preserves the invariant *)

\* Whatever was a block stays one when the tree grows.
LEMMA TypesGrow ==
  ASSUME TypeOK, Hashes \subseteq Hashes',
         blocks' \in Seq(Block), elHead' \in Hashes', news' \in Seq(Hashes'), pool' \subseteq Tx,
         UNCHANGED <<anchor, chain, pending, repriced, cache, phase, result, saved, job,
                     registered, faults>>
  PROVE  TypeOK'
<1>1. AnchorRecord \subseteq AnchorRecord'
  <2>1. \A s \in Seq(Hashes) : s \in Seq(Hashes')
    BY SeqMonotonic
  <2> QED
    BY <2>1 DEF AnchorRecord
<1>2. chain \in Seq([hash : Hashes', held : SUBSET Tx])
  <2>1. [hash : Hashes, held : SUBSET Tx] \subseteq [hash : Hashes', held : SUBSET Tx]
    OBVIOUS
  <2>2. chain \in Seq([hash : Hashes, held : SUBSET Tx])
    BY DEF TypeOK
  <2> QED
    BY <2>1, <2>2, SeqMonotonic
<1>3. anchor' \in AnchorRecord' /\ saved' \subseteq AnchorRecord'
  BY <1>1 DEF TypeOK
<1>4. \A t \in DOMAIN cache' : cache'[t] \subseteq Hashes'
  BY DEF TypeOK
<1> QED
  BY <1>2, <1>3, <1>4 DEF TypeOK

\* Mining a block or switching the head changes nothing the bundler keeps.
LEMMA EnvironmentInv == Inv /\ Environment => Inv'
<1> SUFFICES ASSUME Inv, Environment PROVE Inv'
  OBVIOUS
<1>0. TypeOK /\ TreeOK /\ TxsFinite
  BY DEF Inv
<1>1. UNCHANGED <<anchor, chain, pending, repriced, cache, phase, result, saved, job,
                  registered, faults>>
  BY DEF Environment
<1>2. ASSUME NEW parent \in Hashes, NEW T \in SUBSET pool, NEW tops \in TopupChoices,
             NEW price \in Prices, MineBlock(parent, T, tops, price)
      PROVE  Inv'
  <2>1. /\ blocks' \in Seq(Block)
        /\ Hashes' = Hashes \union {Len(blocks) + 1}
        /\ \A h \in Hashes : blocks'[h] = blocks[h]
        /\ TreeOK' /\ TxsFinite'
    BY <1>2, MineExtends
  <2>2. \/ elHead' = Len(blocks) + 1 /\ news' = Append(news, Len(blocks) + 1)
        \/ elHead' = elHead /\ news' = news
    BY <1>2 DEF MineBlock, Announce
  <2>3. elHead' \in Hashes'
    BY <1>0, <2>1, <2>2 DEF TypeOK
  <2>4. news' \in Seq(Hashes')
    <3>1. news \in Seq(Hashes')
      BY <1>0, <2>1, SeqMonotonic DEF TypeOK
    <3> QED
      BY <2>1, <2>2, <3>1, AppendProperties
  <2>5. pool' = pool
    BY <1>2 DEF MineBlock
  <2>6. TypeOK'
    BY <1>0, <1>1, <2>1, <2>3, <2>4, <2>5, TypesGrow DEF TypeOK
  <2>7. \A h \in Hashes : Path(h) = blocks'[h].path
    BY <2>1 DEF Path
  <2>8. ChainIsPath'
    BY <1>1, <2>7, ChainOnPath DEF Inv, ChainIsPath, AnchorLength, HeadHash, Path
  <2>9. AppliedOnce'
    <3>1. \A a \in {anchor} \union saved : a.hash \in Hashes
      BY <1>0 DEF TypeOK, AnchorRecord
    <3> QED
      BY <1>1, <2>7, <3>1 DEF Inv, AppliedOnce, Path
  <2> QED
    BY <1>1, <2>1, <2>6, <2>8, <2>9 DEF Inv
<1>3. ASSUME NEW h \in Hashes, SwitchHead(h)
      PROVE  Inv'
  <2>1. blocks' = blocks /\ pool' = pool /\ elHead' = h /\ news' = Append(news, h)
    BY <1>3 DEF SwitchHead, Announce
  <2>2. Hashes' = Hashes
    BY <2>1 DEF Hashes
  <2>3. news' \in Seq(Hashes')
    BY <1>0, <2>1, <2>2, AppendProperties DEF TypeOK
  <2>4. TypeOK'
    BY <1>0, <1>1, <2>1, <2>2, <2>3, TypesGrow DEF TypeOK
  <2>5. TxsFinite'
    BY <1>0, <2>1, <2>2 DEF TxsFinite
  <2> QED
    BY <1>1, <2>1, <2>4, <2>5, SameTree DEF Inv
<1> QED
  BY <1>2, <1>3 DEF Environment
-----------------------------------------------------------------------------
(* The subscriber preserves the invariant *)

\* block_position_plus_one answers a position of the chain, or 0 for the anchor.
LEMMA PositionType ==
  ASSUME Inv, NEW g \in Known
  PROVE  /\ Position(g) \in 0 .. Len(chain)
         /\ g \in Hashes
         /\ Path(g) = SubSeq(Path(HeadHash), 1, AnchorLength + Position(g))
<1>1. CASE g = anchor.hash
  BY <1>1, ChainOnPath DEF Position
<1>2. CASE g # anchor.hash
  <2>1. \E i \in DOMAIN chain : chain[i].hash = g
    BY <1>2 DEF Known
  <2>2. Position(g) \in DOMAIN chain /\ chain[Position(g)].hash = g
    BY <1>2, <2>1 DEF Position
  <2> HIDE DEF Position
  <2> QED
    BY <2>2, ChainOnPath
<1> QED
  BY <1>1, <1>2

\* Import grafts the path of h on the part of the chain that it shares.
LEMMA ImportLinks ==
  ASSUME Inv, NEW h \in Hashes, NEW first \in Attach(h), Import(h, first),
         UNCHANGED <<blocks, anchor>>
  PROVE  /\ chain' \in Seq([hash : Hashes, held : SUBSET Tx])
         /\ pending' \subseteq Tx /\ DOMAIN cache' \subseteq Tx
         /\ \A t \in DOMAIN cache' : cache'[t] \subseteq Hashes
         /\ ChainIsPath' /\ HeadHash' = h
<1> DEFINE p == Path(h)
           HP == Path(HeadHash)
           keep == Position(p[first - 1])
           fresh == SubSeq(p, first, Len(p))
           new == Range(fresh)
           before == Put(pending, Restored(keep))
           held(g) == At(before, Slots(Transfers(g)))
           included == UNION {BlobTxs(g) : g \in new}
           tail == [i \in 1 .. Len(fresh) |-> [hash |-> fresh[i], held |-> held(fresh[i])]]
<1>0. TypeOK /\ TreeOK
  BY DEF Inv
<1>1. /\ p \in Seq(Hashes) /\ Len(p) \in Nat \ {0} /\ first \in 2 .. Len(p)
      /\ p[first - 1] \in Known
      /\ Path(p[first - 1]) = SubSeq(p, 1, first - 1)
      /\ p[Len(p)] = h
  <2>1. p \in Seq(Hashes) /\ Len(p) \in Nat \ {0}
    BY <1>0, PathType
  <2>2. first \in 2 .. Len(p) /\ p[first - 1] \in Known
    BY DEF Attach
  <2>3. p[Len(p)] = h /\ \A i \in 1 .. Len(p) : Path(p[i]) = SubSeq(p, 1, i)
    BY <1>0 DEF TreeOK
  <2> HIDE DEF p
  <2>4. first - 1 \in 1 .. Len(p)
    BY <2>1, <2>2
  <2> QED
    BY <2>1, <2>2, <2>3, <2>4
<1>2. /\ keep \in 0 .. Len(chain)
      /\ SubSeq(p, 1, first - 1) = SubSeq(HP, 1, AnchorLength + keep)
  BY <1>1, PositionType
<1>3. /\ HP \in Seq(Hashes) /\ AnchorLength \in Nat \ {0}
      /\ Len(HP) = AnchorLength + Len(chain)
      /\ Len(chain) \in Nat
      /\ chain \in Seq([hash : Hashes, held : SUBSET Tx])
      /\ HP[AnchorLength] = anchor.hash
      /\ \A i \in 1 .. Len(chain) : HP[AnchorLength + i] = chain[i].hash
  BY <1>0, ChainOnPath DEF TypeOK, Inv, ChainIsPath
<1> HIDE DEF p, HP, keep
<1>4. /\ first - 1 = AnchorLength + keep
      /\ \A i \in 1 .. first - 1 : p[i] = HP[i]
  <2>1. first - 1 \in 0 .. Len(p) /\ AnchorLength + keep \in 0 .. Len(HP)
    BY <1>1, <1>2, <1>3
  <2>2. /\ Len(SubSeq(p, 1, first - 1)) = first - 1
        /\ \A i \in 1 .. first - 1 : SubSeq(p, 1, first - 1)[i] = p[i]
    BY <1>1, <2>1, PrefixFacts
  <2>3. /\ Len(SubSeq(HP, 1, AnchorLength + keep)) = AnchorLength + keep
        /\ \A i \in 1 .. AnchorLength + keep : SubSeq(HP, 1, AnchorLength + keep)[i] = HP[i]
    BY <1>3, <2>1, PrefixFacts
  <2> QED
    BY <1>2, <2>2, <2>3
<1>5. /\ fresh \in Seq(Hashes) /\ Len(fresh) = Len(p) - first + 1
      /\ \A i \in 1 .. Len(fresh) : fresh[i] = p[first - 1 + i]
  BY <1>1, SubSeqProperties
<1>6. before \subseteq Tx /\ included \subseteq Tx /\ new \subseteq Hashes
  <2>1. \A g \in Hashes : BlobTxs(g) \subseteq Tx
    BY <1>0, HashesAre DEF Block, BlobTxs
  <2>2. new \subseteq Hashes
    BY <1>5, LenProperties DEF Range
  <2>3. \A b \in Reorged(keep) : b.hash \in Hashes /\ b.held \subseteq Tx
    <3>1. keep + 1 .. Len(chain) \subseteq DOMAIN chain
      BY <1>2, <1>3
    <3>2. \A i \in DOMAIN chain : chain[i] \in [hash : Hashes, held : SUBSET Tx]
      BY <1>3, ElementOfSeq, LenProperties
    <3> QED
      BY <3>1, <3>2 DEF Reorged
  <2>4. Restored(keep) \subseteq Tx
    BY <2>1, <2>3 DEF Restored
  <2>5. pending \subseteq Tx
    BY <1>0 DEF TypeOK
  <2> QED
    BY <2>1, <2>2, <2>4, <2>5 DEF Put, Without
<1>7. \A g : held(g) \subseteq Tx
  BY <1>6 DEF At
<1> HIDE DEF fresh, new, before, held, included
<1>8. /\ tail \in Seq([hash : Hashes, held : SUBSET Tx]) /\ Len(tail) = Len(fresh)
      /\ \A i \in 1 .. Len(fresh) : tail[i].hash = fresh[i]
  <2>1. \A i \in 1 .. Len(fresh) :
          [hash |-> fresh[i], held |-> held(fresh[i])] \in [hash : Hashes, held : SUBSET Tx]
    BY <1>5, <1>7
  <2>2. Len(fresh) \in Nat
    BY <1>5
  <2> QED
    BY <2>1, <2>2
<1>9. chain' = SubSeq(chain, 1, keep) \o tail
  BY DEF Import, keep, p, fresh, new, before, held
<1> HIDE DEF tail
<1>10. /\ chain' \in Seq([hash : Hashes, held : SUBSET Tx])
       /\ Len(chain') = keep + Len(fresh)
       /\ \A i \in 1 .. keep : chain'[i] = chain[i]
       /\ \A i \in 1 .. Len(fresh) : chain'[keep + i] = tail[i]
  <2>1. /\ SubSeq(chain, 1, keep) \in Seq([hash : Hashes, held : SUBSET Tx])
        /\ Len(SubSeq(chain, 1, keep)) = keep
        /\ \A i \in 1 .. keep : SubSeq(chain, 1, keep)[i] = chain[i]
    BY <1>2, <1>3, PrefixFacts
  <2>2. Len(fresh) \in Nat /\ keep \in Nat
    BY <1>2, <1>5
  <2> DEFINE old == SubSeq(chain, 1, keep)
  <2> HIDE DEF old
  <2>3. /\ old \o tail \in Seq([hash : Hashes, held : SUBSET Tx])
        /\ Len(old \o tail) = keep + Len(fresh)
        /\ \A i \in 1 .. keep + Len(fresh) :
             (old \o tail)[i] = IF i <= keep THEN old[i] ELSE tail[i - keep]
    BY <1>8, <2>1, ConcatProperties DEF old
  <2> QED
    BY <1>9, <2>1, <2>2, <2>3 DEF old
<1>11. HeadHash' = h
  <2>1. Len(fresh) \in Nat \ {0} /\ fresh[Len(fresh)] = h
    BY <1>1, <1>5
  <2>2. chain' # <<>> /\ chain'[Len(chain')].hash = h
    BY <1>2, <1>8, <1>10, <2>1
  <2> QED
    BY <2>2 DEF HeadHash
<1>12. ChainIsPath'
  <2>1. Path(h)' = p /\ AnchorLength' = AnchorLength
    BY DEF p, Path, AnchorLength
  <2>2. Len(p) = AnchorLength + Len(chain')
    <3>1. /\ first \in Int /\ keep \in Int /\ AnchorLength \in Int /\ Len(p) \in Int
          /\ first - 1 = AnchorLength + keep
      BY <1>1, <1>2, <1>3, <1>4
    <3>2. Len(chain') = keep + (Len(p) - first + 1)
      BY <1>5, <1>10
    <3> QED
      BY <3>1, <3>2
  <2>3. p[AnchorLength] = anchor.hash
    BY <1>2, <1>3, <1>4
  <2>4. ASSUME NEW i \in 1 .. Len(chain')
        PROVE  p[AnchorLength + i] = chain'[i].hash
    <3>1. CASE i <= keep
      <4>1. i \in 1 .. keep /\ i \in 1 .. Len(chain)
        BY <1>2, <1>3, <1>10, <3>1
      <4>2. AnchorLength + i \in 1 .. first - 1
        BY <1>2, <1>3, <1>4, <4>1
      <4>3. p[AnchorLength + i] = HP[AnchorLength + i]
        BY <1>4, <4>2
      <4> QED
        BY <1>3, <1>10, <4>1, <4>3
    <3>2. CASE i > keep
      <4>1. i - keep \in 1 .. Len(fresh)
        BY <1>2, <1>5, <1>10, <3>2
      <4>2. chain'[i].hash = fresh[i - keep]
        BY <1>2, <1>8, <1>10, <4>1
      <4>3. fresh[i - keep] = p[AnchorLength + i]
        BY <1>1, <1>2, <1>3, <1>4, <1>5, <4>1
      <4> QED
        BY <4>2, <4>3
    <3> QED
      BY <1>2, <3>1, <3>2
  <2>5. DOMAIN chain' = 1 .. Len(chain')
    BY <1>10, LenProperties
  <2>6. Path(HeadHash)' = p
    BY <1>11, <2>1 DEF Path
  <2> QED
    BY <2>1, <2>2, <2>3, <2>4, <2>5, <2>6 DEF ChainIsPath
<1>13. pending' \subseteq Tx
  BY <1>6 DEF Import, keep, p, fresh, new, before, Without
<1>14. DOMAIN cache' \subseteq Tx /\ \A t \in DOMAIN cache' : cache'[t] \subseteq Hashes
  <2> DEFINE dom == (DOMAIN cache \union Restored(keep) \union included)
                       \ UNION {held(g) : g \in new}
             blockOf(t) == {g \in new : t \in blocks[g].txs}
  <2>1. cache' = [t \in dom |-> IF t \in included THEN blockOf(t)
                                ELSE IF t \in Restored(keep) THEN {} ELSE cache[t]]
    BY DEF Import, keep, p, fresh, new, before, held, included
  <2>2. Restored(keep) \subseteq Tx
    BY <1>6 DEF before, Put
  <2>3. dom \subseteq Tx
    BY <1>0, <1>6, <2>2 DEF TypeOK
  <2>4. \A t \in dom : t \in included \/ t \in Restored(keep) \/ t \in DOMAIN cache
    OBVIOUS
  <2>5. \A t : blockOf(t) \subseteq Hashes
    BY <1>6
  <2>6. \A t \in DOMAIN cache : cache[t] \subseteq Hashes
    BY <1>0 DEF TypeOK
  <2> HIDE DEF dom, blockOf
  <2> QED
    BY <2>1, <2>3, <2>4, <2>5, <2>6
<1> QED
  BY <1>10, <1>11, <1>12, <1>13, <1>14

\* A step that leaves the blocks alone leaves the types of their hashes alone.
LEMMA SameHashes ==
  ASSUME blocks' = blocks
  PROVE  Hashes' = Hashes /\ AnchorRecord' = AnchorRecord /\ (TreeOK => TreeOK')
BY DEF Hashes, AnchorRecord, TreeOK, Path

\* Syncing a head, through a reorganisation or not, leaves the chain linked and the
\* balances of the anchor as they were.
LEMMA SyncNextHeadInv == Inv /\ SyncNextHead => Inv'
<1> SUFFICES ASSUME Inv, SyncNextHead PROVE Inv'
  OBVIOUS
<1> DEFINE h == news[1]
<1>0. TypeOK /\ TreeOK /\ TxsFinite /\ AppliedOnce
  BY DEF Inv
<1>1. /\ news # <<>> /\ news' = Tail(news) /\ phase' = "synced"
      /\ UNCHANGED <<blocks, elHead, pool, anchor, repriced, result, saved, job,
                     registered, faults>>
  BY DEF SyncNextHead
<1>2. Hashes' = Hashes /\ AnchorRecord' = AnchorRecord /\ TreeOK'
  BY <1>0, <1>1, SameHashes
<1>3. h \in Hashes /\ news' \in Seq(Hashes')
  <2>1. news \in Seq(Hashes)
    BY <1>0 DEF TypeOK
  <2>2. Len(news) \in Nat \ {0} /\ Tail(news) \in Seq(Hashes)
    BY <1>1, <2>1, EmptySeq, HeadTailProperties
  <2> QED
    BY <1>1, <1>2, <2>1, <2>2
<1>4. /\ chain' \in Seq([hash : Hashes, held : SUBSET Tx])
      /\ pending' \subseteq Tx /\ DOMAIN cache' \subseteq Tx
      /\ \A t \in DOMAIN cache' : cache'[t] \subseteq Hashes
      /\ ChainIsPath'
  <2>1. CASE UNCHANGED <<chain, pending, cache>>
    <3>1. ChainIsPath'
      BY <1>1, <2>1, SameTree
    <3> QED
      BY <1>0, <2>1, <3>1 DEF TypeOK
  <2>2. ASSUME NEW first \in Attach(h), Import(h, first)
        PROVE  /\ chain' \in Seq([hash : Hashes, held : SUBSET Tx])
               /\ pending' \subseteq Tx /\ DOMAIN cache' \subseteq Tx
               /\ \A t \in DOMAIN cache' : cache'[t] \subseteq Hashes
               /\ ChainIsPath'
    BY <1>1, <1>3, <2>2, ImportLinks
  <2> QED
    BY <2>1, <2>2 DEF SyncNextHead
<1>5. TypeOK'
  BY <1>0, <1>1, <1>2, <1>3, <1>4 DEF TypeOK
<1>6. TxsFinite' /\ AppliedOnce'
  BY <1>0, <1>1, <1>2 DEF TxsFinite, AppliedOnce, Path
<1> QED
  BY <1>1, <1>2, <1>4, <1>5, <1>6 DEF Inv

\* A new anchor takes over the head's path where it stands on it, with the blocks
\* up to it applied.
LEMMA AdvanceLinks ==
  ASSUME Inv, NEW k \in NewAnchorPositions, AdvanceTo(k), UNCHANGED <<blocks, saved>>
  PROVE  /\ anchor' \in AnchorRecord /\ chain' \in Seq([hash : Hashes, held : SUBSET Tx])
         /\ HeadHash' = HeadHash /\ k \in 1 .. Len(chain)
         /\ anchor'.hash = chain[k].hash
         /\ ChainIsPath' /\ AppliedOnce'
<1> DEFINE HP == Path(HeadHash)
           C == [hash : Hashes, held : SUBSET Tx]
           step == [i \in 1 .. k |-> chain[i].hash]
<1>0. TypeOK /\ TreeOK /\ ChainIsPath /\ AppliedOnce
  BY DEF Inv
<1>1. /\ HP \in Seq(Hashes) /\ AnchorLength \in Nat \ {0} /\ HeadHash \in Hashes
      /\ Len(HP) = AnchorLength + Len(chain)
      /\ Len(chain) \in Nat /\ DOMAIN chain = 1 .. Len(chain)
      /\ Path(anchor.hash) = SubSeq(HP, 1, AnchorLength)
      /\ \A i \in 1 .. Len(chain) : chain[i].hash \in Hashes
      /\ \A i \in 1 .. Len(chain) : Path(chain[i].hash) = SubSeq(HP, 1, AnchorLength + i)
      /\ \A i \in 1 .. Len(chain) : HP[AnchorLength + i] = chain[i].hash
  BY <1>0, ChainOnPath DEF ChainIsPath
<1>2. chain \in Seq(C)
  BY <1>0 DEF TypeOK
<1>3. /\ k \in 1 .. Len(chain) /\ k \in Int /\ Len(chain) \in Int
      /\ 1 <= k /\ k <= Len(chain)
  BY <1>1 DEF NewAnchorPositions
<1> HIDE DEF C
<1>4. /\ chain' \in Seq(C) /\ Len(chain') = Len(chain) - k
      /\ \A i \in 1 .. Len(chain) - k : chain'[i] = chain[k + i]
  <2>1. \A i \in k + 1 .. Len(chain) : chain[i] \in C
    <3>1. k + 1 .. Len(chain) \subseteq 1 .. Len(chain)
      BY <1>3
    <3> QED
      BY <1>2, <3>1, ElementOfSeq
  <2>2. chain' = SubSeq(chain, k + 1, Len(chain))
    BY DEF AdvanceTo
  <2>3. k + 1 \in Int /\ Len(chain) \in Int
    BY <1>1, <1>3
  <2>4. /\ SubSeq(chain, k + 1, Len(chain)) \in Seq(C)
        /\ Len(SubSeq(chain, k + 1, Len(chain))) = 
             IF k + 1 <= Len(chain) THEN Len(chain) - (k + 1) + 1 ELSE 0
        /\ \A i \in 1 .. Len(chain) - (k + 1) + 1 :
             SubSeq(chain, k + 1, Len(chain))[i] = chain[k + 1 + i - 1]
    BY <2>1, <2>3, SubSeqProperties
  <2>5. \A i \in 1 .. Len(chain) - k : i \in 1 .. Len(chain) - (k + 1) + 1 /\ k + 1 + i - 1 = k + i
    BY <1>1, <1>3
  <2>6. (IF k + 1 <= Len(chain) THEN Len(chain) - (k + 1) + 1 ELSE 0) = Len(chain) - k
    <3> DEFINE n == Len(chain)
    <3> HIDE DEF n
    <3>1. k \in Int /\ n \in Int /\ k <= n
      BY <1>3 DEF n
    <3>2. (IF k + 1 <= n THEN n - (k + 1) + 1 ELSE 0) = n - k
      BY <3>1
    <3> QED
      BY <3>2 DEF n
  <2> QED
    BY <2>2, <2>4, <2>5, <2>6
<1>5. anchor' = [hash |-> chain[k].hash, applied |-> anchor.applied \o step]
  <2>1. SubSeq(chain, 1, k) \in Seq(C) /\ \A i \in 1 .. k : SubSeq(chain, 1, k)[i] = chain[i]
    BY <1>2, <1>3, PrefixFacts
  <2>2. [i \in 1 .. k |-> SubSeq(chain, 1, k)[i].hash] = step
    BY <2>1
  <2>3. anchor' = [hash |-> chain[k].hash,
                   applied |-> anchor.applied \o [i \in 1 .. k |-> SubSeq(chain, 1, k)[i].hash]]
    BY DEF AdvanceTo
  <2> QED
    BY <2>2, <2>3
<1> HIDE DEF HP, step
<1>6. HeadHash' = HeadHash
  <2>1. CASE k = Len(chain)
    <3>1. chain' = <<>>
      BY <1>1, <1>4, <2>1, EmptySeq
    <3>2. HeadHash = chain[k].hash
      BY <1>1, <1>3, <2>1 DEF HeadHash
    <3> QED
      BY <1>5, <3>1, <3>2 DEF HeadHash
  <2>2. CASE k # Len(chain)
    <3>1. Len(chain) - k \in 1 .. Len(chain) - k /\ k + (Len(chain) - k) = Len(chain)
      <4> DEFINE n == Len(chain)
      <4> HIDE DEF n
      <4>1. k \in Int /\ n \in Int /\ k <= n /\ k # n
        BY <1>3, <2>2 DEF n
      <4>2. n - k \in 1 .. n - k /\ k + (n - k) = n
        BY <4>1
      <4> QED
        BY <4>2 DEF n
    <3>2. chain' # <<>> /\ chain # <<>>
      BY <1>1, <1>3, <1>4, <3>1
    <3>3. chain'[Len(chain')] = chain[Len(chain)]
      BY <1>4, <3>1
    <3> QED
      BY <3>2, <3>3 DEF HeadHash
  <2> QED
    BY <2>1, <2>2
<1>7. /\ SubSeq(HP, 1, AnchorLength + k) \in Seq(Hashes)
      /\ Len(SubSeq(HP, 1, AnchorLength + k)) = AnchorLength + k
      /\ \A i \in 1 .. AnchorLength + k : SubSeq(HP, 1, AnchorLength + k)[i] = HP[i]
      /\ Path(chain[k].hash) = SubSeq(HP, 1, AnchorLength + k)
  <2>1. AnchorLength + k \in 0 .. Len(HP)
    BY <1>1, <1>3
  <2> QED
    BY <1>1, <1>3, <2>1, PrefixFacts
<1>8. ChainIsPath'
  <2>1. AnchorLength' = AnchorLength + k
    BY <1>5, <1>7 DEF AnchorLength, Path
  <2>2. Path(HeadHash)' = HP
    BY <1>6 DEF HP, Path
  <2>3. DOMAIN chain' = 1 .. Len(chain')
    BY <1>4, LenProperties
  <2>4. Len(HP) = AnchorLength + k + Len(chain')
    BY <1>1, <1>3, <1>4
  <2>5. HP[AnchorLength + k] = anchor'.hash
    BY <1>1, <1>3, <1>5
  <2>6. ASSUME NEW i \in 1 .. Len(chain')
        PROVE  HP[AnchorLength + k + i] = chain'[i].hash
    <3>1. i \in 1 .. Len(chain) - k /\ k + i \in 1 .. Len(chain)
      BY <1>1, <1>3, <1>4
    <3>2. AnchorLength + (k + i) = AnchorLength + k + i
      BY <1>1, <1>3, <3>1
    <3> QED
      BY <1>1, <1>4, <3>1, <3>2
  <2> QED
    BY <2>1, <2>2, <2>3, <2>4, <2>5, <2>6 DEF ChainIsPath
<1>9. anchor.applied \o step = SubSeq(HP, 1, AnchorLength + k)
  <2>1. /\ anchor.applied \in Seq(Hashes) /\ Len(anchor.applied) = AnchorLength
        /\ \A i \in 1 .. AnchorLength : anchor.applied[i] = HP[i]
    <3>1. anchor.applied = SubSeq(HP, 1, AnchorLength)
      BY <1>0, <1>1 DEF AppliedOnce
    <3>2. AnchorLength \in 0 .. Len(HP)
      BY <1>1
    <3> QED
      BY <1>1, <3>1, <3>2, PrefixFacts
  <2>2. /\ step \in Seq(Hashes) /\ Len(step) = k
        /\ \A i \in 1 .. k : step[i] = HP[AnchorLength + i]
    BY <1>1, <1>3 DEF step
  <2>3. /\ anchor.applied \o step \in Seq(Hashes)
        /\ Len(anchor.applied \o step) = AnchorLength + k
        /\ \A i \in 1 .. AnchorLength + k : (anchor.applied \o step)[i] =
             IF i <= AnchorLength THEN anchor.applied[i] ELSE step[i - AnchorLength]
    <3> DEFINE before == anchor.applied
    <3> HIDE DEF before
    <3>1. /\ before \in Seq(Hashes) /\ Len(before) = AnchorLength
          /\ step \in Seq(Hashes) /\ Len(step) = k
      BY <2>1, <2>2 DEF before
    <3>2. /\ before \o step \in Seq(Hashes)
          /\ Len(before \o step) = Len(before) + Len(step)
          /\ \A i \in 1 .. Len(before) + Len(step) : (before \o step)[i] =
               IF i <= Len(before) THEN before[i] ELSE step[i - Len(before)]
      BY ONLY <3>1, ConcatProperties
    <3> QED
      BY <3>1, <3>2 DEF before
  <2>4. ASSUME NEW i \in 1 .. AnchorLength + k
        PROVE  (anchor.applied \o step)[i] = HP[i]
    <3>1. CASE i <= AnchorLength
      BY <1>1, <1>3, <2>1, <2>3, <3>1
    <3>2. CASE ~ (i <= AnchorLength)
      <4>1. i - AnchorLength \in 1 .. k /\ AnchorLength + (i - AnchorLength) = i
        BY <1>1, <1>3, <3>2
      <4> QED
        BY <2>2, <2>3, <3>2, <4>1
    <3> QED
      BY <3>1, <3>2
  <2> QED
    BY <1>7, <2>3, <2>4, SeqEqual
<1>10. AppliedOnce'
  <2>1. anchor'.applied = Path(anchor'.hash)
    BY <1>5, <1>7, <1>9
  <2> QED
    BY <1>0, <2>1 DEF AppliedOnce, Path
<1>11. anchor' \in AnchorRecord
  BY <1>1, <1>3, <1>5, <1>7, <1>9 DEF AnchorRecord
<1> QED
  BY <1>3, <1>4, <1>5, <1>6, <1>8, <1>10, <1>11 DEF C

\* maybe_advance_anchor_block applies the finalized blocks once and leaves the chain
\* linked to the new anchor.
LEMMA MaybeAdvanceInv == Inv /\ MaybeAdvanceAnchorBlock => Inv'
<1> SUFFICES ASSUME Inv, MaybeAdvanceAnchorBlock PROVE Inv'
  OBVIOUS
<1>0. TypeOK /\ TreeOK /\ TxsFinite
  BY DEF Inv
<1>1. UNCHANGED <<blocks, elHead, news, pool, pending, saved, job, registered, faults>>
  BY DEF MaybeAdvanceAnchorBlock
<1>2. Hashes' = Hashes /\ AnchorRecord' = AnchorRecord /\ TreeOK'
  BY <1>0, <1>1, SameHashes
<1>3. TxsFinite'
  BY <1>0, <1>1, <1>2 DEF TxsFinite
<1>4. ASSUME NEW k \in NewAnchorPositions, AdvanceTo(k), phase' = "finalizing"
      PROVE  Inv'
  <2>1. /\ anchor' \in AnchorRecord /\ chain' \in Seq([hash : Hashes, held : SUBSET Tx])
        /\ k \in 1 .. Len(chain) /\ ChainIsPath' /\ AppliedOnce'
    BY <1>1, <1>4, AdvanceLinks
  <2>2. \A g \in Hashes : BlobTxs(g) \subseteq Tx
    BY <1>0, HashesAre DEF Block, BlobTxs
  <2> DEFINE done == {SubSeq(chain, 1, k)[i].hash : i \in 1 .. k}
             blobs == UNION {BlobTxs(g) : g \in done}
             losers == At(repriced, Slots(UNION {blocks[g].txs : g \in done}))
  <2>3. done \subseteq Hashes
    <3>1. chain \in Seq([hash : Hashes, held : SUBSET Tx])
      BY <1>0 DEF TypeOK
    <3>2. \A i \in 1 .. k : SubSeq(chain, 1, k)[i] = chain[i]
      BY <2>1, <3>1, PrefixFacts
    <3>3. \A i \in 1 .. k : i \in DOMAIN chain
      BY <2>1, <3>1, LenProperties
    <3>4. \A i \in DOMAIN chain : chain[i].hash \in Hashes
      BY ChainOnPath
    <3> QED
      BY <3>2, <3>3, <3>4
  <2>4. /\ repriced' = repriced \ losers
        /\ cache' = [t \in DOMAIN cache \ (blobs \union losers) |-> cache[t]]
        /\ result' = [included |-> blobs, excluded |-> losers]
    BY <1>4 DEF AdvanceTo
  <2>5. blobs \subseteq Tx
    BY <2>2, <2>3
  <2>6. losers \subseteq Tx
    BY <1>0 DEF TypeOK, At
  <2> HIDE DEF blobs, losers, done
  <2>7. TypeOK'
    BY <1>0, <1>1, <1>2, <1>4, <2>1, <2>4, <2>5, <2>6 DEF TypeOK
  <2> QED
    BY <1>2, <1>3, <1>4, <2>1, <2>7 DEF Inv
<1>5. CASE phase' = "listen" /\ UNCHANGED <<anchor, chain, repriced, cache, result>>
  <2>1. TypeOK'
    BY <1>0, <1>1, <1>2, <1>5 DEF TypeOK
  <2>2. ChainIsPath' /\ AppliedOnce'
    BY <1>1, <1>5, SameTree
  <2> QED
    BY <1>2, <1>3, <1>5, <2>1, <2>2 DEF Inv
<1> QED
  BY <1>4, <1>5 DEF MaybeAdvanceAnchorBlock

\* While the anchor is being replaced the table holds nothing that could be taken
\* for a second row.
LEMMA AnchorRowsInv == Inv /\ (DeleteAnchorRows \/ InsertAnchorRow \/ PersistFails) => Inv'
<1> SUFFICES ASSUME Inv, DeleteAnchorRows \/ InsertAnchorRow \/ PersistFails PROVE Inv'
  OBVIOUS
<1>0. TypeOK /\ TreeOK /\ TxsFinite /\ ChainIsPath /\ AppliedOnce
  BY DEF Inv
<1>1. UNCHANGED <<blocks, elHead, news, pool, anchor, chain, pending, repriced, cache, job,
                  registered>>
  BY DEF DeleteAnchorRows, InsertAnchorRow, PersistFails
<1>2. Hashes' = Hashes /\ AnchorRecord' = AnchorRecord /\ TreeOK'
  BY <1>0, <1>1, SameHashes
<1>3. TxsFinite' /\ ChainIsPath'
  BY <1>0, <1>1, <1>2 DEF TxsFinite, ChainIsPath, AnchorLength, HeadHash, Path
<1>4. /\ saved' \subseteq {anchor} \union saved
      /\ \A a, b \in saved' : a = b
      /\ phase' = "persisting" => saved' = {}
      /\ phase' \in {"listen", "persisting"}
      /\ result' \in {result, NoResult}
      /\ faults' \in 0 .. MaxFaults
  <2>1. CASE DeleteAnchorRows
    BY <1>0, <2>1 DEF DeleteAnchorRows, TypeOK
  <2>2. CASE InsertAnchorRow
    BY <1>0, <2>2 DEF InsertAnchorRow, TypeOK, Inv
  <2>3. CASE PersistFails
    BY <1>0, <2>3, BlockSyncAssumption DEF PersistFails, TypeOK
  <2> QED
    BY <2>1, <2>2, <2>3
<1>5. TypeOK'
  <2>1. NoResult \in [included : SUBSET Tx, excluded : SUBSET Tx]
    BY DEF NoResult
  <2>2. anchor \in AnchorRecord /\ saved \subseteq AnchorRecord
    BY <1>0 DEF TypeOK
  <2> QED
    BY <1>0, <1>1, <1>2, <1>4, <2>1, <2>2 DEF TypeOK
<1>6. AppliedOnce'
  BY <1>0, <1>1, <1>4 DEF AppliedOnce, Path
<1> QED
  BY <1>2, <1>3, <1>4, <1>5, <1>6 DEF Inv

\* A step that only stops the subscriber, or drops a notification.
LEMMA StoppingInv == Inv /\ (ReorgTooDeep \/ SyncFails \/ Crash) => Inv'
<1> SUFFICES ASSUME Inv, ReorgTooDeep \/ SyncFails \/ Crash PROVE Inv'
  OBVIOUS
<1>0. TypeOK /\ TreeOK /\ TxsFinite
  BY DEF Inv
<1>1. UNCHANGED <<blocks, elHead, pool, anchor, chain, pending, repriced, cache, result,
                  saved, job, registered>>
  BY DEF ReorgTooDeep, SyncFails, Crash
<1>2. Hashes' = Hashes /\ AnchorRecord' = AnchorRecord /\ TreeOK'
  BY <1>0, <1>1, SameHashes
<1>3. phase' \in {"listen", "down"} /\ faults' \in 0 .. MaxFaults
  BY <1>0, BlockSyncAssumption DEF ReorgTooDeep, SyncFails, Crash, TypeOK
<1>4. news' \in Seq(Hashes)
  <2>1. news \in Seq(Hashes)
    BY <1>0 DEF TypeOK
  <2>2. CASE news' = news
    BY <2>1, <2>2
  <2>3. CASE news # <<>> /\ news' = Tail(news)
    BY <2>1, <2>3, HeadTailProperties
  <2> QED
    BY <2>2, <2>3 DEF ReorgTooDeep, SyncFails, Crash
<1>5. TypeOK'
  BY <1>0, <1>1, <1>2, <1>3, <1>4 DEF TypeOK
<1>6. TxsFinite' /\ ChainIsPath' /\ AppliedOnce'
  BY <1>0, <1>1, <1>2, SameTree DEF TxsFinite
<1> QED
  BY <1>2, <1>3, <1>5, <1>6 DEF Inv

-----------------------------------------------------------------------------
(* The sender preserves the invariant *)

\* A sender's nonce is a number, for only finitely many transactions are on a chain.
LEMMA TransactionCountType ==
  ASSUME Inv, NEW h \in Hashes, NEW s
  PROVE  TransactionCount(h, s) \in Nat
<1> DEFINE txsOf == [g \in Hashes |-> blocks[g].txs]
           all == {txsOf[g] : g \in Hashes}
<1>0. TypeOK /\ TreeOK /\ TxsFinite
  BY DEF Inv
<1>1. IsFiniteSet(Hashes)
  BY <1>0, HashesAre, FS_Interval
<1>2. IsFiniteSet(all)
  <2>1. txsOf \in Surjection(Hashes, all)
    BY DEF Surjection
  <2> QED
    BY <1>1, <2>1, FS_Surjection
<1>3. IsFiniteSet(UNION all)
  BY <1>0, <1>2, FS_UNION DEF TxsFinite
<1>4. TxsUpTo(h) \subseteq UNION all
  <2>1. Path(h) \in Seq(Hashes)
    BY <1>0 DEF TreeOK
  <2>2. Range(Path(h)) \subseteq Hashes
    BY <2>1, LenProperties DEF Range
  <2> QED
    BY <2>2 DEF TxsUpTo
<1>5. {t \in TxsUpTo(h) : t.from = s} \subseteq UNION all
  BY <1>4
<1>6. IsFiniteSet({t \in TxsUpTo(h) : t.from = s})
  BY <1>3, <1>5, FS_Subset
<1> QED
  BY <1>6, FS_CardinalityType DEF TransactionCount

\* A nonce the sender reserves is a natural number.
LEMMA NonceType ==
  ASSUME Inv, NEW s \in Senders, NEW n \in UsableNonces(s)
  PROVE  n \in Nat
<1>1. TransactionCount(HeadHash, s) \in Nat
  BY ChainOnPath, TransactionCountType
<1>2. n \in TransactionCount(HeadHash, s) .. TransactionCount(HeadHash, s) + MaxPending - 1
  BY DEF UsableNonces
<1> QED
  BY <1>1, <1>2, BlockSyncAssumption

\* A step of the sender that changes none of these keeps the invariant.
LEMMA SenderFrame ==
  ASSUME Inv,
         UNCHANGED <<blocks, elHead, news, anchor, chain, phase, result, saved>>,
         pool' \subseteq Tx, IsFiniteSet(pool'), pending' \subseteq Tx, repriced' \subseteq Tx,
         DOMAIN cache' \subseteq Tx, \A t \in DOMAIN cache' : cache'[t] \subseteq Hashes,
         job' \in Seq([tx : Tx, accepted : BOOLEAN]), registered' \subseteq Tx,
         faults' \in 0 .. MaxFaults
  PROVE  Inv'
<1>0. TypeOK /\ TreeOK /\ TxsFinite
  BY DEF Inv
<1>1. Hashes' = Hashes /\ AnchorRecord' = AnchorRecord /\ TreeOK'
  BY <1>0, SameHashes
<1>2. TypeOK'
  BY <1>0, <1>1 DEF TypeOK
<1>3. TxsFinite' /\ ChainIsPath' /\ AppliedOnce'
  BY <1>0, <1>1, SameTree DEF TxsFinite
<1> QED
  BY <1>1, <1>2, <1>3 DEF Inv

\* The sender changes the pending transactions only, and registers well-formed ones.
LEMMA SenderInv == Inv /\ (Sender \/ AnswerLost) => Inv'
<1> SUFFICES ASSUME Inv, Sender \/ AnswerLost PROVE Inv'
  OBVIOUS
<1> DEFINE Job == [tx : Tx, accepted : BOOLEAN]
<1>0. TypeOK /\ TxsFinite
  BY DEF Inv
<1>1. /\ pool \subseteq Tx /\ IsFiniteSet(pool) /\ pending \subseteq Tx /\ repriced \subseteq Tx
      /\ DOMAIN cache \subseteq Tx /\ \A t \in DOMAIN cache : cache[t] \subseteq Hashes
      /\ job \in Seq(Job) /\ registered \subseteq Tx /\ faults \in 0 .. MaxFaults
      /\ MaxFaults \in Nat
  BY <1>0, BlockSyncAssumption DEF TypeOK, TxsFinite
<1>2. \A t \in Tx : <<[tx |-> t, accepted |-> FALSE]>> \in Seq(Job)
  OBVIOUS
<1>3. <<>> \in Seq(Job)
  BY EmptySeq
<1>4. ASSUME job # <<>> PROVE job[1] \in Job /\ job[1].tx \in Tx
  <2>1. Len(job) \in Nat \ {0}
    BY <1>1, <1>4, EmptySeq
  <2>2. job[1] \in Job
    <3>1. 1 \in 1 .. Len(job)
      BY <2>1
    <3> HIDE DEF Job
    <3> QED
      BY <1>1, <3>1, ElementOfSeq
  <2> QED
    BY <2>2
<1>5. ASSUME NEW s \in Senders, NEW f \in Fees, NEW ps \in PartChoices, PrepareBlobTx(s, f, ps)
      PROVE  Inv'
  <2>1. PICK n \in UsableNonces(s), fee \in Fees :
          Sign([from |-> s, nonce |-> n, kind |-> "blob", fee |-> fee, parts |-> ps])
    BY <1>5 DEF PrepareBlobTx
  <2>2. n \in Nat /\ ps \in Seq(Users) /\ fee \in Fee
    BY <2>1, NonceType, ChoicesAssumption, BlockSyncAssumption, PricesAssumption DEF Fee
  <2>3. [from |-> s, nonce |-> n, kind |-> "blob", fee |-> fee, parts |-> ps] \in Tx
    BY <2>2 DEF Tx
  <2>4. job' \in Seq(Job)
    BY <1>2, <2>1, <2>3 DEF Sign
  <2>5. UNCHANGED <<blocks, elHead, news, pool, anchor, chain, pending, repriced,
                    cache, phase, result, saved, registered, faults>>
    BY <1>5 DEF PrepareBlobTx
  <2> HIDE DEF Job
  <2> QED
    BY <1>1, <2>4, <2>5, SenderFrame DEF Job
<1>6. ASSUME NEW f \in Fees, PrepareSelfTransfer(f)
      PROVE  Inv'
  <2>1. PICK stuck \in LowestPending :
          Sign([from |-> stuck.from, nonce |-> stuck.nonce, kind |-> "transfer",
                fee |-> [base |-> Reprice(f, stuck.fee).base, blob |-> TopFee],
                parts |-> <<>>])
    BY <1>6 DEF PrepareSelfTransfer
  <2>2. stuck \in Tx
    BY <1>1 DEF LowestPending
  <2>3. Reprice(f, stuck.fee).base \in Nat
    BY <2>2, BlockSyncAssumption DEF Reprice, Larger, Tx, Fee
  <2>4. [base |-> Reprice(f, stuck.fee).base, blob |-> TopFee] \in Fee
    BY <2>3, PricesAssumption DEF Fee
  <2>5. <<>> \in Seq(Users)
    BY EmptySeq
  <2>6. [from |-> stuck.from, nonce |-> stuck.nonce, kind |-> "transfer",
         fee |-> [base |-> Reprice(f, stuck.fee).base, blob |-> TopFee],
         parts |-> <<>>] \in Tx
    BY <2>2, <2>4, <2>5 DEF Tx
  <2>7. job' \in Seq(Job)
    BY <1>2, <2>1, <2>6 DEF Sign
  <2>8. UNCHANGED <<blocks, elHead, news, pool, anchor, chain, pending, repriced,
                    cache, phase, result, saved, registered, faults>>
    BY <1>6 DEF PrepareSelfTransfer
  <2> HIDE DEF Job
  <2> QED
    BY <1>1, <2>7, <2>8, SenderFrame DEF Job
<1>7. CASE NodeAccepts
  <2>1. job[1] \in Job /\ job[1].tx \in Tx
    BY <1>4, <1>7 DEF NodeAccepts
  <2>2. pool' \subseteq Tx /\ IsFiniteSet(pool')
    BY <1>1, <1>7, <2>1, FS_AddElement DEF NodeAccepts
  <2>3. job' \in Seq(Job)
    <3>1. [job[1] EXCEPT !.accepted = TRUE] \in Job
      BY <2>1
    <3>2. job' = <<[job[1] EXCEPT !.accepted = TRUE]>>
      BY <1>7 DEF NodeAccepts
    <3> HIDE DEF Job
    <3> QED
      BY <3>1, <3>2
  <2>4. UNCHANGED <<blocks, elHead, news, anchor, chain, pending, repriced, cache,
                    phase, result, saved, registered, faults>>
    BY <1>7 DEF NodeAccepts
  <2> HIDE DEF Job
  <2> QED
    BY <1>1, <2>2, <2>3, <2>4, SenderFrame DEF Job
<1>8. CASE NodeRejects
  <2>1. UNCHANGED <<blocks, elHead, news, pool, anchor, chain, pending, repriced,
                    cache, phase, result, saved, registered, faults>> /\ job' = <<>>
    BY <1>8 DEF NodeRejects
  <2> HIDE DEF Job
  <2> QED
    BY <1>1, <1>3, <2>1, SenderFrame DEF Job
<1>9. CASE AnswerLost
  <2>1. job[1].tx \in Tx
    BY <1>4, <1>9 DEF AnswerLost
  <2>2. pool' \subseteq Tx /\ IsFiniteSet(pool')
    BY <1>1, <1>9, <2>1, FS_AddElement DEF AnswerLost
  <2>3. faults' \in 0 .. MaxFaults
    BY <1>1, <1>9 DEF AnswerLost
  <2>4. UNCHANGED <<blocks, elHead, news, anchor, chain, pending, repriced, cache,
                    phase, result, saved, registered>> /\ job' = <<>>
    BY <1>9 DEF AnswerLost
  <2> HIDE DEF Job
  <2> QED
    BY <1>1, <1>3, <2>2, <2>3, <2>4, SenderFrame DEF Job
<1>10. CASE RegisterSent
  <2> DEFINE t == job[1].tx
  <2>1. t \in Tx
    BY <1>4, <1>10 DEF RegisterSent
  <2>2. /\ pending' = Put(pending, {t}) /\ repriced' = repriced \union At(pending, {Slot(t)})
        /\ cache' = [u \in DOMAIN cache \union {t} |-> IF u = t THEN {} ELSE cache[u]]
        /\ registered' = registered \union {t} /\ job' = <<>>
    BY <1>10 DEF RegisterSent
  <2>3. UNCHANGED <<blocks, elHead, news, pool, anchor, chain, phase, result, saved, faults>>
    BY <1>10 DEF RegisterSent
  <2> HIDE DEF t, Job
  <2>4. pending' \subseteq Tx /\ repriced' \subseteq Tx /\ registered' \subseteq Tx
    BY <1>1, <2>1, <2>2 DEF Put, Without, At
  <2>5. DOMAIN cache' \subseteq Tx /\ \A u \in DOMAIN cache' : cache'[u] \subseteq Hashes
    BY <1>1, <2>1, <2>2
  <2> QED
    BY <1>1, <1>3, <2>2, <2>3, <2>4, <2>5, SenderFrame DEF Job
<1> QED
  BY <1>5, <1>6, <1>7, <1>8, <1>9, <1>10 DEF Sender

-----------------------------------------------------------------------------
(* The invariant *)

\* A restart from the saved anchor, or from the starting block, restores the invariant.
LEMMA RestartInv == Inv /\ Restart => Inv'
<1> SUFFICES ASSUME Inv, Restart PROVE Inv'
  OBVIOUS
<1>0. TypeOK /\ TreeOK /\ TxsFinite /\ AppliedOnce
  BY DEF Inv
<1>1. /\ UNCHANGED <<blocks, elHead, pool, saved, faults>>
      /\ chain' = <<>> /\ pending' = {} /\ repriced' = {} /\ cache' = << >>
      /\ phase' = "listen" /\ result' = NoResult /\ job' = <<>> /\ registered' = {}
      /\ news' = <<>>
  BY DEF Restart
<1>2. Hashes' = Hashes /\ AnchorRecord' = AnchorRecord /\ TreeOK'
  BY <1>0, <1>1, SameHashes
<1>3. anchor' \in AnchorRecord /\ anchor'.applied = Path(anchor'.hash)
  <2>1. CASE saved = {}
    <3>1. anchor' = [hash |-> Genesis, applied |-> <<Genesis>>]
      BY <2>1 DEF Restart, StartingAnchor
    <3>2. Genesis \in Hashes /\ Path(Genesis) = <<Genesis>> /\ <<Genesis>> \in Seq(Hashes)
      BY <1>0 DEF TreeOK
    <3> QED
      BY <3>1, <3>2 DEF AnchorRecord
  <2>2. CASE saved # {}
    BY <1>0, <2>2 DEF Restart, TypeOK, AppliedOnce
  <2> QED
    BY <2>1, <2>2
<1>4. TypeOK'
  <2>1. NoResult \in [included : SUBSET Tx, excluded : SUBSET Tx]
    BY DEF NoResult
  <2>2. DOMAIN cache' = {} /\ news' \in Seq(Hashes)
    BY <1>1, EmptySeq
  <2> QED
    BY <1>0, <1>1, <1>2, <1>3, <2>1, <2>2 DEF TypeOK
<1>5. ChainIsPath'
  <2> DEFINE p == Path(anchor'.hash)
  <2>1. anchor'.hash \in Hashes /\ p \in Seq(Hashes) /\ Len(p) \in Nat \ {0}
        /\ p[Len(p)] = anchor'.hash
    BY <1>0, <1>3, PathType DEF AnchorRecord, TreeOK
  <2>2. HeadHash' = anchor'.hash /\ Path(HeadHash)' = p /\ AnchorLength' = Len(p)
    BY <1>1 DEF HeadHash, AnchorLength, Path
  <2>3. Len(chain') = 0 /\ DOMAIN chain' = {}
    BY <1>1
  <2> HIDE DEF p
  <2> QED
    BY <2>1, <2>2, <2>3 DEF ChainIsPath
<1>6. TxsFinite' /\ AppliedOnce'
  BY <1>0, <1>1, <1>2, <1>3 DEF TxsFinite, AppliedOnce, Path
<1> QED
  BY <1>1, <1>2, <1>4, <1>5, <1>6 DEF Inv

\* A step that changes nothing keeps the invariant.
LEMMA StutterInv == Inv /\ UNCHANGED vars => Inv'
<1> SUFFICES ASSUME Inv, UNCHANGED vars PROVE Inv'
  OBVIOUS
<1>1. Hashes' = Hashes /\ AnchorRecord' = AnchorRecord
  BY SameHashes DEF vars
<1>2. TypeOK' /\ TxsFinite'
  BY <1>1 DEF Inv, TypeOK, TxsFinite, vars
<1>3. TreeOK' /\ ChainIsPath' /\ AppliedOnce'
  BY SameTree DEF vars
<1> QED
  BY <1>2, <1>3 DEF Inv, vars

\* Every step preserves the invariant.
LEMMA StepInv == Inv /\ [Next]_vars => Inv'
BY EnvironmentInv, SyncNextHeadInv, MaybeAdvanceInv, AnchorRowsInv, StoppingInv, SenderInv,
   RestartInv, StutterInv
   DEF Next, Subscriber, Faults

\* The invariant holds in every state, for every set of senders, users and prices,
\* every finalize_depth and any number of blocks, transactions and faults.
THEOREM InvHolds == Spec => []Inv
BY InitInv, StepInv, PTL DEF Spec

\* Every variable keeps its type, and the anchor table never holds two rows.
THEOREM TypeCorrect == Spec => []TypeOK
<1>1. Inv => TypeOK
  BY DEF Inv
<1> QED
  BY <1>1, InvHolds, PTL

\* The finalized balances contain every block up to the anchor exactly once and in
\* order, in memory and in the row a restart reads.
THEOREM AppliedOnceHolds == Spec => []AppliedOnce
<1>1. Inv => AppliedOnce
  BY DEF Inv
<1> QED
  BY <1>1, InvHolds, PTL

\* How high the anchor, the head and the blocks between them are.
LEMMA Numbers ==
  ASSUME Inv
  PROVE  /\ Number(anchor.hash) = AnchorLength - 1
         /\ Number(HeadHash) = AnchorLength + Len(chain) - 1
         /\ \A i \in 1 .. Len(chain) : Number(chain[i].hash) = AnchorLength + i - 1
<1>1. /\ AnchorLength \in Nat \ {0} /\ Len(chain) \in Nat
      /\ Len(Path(HeadHash)) = AnchorLength + Len(chain)
      /\ Path(HeadHash) \in Seq(Hashes)
      /\ \A i \in 1 .. Len(chain) :
           Path(chain[i].hash) = SubSeq(Path(HeadHash), 1, AnchorLength + i)
  BY ChainOnPath
<1>2. Number(anchor.hash) = AnchorLength - 1
  BY DEF Number, AnchorLength
<1>3. Number(HeadHash) = AnchorLength + Len(chain) - 1
  BY <1>1 DEF Number
<1>4. ASSUME NEW i \in 1 .. Len(chain)
      PROVE  Number(chain[i].hash) = AnchorLength + i - 1
  <2>1. AnchorLength + i \in 0 .. Len(Path(HeadHash))
    BY <1>1
  <2>2. Len(SubSeq(Path(HeadHash), 1, AnchorLength + i)) = AnchorLength + i
    BY <1>1, <2>1, PrefixFacts
  <2> QED
    BY <1>1, <2>2 DEF Number
<1> QED
  BY <1>2, <1>3, <1>4

\* The anchor moves exactly when more than finalize_depth blocks are on top of it,
\* to the one block that has finalize_depth blocks on top.
LEMMA WhenToAdvance ==
  ASSUME Inv
  PROVE  /\ MustAdvance <=> Depth < Len(chain)
         /\ NewAnchorPositions = {k \in 1 .. Len(chain) : k = Len(chain) - Depth}
<1>1. AnchorLength \in Nat \ {0} /\ Len(chain) \in Nat /\ Depth \in Nat
      /\ DOMAIN chain = 1 .. Len(chain)
  BY ChainOnPath, BlockSyncAssumption
<1>2. MustAdvance <=> Depth < Len(chain)
  BY <1>1, Numbers DEF MustAdvance
<1>3. ASSUME NEW i \in 1 .. Len(chain)
      PROVE  Number(chain[i].hash) = Number(HeadHash) - Depth <=> i = Len(chain) - Depth
  <2>1. /\ Number(chain[i].hash) = AnchorLength + i - 1
        /\ Number(HeadHash) = AnchorLength + Len(chain) - 1
    BY Numbers
  <2>2. \A a \in Int, n \in Int, d \in Int, j \in Int :
          a + j - 1 = a + n - 1 - d <=> j = n - d
    OBVIOUS
  <2>3. AnchorLength \in Int /\ Len(chain) \in Int /\ Depth \in Int /\ i \in Int
    BY <1>1
  <2> QED
    BY <2>1, <2>2, <2>3
<1> QED
  BY <1>1, <1>2, <1>3 DEF NewAnchorPositions

\* The unfinalized chain always leads from the anchor to the head, and the block to
\* finalize is always found on it.
THEOREM ChainLinkedHolds == Spec => []ChainLinked
<1>1. Inv => ChainLinked
  <2> SUFFICES ASSUME Inv, MustAdvance PROVE NewAnchorPositions # {}
    BY DEF ChainLinked, Inv
  <2>1. Depth < Len(chain) /\ Len(chain) \in Nat /\ Depth \in Nat
    BY WhenToAdvance, ChainOnPath, BlockSyncAssumption
  <2>2. Len(chain) - Depth \in 1 .. Len(chain)
    BY <2>1
  <2> QED
    BY <2>2, WhenToAdvance
<1> QED
  BY <1>1, InvHolds, PTL

\* What AnchorDeep says, step by step.
LEMMA DeepStep == Inv /\ AnchorDeep /\ [Next]_vars => AnchorDeep'
<1> SUFFICES ASSUME Inv, AnchorDeep, [Next]_vars PROVE AnchorDeep'
  OBVIOUS
<1>0. Len(chain) \in Nat /\ Depth \in Nat
  BY ChainOnPath, BlockSyncAssumption
<1>1. CASE SyncNextHead
  BY <1>1 DEF SyncNextHead, AnchorDeep
<1>2. CASE MaybeAdvanceAnchorBlock
  <2>1. ASSUME NEW k \in NewAnchorPositions, AdvanceTo(k), phase' = "finalizing"
        PROVE  AnchorDeep'
    <3>1. k = Len(chain) - Depth /\ k \in 1 .. Len(chain)
      BY <2>1, WhenToAdvance
    <3>2. chain' = SubSeq(chain, k + 1, Len(chain))
      BY <2>1 DEF AdvanceTo
    <3>3. chain \in Seq([hash : Hashes, held : SUBSET Tx])
      BY DEF Inv, TypeOK
    <3>4. Len(chain') = Len(chain) - k
      BY <1>0, <3>1, <3>2, <3>3
    <3> QED
      BY <1>0, <2>1, <3>1, <3>4 DEF AnchorDeep
  <2>2. CASE ~MustAdvance /\ phase' = "listen" /\ chain' = chain
    BY <1>0, <2>2, WhenToAdvance DEF AnchorDeep
  <2> QED
    BY <1>2, <2>1, <2>2 DEF MaybeAdvanceAnchorBlock
<1>3. CASE Restart
  BY <1>0, <1>3 DEF Restart, AnchorDeep
<1>4. CASE ReorgTooDeep \/ SyncFails \/ Crash
  BY <1>4 DEF ReorgTooDeep, SyncFails, Crash, AnchorDeep
<1>5. CASE DeleteAnchorRows \/ InsertAnchorRow \/ PersistFails
  BY <1>0, <1>5 DEF DeleteAnchorRows, InsertAnchorRow, PersistFails, AnchorDeep
<1>6. CASE Environment \/ Sender \/ AnswerLost \/ UNCHANGED vars
  <2>1. UNCHANGED <<chain, phase>>
    BY <1>6 DEF Environment, Sender, PrepareBlobTx, PrepareSelfTransfer, NodeAccepts,
                NodeRejects, AnswerLost, RegisterSent, vars
  <2> QED
    BY <2>1 DEF AnchorDeep
<1> QED
  BY <1>1, <1>2, <1>3, <1>4, <1>5, <1>6 DEF Next, Subscriber, Faults

\* Between two events of the subscriber at most finalize_depth blocks are
\* unfinalized, and exactly that many are left on top of a new anchor.
THEOREM AnchorDeepHolds == Spec => []AnchorDeep
<1>1. Init => AnchorDeep
  BY BlockSyncAssumption DEF Init, AnchorDeep
<1> QED
  BY <1>1, DeepStep, InvHolds, PTL DEF Spec

-----------------------------------------------------------------------------
(* BlockSync implements FinalityLog *)

\* A step that leaves anchor, chain, table and known blocks alone changes no chain
\* of the log.
LEMMA LogStutter ==
  ASSUME Inv, UNCHANGED <<anchor, chain, saved>>,
         Hashes \subseteq Hashes', \A h \in Hashes : blocks'[h] = blocks[h]
  PROVE  UNCHANGED <<Path(anchor.hash), Path(HeadHash), SavedPath>>
<1>1. /\ anchor.hash \in Hashes /\ HeadHash \in Hashes
      /\ \A a \in saved : a.hash \in Hashes
  BY ChainOnPath DEF Inv, TypeOK, AnchorRecord
<1>2. HeadHash' = HeadHash
  BY DEF HeadHash
<1>3. Path(anchor.hash)' = Path(anchor.hash) /\ Path(HeadHash)' = Path(HeadHash)
  BY <1>1, <1>2 DEF Path
<1>4. SavedPath' = SavedPath
  BY <1>1 DEF SavedPath, Path
<1> QED
  BY <1>3, <1>4

\* The anchor's path is a prefix of the head's.
LEMMA AnchorBelowHead ==
  ASSUME Inv
  PROVE  /\ Log!IsPrefix(Path(anchor.hash), Path(HeadHash))
         /\ Path(HeadHash) \in Seq(Nat)
<1>1. /\ AnchorLength \in Nat \ {0} /\ Len(chain) \in Nat
      /\ Len(Path(HeadHash)) = AnchorLength + Len(chain)
      /\ Path(HeadHash) \in Seq(Hashes)
      /\ Path(anchor.hash) = SubSeq(Path(HeadHash), 1, AnchorLength)
      /\ Len(Path(anchor.hash)) = AnchorLength
  BY ChainOnPath DEF AnchorLength
<1>2. Hashes \subseteq Nat
  BY HashesAre DEF Inv
<1>3. Path(HeadHash) \in Seq(Nat)
  BY <1>1, <1>2, SeqMonotonic
<1>4. AnchorLength \in 0 .. Len(Path(HeadHash))
  BY <1>1
<1>5. SubSeq(Path(anchor.hash), 1, AnchorLength) = Path(anchor.hash)
  <2>1. Path(anchor.hash) \in Seq(Hashes)
    BY <1>1, <1>4, PrefixFacts
  <2> QED
    BY <1>1, <2>1, SubSeqFull
<1> QED
  BY <1>1, <1>3, <1>5 DEF Log!IsPrefix

\* An import moves the head above the final chain.
LEMMA ImportMovesHead ==
  ASSUME Inv, NEW h \in Hashes, NEW first \in Attach(h), Import(h, first), Inv',
         UNCHANGED <<blocks, anchor, saved>>
  PROVE  Log!MoveHead
<1>1. Path(anchor.hash)' = Path(anchor.hash) /\ SavedPath' = SavedPath
  BY DEF Path, SavedPath
<1>2. (Inv => /\ Log!IsPrefix(Path(anchor.hash), Path(HeadHash))
              /\ Path(HeadHash) \in Seq(Nat))'
  BY AnchorBelowHead, PTL
<1>3. /\ Log!IsPrefix(Path(anchor.hash)', Path(HeadHash)')
      /\ Path(HeadHash)' \in Seq(Nat)
  BY <1>2 DEF Log!IsPrefix
<1> QED
  BY <1>1, <1>3 DEF Log!MoveHead

\* A new anchor finalizes blocks that Depth blocks confirm.
LEMMA AdvanceFinalizes ==
  ASSUME Inv, NEW k \in NewAnchorPositions, AdvanceTo(k), UNCHANGED <<blocks, saved>>
  PROVE  Log!Finalize
<1> DEFINE HP == Path(HeadHash)
           n == AnchorLength + k
           old == Path(anchor.hash)
           new == Path(anchor.hash)'
<1>1. /\ AnchorLength \in Nat \ {0} /\ Len(chain) \in Nat
      /\ Len(HP) = AnchorLength + Len(chain) /\ HP \in Seq(Hashes)
      /\ old = SubSeq(HP, 1, AnchorLength)
      /\ \A i \in 1 .. Len(chain) : Path(chain[i].hash) = SubSeq(HP, 1, AnchorLength + i)
  BY ChainOnPath
<1>2. k \in 1 .. Len(chain) /\ k = Len(chain) - Depth /\ Depth \in Nat
  BY WhenToAdvance, BlockSyncAssumption
<1>3. HeadHash' = HeadHash /\ anchor'.hash = chain[k].hash
  BY AdvanceLinks
<1>4. Path(HeadHash)' = HP /\ SavedPath' = SavedPath
  BY <1>3 DEF Path, SavedPath
<1>5. new = SubSeq(HP, 1, n)
  BY <1>1, <1>2, <1>3 DEF Path
<1> HIDE DEF HP, old, new
<1>6. /\ n \in Nat /\ AnchorLength < n /\ n <= Len(HP)
      /\ AnchorLength \in 0 .. Len(HP) /\ n \in 0 .. Len(HP) /\ AnchorLength \in 0 .. n
      /\ Len(HP) = n + Depth
  BY <1>1, <1>2
<1> HIDE DEF n
<1>7. /\ new \in Seq(Hashes) /\ Len(new) = n /\ \A i \in 1 .. n : new[i] = HP[i]
      /\ old \in Seq(Hashes) /\ Len(old) = AnchorLength
      /\ \A i \in 1 .. AnchorLength : old[i] = HP[i]
  BY <1>1, <1>5, <1>6, PrefixFacts
<1>8. SubSeq(new, 1, n) = new /\ SubSeq(old, 1, AnchorLength) = old
  BY <1>7, SubSeqFull
<1>9. SubSeq(new, 1, AnchorLength) = old
  <2> DEFINE s == SubSeq(new, 1, AnchorLength)
  <2>1. s \in Seq(Hashes) /\ Len(s) = AnchorLength
        /\ \A i \in 1 .. AnchorLength : s[i] = new[i]
    BY <1>6, <1>7, PrefixFacts
  <2> HIDE DEF s
  <2>2. 1 .. AnchorLength \subseteq 1 .. n
    BY <1>1, <1>6
  <2>3. \A i \in 1 .. AnchorLength : s[i] = old[i]
    BY <1>7, <2>1, <2>2
  <2>4. s = old
    BY <1>7, <2>1, <2>3, SeqEqual
  <2> QED
    BY <2>4 DEF s
<1>10. Log!IsStrictPrefix(old, new)
  BY <1>1, <1>6, <1>7, <1>8, <1>9 DEF Log!IsStrictPrefix, Log!IsPrefix
<1>11. Log!IsPrefix(new, HP)
  BY <1>5, <1>6, <1>7, <1>8 DEF Log!IsPrefix
<1>12. Len(HP) = Len(new) + Depth
  BY <1>6, <1>7
<1> QED
  BY <1>4, <1>10, <1>11, <1>12 DEF Log!Finalize, HP, old, new

\* Each step is a step of the log, or changes none of its chains.
LEMMA LogStep ==
  ASSUME Inv, Inv', [Next]_vars
  PROVE  Log!Next \/ UNCHANGED <<Path(anchor.hash), Path(HeadHash), SavedPath>>
<1>0. TypeOK /\ TreeOK
  BY DEF Inv
<1>1. CASE Environment
  <2>1. UNCHANGED <<anchor, chain, saved>>
    BY <1>1 DEF Environment
  <2>2. Hashes \subseteq Hashes' /\ \A h \in Hashes : blocks'[h] = blocks[h]
    <3>1. ASSUME NEW parent \in Hashes, NEW T \in SUBSET pool, NEW tops \in TopupChoices,
                 NEW price \in Prices, MineBlock(parent, T, tops, price)
          PROVE  Hashes \subseteq Hashes' /\ \A h \in Hashes : blocks'[h] = blocks[h]
      <4>1. Hashes' = Hashes \union {Len(blocks) + 1} /\ \A h \in Hashes : blocks'[h] = blocks[h]
        BY <3>1, MineExtends
      <4> QED
        BY <4>1
    <3>2. ASSUME NEW g \in Hashes, SwitchHead(g)
          PROVE  Hashes \subseteq Hashes' /\ \A h \in Hashes : blocks'[h] = blocks[h]
      BY <3>2 DEF SwitchHead, Hashes
    <3> QED
      BY <1>1, <3>1, <3>2 DEF Environment
  <2> QED
    BY <2>1, <2>2, LogStutter
<1>2. CASE SyncNextHead
  <2>1. UNCHANGED <<blocks, anchor, saved>>
    BY <1>2 DEF SyncNextHead
  <2>2. CASE UNCHANGED chain
    BY <2>1, <2>2, LogStutter DEF Hashes
  <2>3. ASSUME NEW first \in Attach(news[1]), Import(news[1], first)
        PROVE  Log!Next
    <3>1. news[1] \in Hashes
      <4>1. news \in Seq(Hashes) /\ news # <<>>
        BY <1>0, <1>2 DEF SyncNextHead, TypeOK
      <4>2. Len(news) \in Nat \ {0}
        BY <4>1, EmptySeq
      <4> QED
        BY <4>1, <4>2
    <3> QED
      BY <2>1, <2>3, <3>1, ImportMovesHead DEF Log!Next
  <2> QED
    BY <1>2, <2>2, <2>3 DEF SyncNextHead
<1>3. CASE MaybeAdvanceAnchorBlock
  <2>1. UNCHANGED <<blocks, saved>>
    BY <1>3 DEF MaybeAdvanceAnchorBlock
  <2>2. CASE UNCHANGED <<anchor, chain>>
    BY <2>1, <2>2, LogStutter DEF Hashes
  <2>3. ASSUME NEW k \in NewAnchorPositions, AdvanceTo(k)
        PROVE  Log!Next
    BY <2>1, <2>3, AdvanceFinalizes DEF Log!Next
  <2> QED
    BY <1>3, <2>2, <2>3 DEF MaybeAdvanceAnchorBlock
<1>4. CASE DeleteAnchorRows \/ InsertAnchorRow
  <2>1. UNCHANGED <<blocks, anchor, chain>>
    BY <1>4 DEF DeleteAnchorRows, InsertAnchorRow
  <2>2. Path(anchor.hash)' = Path(anchor.hash) /\ Path(HeadHash)' = Path(HeadHash)
    BY <2>1 DEF Path, HeadHash
  <2>3. saved' \in {{}, {anchor}}
    BY <1>4 DEF DeleteAnchorRows, InsertAnchorRow, Inv
  <2>4. SavedPath' \in {<<Genesis>>, Path(anchor.hash)}
    BY <2>1, <2>3 DEF SavedPath, Path
  <2> QED
    BY <2>2, <2>4 DEF Log!Next, Log!Store
<1>5. CASE Restart
  <2>1. /\ UNCHANGED <<blocks, saved>> /\ chain' = <<>>
    BY <1>5 DEF Restart
  <2>2. Path(anchor.hash)' = SavedPath
    <3>1. CASE saved = {}
      <4>1. anchor'.hash = Genesis /\ Path(Genesis) = <<Genesis>>
        BY <1>0, <1>5, <3>1 DEF Restart, StartingAnchor, TreeOK
      <4> QED
        BY <2>1, <3>1, <4>1 DEF SavedPath, Path
    <3>2. CASE saved # {}
      <4>1. anchor' \in saved
        BY <1>5, <3>2 DEF Restart
      <4>2. anchor' = CHOOSE a \in saved : TRUE
        BY <1>0, <4>1 DEF TypeOK
      <4> QED
        BY <2>1, <3>2, <4>2 DEF SavedPath, Path
    <3> QED
      BY <3>1, <3>2
  <2>3. Path(HeadHash)' = Path(anchor.hash)'
    BY <2>1 DEF HeadHash, Path
  <2>4. SavedPath' = SavedPath
    BY <2>1 DEF SavedPath, Path
  <2> QED
    BY <2>2, <2>3, <2>4 DEF Log!Next, Log!Restart
<1>6. CASE \/ Sender \/ ReorgTooDeep \/ Faults \/ UNCHANGED vars
  <2>1. UNCHANGED <<blocks, anchor, chain, saved>>
    BY <1>6 DEF Sender, PrepareBlobTx, PrepareSelfTransfer, NodeAccepts, NodeRejects,
                RegisterSent, ReorgTooDeep, Faults, SyncFails, PersistFails, AnswerLost,
                Crash, vars
  <2> QED
    BY <2>1, LogStutter DEF Hashes
<1> QED
  BY <1>1, <1>2, <1>3, <1>4, <1>5, <1>6 DEF Next, Subscriber

\* The anchor, the head and the persisted anchor behave as the chains of FinalityLog:
\* only blocks confirmed by finalize_depth blocks become final, no reorganisation
\* replaces a final block, and a restart resumes from what was stored.
THEOREM Implementation == Spec => ImplementsFinalityLog
<1>1. Init => Log!Init
  <2> SUFFICES ASSUME Init PROVE Log!Init
    OBVIOUS
  <2>1. Path(Genesis) = <<Genesis>>
    BY DEF Init, EthInit, Path, Genesis
  <2>2. anchor.hash = Genesis /\ HeadHash = Genesis /\ saved = {}
    BY DEF Init, StartingAnchor, HeadHash
  <2> QED
    BY <2>1, <2>2 DEF Log!Init, SavedPath
<1>2. Inv /\ Inv' /\ [Next]_vars =>
        [Log!Next]_<<Path(anchor.hash), Path(HeadHash), SavedPath>>
  BY LogStep
<1> QED
  BY <1>1, <1>2, InvHolds, PTL DEF Spec, ImplementsFinalityLog, Log!Spec

-----------------------------------------------------------------------------
(* Transactions by sender and nonce *)

Trunk(h) == Range(Path(h))

\* On a path each slot is used once, by one transaction ...
UniqueOn(h) ==
    \A g, f \in Trunk(h) : \A t \in blocks[g].txs, u \in blocks[f].txs :
      Slot(t) = Slot(u) => g = f /\ t = u

\* ... and a sender has used the nonces below its count, and no others.
CountedOn(h) ==
    \A s \in Senders :
      {t.nonce : t \in {u \in TxsUpTo(h) : u.from = s}} = 0 .. TransactionCount(h, s) - 1

NoncesOK == \A h \in Hashes : UniqueOn(h) /\ CountedOn(h)

\* The placeholders a block holds are of slots that its transfers have used ...
HeldOK ==
    \A i \in DOMAIN chain :
      /\ Slots(chain[i].held) \subseteq Slots(Transfers(chain[i].hash))
      /\ \A t, u \in chain[i].held : Slot(t) = Slot(u) => t = u

\* ... and of each such slot that the bundler registered, unless it is pending still.
HeldAll ==
    \A t \in registered : \A i \in DOMAIN chain :
      Slot(t) \in Slots(Transfers(chain[i].hash)) =>
        Slot(t) \in Slots(chain[i].held) \union Slots(pending)

RepricedKnown == Slots(repriced) \subseteq Slots(registered)

SlotInv ==
    /\ NoncesOK /\ HeldOK /\ HeldAll /\ RepricedKnown
    /\ OnePerSlot /\ NonceHeld /\ RepricedHasRival /\ NoStaleInclusion

-----------------------------------------------------------------------------
(* The tree *)

\* The blocks of a path, as what they are made of.
LEMMA TrunkFacts ==
  ASSUME Inv, NEW h \in Hashes
  PROVE  /\ Trunk(h) \subseteq Hashes /\ h \in Trunk(h)
         /\ Trunk(h) = {Path(h)[i] : i \in 1 .. Len(Path(h))}
         /\ \A i, j \in 1 .. Len(Path(h)) : Path(h)[i] = Path(h)[j] => i = j
         /\ \A g \in Trunk(h) : blocks[g].txs \subseteq Tx
         /\ TxsUpTo(h) \subseteq Tx
<1>0. TypeOK /\ TreeOK
    BY DEF Inv
<1>1. Path(h) \in Seq(Hashes) /\ Len(Path(h)) \in Nat \ {0} /\ DOMAIN Path(h) = 1 .. Len(Path(h))
    BY <1>0, PathType, LenProperties
<1>2. Trunk(h) = {Path(h)[i] : i \in 1 .. Len(Path(h))}
    BY <1>1 DEF Trunk, Range
<1>3. \A i \in 1 .. Len(Path(h)) : Path(h)[i] \in Hashes
    BY <1>1
<1>4. h \in Trunk(h)
  <2>1. Path(h)[Len(Path(h))] = h
      BY <1>0 DEF TreeOK
  <2>2. Len(Path(h)) \in 1 .. Len(Path(h))
      BY <1>1
  <2> QED
      BY <1>2, <2>1, <2>2
<1>5. \A i, j \in 1 .. Len(Path(h)) : Path(h)[i] = Path(h)[j] => i = j
  <2>1. \A i \in 1 .. Len(Path(h)) : Path(Path(h)[i]) = SubSeq(Path(h), 1, i)
      BY <1>0 DEF TreeOK
  <2>2. \A i \in 1 .. Len(Path(h)) : Len(SubSeq(Path(h), 1, i)) = i
      BY <1>1, PrefixFacts
  <2> QED
      BY <2>1, <2>2
<1>6. \A g \in Hashes : blocks[g].txs \subseteq Tx
    BY <1>0, HashesAre DEF Block
<1>7. Trunk(h) \subseteq Hashes
    BY <1>2, <1>3
<1>8. TxsUpTo(h) = UNION {blocks[g].txs : g \in Trunk(h)}
    BY DEF TxsUpTo, Trunk
<1>9. TxsUpTo(h) \subseteq Tx /\ \A g \in Trunk(h) : blocks[g].txs \subseteq Tx
    BY <1>6, <1>7, <1>8
<1> QED
    BY <1>2, <1>4, <1>5, <1>7, <1>9

\* Finitely many transactions are on a path.
LEMMA MineFinite ==
  ASSUME Inv, NEW h \in Hashes, NEW s
  PROVE  IsFiniteSet({t \in TxsUpTo(h) : t.from = s})
<1> DEFINE txsOf == [g \in Hashes |-> blocks[g].txs]
           all == {txsOf[g] : g \in Hashes}
<1>0. TypeOK /\ TxsFinite
    BY DEF Inv
<1>1. IsFiniteSet(Hashes)
    BY <1>0, HashesAre, FS_Interval
<1>2. IsFiniteSet(all)
  <2>1. txsOf \in Surjection(Hashes, all)
      BY DEF Surjection
  <2> QED
      BY <1>1, <2>1, FS_Surjection
<1>3. IsFiniteSet(UNION all)
    BY <1>0, <1>2, FS_UNION DEF TxsFinite
<1>4. {t \in TxsUpTo(h) : t.from = s} \subseteq UNION all
    BY TrunkFacts DEF TxsUpTo, Trunk
<1> QED
    BY <1>3, <1>4, FS_Subset

Of(T, s) == {t \in T : t.from = s}

\* The nonces of a block's transactions of one sender differ, for there are as many
\* nonces as transactions.
LEMMA BlockNonces ==
  ASSUME Inv, NEW parent \in Hashes, NEW T \in SUBSET pool, NEW price,
         Includable(T, parent, price), NEW s \in Senders
  PROVE  /\ IsFiniteSet(Of(T, s)) /\ Cardinality(Of(T, s)) \in Nat
         /\ {t.nonce : t \in Of(T, s)} = TransactionCount(parent, s) ..
                           TransactionCount(parent, s) + Cardinality(Of(T, s)) - 1
         /\ \A t, u \in Of(T, s) : t.nonce = u.nonce => t = u
<1> DEFINE mine == {t \in T : t.from = s}
           next == TransactionCount(parent, s)
           top == next + Cardinality(mine) - 1
           nonceOf == [t \in mine |-> t.nonce]
<1>1. IsFiniteSet(mine)
  <2>1. IsFiniteSet(pool) /\ mine \subseteq pool
      BY DEF Inv, TxsFinite
  <2> QED
      BY <2>1, FS_Subset
<1>2. Cardinality(mine) \in Nat /\ next \in Nat
    BY <1>1, FS_CardinalityType, TransactionCountType
<1>3. {t.nonce : t \in mine} = next .. top
    BY DEF Includable
<1>4. Cardinality(next .. top) = Cardinality(mine)
  <2> HIDE DEF next, mine
  <2>1. next \in Int /\ top \in Int
      BY <1>2
  <2>2. Cardinality(next .. top) = IF next > top THEN 0 ELSE top - next + 1
      BY <2>1, FS_Interval
  <2> QED
      BY <1>2, <2>2
<1>5. nonceOf \in Surjection(mine, next .. top)
  <2>1. \A t \in mine : t.nonce \in next .. top
      BY <1>3
  <2>2. nonceOf \in [mine -> next .. top]
      BY <2>1
  <2>3. \A n \in next .. top : \E t \in mine : nonceOf[t] = n
    <3>1. \A n \in next .. top : n \in {t.nonce : t \in mine}
        BY <1>3
    <3> QED
        BY <3>1
  <2> HIDE DEF nonceOf, mine, top
  <2> QED
      BY <2>2, <2>3 DEF Surjection
<1>6. nonceOf \in Injection(mine, next .. top)
  <2> HIDE DEF nonceOf, mine, top, next
  <2> QED
      BY <1>1, <1>4, <1>5, FS_SurjSameCardinalityImpliesInj
<1>7. \A t, u \in mine : nonceOf[t] = nonceOf[u] => t = u
  <2> HIDE DEF nonceOf, mine, top
  <2> QED
      BY <1>6 DEF Injection, IsInjective
<1>8. \A t, u \in mine : t.nonce = u.nonce => t = u
    BY <1>7
<1>9. mine = Of(T, s)
    BY DEF Of
<1> HIDE DEF mine
<1> QED
    BY <1>1, <1>2, <1>3, <1>8, <1>9

\* A block that continues the counts leaves each slot of its path used once.
LEMMA MineNonces ==
  ASSUME Inv, NoncesOK, NEW parent \in Hashes, NEW T \in SUBSET pool, NEW tops \in TopupChoices,
         NEW price \in Prices, MineBlock(parent, T, tops, price)
  PROVE  NoncesOK'
<1>0. PICK h : h = Len(blocks) + 1
    OBVIOUS
<1> DEFINE newTrunk(g) == Range(blocks'[g].path)
           newTxs(g) == UNION {blocks'[f].txs : f \in newTrunk(g)}
<1>1. /\ h \notin Hashes /\ Hashes' = Hashes \union {h}
      /\ \A g \in Hashes : blocks'[g] = blocks[g]
    BY <1>0, MineExtends
<1>2. blocks'[h].path = Append(Path(parent), h) /\ blocks'[h].txs = T
  <2>1. blocks \in Seq(Block)
      BY DEF Inv, TypeOK
  <2> QED
      BY <1>0, <2>1 DEF MineBlock
<1>3. newTrunk(h) = Trunk(parent) \union {h}
  <2>1. Path(parent) \in Seq(Hashes)
      BY PathType DEF Inv
  <2>2. Range(Append(Path(parent), h)) = Range(Path(parent)) \union {h}
    <3> DEFINE p == Path(parent)
               S == Hashes \union {h}
    <3>1. p \in Seq(S) /\ h \in S
        BY <2>1, SeqMonotonic
    <3> HIDE DEF p, S
    <3>2. /\ DOMAIN Append(p, h) = 1 .. Len(p) + 1 /\ DOMAIN p = 1 .. Len(p) /\ Len(p) \in Nat
          /\ \A i \in 1 .. Len(p) : Append(p, h)[i] = p[i]
          /\ Append(p, h)[Len(p) + 1] = h
        BY <3>1
    <3>3. Range(Append(p, h)) = Range(p) \union {h}
        BY <3>2 DEF Range
    <3> QED
        BY <3>3 DEF p
  <2> QED
      BY <1>2, <2>2 DEF Trunk
<1>4. Trunk(parent) \subseteq Hashes /\ h \notin Trunk(parent)
    BY <1>1, TrunkFacts
<1>5. newTxs(h) = TxsUpTo(parent) \union T
  <2>1. TxsUpTo(parent) = UNION {blocks[g].txs : g \in Trunk(parent)}
      BY DEF TxsUpTo, Trunk
  <2>2. \A g \in Trunk(parent) : blocks'[g].txs = blocks[g].txs
      BY <1>1, <1>4
  <2> QED
      BY <1>2, <1>3, <2>1, <2>2
<1>6. \A g \in Hashes : newTrunk(g) = Trunk(g) /\ newTxs(g) = TxsUpTo(g)
  <2> TAKE g \in Hashes
  <2>1. newTrunk(g) = Trunk(g)
      BY <1>1 DEF Trunk, Path
  <2>2. Trunk(g) \subseteq Hashes
      BY TrunkFacts
  <2>3. \A f \in Trunk(g) : blocks'[f].txs = blocks[f].txs
      BY <1>1, <2>2
  <2>4. TxsUpTo(g) = UNION {blocks[f].txs : f \in Trunk(g)}
      BY DEF TxsUpTo, Trunk
  <2> HIDE DEF newTrunk
  <2> QED
      BY <2>1, <2>3, <2>4
<1> HIDE DEF newTrunk, newTxs
<1>7. T \subseteq Tx /\ UniqueOn(parent) /\ CountedOn(parent) /\ Includable(T, parent, price)
    BY DEF Inv, TypeOK, NoncesOK, MineBlock
<1>8. \A s \in Senders : {t.nonce : t \in {u \in newTxs(h) : u.from = s}}
                             = 0 .. Cardinality({u \in newTxs(h) : u.from = s}) - 1
  <2> TAKE s \in Senders
  <2> DEFINE old == {t \in TxsUpTo(parent) : t.from = s}
             mine == Of(T, s)
             n == TransactionCount(parent, s)
             c == Cardinality(mine)
  <2>1. /\ IsFiniteSet(mine) /\ c \in Nat
        /\ {t.nonce : t \in mine} = n .. n + c - 1
      BY <1>7, BlockNonces
  <2>2. IsFiniteSet(old) /\ n \in Nat /\ n = Cardinality(old)
      BY MineFinite, TransactionCountType DEF TransactionCount
  <2>3. {t.nonce : t \in old} = 0 .. n - 1
      BY <1>7 DEF CountedOn
  <2>4. {u \in newTxs(h) : u.from = s} = old \union mine
      BY <1>5 DEF Of
  <2> HIDE DEF old, mine, n, c
  <2>5. old \intersect mine = {}
    <3>1. \A t \in old : t.nonce \in 0 .. n - 1
        BY <2>3
    <3>2. \A t \in mine : t.nonce \in n .. n + c - 1
        BY <2>1
    <3> QED
        BY <2>1, <2>2, <3>1, <3>2
  <2>6. Cardinality(old \union mine) = n + c
    <3>1. Cardinality(old \union mine) = Cardinality(old) + Cardinality(mine)
                                            - Cardinality(old \intersect mine)
        BY <2>1, <2>2, FS_Union
    <3>2. Cardinality(old \intersect mine) = 0 /\ c = Cardinality(mine)
        BY <2>5, FS_EmptySet DEF c
    <3> QED
        BY <2>1, <2>2, <2>5, <3>1, <3>2
  <2>7. {t.nonce : t \in old \union mine} = 0 .. n + c - 1
    <3>1. {t.nonce : t \in old \union mine} = {t.nonce : t \in old} \union {t.nonce : t \in mine}
        OBVIOUS
    <3>2. (0 .. n - 1) \union (n .. n + c - 1) = 0 .. n + c - 1
        BY <2>1, <2>2
    <3> QED
        BY <2>1, <2>3, <3>1, <3>2
  <2> DEFINE all == {u \in newTxs(h) : u.from = s}
  <2>8. all = old \union mine
      BY <2>4
  <2> HIDE DEF all
  <2>9. {t.nonce : t \in all} = 0 .. Cardinality(all) - 1
    <3>1. Cardinality(all) = n + c
        BY <2>6, <2>8
    <3>2. {t.nonce : t \in all} = 0 .. n + c - 1
        BY <2>7, <2>8
    <3>3. 0 .. Cardinality(all) - 1 = 0 .. n + c - 1
        BY <2>1, <2>2, <3>1
    <3> QED
        BY <3>2, <3>3
  <2> QED
      BY <2>9 DEF all
<1>9. \A g, f \in newTrunk(h) : \A t \in blocks'[g].txs, u \in blocks'[f].txs :
        Slot(t) = Slot(u) => g = f /\ t = u
  <2>1. \A t \in TxsUpTo(parent), u \in T : Slot(t) # Slot(u)
    <3> SUFFICES ASSUME NEW t \in TxsUpTo(parent), NEW u \in T, Slot(t) = Slot(u) PROVE FALSE
        OBVIOUS
    <3> DEFINE s == t.from
               n == TransactionCount(parent, s)
               c == Cardinality(Of(T, s))
    <3>1. t.from = u.from /\ t.nonce = u.nonce
        BY DEF Slot
    <3>2. s \in Senders
      <4>1. t \in Tx
          BY TrunkFacts
      <4> QED
          BY <4>1 DEF Tx
    <3>3. t.nonce \in 0 .. n - 1
      <4>1. t.nonce \in {v.nonce : v \in {w \in TxsUpTo(parent) : w.from = s}}
          OBVIOUS
      <4> QED
          BY <1>7, <3>2, <4>1 DEF CountedOn
    <3>4. u.nonce \in n .. n + c - 1
      <4>1. u.nonce \in {v.nonce : v \in Of(T, s)}
          BY <3>1 DEF Of
      <4>2. {v.nonce : v \in Of(T, s)} = n .. n + c - 1
          BY <1>7, <3>2, BlockNonces
      <4> HIDE DEF s, n, c
      <4> QED
          BY <4>1, <4>2
    <3>5. n \in Nat
        BY TransactionCountType
    <3> HIDE DEF n, c, s
    <3> QED
        BY <3>1, <3>3, <3>4, <3>5
  <2>2. \A t, u \in T : Slot(t) = Slot(u) => t = u
    <3> TAKE t, u \in T
    <3>1. t.from \in Senders
        BY <1>7 DEF Tx
    <3>2. \A v, w \in Of(T, t.from) : v.nonce = w.nonce => v = w
        BY <1>7, <3>1, BlockNonces
    <3> QED
        BY <3>2 DEF Slot, Of
  <2>3. \A g \in Trunk(parent) : blocks'[g].txs = blocks[g].txs /\ blocks[g].txs \subseteq TxsUpTo(parent)
      BY <1>1, <1>4 DEF TxsUpTo, Trunk
  <2>4. \A g, f \in Trunk(parent) : \A t \in blocks[g].txs, u \in blocks[f].txs :
          Slot(t) = Slot(u) => g = f /\ t = u
      BY <1>7 DEF UniqueOn
  <2> QED
      BY <1>2, <1>3, <2>1, <2>2, <2>3, <2>4
<1>10. \A g \in Hashes' : UniqueOn(g)' /\ CountedOn(g)'
  <2>1. ASSUME NEW g \in Hashes PROVE UniqueOn(g)' /\ CountedOn(g)'
    <3>1. UniqueOn(g) /\ CountedOn(g) /\ Trunk(g) \subseteq Hashes
        BY TrunkFacts DEF NoncesOK
    <3>2. Trunk(g)' = Trunk(g) /\ TxsUpTo(g)' = TxsUpTo(g)
        BY <1>6 DEF newTrunk, newTxs, Trunk, TxsUpTo, Path
    <3>3. \A f \in Trunk(g) : blocks'[f].txs = blocks[f].txs
        BY <1>1, <3>1
    <3>4. UniqueOn(g)'
        BY <3>1, <3>2, <3>3 DEF UniqueOn
    <3>5. CountedOn(g)'
        BY <3>1, <3>2 DEF CountedOn, TransactionCount
    <3> QED
        BY <3>4, <3>5
  <2>2. UniqueOn(h)' /\ CountedOn(h)'
    <3>1. Trunk(h)' = newTrunk(h) /\ TxsUpTo(h)' = newTxs(h)
        BY DEF newTrunk, newTxs, Trunk, TxsUpTo, Path
    <3>2. UniqueOn(h)'
        BY <1>9, <3>1 DEF UniqueOn
    <3>3. CountedOn(h)'
        BY <1>8, <3>1 DEF CountedOn, TransactionCount
    <3> QED
        BY <3>2, <3>3
  <2> QED
      BY <1>1, <2>1, <2>2
<1> QED
    BY <1>10 DEF NoncesOK

\* While no block is mined the nonces of the paths stay what they are.
LEMMA SameNonces == ASSUME NoncesOK, UNCHANGED blocks PROVE NoncesOK'
<1>1. Hashes' = Hashes
    BY DEF Hashes
<1>2. ASSUME NEW h \in Hashes PROVE UniqueOn(h)' /\ CountedOn(h)'
  <2>1. UniqueOn(h) /\ CountedOn(h)
      BY DEF NoncesOK
  <2>2. Trunk(h)' = Trunk(h) /\ TxsUpTo(h)' = TxsUpTo(h)
      BY DEF Trunk, TxsUpTo, Path
  <2> QED
      BY <2>1, <2>2 DEF UniqueOn, CountedOn, TransactionCount
<1> QED
    BY <1>1, <1>2 DEF NoncesOK

\* Blocks are added to the tree and none of them changes.
LEMMA TreeStep ==
  ASSUME Inv, NoncesOK, Environment
  PROVE  /\ NoncesOK' /\ Hashes \subseteq Hashes' /\ \A h \in Hashes : blocks'[h] = blocks[h]
<1>1. CASE UNCHANGED blocks
    BY <1>1, SameNonces DEF Hashes
<1>2. ASSUME NEW parent \in Hashes, NEW T \in SUBSET pool, NEW tops \in TopupChoices,
             NEW price \in Prices, MineBlock(parent, T, tops, price)
      PROVE  NoncesOK' /\ Hashes \subseteq Hashes' /\ \A h \in Hashes : blocks'[h] = blocks[h]
    BY <1>2, MineNonces, MineExtends
<1> QED
    BY <1>1, <1>2 DEF Environment, SwitchHead

-----------------------------------------------------------------------------
(* A reorganisation, as what it does to sets of transactions *)

\* The chain above its first keep blocks is replaced by the blocks of new, and both
\* grow from stem, the part of the paths that they share.
Before(keep) == Put(pending, Restored(keep))

Grafts(h, keep, new, stem) ==
    /\ keep \in 0 .. Len(chain)
    /\ stem \subseteq Trunk(HeadHash) /\ stem \subseteq Trunk(h)
    /\ \A g \in Trunk(HeadHash) \ stem : \E i \in DOMAIN chain : i > keep /\ chain[i].hash = g
    /\ new \subseteq Trunk(h) \ stem
    /\ \A i \in DOMAIN chain : i <= keep =>
         i \in DOMAIN chain' /\ chain'[i] = chain[i] /\ chain[i].hash \in stem
    /\ \A i \in DOMAIN chain' : i \in 1 .. keep => i \in DOMAIN chain /\ chain'[i] = chain[i]
    /\ \A i \in DOMAIN chain' : i \notin 1 .. keep =>
         /\ chain'[i].hash \in new
         /\ chain'[i].held = At(Before(keep), Slots(Transfers(chain'[i].hash)))
    /\ \A g \in new : \E i \in DOMAIN chain' : chain'[i].hash = g
    /\ pending' = Without(Before(keep), Slots(UNION {blocks[g].txs : g \in new}))
    /\ \A t \in DOMAIN cache' :
         \/ \E g \in new : t \in BlobTxs(g) /\ cache'[t] = {f \in new : t \in blocks[f].txs}
         \/ cache'[t] = {}
         \/ t \in DOMAIN cache \ Restored(keep) /\ cache'[t] = cache[t]

\* sync_next_head grafts: what its sequences do, as a fact about blocks and sets.
LEMMA ImportGrafts ==
  ASSUME Inv, NEW h \in Hashes, NEW first \in Attach(h), Import(h, first)
  PROVE  \E keep, new, stem : /\ Grafts(h, keep, new, stem)
                               /\ new = Range(SubSeq(Path(h), first, Len(Path(h))))
<1> DEFINE p == Path(h)
           HP == Path(HeadHash)
           keep == Position(p[first - 1])
           fresh == SubSeq(p, first, Len(p))
           new == Range(fresh)
           stem == {p[i] : i \in 1 .. first - 1}
           held(g) == At(Before(keep), Slots(Transfers(g)))
           included == UNION {BlobTxs(g) : g \in new}
           tail == [i \in 1 .. Len(fresh) |-> [hash |-> fresh[i], held |-> held(fresh[i])]]
<1>0. TypeOK /\ TreeOK /\ ChainIsPath
    BY DEF Inv
<1>1. /\ p \in Seq(Hashes) /\ Len(p) \in Nat \ {0} /\ first \in 2 .. Len(p)
      /\ p[first - 1] \in Known
      /\ Path(p[first - 1]) = SubSeq(p, 1, first - 1)
      /\ \A i, j \in 1 .. Len(p) : p[i] = p[j] => i = j
      /\ Trunk(h) = {p[i] : i \in 1 .. Len(p)}
  <2>1. p \in Seq(Hashes) /\ Len(p) \in Nat \ {0}
      BY <1>0, PathType
  <2>2. first \in 2 .. Len(p) /\ p[first - 1] \in Known
      BY DEF Attach
  <2>3. \A i \in 1 .. Len(p) : Path(p[i]) = SubSeq(p, 1, i)
      BY <1>0 DEF TreeOK
  <2>4. /\ \A i, j \in 1 .. Len(p) : p[i] = p[j] => i = j
        /\ Trunk(h) = {p[i] : i \in 1 .. Len(p)}
      BY TrunkFacts
  <2> HIDE DEF p
  <2>5. first - 1 \in 1 .. Len(p)
      BY <2>1, <2>2
  <2> QED
      BY <2>1, <2>2, <2>3, <2>4, <2>5
<1>2. /\ keep \in 0 .. Len(chain)
      /\ SubSeq(p, 1, first - 1) = SubSeq(HP, 1, AnchorLength + keep)
    BY <1>1, PositionType
<1>3. /\ HP \in Seq(Hashes) /\ AnchorLength \in Nat \ {0}
      /\ Len(HP) = AnchorLength + Len(chain)
      /\ Len(chain) \in Nat /\ DOMAIN chain = 1 .. Len(chain)
      /\ chain \in Seq([hash : Hashes, held : SUBSET Tx])
      /\ \A i \in 1 .. Len(chain) : HP[AnchorLength + i] = chain[i].hash
      /\ Trunk(HeadHash) = {HP[i] : i \in 1 .. Len(HP)}
    BY <1>0, ChainOnPath, TrunkFacts DEF TypeOK, ChainIsPath
<1>4. chain' = SubSeq(chain, 1, keep) \o tail
    BY DEF Import, Before
<1>5. pending' = Without(Before(keep), Slots(UNION {blocks[g].txs : g \in new}))
    BY DEF Import, Before
<1>6. \A t \in DOMAIN cache' :
        \/ \E g \in new : t \in BlobTxs(g) /\ cache'[t] = {f \in new : t \in blocks[f].txs}
        \/ cache'[t] = {}
        \/ t \in DOMAIN cache \ Restored(keep) /\ cache'[t] = cache[t]
  <2> DEFINE dom == (DOMAIN cache \union Restored(keep) \union included)
                       \ UNION {held(g) : g \in new}
             blockOf(t) == {g \in new : t \in blocks[g].txs}
  <2>1. cache' = [t \in dom |-> IF t \in included THEN blockOf(t)
                                ELSE IF t \in Restored(keep) THEN {} ELSE cache[t]]
      BY DEF Import, Before
  <2>2. \A t \in dom : t \in included \/ t \in Restored(keep) \/ t \in DOMAIN cache \ Restored(keep)
      OBVIOUS
  <2>3. \A t \in included : \E g \in new : t \in BlobTxs(g)
      OBVIOUS
  <2> HIDE DEF included, dom, keep, new
  <2> QED
      BY <2>1, <2>2, <2>3
<1> HIDE DEF p, HP, keep
<1>7. /\ first - 1 = AnchorLength + keep
      /\ \A i \in 1 .. first - 1 : p[i] = HP[i]
  <2>1. first - 1 \in 0 .. Len(p) /\ AnchorLength + keep \in 0 .. Len(HP)
      BY <1>1, <1>2, <1>3
  <2>2. /\ Len(SubSeq(p, 1, first - 1)) = first - 1
        /\ \A i \in 1 .. first - 1 : SubSeq(p, 1, first - 1)[i] = p[i]
      BY <1>1, <2>1, PrefixFacts
  <2>3. /\ Len(SubSeq(HP, 1, AnchorLength + keep)) = AnchorLength + keep
        /\ \A i \in 1 .. AnchorLength + keep : SubSeq(HP, 1, AnchorLength + keep)[i] = HP[i]
      BY <1>3, <2>1, PrefixFacts
  <2> QED
      BY <1>2, <2>2, <2>3
<1>8. /\ fresh \in Seq(Hashes) /\ Len(fresh) = Len(p) - first + 1
      /\ \A i \in 1 .. Len(fresh) : fresh[i] = p[first - 1 + i]
    BY <1>1, SubSeqProperties
<1> HIDE DEF fresh
<1>lens. Len(fresh) \in Nat /\ keep \in Nat
    BY <1>1, <1>2, <1>8
<1>9. new = {fresh[i] : i \in 1 .. Len(fresh)}
    BY <1>8, LenProperties DEF Range
<1> HIDE DEF new, held
<1>10. /\ DOMAIN chain' = 1 .. keep + Len(fresh)
       /\ \A i \in 1 .. keep : chain'[i] = chain[i]
       /\ \A i \in 1 .. Len(fresh) : chain'[keep + i] = [hash |-> fresh[i], held |-> held(fresh[i])]
  <2> DEFINE C == [hash : Hashes, held : SUBSET Tx]
             old == SubSeq(chain, 1, keep)
  <2>1. old \in Seq(C) /\ Len(old) = keep /\ \A i \in 1 .. keep : old[i] = chain[i]
      BY <1>2, <1>3, PrefixFacts
  <2>2. Len(fresh) \in Nat /\ keep \in Nat
      BY <1>2, <1>8
  <2>3. tail \in Seq({tail[i] : i \in 1 .. Len(fresh)}) /\ Len(tail) = Len(fresh)
      BY <2>2
  <2> DEFINE D == C \union {tail[i] : i \in 1 .. Len(fresh)}
  <2>4. old \in Seq(D) /\ tail \in Seq(D)
      BY <2>1, <2>3, SeqMonotonic
  <2> HIDE DEF old, tail, D
  <2>5. /\ old \o tail \in Seq(D) /\ Len(old \o tail) = keep + Len(fresh)
        /\ \A i \in 1 .. keep + Len(fresh) :
             (old \o tail)[i] = IF i <= keep THEN old[i] ELSE tail[i - keep]
    <3>1. /\ old \o tail \in Seq(D) /\ Len(old \o tail) = Len(old) + Len(tail)
          /\ \A i \in 1 .. Len(old) + Len(tail) :
               (old \o tail)[i] = IF i <= Len(old) THEN old[i] ELSE tail[i - Len(old)]
        BY ONLY <2>4, ConcatProperties
    <3> QED
        BY <2>1, <2>3, <3>1
  <2>6. DOMAIN (old \o tail) = 1 .. keep + Len(fresh)
      BY <2>5, LenProperties
  <2>7. \A i \in 1 .. Len(fresh) : keep + i \in 1 .. keep + Len(fresh) /\ ~ (keep + i <= keep)
                                  /\ keep + i - keep = i
      BY <2>2
  <2>8. \A i \in 1 .. keep : i \in 1 .. keep + Len(fresh) /\ i <= keep
      BY <2>2
  <2>9. \A i \in 1 .. Len(fresh) : tail[i] = [hash |-> fresh[i], held |-> held(fresh[i])]
      BY DEF tail
  <2>10. chain' = old \o tail
      BY <1>4 DEF old
  <2>11. \A i \in 1 .. keep : (old \o tail)[i] = chain[i]
      BY <2>1, <2>5, <2>8
  <2>12. ASSUME NEW i \in 1 .. Len(fresh)
         PROVE  (old \o tail)[keep + i] = [hash |-> fresh[i], held |-> held(fresh[i])]
    <3> DEFINE n == keep + i
    <3>1. n \in 1 .. keep + Len(fresh) /\ ~ (n <= keep) /\ n - keep = i
        BY <2>2
    <3> HIDE DEF n
    <3>2. (old \o tail)[n] = tail[i]
        BY <2>5, <3>1
    <3> QED
        BY <2>9, <3>2 DEF n
  <2> QED
      BY <2>6, <2>10, <2>11, <2>12
<1> HIDE DEF tail
<1>11. /\ stem \subseteq Trunk(HeadHash) /\ stem \subseteq Trunk(h)
       /\ new \subseteq Trunk(h) \ stem
  <2>1. \A i \in 1 .. first - 1 : i \in 1 .. Len(p) /\ i \in 1 .. Len(HP)
      BY <1>1, <1>2, <1>3, <1>7
  <2>2. \A i \in 1 .. Len(fresh) : first - 1 + i \in 1 .. Len(p) /\ first - 1 + i \notin 1 .. first - 1
      BY <1>1, <1>8
  <2>3. stem \subseteq Trunk(HeadHash) /\ stem \subseteq Trunk(h)
      BY <1>1, <1>3, <1>7, <2>1
  <2>4. ASSUME NEW i \in 1 .. Len(fresh) PROVE fresh[i] \in Trunk(h) /\ fresh[i] \notin stem
    <3>1. fresh[i] = p[first - 1 + i]
        BY <1>8
    <3>2. \A j \in 1 .. first - 1 : p[j] # p[first - 1 + i]
        BY <1>1, <2>1, <2>2
    <3> QED
        BY <1>1, <2>2, <3>1, <3>2
  <2> HIDE DEF stem
  <2> QED
      BY <1>9, <2>3, <2>4
<1>12. \A g \in Trunk(HeadHash) \ stem : \E i \in DOMAIN chain : i > keep /\ chain[i].hash = g
  <2>0. Trunk(HeadHash) = {HP[n] : n \in 1 .. Len(HP)}
      BY <1>3
  <2> HIDE DEF stem
  <2> SUFFICES ASSUME NEW n \in 1 .. Len(HP), HP[n] \notin stem
               PROVE  \E i \in DOMAIN chain : i > keep /\ chain[i].hash = HP[n]
      BY <2>0
  <2>1. n \notin 1 .. first - 1
      BY <1>7 DEF stem
  <2>2. n - AnchorLength \in 1 .. Len(chain) /\ n - AnchorLength > keep
        /\ AnchorLength + (n - AnchorLength) = n
      BY <1>2, <1>3, <1>7, <2>1
  <2> QED
      BY <1>3, <2>2
<1>13. \A i \in DOMAIN chain : i <= keep =>
         i \in DOMAIN chain' /\ chain'[i] = chain[i] /\ chain[i].hash \in stem
  <2> SUFFICES ASSUME NEW i \in 1 .. Len(chain), i <= keep
               PROVE  i \in DOMAIN chain' /\ chain'[i] = chain[i] /\ chain[i].hash \in stem
      BY <1>3
  <2>1. i \in 1 .. keep /\ i \in 1 .. keep + Len(fresh)
      BY <1>2, <1>8, <1>1
  <2>2. AnchorLength + i \in 1 .. first - 1
      BY <1>2, <1>3, <1>7, <2>1
  <2> QED
      BY <1>3, <1>7, <1>10, <2>1, <2>2
<1>14. \A i \in DOMAIN chain' : i \in 1 .. keep => i \in DOMAIN chain /\ chain'[i] = chain[i]
  <2>1. \A i \in 1 .. keep : i \in 1 .. Len(chain)
      BY <1>2, <1>3
  <2> QED
      BY <1>3, <1>10, <2>1
<1>15. \A i \in DOMAIN chain' : i \notin 1 .. keep =>
         chain'[i].hash \in new /\ chain'[i].held = held(chain'[i].hash)
  <2> SUFFICES ASSUME NEW i \in 1 .. keep + Len(fresh), i \notin 1 .. keep
               PROVE  chain'[i].hash \in new /\ chain'[i].held = held(chain'[i].hash)
      BY <1>10
  <2>1. i - keep \in 1 .. Len(fresh) /\ keep + (i - keep) = i
      BY <1>lens
  <2>2. chain'[i] = [hash |-> fresh[i - keep], held |-> held(fresh[i - keep])]
      BY <1>10, <2>1
  <2> QED
      BY <1>9, <2>1, <2>2
<1>16. \A g \in new : \E i \in DOMAIN chain' : chain'[i].hash = g
  <2>1. ASSUME NEW i \in 1 .. Len(fresh)
        PROVE  keep + i \in DOMAIN chain' /\ chain'[keep + i].hash = fresh[i]
    <3>1. keep + i \in 1 .. keep + Len(fresh)
        BY <1>lens
    <3>2. chain'[keep + i] = [hash |-> fresh[i], held |-> held(fresh[i])]
        BY <1>10
    <3>3. chain'[keep + i].hash = fresh[i]
        BY <3>2
    <3>4. keep + i \in DOMAIN chain'
        BY <1>10, <3>1
    <3> QED
        BY <3>3, <3>4
  <2> QED
      BY <1>9, <2>1
<1>17. Grafts(h, keep, new, stem)
  <2> HIDE DEF stem
  <2> QED
      BY <1>2, <1>5, <1>6, <1>11, <1>12, <1>13, <1>14, <1>15, <1>16 DEF Grafts, held
<1>18. new = Range(SubSeq(Path(h), first, Len(Path(h))))
    BY DEF new, fresh, p
<1> HIDE DEF stem
<1> QED
    BY <1>17, <1>18

\* A nonce below the count is one that a transaction of the path has used.
LEMMA BelowCount ==
  ASSUME Inv, NEW h \in Hashes, CountedOn(h), NEW t \in Tx
  PROVE  t.nonce < TransactionCount(h, t.from) <=> Slot(t) \in Slots(TxsUpTo(h))
<1> DEFINE mine == {u \in TxsUpTo(h) : u.from = t.from}
           n == TransactionCount(h, t.from)
<1>1. n \in Nat /\ t.nonce \in Nat /\ t.from \in Senders
    BY TransactionCountType DEF Tx
<1>2. {u.nonce : u \in mine} = 0 .. n - 1
    BY <1>1 DEF CountedOn
<1>3. t.nonce < n <=> t.nonce \in {u.nonce : u \in mine}
  <2> HIDE DEF n, mine
  <2> QED
      BY <1>1, <1>2
<1>4. t.nonce \in {u.nonce : u \in mine} <=> Slot(t) \in Slots(TxsUpTo(h))
    BY DEF Slots, Slot
<1> QED
    BY <1>3, <1>4

\* The blocks of the chain differ, and are on the path of the head.
LEMMA ChainHashes ==
  ASSUME Inv
  PROVE  /\ \A i \in DOMAIN chain : chain[i].hash \in Trunk(HeadHash)
         /\ \A i, j \in DOMAIN chain : chain[i].hash = chain[j].hash => i = j
<1> DEFINE HP == Path(HeadHash)
<1>1. /\ DOMAIN chain = 1 .. Len(chain) /\ Len(chain) \in Nat /\ AnchorLength \in Nat \ {0}
      /\ Len(HP) = AnchorLength + Len(chain) /\ HeadHash \in Hashes
      /\ \A i \in DOMAIN chain : HP[AnchorLength + i] = chain[i].hash
    BY ChainOnPath DEF Inv, ChainIsPath
<1>2. /\ Trunk(HeadHash) = {HP[i] : i \in 1 .. Len(HP)}
      /\ \A i, j \in 1 .. Len(HP) : HP[i] = HP[j] => i = j
    BY <1>1, TrunkFacts
<1> HIDE DEF HP
<1>3. \A i \in DOMAIN chain : AnchorLength + i \in 1 .. Len(HP)
    BY <1>1
<1>4. \A i, j \in DOMAIN chain : AnchorLength + i = AnchorLength + j => i = j
    BY <1>1
<1> QED
    BY <1>1, <1>2, <1>3, <1>4

\* What is put back is at the slots of the blocks it comes from, and so once at each.
LEMMA RestoredOnce ==
  ASSUME Inv, SlotInv, NEW keep \in 0 .. Len(chain)
  PROVE  \A t, u \in Restored(keep) : Slot(t) = Slot(u) => t = u
<1> DEFINE from(t, i) == t \in BlobTxs(chain[i].hash) \union chain[i].held
           user(a, t, i) == /\ a \in blocks[chain[i].hash].txs /\ Slot(a) = Slot(t)
                            /\ \/ t = a /\ a \in BlobTxs(chain[i].hash)
                               \/ t \in chain[i].held /\ a \in Transfers(chain[i].hash)
<1>1. \A t \in Restored(keep) : \E i \in DOMAIN chain : from(t, i)
  <2>1. keep + 1 .. Len(chain) \subseteq DOMAIN chain
      BY ChainOnPath
  <2> QED
      BY <2>1 DEF Restored, Reorged
<1>2. SUFFICES ASSUME NEW t, NEW u, NEW i \in DOMAIN chain, NEW j \in DOMAIN chain,
                      from(t, i), from(u, j), Slot(t) = Slot(u)
               PROVE  t = u
    BY <1>1
<1>3. \A k \in DOMAIN chain : \A v : from(v, k) => \E a : user(a, v, k)
    BY DEF SlotInv, HeldOK, Slots, BlobTxs, Transfers
<1>4. PICK a : user(a, t, i)
    BY <1>2, <1>3
<1>5. PICK b : user(b, u, j)
    BY <1>2, <1>3
<1>6. UniqueOn(HeadHash)
    BY ChainOnPath DEF SlotInv, NoncesOK
<1>7. a = b /\ chain[i].hash = chain[j].hash
    BY <1>2, <1>4, <1>5, <1>6, ChainHashes DEF UniqueOn
<1>8. i = j
    BY <1>7, ChainHashes
<1>9. t \in chain[i].held /\ u \in chain[i].held => t = u
    BY <1>2 DEF SlotInv, HeldOK
<1> QED
    BY <1>4, <1>5, <1>7, <1>8, <1>9 DEF Transfers

\* So at most one transaction of a slot is pending before the new blocks are applied.
LEMMA BeforeOnce ==
  ASSUME Inv, SlotInv, NEW keep \in 0 .. Len(chain)
  PROVE  /\ Slots(pending) \subseteq Slots(Before(keep)) /\ Restored(keep) \subseteq Before(keep)
         /\ \A t, u \in Before(keep) : Slot(t) = Slot(u) => t = u
<1>1. \A t, u \in Restored(keep) : Slot(t) = Slot(u) => t = u
    BY RestoredOnce
<1> QED
    BY <1>1 DEF SlotInv, OnePerSlot, Before, Put, Without, Slots

\* The nonce of a registered transaction is then pending, unless a block below used it.
LEMMA SlotKept ==
  ASSUME Inv, SlotInv, NEW h, NEW keep, NEW new, NEW stem, Grafts(h, keep, new, stem),
         NEW t \in registered
  PROVE  \/ Slot(t) \in Slots(Before(keep))
         \/ Slot(t) \in Slots(UNION {blocks[g].txs : g \in stem})
<1>1. t \in Tx /\ HeadHash \in Hashes /\ CountedOn(HeadHash)
    BY ChainOnPath DEF Inv, TypeOK, SlotInv, NoncesOK
<1>2. Slots(pending) \subseteq Slots(Before(keep)) /\ Restored(keep) \subseteq Before(keep)
    BY BeforeOnce DEF Grafts
<1>3. CASE Slot(t) \in Slots(pending)
    BY <1>2, <1>3
<1>4. CASE Slot(t) \in Slots(TxsUpTo(HeadHash))
  <2>1. PICK g \in Trunk(HeadHash) : Slot(t) \in Slots(blocks[g].txs)
      BY <1>4 DEF TxsUpTo, Trunk, Slots
  <2>2. CASE g \in stem
      BY <2>1, <2>2 DEF Slots
  <2>3. ASSUME NEW i \in DOMAIN chain, i > keep, chain[i].hash = g
        PROVE  Slot(t) \in Slots(Before(keep))
    <3>1. BlobTxs(g) \union chain[i].held \subseteq Restored(keep)
      <4>1. i \in keep + 1 .. Len(chain)
          BY <2>3, ChainOnPath DEF Grafts
      <4> QED
          BY <2>3, <4>1 DEF Restored, Reorged
    <3>2. CASE Slot(t) \in Slots(BlobTxs(g))
        BY <1>2, <3>1, <3>2 DEF Slots
    <3>3. CASE Slot(t) \in Slots(Transfers(g))
      <4>1. Slot(t) \in Slots(chain[i].held) \union Slots(pending)
          BY <2>3, <3>3 DEF SlotInv, HeldAll
      <4> QED
          BY <1>2, <3>1, <4>1 DEF Slots
    <3> QED
        BY <2>1, <3>2, <3>3 DEF Slots, Transfers
  <2> QED
      BY <2>1, <2>2, <2>3 DEF Grafts
<1> QED
    BY <1>1, <1>3, <1>4, BelowCount DEF SlotInv, NonceHeld

\* A slot of a new block is of no block below it, and of no other new block.
LEMMA NewSlots ==
  ASSUME Inv, SlotInv, NEW h \in Hashes, NEW keep, NEW new, NEW stem, Grafts(h, keep, new, stem)
  PROVE  /\ UniqueOn(h) /\ CountedOn(h)
         /\ \A g \in new : \A f \in stem : Slots(blocks[g].txs) \intersect Slots(blocks[f].txs) = {}
<1>1. UniqueOn(h) /\ CountedOn(h)
    BY DEF SlotInv, NoncesOK
<1> QED
    BY <1>1 DEF Grafts, UniqueOn, Slots

\* What was pending, or is put back, stays pending unless a new block takes its nonce.
LEMMA StaysPending ==
  ASSUME NEW h, NEW keep, NEW new, NEW stem, Grafts(h, keep, new, stem)
  PROVE  \A t \in Before(keep) : \/ t \in pending'
                                 \/ \E g \in new : Slot(t) \in Slots(blocks[g].txs)
BY DEF Grafts, Without, Slots

\* New blocks hold the placeholders of the nonces they use; the blocks below keep theirs.
LEMMA GraftHeld ==
  ASSUME Inv, SlotInv, NEW h \in Hashes, NEW keep, NEW new, NEW stem,
         Grafts(h, keep, new, stem), UNCHANGED <<blocks, registered>>
  PROVE  HeldOK' /\ HeldAll'
<1>1. HeldOK'
  <2> SUFFICES ASSUME NEW i \in DOMAIN chain'
               PROVE  /\ Slots(chain'[i].held) \subseteq Slots(Transfers(chain'[i].hash))
                      /\ \A t, u \in chain'[i].held : Slot(t) = Slot(u) => t = u
    <3>1. \A g : Transfers(g)' = Transfers(g)
        BY DEF Transfers, BlobTxs
    <3> QED
        BY <3>1 DEF HeldOK, Transfers, BlobTxs
  <2>1. CASE i \in DOMAIN chain /\ chain'[i] = chain[i]
      BY <2>1 DEF SlotInv, HeldOK
  <2>2. CASE chain'[i].held = At(Before(keep), Slots(Transfers(chain'[i].hash)))
    <3>1. \A t, u \in Before(keep) : Slot(t) = Slot(u) => t = u
        BY BeforeOnce DEF Grafts
    <3> QED
        BY <2>2, <3>1 DEF At, Slots
  <2> QED
      BY <2>1, <2>2 DEF Grafts
<1>2. HeldAll'
  <2> SUFFICES ASSUME NEW t \in registered, NEW i \in DOMAIN chain',
                      Slot(t) \in Slots(Transfers(chain'[i].hash))
               PROVE  Slot(t) \in Slots(chain'[i].held) \union Slots(pending')
    <3>1. \A g : Transfers(g)' = Transfers(g)
        BY DEF Transfers, BlobTxs
    <3> QED
        BY <3>1 DEF HeldAll, Transfers, BlobTxs
  <2>1. CASE i \in DOMAIN chain /\ chain'[i] = chain[i] /\ chain[i].hash \in stem
    <3>1. CASE Slot(t) \in Slots(chain[i].held)
        BY <2>1, <3>1
    <3>2. CASE Slot(t) \in Slots(pending)
      <4>1. PICK u \in Before(keep) : Slot(u) = Slot(t)
          BY <3>2, BeforeOnce DEF Grafts, Slots
      <4>2. \A g \in new : Slot(t) \notin Slots(blocks[g].txs)
          BY <2>1, NewSlots DEF Slots, Transfers
      <4> QED
          BY <4>1, <4>2, StaysPending DEF Slots
    <3> QED
        BY <2>1, <3>1, <3>2 DEF SlotInv, HeldAll
  <2>2. CASE /\ chain'[i].hash \in new
             /\ chain'[i].held = At(Before(keep), Slots(Transfers(chain'[i].hash)))
    <3>1. Slot(t) \in Slots(Before(keep)) => Slot(t) \in Slots(chain'[i].held)
        BY <2>2 DEF At, Slots
    <3>2. Slot(t) \notin Slots(UNION {blocks[g].txs : g \in stem})
        BY <2>2, NewSlots DEF Slots, Transfers
    <3> QED
        BY <3>1, <3>2, SlotKept
  <2> QED
      BY <2>1, <2>2, ChainOnPath DEF Grafts
<1> QED
    BY <1>1, <1>2

\* After a reorganisation each slot is pending once, used, or was never registered.
LEMMA GraftPending ==
  ASSUME Inv, SlotInv, NEW h \in Hashes, NEW keep, NEW new, NEW stem,
         Grafts(h, keep, new, stem), UNCHANGED <<blocks, registered, repriced>>, HeadHash' = h
  PROVE  OnePerSlot' /\ NonceHeld' /\ RepricedHasRival'
<1>1. OnePerSlot'
  <2>1. \A t, u \in Before(keep) : Slot(t) = Slot(u) => t = u
      BY BeforeOnce DEF Grafts
  <2> QED
      BY <2>1 DEF Grafts, Without, OnePerSlot
<1>2. NonceHeld'
  <2>1. TxsUpTo(h)' = TxsUpTo(h)
      BY DEF TxsUpTo, Path
  <2> SUFFICES ASSUME NEW t \in registered, Slot(t) \notin Slots(pending')
               PROVE  t.nonce < TransactionCount(h, t.from)
      BY <2>1 DEF NonceHeld, TransactionCount
  <2>2. Slot(t) \in Slots(TxsUpTo(h))
    <3>1. ASSUME NEW g \in new \union stem, Slot(t) \in Slots(blocks[g].txs)
          PROVE  Slot(t) \in Slots(TxsUpTo(h))
        BY <3>1 DEF Grafts, TxsUpTo, Trunk, Slots
    <3>2. CASE Slot(t) \in Slots(Before(keep))
        BY <3>1, <3>2, StaysPending DEF Slots
    <3>3. CASE Slot(t) \in Slots(UNION {blocks[g].txs : g \in stem})
        BY <3>1, <3>3 DEF Slots
    <3> QED
        BY <3>2, <3>3, SlotKept
  <2>3. t \in Tx
      BY DEF Inv, TypeOK
  <2> QED
      BY <2>2, <2>3, BelowCount, NewSlots
<1>3. RepricedHasRival'
  <2> DEFINE onChain(c, s) == \E i \in DOMAIN c : s \in Slots(blocks[c[i].hash].txs)
  <2>1. SUFFICES ASSUME NEW t \in repriced
                 PROVE  Slot(t) \in Slots(pending') \/ onChain(chain', Slot(t))
      BY DEF RepricedHasRival, Slots
  <2>2. Slot(t) \in Slots(pending) \/ onChain(chain, Slot(t))
    <3>1. CASE \E u \in pending : Slot(u) = Slot(t)
        BY <3>1 DEF Slots
    <3>2. CASE Slot(t) \in Slots(UNION {blocks[chain[i].hash].txs : i \in DOMAIN chain})
        BY <3>2 DEF Slots
    <3>3. \/ \E u \in pending : Slot(u) = Slot(t)
          \/ Slot(t) \in Slots(UNION {blocks[chain[i].hash].txs : i \in DOMAIN chain})
        BY Zenon DEF SlotInv, RepricedHasRival
    <3> HIDE DEF onChain
    <3> QED
        BY <3>1, <3>2, <3>3, Zenon
  <2>3. CASE Slot(t) \in Slots(Before(keep))
    <3>1. PICK u \in Before(keep) : Slot(u) = Slot(t)
        BY <2>3 DEF Slots
    <3>2. u \in pending' \/ \E g \in new : Slot(u) \in Slots(blocks[g].txs)
        BY StaysPending
    <3>3. \A g \in new : \E i \in DOMAIN chain' : chain'[i].hash = g
        BY DEF Grafts
    <3>4. u \in pending' => Slot(t) \in Slots(pending')
        BY <3>1 DEF Slots
    <3> QED
        BY <3>1, <3>2, <3>3, <3>4
  <2>4. CASE Slot(t) \in Slots(pending)
      BY <2>3, <2>4, BeforeOnce DEF Grafts
  <2>5. ASSUME NEW i \in DOMAIN chain, Slot(t) \in Slots(blocks[chain[i].hash].txs)
        PROVE  Slot(t) \in Slots(pending') \/ onChain(chain', Slot(t))
    <3>1. CASE i <= keep
        BY <2>5, <3>1 DEF Grafts
    <3>2. CASE ~ (i <= keep)
      <4>1. BlobTxs(chain[i].hash) \union chain[i].held \subseteq Restored(keep)
        <5>1. i \in keep + 1 .. Len(chain)
            BY <3>2, ChainOnPath DEF Grafts
        <5> QED
            BY <5>1 DEF Restored, Reorged
      <4>2. Slot(t) \in Slots(registered)
          BY DEF SlotInv, RepricedKnown, Slots
      <4>3. Slot(t) \in Slots(Transfers(chain[i].hash)) =>
              Slot(t) \in Slots(chain[i].held) \union Slots(pending)
          BY <4>2 DEF SlotInv, HeldAll, Slots
      <4>4. Slot(t) \in Slots(BlobTxs(chain[i].hash)) \union Slots(Transfers(chain[i].hash))
          BY <2>5 DEF Slots, Transfers
      <4>5. Restored(keep) \subseteq Before(keep)
          BY BeforeOnce DEF Grafts
      <4>6. CASE Slot(t) \in Slots(BlobTxs(chain[i].hash)) \union Slots(chain[i].held)
        <5>1. Slot(t) \in Slots(Before(keep))
            BY <4>1, <4>5, <4>6 DEF Slots
        <5> QED
            BY <2>3, <5>1
      <4> QED
          BY <2>4, <4>3, <4>4, <4>6
    <3> QED
        BY <3>1, <3>2
  <2> QED
      BY <2>2, <2>4, <2>5
<1> QED
    BY <1>1, <1>2, <1>3

\* After a reorganisation what is answered as included is in a block of the chain.
LEMMA GraftIncluded ==
  ASSUME Inv, SlotInv, NEW h \in Hashes, NEW keep, NEW new, NEW stem,
         Grafts(h, keep, new, stem), UNCHANGED blocks
  PROVE  NoStaleInclusion'
<1> SUFFICES ASSUME NEW t \in DOMAIN cache', cache'[t] # {}
             PROVE  \E i \in DOMAIN chain' : /\ cache'[t] = {chain'[i].hash}
                                            /\ t \in blocks[chain'[i].hash].txs
                                            /\ t.kind = "blob"
    BY DEF NoStaleInclusion, BlobTxs
<1>1. ASSUME NEW g \in new, t \in BlobTxs(g), cache'[t] = {f \in new : t \in blocks[f].txs}
      PROVE  \E i \in DOMAIN chain' : /\ cache'[t] = {chain'[i].hash}
                                     /\ t \in blocks[chain'[i].hash].txs /\ t.kind = "blob"
  <2>1. \A f \in new : t \in blocks[f].txs => f = g
    <3>1. UniqueOn(h)
        BY NewSlots
    <3>2. new \subseteq Trunk(h)
        BY DEF Grafts
    <3>3. t \in blocks[g].txs
        BY <1>1 DEF BlobTxs
    <3> QED
        BY <1>1, <3>1, <3>2, <3>3 DEF UniqueOn
  <2>2. cache'[t] = {g}
      BY <1>1, <2>1 DEF BlobTxs
  <2> QED
      BY <1>1, <2>2 DEF Grafts, BlobTxs
<1>2. CASE t \in DOMAIN cache \ Restored(keep) /\ cache'[t] = cache[t]
  <2>1. PICK i \in DOMAIN chain : cache[t] = {chain[i].hash} /\ t \in BlobTxs(chain[i].hash)
      BY <1>2 DEF SlotInv, NoStaleInclusion
  <2>2. i <= keep
    <3> SUFFICES ASSUME ~ (i <= keep) PROVE FALSE
        OBVIOUS
    <3>1. i \in keep + 1 .. Len(chain)
        BY ChainOnPath DEF Grafts
    <3> QED
        BY <1>2, <2>1, <3>1 DEF Restored, Reorged
  <2> QED
      BY <1>2, <2>1, <2>2 DEF Grafts, BlobTxs
<1> QED
    BY <1>1, <1>2 DEF Grafts

-----------------------------------------------------------------------------
(* The steps *)

\* The bundler starts with nothing sent, on a tree without transactions.
LEMMA SlotInit == Init => SlotInv
<1> SUFFICES ASSUME Init PROVE SlotInv
    OBVIOUS
<1> USE DEF Init
<1>1. Inv /\ Hashes = {Genesis} /\ Path(Genesis) = <<Genesis>> /\ blocks[Genesis].txs = {}
    BY InitInv DEF EthInit, Hashes, Genesis, Path
<1>2. Trunk(Genesis) = {Genesis} /\ TxsUpTo(Genesis) = {}
  <2>1. Range(<<Genesis>>) = {Genesis}
      BY DEF Range
  <2> QED
      BY <1>1, <2>1 DEF Trunk, TxsUpTo
<1>3. UniqueOn(Genesis)
    BY <1>1, <1>2 DEF UniqueOn
<1>4. CountedOn(Genesis)
  <2>1. \A s : {t \in TxsUpTo(Genesis) : t.from = s} = {}
      BY <1>2
  <2>2. \A s : TransactionCount(Genesis, s) = 0
      BY <2>1, FS_EmptySet DEF TransactionCount
  <2>3. \A s : {t.nonce : t \in {u \in TxsUpTo(Genesis) : u.from = s}} = {}
      BY <2>1
  <2>4. 0 .. 0 - 1 = {}
      OBVIOUS
  <2> QED
      BY <2>2, <2>3, <2>4 DEF CountedOn
<1>5. NoncesOK
    BY <1>1, <1>3, <1>4 DEF NoncesOK
<1>6. HeldOK /\ HeldAll /\ RepricedKnown
    BY DEF HeldOK, HeldAll, RepricedKnown, Slots
<1>7. OnePerSlot /\ NonceHeld /\ RepricedHasRival /\ NoStaleInclusion
    BY DEF OnePerSlot, NonceHeld, RepricedHasRival, NoStaleInclusion
<1> QED
    BY <1>5, <1>6, <1>7 DEF SlotInv

\* A step that leaves the bundler's transactions and the known blocks alone.
LEMMA SameSlots ==
  ASSUME Inv, SlotInv, NoncesOK', \A h \in Hashes : blocks'[h] = blocks[h],
         UNCHANGED <<anchor, chain, pending, repriced, cache, registered>>
  PROVE  SlotInv'
<1>1. HeadHash \in Hashes /\ HeadHash' = HeadHash /\ \A i \in DOMAIN chain : chain[i].hash \in Hashes
    BY ChainOnPath DEF HeadHash
<1>2. \A i \in DOMAIN chain : blocks'[chain[i].hash] = blocks[chain[i].hash]
    BY <1>1
<1>3. TxsUpTo(HeadHash)' = TxsUpTo(HeadHash)
  <2>1. Trunk(HeadHash) \subseteq Hashes
      BY <1>1, TrunkFacts
  <2>2. \A g \in Trunk(HeadHash) : blocks'[g].txs = blocks[g].txs
      BY <2>1
  <2>3. TxsUpTo(HeadHash) = UNION {blocks[g].txs : g \in Trunk(HeadHash)}
      BY DEF TxsUpTo, Trunk
  <2>4. TxsUpTo(HeadHash)' = UNION {blocks'[g].txs : g \in Trunk(HeadHash)}
      BY <1>1 DEF TxsUpTo, Trunk, Path
  <2> QED
      BY <2>2, <2>3, <2>4
<1>4. HeldOK' /\ HeldAll'
    BY <1>2 DEF SlotInv, HeldOK, HeldAll, Transfers, BlobTxs
<1>5. RepricedKnown' /\ OnePerSlot'
    BY DEF SlotInv, RepricedKnown, OnePerSlot
<1>6. NonceHeld'
    BY <1>3 DEF SlotInv, NonceHeld, TransactionCount
<1>7. RepricedHasRival'
  <2>1. UNION {blocks'[chain[i].hash].txs : i \in DOMAIN chain}
          = UNION {blocks[chain[i].hash].txs : i \in DOMAIN chain}
      BY <1>2
  <2> QED
      BY <2>1 DEF SlotInv, RepricedHasRival
<1>8. NoStaleInclusion'
    BY <1>2 DEF SlotInv, NoStaleInclusion, BlobTxs
<1> QED
    BY <1>4, <1>5, <1>6, <1>7, <1>8 DEF SlotInv

\* Registering a transaction replaces the pending one of its nonce and makes it its rival.
LEMMA RegisterSlots == Inv /\ SlotInv /\ RegisterSent => SlotInv'
<1> SUFFICES ASSUME Inv, SlotInv, RegisterSent PROVE SlotInv'
    OBVIOUS
<1> DEFINE t == job[1].tx
<1>1. /\ pending' = Put(pending, {t})
      /\ repriced' = repriced \union At(pending, {Slot(t)})
      /\ cache' = [u \in DOMAIN cache \union {t} |-> IF u = t THEN {} ELSE cache[u]]
      /\ registered' = registered \union {t}
      /\ UNCHANGED <<blocks, anchor, chain>>
    BY DEF RegisterSent
<1> HIDE DEF t
<1>2. /\ \A u \in pending' : u = t \/ (u \in pending /\ Slot(u) # Slot(t))
      /\ t \in pending' /\ Slots(pending) \subseteq Slots(pending')
    BY <1>1 DEF Put, Without, Slots
<1>3. NoncesOK'
    BY <1>1, SameNonces DEF SlotInv
<1>4. HeldOK' /\ HeldAll'
    BY <1>1, <1>2 DEF SlotInv, HeldOK, HeldAll, Transfers, BlobTxs, Slots
<1>5. RepricedKnown'
    BY <1>1 DEF SlotInv, RepricedKnown, Slots, At
<1>6. OnePerSlot'
    BY <1>2 DEF SlotInv, OnePerSlot
<1>7. NonceHeld'
  <2>1. \A s : TransactionCount(HeadHash, s)' = TransactionCount(HeadHash, s)
      BY <1>1 DEF TransactionCount, TxsUpTo, Path, HeadHash
  <2> QED
      BY <1>1, <1>2, <2>1 DEF SlotInv, NonceHeld, Slots
<1>8. RepricedHasRival'
  <2> SUFFICES ASSUME NEW u \in repriced'
               PROVE  \/ \E v \in pending' : Slot(v) = Slot(u)
                      \/ Slot(u) \in Slots(UNION {blocks[chain[i].hash].txs : i \in DOMAIN chain})
      BY <1>1 DEF RepricedHasRival
  <2>1. CASE u \in repriced
      BY <1>2, <2>1 DEF SlotInv, RepricedHasRival, Slots
  <2>2. CASE Slot(u) = Slot(t)
      BY <1>2, <2>2
  <2> QED
      BY <1>1, <2>1, <2>2 DEF At
<1>9. NoStaleInclusion'
    BY <1>1 DEF SlotInv, NoStaleInclusion, BlobTxs
<1> QED
    BY <1>3, <1>4, <1>5, <1>6, <1>7, <1>8, <1>9 DEF SlotInv

\* Finalization forgets what the finalized nonces have decided, and only that.
LEMMA AdvanceSlots ==
  ASSUME Inv, SlotInv, NEW k \in NewAnchorPositions, AdvanceTo(k),
         UNCHANGED <<blocks, pending, saved, registered>>
  PROVE  SlotInv'
<1>1. HeadHash' = HeadHash /\ k \in 1 .. Len(chain) /\ Len(chain) \in Nat /\ DOMAIN chain = 1 .. Len(chain)
    BY AdvanceLinks, ChainOnPath
<1>2. /\ DOMAIN chain' = 1 .. Len(chain) - k
      /\ \A i \in 1 .. Len(chain) - k : chain'[i] = chain[k + i]
  <2>1. chain' = SubSeq(chain, k + 1, Len(chain)) /\ chain \in Seq([hash : Hashes, held : SUBSET Tx])
      BY DEF AdvanceTo, Inv, TypeOK
  <2> QED
      BY <1>1, <2>1
<1>3. \A i \in DOMAIN chain' : k + i \in DOMAIN chain /\ chain'[i] = chain[k + i]
    BY <1>1, <1>2
<1>4. \A i \in DOMAIN chain : i > k => \E j \in DOMAIN chain' : chain'[j] = chain[i]
  <2> SUFFICES ASSUME NEW i \in 1 .. Len(chain), i > k
               PROVE  \E j \in DOMAIN chain' : chain'[j] = chain[i]
      BY <1>1
  <2>1. i - k \in 1 .. Len(chain) - k /\ k + (i - k) = i
      BY <1>1
  <2> QED
      BY <1>2, <2>1
<1> DEFINE done == {SubSeq(chain, 1, k)[i].hash : i \in 1 .. k}
           blobs == UNION {BlobTxs(g) : g \in done}
           losers == At(repriced, Slots(UNION {blocks[g].txs : g \in done}))
<1>5. repriced' = repriced \ losers /\ cache' = [t \in DOMAIN cache \ (blobs \union losers) |-> cache[t]]
    BY DEF AdvanceTo
<1>6. \A i \in DOMAIN chain : ~ (i > k) => chain[i].hash \in done
  <2>1. chain \in Seq([hash : Hashes, held : SUBSET Tx]) /\ k \in 0 .. Len(chain)
      BY <1>1 DEF Inv, TypeOK
  <2>2. \A i \in 1 .. k : SubSeq(chain, 1, k)[i] = chain[i]
      BY <2>1, PrefixFacts
  <2>3. \A i \in DOMAIN chain : ~ (i > k) => i \in 1 .. k
      BY <1>1
  <2> QED
      BY <2>2, <2>3
<1> HIDE DEF done
<1>7. NoncesOK'
    BY SameNonces DEF SlotInv
<1>8. HeldOK' /\ HeldAll'
    BY <1>3 DEF SlotInv, HeldOK, HeldAll, Transfers, BlobTxs
<1>9. RepricedKnown' /\ OnePerSlot'
    BY <1>5 DEF SlotInv, RepricedKnown, OnePerSlot, Slots
<1>10. NonceHeld'
  <2>1. \A s : TransactionCount(HeadHash, s)' = TransactionCount(HeadHash, s)
      BY <1>1 DEF TransactionCount, TxsUpTo, Path
  <2> QED
      BY <2>1 DEF SlotInv, NonceHeld
<1>11. RepricedHasRival'
  <2> SUFFICES ASSUME NEW t \in repriced', \A u \in pending : Slot(u) # Slot(t)
               PROVE  Slot(t) \in Slots(UNION {blocks[chain'[i].hash].txs : i \in DOMAIN chain'})
      BY DEF RepricedHasRival
  <2>1. t \in repriced /\ t \notin losers
      BY <1>5
  <2>2. Slot(t) \in Slots(UNION {blocks[chain[i].hash].txs : i \in DOMAIN chain})
      BY <2>1 DEF SlotInv, RepricedHasRival
  <2>3. PICK i \in DOMAIN chain : Slot(t) \in Slots(blocks[chain[i].hash].txs)
      BY <2>2 DEF Slots
  <2>4. i > k
      BY <1>6, <2>1, <2>3 DEF At, Slots
  <2>5. PICK j \in DOMAIN chain' : chain'[j] = chain[i]
      BY <1>4, <2>4
  <2> QED
      BY <2>3, <2>5 DEF Slots
<1>12. NoStaleInclusion'
  <2> SUFFICES ASSUME NEW t \in DOMAIN cache', cache'[t] # {}
               PROVE  \E i \in DOMAIN chain' : /\ cache'[t] = {chain'[i].hash}
                                              /\ t \in blocks[chain'[i].hash].txs
                                              /\ t.kind = "blob"
      BY DEF NoStaleInclusion, BlobTxs
  <2>1. t \in DOMAIN cache /\ t \notin blobs /\ cache'[t] = cache[t]
      BY <1>5
  <2>2. PICK i \in DOMAIN chain : cache[t] = {chain[i].hash} /\ t \in BlobTxs(chain[i].hash)
      BY <2>1 DEF SlotInv, NoStaleInclusion
  <2>3. i > k
      BY <1>6, <2>1, <2>2
  <2> QED
      BY <1>4, <2>1, <2>2, <2>3 DEF BlobTxs
<1> QED
    BY <1>7, <1>8, <1>9, <1>10, <1>11, <1>12 DEF SlotInv

\* Syncing a head, through a reorganisation or not, keeps the slots.
LEMMA SyncSlots == Inv /\ SlotInv /\ SyncNextHead => SlotInv'
<1> SUFFICES ASSUME Inv, SlotInv, SyncNextHead PROVE SlotInv'
    OBVIOUS
<1> DEFINE h == news[1]
<1>1. UNCHANGED <<blocks, anchor, repriced, registered>>
    BY DEF SyncNextHead
<1>2. NoncesOK'
    BY <1>1, SameNonces DEF SlotInv
<1>3. h \in Hashes
    BY DEF SyncNextHead, Inv, TypeOK
<1>4. CASE UNCHANGED <<chain, pending, cache>>
    BY <1>1, <1>2, <1>4, SameSlots
<1>5. ASSUME NEW first \in Attach(h), Import(h, first)
      PROVE  SlotInv'
  <2>1. HeadHash' = h
      BY <1>1, <1>3, <1>5, ImportLinks
  <2>2. PICK keep, new, stem : Grafts(h, keep, new, stem)
      BY <1>3, <1>5, ImportGrafts
  <2>3. HeldOK' /\ HeldAll'
      BY <1>1, <1>3, <2>2, GraftHeld
  <2>4. OnePerSlot' /\ NonceHeld' /\ RepricedHasRival'
      BY <1>1, <1>3, <2>1, <2>2, GraftPending
  <2>5. NoStaleInclusion'
      BY <1>1, <1>3, <2>2, GraftIncluded
  <2>6. RepricedKnown'
      BY <1>1 DEF SlotInv, RepricedKnown
  <2> QED
      BY <1>2, <2>3, <2>4, <2>5, <2>6 DEF SlotInv
<1> QED
    BY <1>4, <1>5 DEF SyncNextHead

\* Every step keeps the slots.
LEMMA SlotStep == Inv /\ SlotInv /\ [Next]_vars => SlotInv'
<1> SUFFICES ASSUME Inv, SlotInv, [Next]_vars PROVE SlotInv'
    OBVIOUS
<1>1. CASE Environment
  <2>1. NoncesOK' /\ \A h \in Hashes : blocks'[h] = blocks[h]
      BY <1>1, TreeStep DEF SlotInv
  <2>2. UNCHANGED <<anchor, chain, pending, repriced, cache, registered>>
      BY <1>1 DEF Environment
  <2> QED
      BY <2>1, <2>2, SameSlots
<1>2. CASE UNCHANGED <<blocks, anchor, chain, pending, repriced, cache, registered>>
    BY <1>2, SameNonces, SameSlots DEF SlotInv
<1>3. CASE MaybeAdvanceAnchorBlock
  <2>1. UNCHANGED <<blocks, pending, saved, registered>>
      BY <1>3 DEF MaybeAdvanceAnchorBlock
  <2>2. ASSUME NEW k \in NewAnchorPositions, AdvanceTo(k) PROVE SlotInv'
      BY <2>1, <2>2, AdvanceSlots
  <2>3. CASE UNCHANGED <<anchor, chain, repriced, cache, result>>
      BY <1>2, <2>1, <2>3
  <2> QED
      BY <1>3, <2>2, <2>3 DEF MaybeAdvanceAnchorBlock
<1>4. CASE Restart
  <2>1. /\ chain' = <<>> /\ pending' = {} /\ repriced' = {} /\ cache' = <<>> /\ registered' = {}
        /\ UNCHANGED blocks
      BY <1>4 DEF Restart
  <2>2. NoncesOK'
      BY <2>1, SameNonces DEF SlotInv
  <2>3. HeldOK' /\ HeldAll' /\ RepricedKnown'
      BY <2>1 DEF HeldOK, HeldAll, RepricedKnown, Slots
  <2>4. OnePerSlot' /\ NonceHeld' /\ RepricedHasRival' /\ NoStaleInclusion'
      BY <2>1 DEF OnePerSlot, NonceHeld, RepricedHasRival, NoStaleInclusion
  <2> QED
      BY <2>2, <2>3, <2>4 DEF SlotInv
<1>5. CASE ReorgTooDeep \/ SyncFails \/ Crash \/ DeleteAnchorRows \/ InsertAnchorRow \/ PersistFails
  <2>1. UNCHANGED <<blocks, anchor, chain, pending, repriced, cache, registered>>
      BY <1>5 DEF ReorgTooDeep, SyncFails, Crash, DeleteAnchorRows, InsertAnchorRow, PersistFails
  <2> QED
      BY <1>2, <2>1
<1>6. CASE (Sender /\ ~ RegisterSent) \/ AnswerLost \/ UNCHANGED vars
  <2>1. UNCHANGED <<blocks, anchor, chain, pending, repriced, cache, registered>>
      BY <1>6 DEF Sender, PrepareBlobTx, PrepareSelfTransfer, NodeAccepts, NodeRejects,
                  AnswerLost, vars
  <2> QED
      BY <1>2, <2>1
<1> QED
    BY <1>1, <1>3, <1>4, <1>5, <1>6, SyncSlots, RegisterSlots DEF Next, Subscriber, Faults, Sender

\* SlotInv holds in every state.  OnePerSlot is inductive only with it: that what a
\* reorganisation puts back does not collide needs each nonce to be used once on a
\* path, and each placeholder to be at a nonce its block has used.
THEOREM SlotInvHolds == Spec => []SlotInv
BY SlotInit, SlotStep, InvHolds, PTL DEF Spec

\* Two pending transactions never share a sender and nonce.
THEOREM OnePerSlotHolds == Spec => []OnePerSlot
<1>1. SlotInv => OnePerSlot
    BY DEF SlotInv
<1> QED
    BY <1>1, SlotInvHolds, PTL

\* A nonce the bundler registered a transaction for is never handed out as free.
THEOREM NonceHeldHolds == Spec => []NonceHeld
<1>1. SlotInv => NonceHeld
    BY DEF SlotInv
<1> QED
    BY <1>1, SlotInvHolds, PTL

\* Whatever is repriced has a rival that will retire it.
THEOREM RepricedHasRivalHolds == Spec => []RepricedHasRival
<1>1. SlotInv => RepricedHasRival
    BY DEF SlotInv
<1> QED
    BY <1>1, SlotInvHolds, PTL

\* get_tx_status answers Included only for a transaction of the unfinalized chain.
THEOREM NoStaleInclusionHolds == Spec => []NoStaleInclusion
<1>1. SlotInv => NoStaleInclusion
    BY DEF SlotInv
<1> QED
    BY <1>1, SlotInvHolds, PTL

-----------------------------------------------------------------------------
(* What leaves the head chain is pending again *)

Dropped ==
    \A i \in DOMAIN chain : \A t \in BlobTxs(chain[i].hash) :
      t \in pending' \/ Slot(t) \in Slots(TxsUpTo(HeadHash)')

\* What DroppedTxsPend says, step by step.
LEMMA DroppedStep == Inv /\ SlotInv /\ [Next]_vars => (phase' # "listen" => Dropped)
<1> SUFFICES ASSUME Inv, SlotInv, [Next]_vars, phase' # "listen",
                    NEW i \in DOMAIN chain, NEW t \in BlobTxs(chain[i].hash)
             PROVE  t \in pending' \/ Slot(t) \in Slots(TxsUpTo(HeadHash)')
    BY DEF Dropped
<1>1. Slot(t) \in Slots(TxsUpTo(HeadHash)) /\ HeadHash \in Hashes
    BY ChainHashes, ChainOnPath DEF TxsUpTo, Trunk, BlobTxs, Slots
<1>2. ASSUME HeadHash' = HeadHash, \A h \in Hashes : blocks'[h] = blocks[h]
      PROVE  Slot(t) \in Slots(TxsUpTo(HeadHash)')
  <2>1. Trunk(HeadHash) \subseteq Hashes
      BY <1>1, TrunkFacts
  <2>2. TxsUpTo(HeadHash)' = UNION {blocks'[g].txs : g \in Trunk(HeadHash)}
      BY <1>1, <1>2 DEF TxsUpTo, Trunk, Path
  <2>3. TxsUpTo(HeadHash) = UNION {blocks[g].txs : g \in Trunk(HeadHash)}
      BY DEF TxsUpTo, Trunk
  <2>4. \A g \in Trunk(HeadHash) : blocks'[g].txs = blocks[g].txs
      BY <1>2, <2>1
  <2> QED
      BY <1>1, <2>2, <2>3, <2>4
<1>3. CASE SyncNextHead
  <2> DEFINE h == news[1]
  <2>1. UNCHANGED <<blocks, anchor>>
      BY <1>3 DEF SyncNextHead
  <2>2. h \in Hashes
      BY <1>3 DEF SyncNextHead, Inv, TypeOK
  <2>3. CASE UNCHANGED <<chain, pending, cache>>
      BY <1>2, <2>1, <2>3 DEF HeadHash
  <2>4. ASSUME NEW first \in Attach(h), Import(h, first)
        PROVE  t \in pending' \/ Slot(t) \in Slots(TxsUpTo(HeadHash)')
    <3>1. HeadHash' = h
        BY <2>1, <2>2, <2>4, ImportLinks
    <3>2. PICK keep, new, stem : Grafts(h, keep, new, stem)
        BY <2>2, <2>4, ImportGrafts
    <3>3. TxsUpTo(HeadHash)' = TxsUpTo(h)
        BY <2>1, <3>1 DEF TxsUpTo, Path
    <3>4. ASSUME NEW g \in new \union stem, Slot(t) \in Slots(blocks[g].txs)
          PROVE  Slot(t) \in Slots(TxsUpTo(h))
        BY <3>2, <3>4 DEF Grafts, TxsUpTo, Trunk, Slots
    <3>5. CASE i <= keep
      <4>1. chain[i].hash \in stem
          BY <3>2, <3>5 DEF Grafts
      <4>2. Slot(t) \in Slots(blocks[chain[i].hash].txs)
          BY DEF BlobTxs, Slots
      <4> QED
          BY <3>3, <3>4, <4>1, <4>2
    <3>6. CASE ~ (i <= keep)
      <4>1. keep \in 0 .. Len(chain)
          BY <3>2 DEF Grafts
      <4>2. i \in keep + 1 .. Len(chain)
          BY <3>6, <4>1, ChainOnPath
      <4>3. t \in Restored(keep)
          BY <4>2 DEF Restored, Reorged
      <4>4. t \in Before(keep)
          BY <4>1, <4>3, BeforeOnce
      <4> QED
          BY <3>2, <3>3, <3>4, <4>4, StaysPending
    <3> QED
        BY <3>5, <3>6
  <2> QED
      BY <1>3, <2>3, <2>4 DEF SyncNextHead
<1>4. CASE MaybeAdvanceAnchorBlock
  <2>1. UNCHANGED <<blocks, saved>>
      BY <1>4 DEF MaybeAdvanceAnchorBlock
  <2>2. ASSUME NEW k \in NewAnchorPositions, AdvanceTo(k) PROVE HeadHash' = HeadHash
      BY <2>1, <2>2, AdvanceLinks
  <2>3. HeadHash' = HeadHash
      BY <1>4, <2>2 DEF MaybeAdvanceAnchorBlock, HeadHash
  <2> QED
      BY <1>2, <2>1, <2>3
<1>5. CASE Environment
  <2>1. \A h \in Hashes : blocks'[h] = blocks[h]
      BY <1>5, TreeStep DEF SlotInv
  <2> QED
      BY <1>2, <1>5, <2>1 DEF Environment, HeadHash
<1>6. CASE ReorgTooDeep \/ SyncFails \/ Crash \/ DeleteAnchorRows \/ InsertAnchorRow
           \/ PersistFails \/ Sender \/ AnswerLost \/ UNCHANGED vars
  <2>1. UNCHANGED <<blocks, anchor, chain>>
      BY <1>6 DEF ReorgTooDeep, SyncFails, Crash, DeleteAnchorRows, InsertAnchorRow, PersistFails,
                  Sender, PrepareBlobTx, PrepareSelfTransfer, NodeAccepts, NodeRejects,
                  RegisterSent, AnswerLost, vars
  <2> QED
      BY <1>2, <2>1 DEF HeadHash
<1>7. CASE Restart
    BY <1>7 DEF Restart
<1> QED
    BY <1>3, <1>4, <1>5, <1>6, <1>7 DEF Next, Subscriber, Faults

\* A blob transaction that a reorganisation takes off the chain is pending again, unless
\* another of its nonce came with the new branch.
THEOREM DroppedTxsPendHolds == Spec => DroppedTxsPend
<1>1. Inv /\ SlotInv /\ [Next]_vars
        => [phase' # "listen" =>
              \A i \in DOMAIN chain : \A t \in BlobTxs(chain[i].hash) :
                t \in pending' \/ Slot(t) \in Slots(TxsUpTo(HeadHash)')]_vars
    BY DroppedStep DEF Dropped
<1> QED
    BY <1>1, InvHolds, SlotInvHolds, PTL DEF Spec, DroppedTxsPend

-----------------------------------------------------------------------------
(* Balances *)

\* The deltas of the blocks for a user, and what each transaction has of the user.
Deltas(u) == [h \in Hashes |-> BalanceDelta(h, u)]
Parts(u) == [t \in Tx |-> Count(u, t.parts)]
Costs(u, price) == [t \in Tx |-> Cost(t, u, price)]

\* CountIs: a user is counted in a list as often as it has places.
LEMMA CountIs ==
    ASSUME NEW u, NEW S, NEW list \in Seq(S)
    PROVE  Count(u, list) \in Nat
<1>1. IsFiniteSet(DOMAIN list)
  <2>1. DOMAIN list = 1 .. Len(list) /\ Len(list) \in Nat
    OBVIOUS
  <2> QED
    BY <2>1, FS_Interval
<1> QED
  BY <1>1, FS_Subset, FS_CardinalityType DEF Count

\* BlockIs: what a block has is finite, and its price is a number.
LEMMA BlockIs ==
    ASSUME Inv, NEW h \in Hashes, NEW u
    PROVE  /\ BlobTxs(h) \subseteq Tx /\ IsFiniteSet(BlobTxs(h))
           /\ Count(u, blocks[h].topups) \in Nat
           /\ blocks[h].price.base + blocks[h].price.blob \in Nat
           /\ \A t \in Tx : /\ Count(u, t.parts) \in Nat
                            /\ Cost(t, u, blocks[h].price)
                                 = (blocks[h].price.base + blocks[h].price.blob) * Count(u, t.parts)
<1>1. blocks[h] \in Block
  BY HashesAre DEF Inv, TypeOK
<1>2. BlobTxs(h) \subseteq Tx /\ IsFiniteSet(BlobTxs(h))
  BY <1>1, FS_Subset DEF BlobTxs, Block, Inv, TxsFinite
<1>3. Count(u, blocks[h].topups) \in Nat
  BY <1>1, CountIs DEF Block
<1>4. blocks[h].price.base \in Nat /\ blocks[h].price.blob \in Nat
  <2>1. blocks[h].price \in Prices
    BY <1>1 DEF Block
  <2>2. blocks[h].price \in [base : 0 .. TopFee - 1, blob : 0 .. TopFee - 1] /\ TopFee \in Nat
    BY <2>1, PricesAssumption
  <2> QED
    BY <2>2
<1>5. ASSUME NEW t \in Tx PROVE Count(u, t.parts) \in Nat
  BY CountIs DEF Tx
<1> QED
  BY <1>2, <1>3, <1>4, <1>5 DEF Cost

\* CostsAre: what is summed up by BlockSummary::balance_delta
LEMMA CostsAre ==
    ASSUME NEW T \in SUBSET Tx, IsFiniteSet(T), NEW u, NEW price
    PROVE  MapThenSumSet(LAMBDA t : Cost(t, u, price), T) = Total(Costs(u, price), T)
<1> DEFINE iter == CHOOSE f : f = [s \in SUBSET T |->
                     IF s = {} THEN 0
                     ELSE Cost(CHOOSE x \in s : TRUE, u, price) + f[s \ {CHOOSE x \in s : TRUE}]]
<1>1. MapThenSumSet(LAMBDA t : Cost(t, u, price), T) = iter[T]
  BY DEF MapThenSumSet, MapThenFoldSet
<1>2. PICK sum : Sums(sum, Costs(u, price), T)
  BY SumsExist
<1>3. ASSUME NEW s \in SUBSET T, s # {} PROVE Costs(u, price)[Chosen(s)] = Cost(Chosen(s), u, price)
  BY <1>3, AnyIn DEF Costs
<1>4. sum = [s \in SUBSET T |-> IF s = {} THEN 0
                                ELSE Cost(Chosen(s), u, price) + sum[s \ {Chosen(s)}]]
  BY <1>2, <1>3 DEF Sums
<1>5. iter = [s \in SUBSET T |-> IF s = {} THEN 0
                                 ELSE Cost(Chosen(s), u, price) + iter[s \ {Chosen(s)}]]
  BY <1>4 DEF Chosen
<1> HIDE DEF iter
<1>6. Sums(iter, Costs(u, price), T)
  BY <1>3, <1>5 DEF Sums
<1> QED
  BY <1>1, <1>6, TotalIs

\* PartsAre: what is summed up by get_all_participants
LEMMA PartsAre ==
    ASSUME NEW T \in SUBSET Tx, IsFiniteSet(T), NEW u
    PROVE  MapThenSumSet(LAMBDA t : Count(u, t.parts), T) = Total(Parts(u), T)
<1> DEFINE iter == CHOOSE f : f = [s \in SUBSET T |->
                     IF s = {} THEN 0
                     ELSE Count(u, (CHOOSE x \in s : TRUE).parts) + f[s \ {CHOOSE x \in s : TRUE}]]
<1>1. MapThenSumSet(LAMBDA t : Count(u, t.parts), T) = iter[T]
  BY DEF MapThenSumSet, MapThenFoldSet
<1>2. PICK sum : Sums(sum, Parts(u), T)
  BY SumsExist
<1>3. ASSUME NEW s \in SUBSET T, s # {} PROVE Parts(u)[Chosen(s)] = Count(u, Chosen(s).parts)
  BY <1>3, AnyIn DEF Parts
<1>4. sum = [s \in SUBSET T |-> IF s = {} THEN 0
                                ELSE Count(u, Chosen(s).parts) + sum[s \ {Chosen(s)}]]
  BY <1>2, <1>3 DEF Sums
<1>5. iter = [s \in SUBSET T |-> IF s = {} THEN 0
                                 ELSE Count(u, Chosen(s).parts) + iter[s \ {Chosen(s)}]]
  BY <1>4 DEF Chosen
<1> HIDE DEF iter
<1>6. Sums(iter, Parts(u), T)
  BY <1>3, <1>5 DEF Sums
<1> QED
  BY <1>1, <1>6, TotalIs

\* OneMention: the delta of a block is a number, and it is added once for a user whom the
\* block mentions once, and for one whom it does not mention, as it is 0.
LEMMA OneMention ==
    ASSUME Inv, NEW h \in Hashes, NEW u
    PROVE  /\ BalanceDelta(h, u) \in Int /\ Mentions(h, u) \in Nat
           /\ Mentions(h, u) <= 1 => Mentions(h, u) * BalanceDelta(h, u) = BalanceDelta(h, u)
<1> DEFINE price == blocks[h].price
           tops == Count(u, blocks[h].topups)
           all == Total(Parts(u), BlobTxs(h))
           unit == price.base + price.blob
<1>1. /\ BlobTxs(h) \in SUBSET Tx /\ IsFiniteSet(BlobTxs(h)) /\ tops \in Nat /\ unit \in Nat
      /\ \A t \in Tx : Count(u, t.parts) \in Nat /\ Cost(t, u, price) = unit * Count(u, t.parts)
  BY BlockIs
<1>2. Mentions(h, u) = tops + all
  BY <1>1, PartsAre DEF Mentions
<1>3. \A t \in BlobTxs(h) : Parts(u)[t] \in Nat /\ Costs(u, price)[t] = unit * Parts(u)[t]
  BY <1>1 DEF Parts, Costs
<1>4. all \in Nat
  BY <1>1, <1>3, TotalNat
<1>5. Total(Costs(u, price), BlobTxs(h)) = unit * all
  <2> HIDE DEF unit
  <2>1. unit \in Int /\ \A t \in BlobTxs(h) : Parts(u)[t] \in Int
    BY <1>1, <1>3
  <2> QED
    BY <1>1, <1>3, <2>1, TotalTimes
<1>6. BalanceDelta(h, u) = tops * TopupValue - unit * all
  <2>1. BalanceDelta(h, u) = tops * TopupValue - Total(Costs(u, price), BlobTxs(h))
    BY <1>1, CostsAre DEF BalanceDelta
  <2> QED
    BY <1>5, <2>1
<1>7. TopupValue \in Nat
  BY BalancesAssumption
<1> HIDE DEF tops, all, unit
<1>8. BalanceDelta(h, u) \in Int /\ Mentions(h, u) \in Nat
  BY <1>1, <1>2, <1>4, <1>6, <1>7
<1>9. CASE Mentions(h, u) = 0
  <2>1. tops = 0 /\ all = 0
    BY <1>1, <1>2, <1>4, <1>9
  <2>2. BalanceDelta(h, u) = 0
    BY <1>1, <1>6, <1>7, <2>1
  <2> QED
    BY <1>8, <1>9, <2>2
<1>10. CASE Mentions(h, u) = 1
  BY <1>8, <1>10
<1> QED
  BY <1>8, <1>9, <1>10

\* The delta of each place on a list of blocks, as often as the block mentions the user.
PerMention(p, u) == [i \in DOMAIN p |-> Mentions(p[i], u) * BalanceDelta(p[i], u)]

\* FinalizedIs: what is summed up by apply_finalized_block
LEMMA FinalizedIs ==
    ASSUME NEW u, IsFiniteSet(DOMAIN anchor.applied)
    PROVE  FinalizedBalance(u) = Total(PerMention(anchor.applied, u), DOMAIN anchor.applied)
<1> DEFINE p == anchor.applied
           D == DOMAIN p
           iter == CHOOSE f : f = [s \in SUBSET D |->
                     IF s = {} THEN 0
                     ELSE Mentions(p[CHOOSE x \in s : TRUE], u)
                            * BalanceDelta(p[CHOOSE x \in s : TRUE], u)
                              + f[s \ {CHOOSE x \in s : TRUE}]]
<1>1. FinalizedBalance(u) = iter[D]
  BY DEF FinalizedBalance, MapThenSumSet, MapThenFoldSet
<1>2. PICK sum : Sums(sum, PerMention(p, u), D)
  BY SumsExist
<1>3. ASSUME NEW s \in SUBSET D, s # {}
      PROVE  PerMention(p, u)[Chosen(s)] = Mentions(p[Chosen(s)], u) * BalanceDelta(p[Chosen(s)], u)
  BY <1>3, AnyIn DEF PerMention
<1>4. sum = [s \in SUBSET D |-> IF s = {} THEN 0
               ELSE Mentions(p[Chosen(s)], u) * BalanceDelta(p[Chosen(s)], u) + sum[s \ {Chosen(s)}]]
  BY <1>2, <1>3 DEF Sums
<1>5. iter = [s \in SUBSET D |-> IF s = {} THEN 0
               ELSE Mentions(p[Chosen(s)], u) * BalanceDelta(p[Chosen(s)], u) + iter[s \ {Chosen(s)}]]
  BY <1>4 DEF Chosen
<1> HIDE DEF iter
<1>6. Sums(iter, PerMention(p, u), D)
  BY <1>3, <1>5 DEF Sums
<1> QED
  BY <1>1, <1>6, TotalIs

\* UnfinalizedIs: what is summed up by balance_delta over the chain
LEMMA UnfinalizedIs ==
    ASSUME NEW u, IsFiniteSet(DOMAIN chain)
    PROVE  MapThenSumSet(LAMBDA i : BalanceDelta(chain[i].hash, u), DOMAIN chain) =
             Total([i \in DOMAIN chain |-> BalanceDelta(chain[i].hash, u)], DOMAIN chain)
<1> DEFINE D == DOMAIN chain
           g == [i \in D |-> BalanceDelta(chain[i].hash, u)]
           iter == CHOOSE f : f = [s \in SUBSET D |->
                     IF s = {} THEN 0
                     ELSE BalanceDelta(chain[CHOOSE x \in s : TRUE].hash, u)
                            + f[s \ {CHOOSE x \in s : TRUE}]]
<1>1. MapThenSumSet(LAMBDA i : BalanceDelta(chain[i].hash, u), DOMAIN chain) = iter[D]
  BY DEF MapThenSumSet, MapThenFoldSet
<1>2. PICK sum : Sums(sum, g, D)
  BY SumsExist
<1>3. ASSUME NEW s \in SUBSET D, s # {} PROVE g[Chosen(s)] = BalanceDelta(chain[Chosen(s)].hash, u)
  BY <1>3, AnyIn
<1> HIDE DEF g
<1>4. sum = [s \in SUBSET D |-> IF s = {} THEN 0
               ELSE BalanceDelta(chain[Chosen(s)].hash, u) + sum[s \ {Chosen(s)}]]
  BY <1>2, <1>3 DEF Sums
<1>5. iter = [s \in SUBSET D |-> IF s = {} THEN 0
               ELSE BalanceDelta(chain[Chosen(s)].hash, u) + iter[s \ {Chosen(s)}]]
  BY <1>4 DEF Chosen
<1> HIDE DEF iter
<1>6. Sums(iter, g, D)
  BY <1>3, <1>5 DEF Sums
<1>7. MapThenSumSet(LAMBDA i : BalanceDelta(chain[i].hash, u), DOMAIN chain) = Total(g, D)
  BY <1>1, <1>6, TotalIs
<1> QED
  BY <1>7 DEF g

\* NetPaidIs: the deltas of the blocks on a path
LEMMA NetPaidIs ==
    ASSUME NEW h \in Hashes, NEW u, IsFiniteSet(Trunk(h)), Trunk(h) \subseteq Hashes
    PROVE  NetPaid(h, u) = Total(Deltas(u), Trunk(h))
<1> DEFINE D == Trunk(h)
           iter == CHOOSE f : f = [s \in SUBSET D |->
                     IF s = {} THEN 0
                     ELSE BalanceDelta(CHOOSE x \in s : TRUE, u) + f[s \ {CHOOSE x \in s : TRUE}]]
<1>1. NetPaid(h, u) = iter[D]
  BY DEF NetPaid, Trunk, MapThenSumSet, MapThenFoldSet
<1>2. PICK sum : Sums(sum, Deltas(u), D)
  BY SumsExist
<1>3. ASSUME NEW s \in SUBSET D, s # {} PROVE Deltas(u)[Chosen(s)] = BalanceDelta(Chosen(s), u)
  BY <1>3, AnyIn DEF Deltas
<1>4. sum = [s \in SUBSET D |-> IF s = {} THEN 0
                                ELSE BalanceDelta(Chosen(s), u) + sum[s \ {Chosen(s)}]]
  BY <1>2, <1>3 DEF Sums
<1>5. iter = [s \in SUBSET D |-> IF s = {} THEN 0
                                 ELSE BalanceDelta(Chosen(s), u) + iter[s \ {Chosen(s)}]]
  BY <1>4 DEF Chosen
<1> HIDE DEF iter
<1>6. Sums(iter, Deltas(u), D)
  BY <1>3, <1>5 DEF Sums
<1> QED
  BY <1>1, <1>6, TotalIs

\* The blocks of the chain
OnChain == {chain[i].hash : i \in DOMAIN chain}

\* TrunkSplit: the blocks of the head's path are those the anchor has applied and those of
\* the chain, and each is there once.
LEMMA TrunkSplit ==
    ASSUME Inv
    PROVE  /\ anchor.hash \in Hashes /\ HeadHash \in Hashes
           /\ IsFiniteSet(DOMAIN anchor.applied) /\ IsFiniteSet(DOMAIN chain)
           /\ anchor.applied = Path(anchor.hash)
           /\ Trunk(anchor.hash) = {anchor.applied[i] : i \in DOMAIN anchor.applied}
           /\ Trunk(HeadHash) = Trunk(anchor.hash) \union OnChain
           /\ Trunk(anchor.hash) \intersect OnChain = {}
           /\ \A i, j \in DOMAIN anchor.applied : anchor.applied[i] = anchor.applied[j] => i = j
           /\ \A i, j \in DOMAIN chain : chain[i].hash = chain[j].hash => i = j
           /\ Trunk(HeadHash) \subseteq Hashes
<1> DEFINE p == Path(HeadHash)
           a == AnchorLength
           n == Len(chain)
<1>1. /\ anchor.hash \in Hashes /\ HeadHash \in Hashes
      /\ DOMAIN chain = 1 .. n /\ n \in Nat /\ a \in Nat \ {0}
      /\ Len(p) = a + n /\ p \in Seq(Hashes)
      /\ Path(anchor.hash) = SubSeq(p, 1, a)
  BY ChainOnPath
<1>2. \A i \in 1 .. n : p[a + i] = chain[i].hash
  BY <1>1 DEF Inv, ChainIsPath
<1>3. anchor.applied = Path(anchor.hash)
  BY DEF Inv, AppliedOnce
<1>4. /\ Trunk(HeadHash) \subseteq Hashes
      /\ Trunk(HeadHash) = {p[i] : i \in 1 .. a + n}
      /\ \A i, j \in 1 .. a + n : p[i] = p[j] => i = j
  BY <1>1, TrunkFacts
<1> HIDE DEF p, a, n
<1>5. /\ DOMAIN anchor.applied = 1 .. a
      /\ \A i \in 1 .. a : anchor.applied[i] = p[i]
  <2>1. anchor.applied = SubSeq(p, 1, a) /\ a \in 0 .. Len(p)
    BY <1>1, <1>3
  <2>2. /\ DOMAIN SubSeq(p, 1, a) = 1 .. a
        /\ \A i \in 1 .. a : SubSeq(p, 1, a)[i] = p[i]
    BY <1>1, <2>1, PrefixFacts
  <2> QED
    BY <2>1, <2>2
<1>6. IsFiniteSet(DOMAIN anchor.applied) /\ IsFiniteSet(DOMAIN chain)
  <2>1. IsFiniteSet(1 .. a) /\ IsFiniteSet(1 .. n)
    BY <1>1, FS_Interval
  <2> QED
    BY <1>1, <1>5, <2>1
<1>7. Trunk(anchor.hash) = {anchor.applied[i] : i \in DOMAIN anchor.applied}
  BY <1>3 DEF Trunk, Range
<1>8. Trunk(anchor.hash) = {p[i] : i \in 1 .. a}
  BY <1>5, <1>7
<1>9. OnChain = {p[a + i] : i \in 1 .. n}
  BY <1>1, <1>2 DEF OnChain
<1>10. \A i \in 1 .. n : a + i \in 1 .. a + n /\ a + i \notin 1 .. a
  BY <1>1
<1>11. \A i \in 1 .. a : i \in 1 .. a + n
  BY <1>1
<1>12. \A i \in 1 .. a + n : i \in 1 .. a \/ \E k \in 1 .. n : i = a + k
  <2> SUFFICES ASSUME NEW i \in 1 .. a + n, i \notin 1 .. a PROVE \E k \in 1 .. n : i = a + k
    OBVIOUS
  <2>1. i - a \in 1 .. n /\ i = a + (i - a)
    BY <1>1
  <2> QED
    BY <2>1
<1>13. Trunk(HeadHash) = Trunk(anchor.hash) \union OnChain
  <2>1. Trunk(HeadHash) \subseteq Trunk(anchor.hash) \union OnChain
    BY <1>4, <1>8, <1>9, <1>12
  <2>2. Trunk(anchor.hash) \union OnChain \subseteq Trunk(HeadHash)
    BY <1>4, <1>8, <1>9, <1>10, <1>11
  <2> QED
    BY <2>1, <2>2
<1>14. Trunk(anchor.hash) \intersect OnChain = {}
  BY <1>4, <1>8, <1>9, <1>10, <1>11
<1>15. \A i, j \in DOMAIN anchor.applied : anchor.applied[i] = anchor.applied[j] => i = j
  BY <1>4, <1>5, <1>11
<1>16. \A i, j \in DOMAIN chain : chain[i].hash = chain[j].hash => i = j
  <2> SUFFICES ASSUME NEW i \in 1 .. n, NEW j \in 1 .. n, chain[i].hash = chain[j].hash
               PROVE  i = j
    BY <1>1
  <2>1. a + i = a + j
    BY <1>2, <1>4, <1>10
  <2> QED
    BY <1>1, <2>1
<1> QED
  BY <1>1, <1>3, <1>4, <1>6, <1>7, <1>13, <1>14, <1>15, <1>16

\* ChainDeltas: what the unfinalized chain adds to a balance, as a sum over its blocks
LEMMA ChainDeltas ==
    ASSUME Inv, NEW u
    PROVE  /\ MapThenSumSet(LAMBDA i : BalanceDelta(chain[i].hash, u), DOMAIN chain)
                = Total(Deltas(u), OnChain)
           /\ IsFiniteSet(OnChain) /\ OnChain \subseteq Hashes
           /\ \A h \in Hashes : Deltas(u)[h] \in Int /\ Deltas(u)[h] = BalanceDelta(h, u)
<1> DEFINE f == Deltas(u)
           g == [i \in DOMAIN chain |-> BalanceDelta(chain[i].hash, u)]
           hashOf == [i \in DOMAIN chain |-> chain[i].hash]
           C == DOMAIN chain
<1>1. OnChain \subseteq Hashes /\ \A h \in Hashes : f[h] \in Int /\ f[h] = BalanceDelta(h, u)
  BY TrunkSplit, OneMention DEF Deltas
<1>2. MapThenSumSet(LAMBDA i : BalanceDelta(chain[i].hash, u), DOMAIN chain) = Total(g, DOMAIN chain)
  BY UnfinalizedIs, TrunkSplit
<1>3. \A i \in C : f[hashOf[i]] \in Int /\ g[i] = f[hashOf[i]]
  BY <1>1 DEF OnChain
<1>4. IsFiniteSet(C) /\ \A i, j \in C : hashOf[i] = hashOf[j] => i = j
  BY TrunkSplit
<1>5. OnChain = {hashOf[i] : i \in C}
  BY DEF OnChain
<1> HIDE DEF f, g, hashOf, C
<1>6. IsFiniteSet({hashOf[i] : i \in C}) /\ Total(g, C) = Total(f, {hashOf[i] : i \in C})
  <2>1. PICK q, K, a, b : q = hashOf /\ K = C /\ a = f /\ b = g
    OBVIOUS
  <2>2. IsFiniteSet(K)
    BY <1>4, <2>1
  <2>3. \A i, j \in K : q[i] = q[j] => i = j
    BY <1>4, <2>1
  <2>4. \A i \in K : a[q[i]] \in Int /\ b[i] = a[q[i]]
    BY <1>3, <2>1
  <2>5. IsFiniteSet({q[i] : i \in K}) /\ Total(b, K) = Total(a, {q[i] : i \in K})
    BY ONLY <2>2, <2>3, <2>4, TotalMoved
  <2> QED
    BY <2>1, <2>5
<1> QED
  BY <1>1, <1>2, <1>5, <1>6 DEF C, f

-----------------------------------------------------------------------------
(* What is charged *)

\* What the bundler holds, and what is in a block, are transactions that the node has
\* accepted: there are finitely many.  Those of a block pay its price.
AcceptedInv ==
    /\ pending \subseteq pool
    /\ \A i \in DOMAIN chain : chain[i].held \subseteq pool
    /\ \A h \in Hashes : blocks[h].txs \subseteq pool
    /\ \A h \in Hashes : \A t \in blocks[h].txs : ~Underpriced(t.fee, blocks[h].price)
    /\ job # <<>> /\ job[1].accepted => job[1].tx \in pool

\* AcceptedInit: before the first step nothing is sent or mined.
LEMMA AcceptedInit == Init => AcceptedInv
<1> SUFFICES ASSUME Init PROVE AcceptedInv
  OBVIOUS
<1>1. blocks = <<[path |-> <<Genesis>>, txs |-> {}, topups |-> <<>>, price |-> GenesisPrice]>>
  BY DEF Init, EthInit
<1>2. \A h \in Hashes : blocks[h].txs = {}
  BY <1>1 DEF Hashes
<1> QED
  BY <1>2 DEF Init, AcceptedInv

\* MineAccepted: a block is mined of what the node has accepted, and only if it pays.
LEMMA MineAccepted ==
    ASSUME Inv, AcceptedInv, NEW parent \in Hashes, NEW T \in SUBSET pool,
           NEW tops \in TopupChoices, NEW price \in Prices, MineBlock(parent, T, tops, price),
           UNCHANGED <<chain, pending, job>>
    PROVE  AcceptedInv'
<1>1. PICK h : h = Len(blocks) + 1
  OBVIOUS
<1>2. /\ Hashes' = Hashes \union {h} /\ \A g \in Hashes : blocks'[g] = blocks[g]
  BY <1>1, MineExtends
<1>3. UNCHANGED pool /\ Includable(T, parent, price)
  BY DEF MineBlock
<1>4. blocks'[h].txs = T /\ blocks'[h].price = price
  <2> DEFINE new == [path |-> Append(Path(parent), h), txs |-> T, topups |-> tops, price |-> price]
  <2>1. blocks' = Append(blocks, new)
    BY <1>1 DEF MineBlock
  <2>2. blocks \in Seq(Block)
    BY DEF Inv, TypeOK
  <2>3. new.txs = T /\ new.price = price
    OBVIOUS
  <2> HIDE DEF new
  <2>4. blocks'[h] = new
    BY <1>1, <2>1, <2>2
  <2> QED
    BY <2>3, <2>4
<1>5. \A t \in T : ~Underpriced(t.fee, price)
  BY <1>3 DEF Includable
<1>6. ASSUME NEW g \in Hashes'
      PROVE  /\ blocks'[g].txs \subseteq pool
             /\ \A t \in blocks'[g].txs : ~Underpriced(t.fee, blocks'[g].price)
  <2>1. CASE g = h
    BY <1>4, <1>5, <2>1
  <2>2. CASE g \in Hashes
    BY <1>2, <2>2 DEF AcceptedInv
  <2> QED
    BY <1>2, <2>1, <2>2
<1> QED
  BY <1>3, <1>6 DEF AcceptedInv, Underpriced

\* ImportAccepted: what a reorganisation puts back, and what new blocks hold, was pending,
\* held or in a block before.
LEMMA ImportAccepted ==
    ASSUME Inv, AcceptedInv, NEW h \in Hashes, NEW first \in Attach(h), Import(h, first),
           UNCHANGED <<blocks, pool, job>>
    PROVE  AcceptedInv'
<1>1. PICK keep, new, stem : Grafts(h, keep, new, stem)
  BY ImportGrafts
<1>2. Restored(keep) \subseteq pool
  <2>1. keep + 1 .. Len(chain) \subseteq DOMAIN chain
    BY <1>1, ChainOnPath DEF Grafts
  <2>2. \A i \in DOMAIN chain : BlobTxs(chain[i].hash) \union chain[i].held \subseteq pool
    BY ChainOnPath DEF AcceptedInv, BlobTxs
  <2> QED
    BY <2>1, <2>2 DEF Restored, Reorged
<1>3. Before(keep) \subseteq pool
  BY <1>2 DEF AcceptedInv, Before, Put, Without
<1>4. pending' \subseteq pool
  BY <1>1, <1>3 DEF Grafts, Without
<1>5. ASSUME NEW i \in DOMAIN chain' PROVE chain'[i].held \subseteq pool
  <2>1. CASE i \in 1 .. keep
    BY <1>1, <2>1 DEF Grafts, AcceptedInv
  <2>2. CASE i \notin 1 .. keep
    BY <1>1, <1>3, <2>2 DEF Grafts, At
  <2> QED
    BY <2>1, <2>2
<1> QED
  BY <1>4, <1>5 DEF AcceptedInv, Underpriced, Hashes

\* AcceptedStep: every step keeps AcceptedInv.
LEMMA AcceptedStep == Inv /\ AcceptedInv /\ [Next]_vars => AcceptedInv'
<1> SUFFICES ASSUME Inv, AcceptedInv, [Next]_vars PROVE AcceptedInv'
  OBVIOUS
<1>1. CASE Environment
  <2>1. UNCHANGED <<chain, pending, job>>
    BY <1>1 DEF Environment
  <2>2. CASE \E h \in Hashes : SwitchHead(h)
    BY <2>1, <2>2 DEF SwitchHead, AcceptedInv, Hashes, Underpriced
  <2> QED
    BY <1>1, <2>1, <2>2, MineAccepted DEF Environment
<1>2. CASE UNCHANGED <<blocks, pool, chain, pending, job>>
  BY <1>2 DEF AcceptedInv, Hashes, Underpriced
<1>3. CASE SyncNextHead
  <2>1. news[1] \in Hashes
    BY <1>3 DEF SyncNextHead, Inv, TypeOK
  <2>2. UNCHANGED <<blocks, pool, job>>
    BY <1>3 DEF SyncNextHead
  <2> QED
    BY <1>2, <1>3, <2>1, <2>2, ImportAccepted DEF SyncNextHead
<1>4. CASE MaybeAdvanceAnchorBlock
  <2>1. UNCHANGED <<blocks, pool, pending, saved, job>>
    BY <1>4 DEF MaybeAdvanceAnchorBlock
  <2>2. ASSUME NEW k \in NewAnchorPositions, AdvanceTo(k) PROVE AcceptedInv'
    <3>1. /\ chain \in Seq([hash : Hashes, held : SUBSET Tx]) /\ k \in 1 .. Len(chain)
          /\ chain' = SubSeq(chain, k + 1, Len(chain))
      <4>1. k \in 1 .. Len(chain)
        BY <2>1, <2>2, AdvanceLinks
      <4> QED
        BY <2>2, <4>1 DEF Inv, TypeOK, AdvanceTo
    <3>2. \A i \in DOMAIN chain' : k + i \in DOMAIN chain /\ chain'[i] = chain[k + i]
      BY <3>1
    <3>3. \A i \in DOMAIN chain' : chain'[i].held \subseteq pool
      BY <3>2 DEF AcceptedInv
    <3> QED
      BY <2>1, <3>3 DEF AcceptedInv, Hashes, Underpriced
  <2> QED
    BY <1>2, <1>4, <2>1, <2>2 DEF MaybeAdvanceAnchorBlock
<1>5. CASE Restart
  <2>1. chain' = <<>> /\ pending' = {} /\ job' = <<>> /\ UNCHANGED <<blocks, pool>>
    BY <1>5 DEF Restart
  <2> QED
    BY <2>1 DEF AcceptedInv, Hashes, Underpriced
<1>6. CASE ReorgTooDeep \/ SyncFails \/ Crash \/ DeleteAnchorRows \/ InsertAnchorRow \/ PersistFails
             \/ UNCHANGED vars
  <2>1. UNCHANGED <<blocks, pool, chain, pending, job>>
    BY <1>6 DEF ReorgTooDeep, SyncFails, Crash, DeleteAnchorRows, InsertAnchorRow, PersistFails,
                vars
  <2> QED
    BY <1>2, <2>1
<1>7. ASSUME UNCHANGED <<blocks, chain, pending>>, pool \subseteq pool',
             job' # <<>> /\ job'[1].accepted => job'[1].tx \in pool'
      PROVE  AcceptedInv'
  BY <1>7 DEF AcceptedInv, Hashes, Underpriced
<1>8. CASE \/ \E s \in Senders, f \in Fees, ps \in PartChoices : PrepareBlobTx(s, f, ps)
           \/ \E f \in Fees : PrepareSelfTransfer(f)
  <2>1. UNCHANGED <<blocks, chain, pending, pool>> /\ \E t : Sign(t)
    BY <1>8 DEF PrepareBlobTx, PrepareSelfTransfer
  <2>2. job' # <<>> => ~job'[1].accepted
    BY <2>1 DEF Sign
  <2> QED
    BY <1>7, <2>1, <2>2
<1>9. CASE NodeAccepts
  <2>1. /\ UNCHANGED <<blocks, chain, pending>> /\ pool' = pool \union {job[1].tx}
        /\ job' = <<[job[1] EXCEPT !.accepted = TRUE]>>
    BY <1>9 DEF NodeAccepts
  <2>2. job[1] \in [tx : Tx, accepted : BOOLEAN]
    <3>1. job \in Seq([tx : Tx, accepted : BOOLEAN]) /\ job # <<>>
      BY <1>9 DEF NodeAccepts, Inv, TypeOK
    <3>2. \A J : \A s \in Seq(J) : s # <<>> => s[1] \in J
      OBVIOUS
    <3> QED
      BY <3>1, <3>2
  <2>3. job'[1].tx = job[1].tx
    BY <2>1, <2>2
  <2> QED
    BY <1>7, <2>1, <2>3
<1>10. CASE NodeRejects \/ AnswerLost
  <2>1. UNCHANGED <<blocks, chain, pending>> /\ pool \subseteq pool' /\ job' = <<>>
    BY <1>10 DEF NodeRejects, AnswerLost
  <2> QED
    BY <1>7, <2>1
<1>11. CASE RegisterSent
  <2>1. /\ UNCHANGED <<blocks, chain, pool>> /\ job' = <<>> /\ job[1].tx \in pool
        /\ pending' = Put(pending, {job[1].tx})
    BY <1>11 DEF RegisterSent, AcceptedInv
  <2> QED
    BY <2>1 DEF AcceptedInv, Put, Without, Hashes, Underpriced
<1> QED
  BY <1>1, <1>3, <1>4, <1>5, <1>6, <1>8, <1>9, <1>10, <1>11 DEF Next, Subscriber, Sender, Faults

\* AcceptedInvHolds: in every run, what is pending, held or mined was accepted by the node,
\* and a block's transactions pay its price.
THEOREM AcceptedInvHolds == Spec => []AcceptedInv
BY AcceptedInit, AcceptedStep, InvHolds, PTL DEF Spec

\* What each transaction is charged while it is pending
PendingCosts(u) == [t \in Tx |-> Cost(t, u, t.fee)]

\* PendingIs: what is summed up over pending transactions
LEMMA PendingIs ==
    ASSUME NEW T \in SUBSET Tx, IsFiniteSet(T), NEW u
    PROVE  /\ MapThenSumSet(LAMBDA t : Cost(t, u, t.fee), T) = Total(PendingCosts(u), T)
           /\ \A t \in Tx : PendingCosts(u)[t] \in Nat
<1> DEFINE iter == CHOOSE f : f = [s \in SUBSET T |->
                     IF s = {} THEN 0
                     ELSE Cost(CHOOSE x \in s : TRUE, u, (CHOOSE x \in s : TRUE).fee)
                            + f[s \ {CHOOSE x \in s : TRUE}]]
<1>1. MapThenSumSet(LAMBDA t : Cost(t, u, t.fee), T) = iter[T]
  BY DEF MapThenSumSet, MapThenFoldSet
<1>2. PICK sum : Sums(sum, PendingCosts(u), T)
  BY SumsExist
<1>3. ASSUME NEW s \in SUBSET T, s # {}
      PROVE  PendingCosts(u)[Chosen(s)] = Cost(Chosen(s), u, Chosen(s).fee)
  BY <1>3, AnyIn DEF PendingCosts
<1>4. sum = [s \in SUBSET T |-> IF s = {} THEN 0
                                ELSE Cost(Chosen(s), u, Chosen(s).fee) + sum[s \ {Chosen(s)}]]
  BY <1>2, <1>3 DEF Sums
<1>5. iter = [s \in SUBSET T |-> IF s = {} THEN 0
                                 ELSE Cost(Chosen(s), u, Chosen(s).fee) + iter[s \ {Chosen(s)}]]
  BY <1>4 DEF Chosen
<1> HIDE DEF iter
<1>6. Sums(iter, PendingCosts(u), T)
  BY <1>3, <1>5 DEF Sums
<1>7. ASSUME NEW t \in Tx PROVE PendingCosts(u)[t] \in Nat
  <2>1. Count(u, t.parts) \in Nat
    BY CountIs DEF Tx
  <2>2. t.fee.base + t.fee.blob \in Nat
    BY PricesAssumption DEF Tx, Fee
  <2> QED
    BY <2>1, <2>2 DEF PendingCosts, Cost
<1> QED
  BY <1>1, <1>6, <1>7, TotalIs

\* AcceptedPending: the charges of what is pending add up to a number.
LEMMA AcceptedPending ==
    ASSUME Inv, AcceptedInv, NEW u
    PROVE  /\ pending \in SUBSET Tx /\ IsFiniteSet(pending)
           /\ PendingCost(u) = Total(PendingCosts(u), pending) /\ PendingCost(u) \in Nat
<1>1. pending \in SUBSET Tx /\ IsFiniteSet(pending)
  BY FS_Subset DEF Inv, TypeOK, TxsFinite, AcceptedInv
<1>2. PendingCost(u) = Total(PendingCosts(u), pending)
  BY <1>1, PendingIs DEF PendingCost
<1>3. \A t \in pending : PendingCosts(u)[t] \in Nat
  BY <1>1, PendingIs
<1> QED
  BY <1>1, <1>2, <1>3, TotalNat

\* ExactHere: in every state of the invariant the property holds.
LEMMA ExactHere == ASSUME Inv, AcceptedInv PROVE ExactWithoutRepeats
<1> SUFFICES ASSUME NEW u \in Users, \A h \in Range(anchor.applied) : Mentions(h, u) <= 1
             PROVE  BalanceWithPending(u) = NetPaid(HeadHash, u) - PendingCost(u)
  BY DEF ExactWithoutRepeats
<1> DEFINE applied == anchor.applied
           D == DOMAIN applied
           f == Deltas(u)
<1>1. /\ Trunk(HeadHash) \subseteq Hashes /\ Trunk(anchor.hash) \subseteq Hashes
      /\ OnChain \subseteq Hashes
      /\ \A h \in Hashes : f[h] \in Int /\ f[h] = BalanceDelta(h, u)
  BY TrunkSplit, OneMention DEF Deltas
<1>2. FinalizedBalance(u) = Total(f, Trunk(anchor.hash)) /\ IsFiniteSet(Trunk(anchor.hash))
  <2> DEFINE h == PerMention(applied, u)
  <2>1. FinalizedBalance(u) = Total(h, D)
    BY FinalizedIs, TrunkSplit
  <2>2. \A i \in D : f[applied[i]] \in Int /\ h[i] = f[applied[i]]
    <3> SUFFICES ASSUME NEW i \in D PROVE f[applied[i]] \in Int /\ h[i] = f[applied[i]]
      OBVIOUS
    <3>1. applied[i] \in Hashes /\ Mentions(applied[i], u) <= 1
      BY <1>1, TrunkSplit DEF Range
    <3>2. h[i] = Mentions(applied[i], u) * BalanceDelta(applied[i], u)
      BY DEF PerMention
    <3>3. h[i] = BalanceDelta(applied[i], u)
      BY <3>1, <3>2, OneMention
    <3> QED
      BY <1>1, <3>1, <3>3
  <2>3. IsFiniteSet(D) /\ \A i, j \in D : applied[i] = applied[j] => i = j
    BY TrunkSplit
  <2>4. Trunk(anchor.hash) = {applied[i] : i \in D}
    BY TrunkSplit
  <2> HIDE DEF h, f, D, applied
  <2>5. IsFiniteSet({applied[i] : i \in D}) /\ Total(h, D) = Total(f, {applied[i] : i \in D})
    BY ONLY <2>2, <2>3, TotalMoved
  <2> QED
    BY <2>1, <2>4, <2>5
<1>3. /\ MapThenSumSet(LAMBDA i : BalanceDelta(chain[i].hash, u), DOMAIN chain) = Total(f, OnChain)
      /\ IsFiniteSet(OnChain)
  BY ChainDeltas
<1> HIDE DEF f
<1>4. /\ Trunk(HeadHash) = Trunk(anchor.hash) \union OnChain
      /\ Trunk(anchor.hash) \intersect OnChain = {}
  BY TrunkSplit
<1>5. Total(f, Trunk(HeadHash)) = Total(f, Trunk(anchor.hash)) + Total(f, OnChain)
  <2>1. \A x \in Trunk(anchor.hash) \union OnChain : f[x] \in Int
    BY <1>1
  <2> QED
    BY <1>2, <1>3, <1>4, <2>1, TotalUnion
<1>6. NetPaid(HeadHash, u) = Total(f, Trunk(HeadHash))
  <2>1. IsFiniteSet(Trunk(HeadHash)) /\ HeadHash \in Hashes
    <3>1. IsFiniteSet(Trunk(anchor.hash) \union OnChain)
      BY <1>2, <1>3, FS_Union
    <3> QED
      BY <1>4, <3>1, TrunkSplit
  <2> QED
    BY <1>1, <2>1, NetPaidIs DEF f
<1> DEFINE unfinalized == MapThenSumSet(LAMBDA i : BalanceDelta(chain[i].hash, u), DOMAIN chain)
<1>7. BalanceWithPending(u) = FinalizedBalance(u) + unfinalized - PendingCost(u)
  BY DEF BalanceWithPending, PendingCost
<1>8. unfinalized = Total(f, OnChain)
  BY <1>3
<1> HIDE DEF unfinalized
<1>9. FinalizedBalance(u) + unfinalized = NetPaid(HeadHash, u)
  BY <1>2, <1>5, <1>6, <1>8, Zenon
<1>10. Total(f, Trunk(anchor.hash)) \in Int /\ Total(f, OnChain) \in Int
  BY <1>1, <1>2, <1>3, TotalType
<1>11. PendingCost(u) \in Int
  BY AcceptedPending
<1> QED
  BY <1>2, <1>7, <1>8, <1>9, <1>10, <1>11

\* ExactWithoutRepeatsHolds: in every run, a balance is what the path of the head says the
\* user has paid in and used up, less what is pending, for a user whom no finalized block
\* mentions twice.
THEOREM ExactWithoutRepeatsHolds == Spec => []ExactWithoutRepeats
<1>1. Inv /\ AcceptedInv => ExactWithoutRepeats
  BY ExactHere
<1> QED
  BY <1>1, InvHolds, AcceptedInvHolds, PTL

-----------------------------------------------------------------------------
(* What a step does to a balance *)

\* BalanceIs: a balance is a sum over what is applied, one over the chain and one over what
\* is pending.
LEMMA BalanceIs ==
    Inv /\ AcceptedInv =>
      \A u : /\ BalanceWithPending(u)
                  = FinalizedBalance(u) + Total(Deltas(u), OnChain) - Total(PendingCosts(u), pending)
             /\ Total(Deltas(u), OnChain) \in Int /\ Total(PendingCosts(u), pending) \in Int
<1> SUFFICES ASSUME Inv, AcceptedInv, NEW u
             PROVE  /\ BalanceWithPending(u)
                         = FinalizedBalance(u) + Total(Deltas(u), OnChain)
                             - Total(PendingCosts(u), pending)
                    /\ Total(Deltas(u), OnChain) \in Int /\ Total(PendingCosts(u), pending) \in Int
  OBVIOUS
<1> DEFINE unfinalized == MapThenSumSet(LAMBDA i : BalanceDelta(chain[i].hash, u), DOMAIN chain)
<1>1. BalanceWithPending(u) = FinalizedBalance(u) + unfinalized - PendingCost(u)
  BY DEF BalanceWithPending, PendingCost
<1>2. unfinalized = Total(Deltas(u), OnChain)
  BY ChainDeltas
<1> HIDE DEF unfinalized
<1>3. PendingCost(u) = Total(PendingCosts(u), pending) /\ PendingCost(u) \in Nat
  BY AcceptedPending
<1>4. Total(Deltas(u), OnChain) \in Int
  <2>1. IsFiniteSet(OnChain) /\ \A h \in OnChain : Deltas(u)[h] \in Int
    BY ChainDeltas
  <2> QED
    BY <2>1, TotalType
<1>5. BalanceWithPending(u)
        = FinalizedBalance(u) + Total(Deltas(u), OnChain) - Total(PendingCosts(u), pending)
  BY <1>1, <1>2, <1>3, Zenon
<1> QED
  BY <1>3, <1>4, <1>5

\* FinalizedSum: what apply_finalized_block adds up to is a number.
LEMMA FinalizedSum ==
    Inv => \A u : /\ FinalizedBalance(u)
                       = Total(PerMention(anchor.applied, u), DOMAIN anchor.applied)
                  /\ FinalizedBalance(u) \in Int
<1> SUFFICES ASSUME Inv, NEW u
             PROVE  /\ FinalizedBalance(u)
                         = Total(PerMention(anchor.applied, u), DOMAIN anchor.applied)
                    /\ FinalizedBalance(u) \in Int
  OBVIOUS
<1> DEFINE p == anchor.applied
           D == DOMAIN p
<1>1. IsFiniteSet(D) /\ Trunk(anchor.hash) \subseteq Hashes /\ \A i \in D : p[i] \in Hashes
  BY TrunkSplit
<1>2. \A i \in D : Mentions(p[i], u) \in Int /\ BalanceDelta(p[i], u) \in Int
  BY <1>1, OneMention
<1>3. ASSUME NEW i \in D PROVE PerMention(p, u)[i] \in Int
  <2>1. PerMention(p, u)[i] = Mentions(p[i], u) * BalanceDelta(p[i], u)
    BY DEF PerMention
  <2> QED
    BY <1>2, <2>1
<1>4. FinalizedBalance(u) = Total(PerMention(p, u), D)
  BY <1>1, FinalizedIs
<1>5. Total(PerMention(p, u), D) \in Int
  <2> DEFINE f == PerMention(p, u)
  <2> HIDE DEF D, f
  <2>1. \A i \in D : f[i] \in Int
    BY <1>3 DEF f
  <2>2. Total(f, D) \in Int
    BY <1>1, <2>1, TotalType
  <2> QED
    BY <2>2 DEF f
<1> QED
  BY <1>4, <1>5

\* BlockSums: what a block mentions and adds, as sums over its blob transactions
LEMMA BlockSums ==
    Inv => \A h \in Hashes : \A u :
             /\ Mentions(h, u) = Count(u, blocks[h].topups) + Total(Parts(u), BlobTxs(h))
             /\ BalanceDelta(h, u) = Count(u, blocks[h].topups) * TopupValue
                                       - Total(Costs(u, blocks[h].price), BlobTxs(h))
BY BlockIs, PartsAre, CostsAre DEF Mentions, BalanceDelta

\* NextBlockSums: the same of the next state
LEMMA NextBlockSums ==
    Inv' => (\A h \in Hashes : \A u :
             /\ Mentions(h, u) = Count(u, blocks[h].topups) + Total(Parts(u), BlobTxs(h))
             /\ BalanceDelta(h, u) = Count(u, blocks[h].topups) * TopupValue
                                       - Total(Costs(u, blocks[h].price), BlobTxs(h)))'
BY BlockSums, PTL

\* NextFinalizedSum: as FinalizedSum, of the next state
LEMMA NextFinalizedSum ==
    Inv' => (\A u : /\ FinalizedBalance(u)
                       = Total(PerMention(anchor.applied, u), DOMAIN anchor.applied)
                    /\ FinalizedBalance(u) \in Int)'
BY FinalizedSum, PTL

\* NextBalanceIs: as BalanceIs, of the next state
LEMMA NextBalanceIs ==
    Inv' /\ AcceptedInv' =>
      (\A u : /\ BalanceWithPending(u)
                  = FinalizedBalance(u) + Total(Deltas(u), OnChain) - Total(PendingCosts(u), pending)
              /\ Total(Deltas(u), OnChain) \in Int /\ Total(PendingCosts(u), pending) \in Int)'
BY BalanceIs, PTL

\* SameDeltas: while no block is mined, no block's delta changes, ...
LEMMA SameDeltas ==
    ASSUME Inv, Inv', UNCHANGED blocks, NEW u
    PROVE  /\ \A h \in Hashes : /\ Mentions(h, u)' = Mentions(h, u)
                                /\ BalanceDelta(h, u)' = BalanceDelta(h, u)
           /\ Deltas(u)' = Deltas(u)
<1>1. Hashes' = Hashes /\ \A h : BlobTxs(h)' = BlobTxs(h)
  BY DEF Hashes, BlobTxs
<1>2. ASSUME NEW h \in Hashes
      PROVE  Mentions(h, u)' = Mentions(h, u) /\ BalanceDelta(h, u)' = BalanceDelta(h, u)
  <2>1. /\ Mentions(h, u) = Count(u, blocks[h].topups) + Total(Parts(u), BlobTxs(h))
        /\ BalanceDelta(h, u) = Count(u, blocks[h].topups) * TopupValue
                                  - Total(Costs(u, blocks[h].price), BlobTxs(h))
    BY BlockSums
  <2>2. /\ Mentions(h, u)' = Count(u, blocks'[h].topups) + Total(Parts(u), BlobTxs(h)')
        /\ BalanceDelta(h, u)' = Count(u, blocks'[h].topups) * TopupValue
                                  - Total(Costs(u, blocks'[h].price), BlobTxs(h)')
    BY <1>1, NextBlockSums
  <2> QED
    BY <1>1, <2>1, <2>2, Zenon
<1>3. Deltas(u)' = Deltas(u)
  BY <1>1, <1>2 DEF Deltas
<1> QED
  BY <1>2, <1>3

\* SameFinalized: ... and while the anchor stays either, no finalized balance.
LEMMA SameFinalized ==
    ASSUME Inv, Inv', UNCHANGED <<blocks, anchor>>, NEW u
    PROVE  FinalizedBalance(u)' = FinalizedBalance(u)
<1> DEFINE p == anchor.applied
<1>1. \A i \in DOMAIN p : p[i] \in Hashes
  BY TrunkSplit
<1>2. PerMention(p, u)' = PerMention(p, u)
  BY <1>1, SameDeltas DEF PerMention
<1>3. FinalizedBalance(u) = Total(PerMention(p, u), DOMAIN p)
  BY FinalizedSum
<1>4. FinalizedBalance(u)' = Total(PerMention(p, u)', DOMAIN p')
  BY NextFinalizedSum
<1> QED
  BY <1>2, <1>3, <1>4, Zenon
\* The blob transactions of several blocks
BlobsOf(G) == UNION {BlobTxs(g) : g \in G}

\* BlockCovered: what a block takes from a user is no more than what its transactions were
\* charged while they were pending: they pay its price.
LEMMA BlockCovered ==
    ASSUME Inv, AcceptedInv, NEW h \in Hashes, NEW u
    PROVE  /\ BlobTxs(h) \subseteq Tx /\ IsFiniteSet(BlobTxs(h))
           /\ Deltas(u)[h] \in Int /\ Total(PendingCosts(u), BlobTxs(h)) \in Nat
           /\ 0 <= Deltas(u)[h] + Total(PendingCosts(u), BlobTxs(h))
<1> DEFINE price == blocks[h].price
           T == BlobTxs(h)
           f == Costs(u, price)
           g == PendingCosts(u)
           tops == Count(u, blocks[h].topups) * TopupValue
<1>1. /\ T \subseteq Tx /\ IsFiniteSet(T) /\ Count(u, blocks[h].topups) \in Nat
      /\ price.base + price.blob \in Nat
      /\ \A t \in Tx : Count(u, t.parts) \in Nat
  BY BlockIs
<1>2. price \in [base : Nat, blob : Nat]
  <2>1. blocks[h].price \in Prices
    BY HashesAre DEF Inv, TypeOK, Block
  <2> QED
    BY <2>1, PricesAssumption
<1>3. ASSUME NEW t \in T PROVE f[t] \in Int /\ g[t] \in Nat /\ f[t] <= g[t]
  <2>1. t \in Tx /\ t.fee \in Fee /\ t \in blocks[h].txs
    BY <1>1 DEF Tx, BlobTxs
  <2>2. ~Underpriced(t.fee, price)
    BY <2>1 DEF AcceptedInv
  <2>3. t.fee.base \in Nat /\ t.fee.blob \in Nat /\ price.base \in Nat /\ price.blob \in Nat
    BY <1>2, <2>1, PricesAssumption DEF Fee
  <2>4. price.base + price.blob <= t.fee.base + t.fee.blob
    BY <2>2, <2>3 DEF Underpriced
  <2> DEFINE n == Count(u, t.parts)
             a == price.base + price.blob
             b == t.fee.base + t.fee.blob
  <2>5. f[t] = n * a /\ g[t] = n * b
    BY <2>1 DEF Costs, PendingCosts, Cost
  <2>6. n \in Nat /\ a \in Nat /\ b \in Nat /\ a <= b
    BY <1>1, <2>1, <2>3, <2>4
  <2> HIDE DEF n, a, b, f, g
  <2>7. n * a \in Nat /\ n * b \in Nat /\ n * a <= n * b
    <3>1. PICK k \in Nat : b = a + k
      <4>1. b - a \in Nat /\ b = a + (b - a)
        BY <2>6
      <4> QED
        BY <4>1
    <3>2. n * b = n * a + n * k /\ n * k \in Nat /\ n * a \in Nat
      BY <2>6, <3>1
    <3> QED
      BY <3>2
  <2> QED
    BY <2>5, <2>7
<1>4. BalanceDelta(h, u) = tops - Total(f, T)
  BY BlockSums
<1>5. Deltas(u)[h] = BalanceDelta(h, u)
  BY DEF Deltas
<1> HIDE DEF f, g, T
<1>6. Total(f, T) <= Total(g, T) /\ Total(f, T) \in Int /\ Total(g, T) \in Nat
  BY <1>1, <1>3, TotalOrder, TotalType, TotalNat
<1>7. tops \in Nat
  BY <1>1, BalancesAssumption
<1> HIDE DEF tops
<1>8. BalanceDelta(h, u) \in Int /\ 0 <= BalanceDelta(h, u) + Total(g, T)
  BY <1>4, <1>6, <1>7
<1> QED
  BY <1>1, <1>5, <1>6, <1>8 DEF T, g

\* DeltasCovered: and so of several blocks that share no transaction
LEMMA DeltasCovered ==
    ASSUME Inv, AcceptedInv, NEW G, G \subseteq Hashes, IsFiniteSet(G),
           \A g, f \in G : g # f => BlobTxs(g) \intersect BlobTxs(f) = {},
           NEW u
    PROVE  /\ BlobsOf(G) \subseteq Tx /\ IsFiniteSet(BlobsOf(G))
           /\ Total(Deltas(u), G) \in Int /\ Total(PendingCosts(u), BlobsOf(G)) \in Nat
           /\ 0 <= Total(Deltas(u), G) + Total(PendingCosts(u), BlobsOf(G))
<1> DEFINE d == Deltas(u)
           c == PendingCosts(u)
           Covered(T) == /\ BlobsOf(T) \subseteq Tx /\ IsFiniteSet(BlobsOf(T))
                         /\ Total(d, T) \in Int /\ Total(c, BlobsOf(T)) \in Nat
                         /\ 0 <= Total(d, T) + Total(c, BlobsOf(T))
           P == {T \in SUBSET G : Covered(T)}
<1>1. {} \in P
  <2>1. BlobsOf({}) = {}
    BY DEF BlobsOf
  <2> HIDE DEF d, c
  <2>2. Total(d, {}) = 0 /\ Total(c, {}) = 0
    BY TotalEmpty
  <2>3. Covered({})
    BY <2>1, <2>2, FS_EmptySet
  <2> QED
    BY <2>3
<1>2. ASSUME NEW T \in SUBSET G, NEW x \in G, T \in P, x \notin T PROVE T \union {x} \in P
  <2>1. BlobsOf(T \union {x}) = BlobsOf(T) \union BlobTxs(x)
    BY DEF BlobsOf
  <2>2. BlobsOf(T) \intersect BlobTxs(x) = {}
    BY <1>2 DEF BlobsOf
  <2>3. Covered(T)
    BY <1>2
  <2>4. /\ BlobTxs(x) \subseteq Tx /\ IsFiniteSet(BlobTxs(x))
        /\ d[x] \in Int /\ Total(c, BlobTxs(x)) \in Nat
        /\ 0 <= d[x] + Total(c, BlobTxs(x))
    BY BlockCovered
  <2>5. IsFiniteSet(T) /\ \A h \in T : d[h] \in Int
    BY FS_Subset, BlockCovered
  <2>6. \A t \in Tx : c[t] \in Int
    <3>1. {} \in SUBSET Tx /\ IsFiniteSet({})
      BY FS_EmptySet
    <3>2. \A t \in Tx : PendingCosts(u)[t] \in Nat
      BY <3>1, PendingIs
    <3> QED
      BY <3>2
  <2> HIDE DEF d, c
  <2>7. Total(d, T \union {x}) = Total(d, T) + d[x]
    BY <1>2, <2>4, <2>5, TotalAdd
  <2>8. /\ Total(c, BlobsOf(T) \union BlobTxs(x)) = Total(c, BlobsOf(T)) + Total(c, BlobTxs(x))
        /\ IsFiniteSet(BlobsOf(T) \union BlobTxs(x))
    BY <2>2, <2>3, <2>4, <2>6, TotalUnion, FS_Union
  <2>9. Covered(T \union {x})
    <3>1. Total(c, BlobsOf(T \union {x})) = Total(c, BlobsOf(T)) + Total(c, BlobTxs(x))
      BY <2>1, <2>8
    <3>2. BlobsOf(T \union {x}) \subseteq Tx /\ IsFiniteSet(BlobsOf(T \union {x}))
      BY <2>1, <2>3, <2>4, <2>8
    <3>3. /\ Total(d, T) \in Int /\ Total(c, BlobsOf(T)) \in Nat
          /\ 0 <= Total(d, T) + Total(c, BlobsOf(T))
      BY <2>3
    <3>4. /\ Total(d, T \union {x}) \in Int /\ Total(c, BlobsOf(T \union {x})) \in Nat
          /\ 0 <= Total(d, T \union {x}) + Total(c, BlobsOf(T \union {x}))
      BY <2>4, <2>7, <3>1, <3>3
    <3> QED
      BY <3>2, <3>4
  <2> QED
    BY <2>9
<1> HIDE DEF Covered
<1>3. G \in P
  <2> HIDE DEF P
  <2> QED
    BY <1>1, <1>2, SetInduction
<1> QED
  BY <1>3 DEF Covered

\* ImportFresh: the walk back from a new head stops at the first block it knows: all that
\* it brings is new.
LEMMA ImportFresh ==
    ASSUME Inv, NEW h \in Hashes, h \notin Known, NEW first \in Attach(h),
           \A i \in Attach(h) : i <= first
    PROVE  Range(SubSeq(Path(h), first, Len(Path(h)))) \intersect Known = {}
<1> DEFINE p == Path(h)
           fresh == SubSeq(p, first, Len(p))
<1>1. p \in Seq(Hashes) /\ Len(p) \in Nat \ {0} /\ p[Len(p)] = h
  BY PathType DEF Inv, TreeOK
<1>2. first \in 2 .. Len(p) /\ \A i \in 2 .. Len(p) : p[i - 1] \in Known => i <= first
  BY DEF Attach
<1> HIDE DEF p
<1>3. /\ Len(fresh) = Len(p) - first + 1 /\ fresh \in Seq(Hashes)
      /\ \A i \in 1 .. Len(fresh) : fresh[i] = p[first - 1 + i]
  BY <1>1, <1>2, SubSeqProperties
<1> HIDE DEF fresh
<1>4. ASSUME NEW i \in 1 .. Len(fresh) PROVE fresh[i] \notin Known
  <2> DEFINE n == first - 1 + i
  <2>1. n \in first .. Len(p) /\ n \in Nat
    BY <1>1, <1>2, <1>3
  <2>2. fresh[i] = p[n]
    BY <1>3
  <2> HIDE DEF n
  <2>3. CASE n = Len(p)
    BY <1>1, <2>2, <2>3
  <2>4. CASE n # Len(p)
    <3>1. PICK m : m = n + 1
      OBVIOUS
    <3>2. m \in 2 .. Len(p) /\ ~ (m <= first)
      BY <1>1, <1>2, <2>1, <2>4, <3>1
    <3>3. p[m - 1] \notin Known
      BY <1>2, <3>2
    <3>4. m - 1 = n
      BY <2>1, <3>1
    <3> QED
      BY <2>2, <3>3, <3>4
  <2> QED
    BY <2>3, <2>4
<1>5. Range(fresh) = {fresh[i] : i \in 1 .. Len(fresh)}
  BY <1>3, LenProperties DEF Range
<1>6. Range(fresh) \intersect Known = {}
  BY <1>4, <1>5
<1> QED
  BY <1>6 DEF fresh, p
\* ChainFinite: the chain has finitely many blocks, ...
LEMMA ChainFinite == Inv => IsFiniteSet(OnChain)
<1> SUFFICES ASSUME Inv PROVE IsFiniteSet(OnChain)
  OBVIOUS
<1>1. \A u : IsFiniteSet(OnChain)
  BY ChainDeltas
<1> QED
  BY <1>1

\* NextChainFinite: ... and after a step too.
LEMMA NextChainFinite == Inv' => IsFiniteSet(OnChain)'
BY ChainFinite, PTL

\* The blocks that a reorganisation down to the first keep drops ...
Lost(keep) == {chain[i].hash : i \in keep + 1 .. Len(chain)}

\* ... and those it keeps
Kept(keep) == {chain[i].hash : i \in 1 .. keep}

\* GraftBlocks: the chain before a graft is what it keeps and what it drops, and
\* afterwards what it keeps and what it brings.
LEMMA GraftBlocks ==
    ASSUME Inv, Inv', UNCHANGED <<blocks, anchor>>, NEW h \in Hashes, NEW keep, NEW new, NEW stem,
           Grafts(h, keep, new, stem), new \intersect Known = {}
    PROVE  /\ OnChain = Kept(keep) \union Lost(keep) /\ Kept(keep) \intersect Lost(keep) = {}
           /\ OnChain' = Kept(keep) \union new /\ Kept(keep) \intersect new = {}
           /\ IsFiniteSet(Kept(keep)) /\ IsFiniteSet(Lost(keep)) /\ IsFiniteSet(new)
           /\ Lost(keep) \subseteq Trunk(HeadHash) /\ new \subseteq Trunk(h)
           /\ OnChain \subseteq Hashes /\ new \subseteq Hashes
           /\ DOMAIN chain = 1 .. Len(chain) /\ Len(chain) \in Nat /\ keep \in 0 .. Len(chain)
           /\ DOMAIN chain' = 1 .. Len(chain') /\ Len(chain') \in Nat
<1>1. /\ chain \in Seq([hash : Hashes, held : SUBSET Tx])
      /\ chain' \in Seq([hash : Hashes', held : SUBSET Tx])
  BY DEF Inv, TypeOK
<1>2. /\ DOMAIN chain = 1 .. Len(chain) /\ Len(chain) \in Nat
      /\ DOMAIN chain' = 1 .. Len(chain') /\ Len(chain') \in Nat
  BY <1>1
<1>3. keep \in 0 .. Len(chain) /\ new \subseteq Trunk(h)
  BY DEF Grafts
<1>4. /\ \A i \in 1 .. keep : i \in DOMAIN chain /\ i \in DOMAIN chain' /\ chain'[i] = chain[i]
      /\ \A i \in DOMAIN chain' : i \in 1 .. keep \/ chain'[i].hash \in new
      /\ \A g \in new : \E i \in DOMAIN chain' : chain'[i].hash = g
      /\ \A i \in DOMAIN chain : chain[i].hash \in Known
  <2>1. \A i \in 1 .. keep : i \in DOMAIN chain /\ i <= keep
    BY <1>2, <1>3
  <2> QED
    BY <2>1 DEF Grafts, Known
<1>5. OnChain = Kept(keep) \union Lost(keep)
  <2>1. \A i \in 1 .. Len(chain) : i \in 1 .. keep \/ i \in keep + 1 .. Len(chain)
    BY <1>2, <1>3
  <2>2. \A i \in keep + 1 .. Len(chain) : i \in 1 .. Len(chain)
    BY <1>2, <1>3
  <2> QED
    BY <1>2, <1>4, <2>1, <2>2 DEF OnChain, Kept, Lost
<1>6. Kept(keep) \intersect Lost(keep) = {}
  <2>1. \A i \in 1 .. keep, j \in keep + 1 .. Len(chain) :
          i # j /\ i \in DOMAIN chain /\ j \in DOMAIN chain
    BY <1>2, <1>3
  <2> QED
    BY <2>1, TrunkSplit DEF Kept, Lost
<1>7. Kept(keep) \subseteq Known
  BY <1>4 DEF Kept
<1>8. OnChain' = Kept(keep) \union new
  <2>1. OnChain' = {chain'[i].hash : i \in DOMAIN chain'}
    BY DEF OnChain
  <2>2. OnChain' \subseteq Kept(keep) \union new
    BY <1>4, <2>1 DEF Kept
  <2>3. Kept(keep) \union new \subseteq OnChain'
    BY <1>4, <2>1 DEF Kept
  <2> QED
    BY <2>2, <2>3
<1>9. /\ Trunk(HeadHash) \subseteq Hashes /\ OnChain \subseteq Trunk(HeadHash)
      /\ Trunk(h) \subseteq Hashes
  BY TrunkSplit, TrunkFacts
<1>10. IsFiniteSet(OnChain) /\ IsFiniteSet(Kept(keep)) /\ IsFiniteSet(Lost(keep))
  <2>1. IsFiniteSet(OnChain)
    BY ChainFinite
  <2> QED
    BY <1>5, <2>1, FS_Subset
<1>11. IsFiniteSet(new)
  <2>1. IsFiniteSet(OnChain')
    BY NextChainFinite
  <2> QED
    BY <1>8, <2>1, FS_Subset
<1> QED
  BY <1>2, <1>3, <1>5, <1>6, <1>7, <1>8, <1>9, <1>10, <1>11

\* GraftBalance: what a graft does to a balance: the new blocks add their deltas, the
\* dropped ones take theirs back, and what is pending is charged anew.
LEMMA GraftBalance ==
    ASSUME Inv, AcceptedInv, Inv', AcceptedInv', UNCHANGED <<blocks, anchor>>,
           NEW h \in Hashes, NEW keep, NEW new, NEW stem,
           Grafts(h, keep, new, stem), new \intersect Known = {}, NEW u
    PROVE  /\ BalanceWithPending(u) \in Int /\ BalanceWithPending(u)' \in Int
           /\ Total(Deltas(u), new) \in Int /\ Total(Deltas(u), Lost(keep)) \in Int
           /\ Total(PendingCosts(u), pending) \in Int /\ Total(PendingCosts(u), pending') \in Int
           /\ BalanceWithPending(u)' + (Total(Deltas(u), Lost(keep)) + Total(PendingCosts(u), pending'))
                = BalanceWithPending(u) + (Total(Deltas(u), new) + Total(PendingCosts(u), pending))
<1> DEFINE d == Deltas(u)
           c == PendingCosts(u)
           old == Kept(keep)
           fin == FinalizedBalance(u)
           before == BalanceWithPending(u)
           after == BalanceWithPending(u)'
<1>1. /\ OnChain = old \union Lost(keep) /\ old \intersect Lost(keep) = {}
      /\ OnChain' = old \union new /\ old \intersect new = {}
      /\ IsFiniteSet(old) /\ IsFiniteSet(Lost(keep)) /\ IsFiniteSet(new)
      /\ OnChain \subseteq Hashes /\ new \subseteq Hashes
  BY GraftBlocks
<1>2. before = fin + Total(d, OnChain) - Total(c, pending) /\ Total(c, pending) \in Int
  BY BalanceIs
<1>3. fin \in Int
  BY FinalizedSum
<1>4. after = fin + Total(d, OnChain') - Total(c, pending') /\ Total(c, pending') \in Int
  <2>1. /\ after = FinalizedBalance(u)' + Total(Deltas(u)', OnChain')
                     - Total(PendingCosts(u), pending')
        /\ Total(PendingCosts(u), pending') \in Int
    BY NextBalanceIs
  <2>2. FinalizedBalance(u)' = fin /\ Deltas(u)' = d
    BY SameFinalized, SameDeltas
  <2> QED
    BY <2>1, <2>2, Zenon
<1>5. \A g \in Hashes : d[g] \in Int
  BY ChainDeltas
<1> HIDE DEF d, c, old, fin, before, after
<1>6. /\ Total(d, OnChain) = Total(d, old) + Total(d, Lost(keep))
      /\ Total(d, old) \in Int /\ Total(d, Lost(keep)) \in Int
  BY <1>1, <1>5, TotalUnion, TotalType
<1>7. Total(d, OnChain') = Total(d, old) + Total(d, new) /\ Total(d, new) \in Int
  BY <1>1, <1>5, TotalUnion, TotalType
<1>8. before \in Int /\ after \in Int
  BY <1>2, <1>3, <1>4, <1>6, <1>7
<1>9. after + (Total(d, Lost(keep)) + Total(c, pending'))
        = before + (Total(d, new) + Total(c, pending))
  BY <1>2, <1>3, <1>4, <1>6, <1>7
<1> QED
  BY <1>2, <1>4, <1>6, <1>7, <1>8, <1>9 DEF d, c, before, after
\* PathBlobs: the blocks of a path share no transaction, and what several of them take is
\* covered by what their transactions were charged.
LEMMA PathBlobs ==
    ASSUME Inv, SlotInv, AcceptedInv, NEW h \in Hashes,
           NEW G, G \subseteq Trunk(h), IsFiniteSet(G), NEW u
    PROVE  /\ BlobsOf(G) \subseteq Tx /\ IsFiniteSet(BlobsOf(G))
           /\ Total(Deltas(u), G) \in Int /\ Total(PendingCosts(u), BlobsOf(G)) \in Nat
           /\ 0 <= Total(Deltas(u), G) + Total(PendingCosts(u), BlobsOf(G))
<1>1. \A g, f \in G : g # f => BlobTxs(g) \intersect BlobTxs(f) = {}
  BY DEF SlotInv, NoncesOK, UniqueOn, BlobTxs
<1>2. G \subseteq Hashes
  BY TrunkFacts
<1> QED
  BY <1>1, <1>2, DeltasCovered

\* CostsOf: the charges of transactions add up to a number, and more are charged no less.
LEMMA CostsOf ==
    ASSUME NEW T \in SUBSET Tx, IsFiniteSet(T), NEW U \in SUBSET T, NEW u
    PROVE  /\ \A t \in Tx : PendingCosts(u)[t] \in Nat
           /\ Total(PendingCosts(u), T) \in Nat /\ Total(PendingCosts(u), U) \in Nat
           /\ Total(PendingCosts(u), U) <= Total(PendingCosts(u), T)
<1>1. \A t \in Tx : PendingCosts(u)[t] \in Nat
  BY PendingIs
<1>2. \A t \in T : PendingCosts(u)[t] \in Nat
  BY <1>1
<1> QED
  BY <1>1, <1>2, TotalNat

\* NextPlace: below a longer list's end there is a place after each shorter prefix.
LEMMA NextPlace ==
    ASSUME NEW n \in Nat, NEW m \in Nat, m > n, NEW k \in 0 .. n, k # n
    PROVE  \E i : i \in 1 .. n /\ i \in 1 .. m /\ i \notin 1 .. k
<1>1. k + 1 \in 1 .. n /\ k + 1 \in 1 .. m /\ k + 1 \notin 1 .. k
  OBVIOUS
<1> QED
  BY <1>1

\* GraftInclusion: blocks on top of the chain, of pending transactions, take no more than
\* these were charged.
LEMMA GraftInclusion ==
    ASSUME Inv, SlotInv, AcceptedInv, Inv', AcceptedInv', UNCHANGED <<blocks, anchor>>,
           NEW h \in Hashes, NEW keep, NEW new, NEW stem,
           Grafts(h, keep, new, stem), new \intersect Known = {},
           Len(chain') > Len(chain), IsPrefix(chain, chain'),
           \A i \in Len(chain) + 1 .. Len(chain') : BlobTxs(chain'[i].hash) \subseteq pending,
           NEW u
    PROVE  BalanceWithPending(u)' >= BalanceWithPending(u)
<1> DEFINE c == PendingCosts(u)
           d == Deltas(u)
           spent == BlobsOf(new)
           gone == pending \ pending'
<1>1. /\ DOMAIN chain = 1 .. Len(chain) /\ Len(chain) \in Nat /\ keep \in 0 .. Len(chain)
      /\ DOMAIN chain' = 1 .. Len(chain') /\ Len(chain') \in Nat
      /\ IsFiniteSet(new) /\ new \subseteq Trunk(h)
  BY GraftBlocks
<1>2. \A i \in 1 .. Len(chain) : chain'[i] = chain[i]
  <2>1. chain \in Seq([hash : Hashes, held : SUBSET Tx]) /\ chain' \in Seq([hash : Hashes', held : SUBSET Tx])
    BY DEF Inv, TypeOK
  <2>2. \A i \in 1 .. Len(chain) : SubSeq(chain, 1, Len(chain))[i] = chain[i]
    <3>1. Len(chain) \in 0 .. Len(chain)
      BY <1>1
    <3> QED
      BY <2>1, <3>1, PrefixFacts
  <2>3. \A i \in 1 .. Len(chain) : SubSeq(chain', 1, Len(chain))[i] = chain'[i]
    <3>1. Len(chain) \in 0 .. Len(chain')
      BY <1>1
    <3> QED
      BY <2>1, <3>1, PrefixFacts
  <2> QED
    BY <2>2, <2>3 DEF IsPrefix
<1>3. keep = Len(chain)
  <2> SUFFICES ASSUME keep # Len(chain) PROVE FALSE
    OBVIOUS
  <2>1. \E i : i \in 1 .. Len(chain) /\ i \in 1 .. Len(chain') /\ i \notin 1 .. keep
    BY <1>1, NextPlace
  <2>2. PICK i : i \in DOMAIN chain /\ i \in DOMAIN chain' /\ i \notin 1 .. keep /\ i \in 1 .. Len(chain)
    BY <1>1, <2>1
  <2>3. chain'[i].hash \in new /\ chain[i].hash \in Known
    BY <2>2 DEF Grafts, Known
  <2> QED
    BY <1>2, <2>2, <2>3
<1>4. Restored(keep) = {} /\ Lost(keep) = {}
  <2>1. \A i \in keep + 1 .. Len(chain) : FALSE
    BY <1>1, <1>3
  <2> QED
    BY <2>1 DEF Restored, Reorged, Lost
<1>5. pending' = Without(pending, Slots(UNION {blocks[g].txs : g \in new}))
  BY <1>4 DEF Grafts, Before, Put, Without, Slots
<1>6. spent \subseteq gone
  <2>1. ASSUME NEW g \in new PROVE BlobTxs(g) \subseteq pending
    <3>1. PICK i \in DOMAIN chain' : chain'[i].hash = g
      BY DEF Grafts
    <3>2. i \notin DOMAIN chain
      BY <1>1, <1>2, <3>1 DEF Known
    <3>3. i \in Len(chain) + 1 .. Len(chain')
      BY <1>1, <3>2
    <3> QED
      BY <3>1, <3>3
  <2>2. ASSUME NEW g \in new, NEW t \in BlobTxs(g) PROVE t \notin pending'
    BY <1>5 DEF BlobTxs, Without, Slots
  <2> QED
    BY <2>1, <2>2 DEF BlobsOf
<1>7. /\ spent \subseteq Tx /\ IsFiniteSet(spent)
      /\ Total(d, new) \in Int /\ Total(c, spent) \in Nat /\ 0 <= Total(d, new) + Total(c, spent)
  BY <1>1, PathBlobs
<1>8. pending \in SUBSET Tx /\ IsFiniteSet(pending)
  BY AcceptedPending
<1>9. pending' \subseteq pending /\ pending = pending' \union gone /\ pending' \intersect gone = {}
  BY <1>5 DEF Without
<1>10. gone \in SUBSET Tx /\ IsFiniteSet(gone) /\ IsFiniteSet(pending')
  BY <1>8, <1>9, FS_Subset
<1>11. /\ Total(c, spent) <= Total(c, gone) /\ Total(c, gone) \in Nat
       /\ \A t \in Tx : c[t] \in Nat
  BY <1>6, <1>10, CostsOf
<1>12. Total(d, Lost(keep)) = 0
  BY <1>4, TotalEmpty
<1>13. /\ BalanceWithPending(u) \in Int /\ BalanceWithPending(u)' \in Int
       /\ Total(c, pending) \in Int /\ Total(c, pending') \in Int
       /\ BalanceWithPending(u)' + (Total(d, Lost(keep)) + Total(c, pending'))
            = BalanceWithPending(u) + (Total(d, new) + Total(c, pending))
  BY GraftBalance
<1> HIDE DEF c, d, spent, gone
<1>14. Total(c, pending) = Total(c, pending') + Total(c, gone)
  <2>1. \A t \in pending' \union gone : c[t] \in Int
    BY <1>8, <1>9, <1>11
  <2>2. Total(c, pending' \union gone) = Total(c, pending') + Total(c, gone)
    BY <1>9, <1>10, <2>1, TotalUnion
  <2> QED
    BY <1>9, <2>2, Zenon
<1> DEFINE b == BalanceWithPending(u)
           a == BalanceWithPending(u)'
<1> HIDE DEF b, a
<1>15. /\ b \in Int /\ a \in Int
       /\ a + (Total(d, Lost(keep)) + Total(c, pending')) = b + (Total(d, new) + Total(c, pending))
  BY <1>13 DEF a, b
<1>16. Total(c, pending) \in Int /\ Total(c, pending') \in Int
  BY <1>13
<1>17. a >= b
  BY <1>7, <1>11, <1>12, <1>14, <1>15, <1>16
<1> QED
  BY <1>17 DEF a, b

\* How often each block tops a user up
Tops(u) == [g \in Hashes |-> Count(u, blocks[g].topups)]

\* TopupsAre: what is summed up over the top-ups of blocks
LEMMA TopupsAre ==
    ASSUME NEW G \in SUBSET Hashes, IsFiniteSet(G), NEW u
    PROVE  MapThenSumSet(LAMBDA g : Count(u, blocks[g].topups), G) = Total(Tops(u), G)
<1> DEFINE iter == CHOOSE f : f = [s \in SUBSET G |->
                     IF s = {} THEN 0
                     ELSE Count(u, blocks[CHOOSE x \in s : TRUE].topups)
                            + f[s \ {CHOOSE x \in s : TRUE}]]
<1>1. MapThenSumSet(LAMBDA g : Count(u, blocks[g].topups), G) = iter[G]
  BY DEF MapThenSumSet, MapThenFoldSet
<1>2. PICK sum : Sums(sum, Tops(u), G)
  BY SumsExist
<1>3. ASSUME NEW s \in SUBSET G, s # {} PROVE Tops(u)[Chosen(s)] = Count(u, blocks[Chosen(s)].topups)
  BY <1>3, AnyIn DEF Tops
<1>4. sum = [s \in SUBSET G |-> IF s = {} THEN 0
               ELSE Count(u, blocks[Chosen(s)].topups) + sum[s \ {Chosen(s)}]]
  BY <1>2, <1>3 DEF Sums
<1>5. iter = [s \in SUBSET G |-> IF s = {} THEN 0
                ELSE Count(u, blocks[Chosen(s)].topups) + iter[s \ {Chosen(s)}]]
  BY <1>4 DEF Chosen
<1> HIDE DEF iter
<1>6. Sums(iter, Tops(u), G)
  BY <1>3, <1>5 DEF Sums
<1> QED
  BY <1>1, <1>6, TotalIs

\* GraftReorg: what a reorganisation drops was worth no more to a user than its
\* transactions are charged again.
LEMMA GraftReorg ==
    ASSUME Inv, SlotInv, AcceptedInv, Inv', AcceptedInv', UNCHANGED <<blocks, anchor>>,
           NEW h \in Hashes, NEW keep, NEW new, NEW stem,
           Grafts(h, keep, new, stem), new \intersect Known = {},
           \A g \in new : blocks[g].txs = {},
           Slots(pending) \intersect Slots(TxsUpTo(HeadHash)) = {},
           NEW u
    PROVE  /\ BalanceWithPending(u)' <= BalanceWithPending(u) + TopupValue * Total(Tops(u), new)
           /\ IsFiniteSet(new) /\ new \subseteq Hashes
<1> DEFINE c == PendingCosts(u)
           d == Deltas(u)
           lost == Lost(keep)
           back == Restored(keep)
           tops == Tops(u)
<1>1. /\ DOMAIN chain = 1 .. Len(chain) /\ Len(chain) \in Nat /\ keep \in 0 .. Len(chain)
      /\ IsFiniteSet(new) /\ new \subseteq Hashes
      /\ IsFiniteSet(lost) /\ lost \subseteq Trunk(HeadHash)
  BY GraftBlocks
<1>2. HeadHash \in Hashes
  BY TrunkSplit
<1>3. \A i \in keep + 1 .. Len(chain) :
         /\ i \in DOMAIN chain /\ chain[i].hash \in Trunk(HeadHash)
         /\ blocks[chain[i].hash].txs \subseteq TxsUpTo(HeadHash)
  <2>1. \A i \in keep + 1 .. Len(chain) : i \in DOMAIN chain
    BY <1>1
  <2> QED
    BY <2>1, ChainHashes DEF TxsUpTo, Trunk
<1>4. Slots(back) \subseteq Slots(TxsUpTo(HeadHash))
  <2> SUFFICES ASSUME NEW i \in keep + 1 .. Len(chain),
                      NEW t \in BlobTxs(chain[i].hash) \union chain[i].held
               PROVE  Slot(t) \in Slots(TxsUpTo(HeadHash))
    BY DEF Restored, Reorged, Slots
  <2>1. CASE t \in BlobTxs(chain[i].hash)
    BY <1>3, <2>1 DEF BlobTxs, Slots
  <2>2. CASE t \in chain[i].held
    BY <1>3, <2>2 DEF SlotInv, HeldOK, Slots, Transfers
  <2> QED
    BY <2>1, <2>2
<1>5. pending' = pending \union back /\ pending \intersect back = {}
  <2>1. \A t \in pending : Slot(t) \notin Slots(back)
    BY <1>4 DEF Slots
  <2>2. Without(pending, Slots(back)) = pending
    BY <2>1 DEF Without
  <2>3. UNION {blocks[g].txs : g \in new} = {}
    OBVIOUS
  <2>4. pending' = Put(pending, back)
    BY <2>3 DEF Grafts, Before, Without, Slots
  <2> QED
    BY <2>1, <2>2, <2>4 DEF Put, Slots
<1>6. BlobsOf(lost) \subseteq back
  BY DEF BlobsOf, Lost, Restored, Reorged
<1>7. /\ Total(d, lost) \in Int /\ Total(c, BlobsOf(lost)) \in Nat
      /\ 0 <= Total(d, lost) + Total(c, BlobsOf(lost))
  BY <1>1, <1>2, PathBlobs
<1>8. pending \in SUBSET Tx /\ IsFiniteSet(pending)
  BY AcceptedPending
<1>9. back \in SUBSET Tx /\ IsFiniteSet(back)
  <2>1. \A i \in DOMAIN chain : chain[i].held \subseteq pool /\ chain[i].hash \in Hashes
    BY ChainDeltas DEF AcceptedInv, OnChain
  <2>2. \A i \in keep + 1 .. Len(chain) : BlobTxs(chain[i].hash) \union chain[i].held \subseteq pool
    BY <1>3, <2>1 DEF AcceptedInv, BlobTxs
  <2>3. back \subseteq pool
    BY <2>2 DEF Restored, Reorged
  <2> QED
    BY <2>3, FS_Subset DEF Inv, TypeOK, TxsFinite
<1>10. /\ Total(c, BlobsOf(lost)) <= Total(c, back) /\ Total(c, back) \in Nat
       /\ \A t \in Tx : c[t] \in Nat
  BY <1>6, <1>9, CostsOf
<1>11. Total(c, pending') = Total(c, pending) + Total(c, back)
  <2> HIDE DEF c, back
  <2>1. \A t \in pending \union back : c[t] \in Int
    BY <1>8, <1>9, <1>10
  <2> QED
    BY <1>5, <1>8, <1>9, <2>1, TotalUnion
<1>12. \A g \in new : tops[g] \in Int /\ d[g] = TopupValue * tops[g]
  <2> SUFFICES ASSUME NEW g \in new PROVE tops[g] \in Int /\ d[g] = TopupValue * tops[g]
    OBVIOUS
  <2>1. g \in Hashes /\ BlobTxs(g) = {}
    BY <1>1 DEF BlobTxs
  <2>2. tops[g] = Count(u, blocks[g].topups) /\ tops[g] \in Nat
    BY <2>1, BlockIs DEF Tops
  <2>3. d[g] = Count(u, blocks[g].topups) * TopupValue - Total(Costs(u, blocks[g].price), {})
    BY <2>1, BlockSums DEF Deltas
  <2>4. Total(Costs(u, blocks[g].price), {}) = 0
    BY TotalEmpty
  <2> HIDE DEF tops, d
  <2>5. d[g] = tops[g] * TopupValue
    BY <2>2, <2>3, <2>4, BalancesAssumption
  <2> QED
    BY <2>2, <2>5, BalancesAssumption
<1>13. Total(d, new) = TopupValue * Total(tops, new)
  <2> HIDE DEF d, tops
  <2>1. TopupValue \in Int
    BY BalancesAssumption
  <2> QED
    BY <1>1, <1>12, <2>1, TotalTimes
<1>14. /\ BalanceWithPending(u) \in Int /\ BalanceWithPending(u)' \in Int
       /\ Total(d, new) \in Int /\ Total(c, pending) \in Int /\ Total(c, pending') \in Int
       /\ BalanceWithPending(u)' + (Total(d, lost) + Total(c, pending'))
            = BalanceWithPending(u) + (Total(d, new) + Total(c, pending))
  BY GraftBalance
<1> DEFINE b == BalanceWithPending(u)
           a == BalanceWithPending(u)'
<1> HIDE DEF c, d, lost, back, tops, b, a
<1>15. /\ b \in Int /\ a \in Int
       /\ a + (Total(d, lost) + Total(c, pending')) = b + (Total(d, new) + Total(c, pending))
  BY <1>14 DEF a, b
<1>16. a <= b + Total(d, new)
  BY <1>7, <1>10, <1>11, <1>14, <1>15
<1> QED
  BY <1>1, <1>13, <1>16, Zenon DEF a, b, tops
\* Grafted: a step that leaves the anchor and moves the chain, while the task runs, grafts.
LEMMA Grafted ==
    ASSUME Inv, [Next]_vars, UNCHANGED anchor, chain' # chain, chain' # <<>> \/ phase # "down"
    PROVE  /\ UNCHANGED <<blocks, anchor>>
           /\ \E h \in Hashes : \E keep, new, stem :
                Grafts(h, keep, new, stem) /\ new \intersect Known = {}
<1>1. CASE SyncNextHead
  <2> DEFINE h == news[1]
  <2>1. h \in Hashes
    BY <1>1 DEF SyncNextHead, Inv, TypeOK
  <2>2. h \notin Known /\ \E first \in Attach(h) : (\A i \in Attach(h) : i <= first) /\ Import(h, first)
    BY <1>1 DEF SyncNextHead
  <2>3. PICK first \in Attach(h) : (\A i \in Attach(h) : i <= first) /\ Import(h, first)
    BY <2>2
  <2> HIDE DEF h
  <2>4. PICK keep, new, stem : /\ Grafts(h, keep, new, stem)
                               /\ new = Range(SubSeq(Path(h), first, Len(Path(h))))
    BY <2>1, <2>3, ImportGrafts
  <2>5. new \intersect Known = {}
    BY <2>1, <2>2, <2>3, <2>4, ImportFresh
  <2> QED
    BY <1>1, <2>1, <2>4, <2>5 DEF SyncNextHead
<1>2. CASE MaybeAdvanceAnchorBlock
  <2>1. PICK k \in NewAnchorPositions : AdvanceTo(k)
    BY <1>2 DEF MaybeAdvanceAnchorBlock
  <2>2. k \in DOMAIN chain /\ anchor'.hash = chain[k].hash
    BY <2>1 DEF NewAnchorPositions, AdvanceTo
  <2>3. anchor.hash \in Trunk(anchor.hash)
    BY TrunkSplit, TrunkFacts
  <2> QED
    BY <2>2, <2>3, TrunkSplit DEF OnChain
<1>3. CASE Restart
  BY <1>3 DEF Restart
<1>4. CASE Environment \/ Sender \/ Faults
  BY <1>4, SenderFrame DEF Environment, Sender, Faults, PrepareBlobTx, PrepareSelfTransfer, NodeAccepts,
                           NodeRejects, RegisterSent, SyncFails, PersistFails, AnswerLost, Crash
<1>5. CASE ReorgTooDeep \/ DeleteAnchorRows \/ InsertAnchorRow
  BY <1>5 DEF ReorgTooDeep, DeleteAnchorRows, InsertAnchorRow
<1>6. CASE UNCHANGED vars
  BY <1>6 DEF vars
<1> QED
  BY <1>1, <1>2, <1>3, <1>4, <1>5, <1>6 DEF Next, Subscriber

\* InclusionNeverChargesHolds: no balance falls when blocks of pending transactions join the
\* chain, however many blocks one step brings.
THEOREM InclusionNeverChargesHolds == Spec => InclusionNeverCharges
<1> DEFINE A == /\ anchor' = anchor /\ Len(chain') > Len(chain)
                /\ IsPrefix(chain, chain')
                /\ \A i \in Len(chain) + 1 .. Len(chain') : BlobTxs(chain'[i].hash) \subseteq pending
                => \A u \in Users : BalanceWithPending(u)' >= BalanceWithPending(u)
<1>1. /\ Inv /\ SlotInv /\ AcceptedInv /\ Inv' /\ AcceptedInv' /\ [Next]_vars => [A]_vars
  <2> SUFFICES ASSUME Inv, SlotInv, AcceptedInv, Inv', AcceptedInv', [Next]_vars,
                      anchor' = anchor, Len(chain') > Len(chain), IsPrefix(chain, chain'),
                      \A i \in Len(chain) + 1 .. Len(chain') :
                        BlobTxs(chain'[i].hash) \subseteq pending,
                      NEW u \in Users
               PROVE  BalanceWithPending(u)' >= BalanceWithPending(u)
    OBVIOUS
  <2>1. chain' # chain /\ chain' # <<>>
    <3>1. Len(chain) \in Nat /\ Len(<<>>) = 0
      BY TrunkSplit DEF Inv, TypeOK
    <3> QED
      BY <3>1
  <2>2. UNCHANGED <<blocks, anchor>>
    BY <2>1, Grafted
  <2>3. PICK h \in Hashes : \E keep, new, stem :
               Grafts(h, keep, new, stem) /\ new \intersect Known = {}
    BY <2>1, Grafted
  <2>4. PICK keep, new, stem : Grafts(h, keep, new, stem) /\ new \intersect Known = {}
    BY <2>3
  <2> QED
    BY <2>2, <2>4, GraftInclusion
<1>2. InclusionNeverCharges <=> [][A]_vars
  BY DEF InclusionNeverCharges
<1> HIDE DEF A
<1> QED
  BY <1>1, <1>2, InvHolds, SlotInvHolds, AcceptedInvHolds, PTL DEF Spec

\* ReorgNeverCreditsHolds: no balance rises when a reorganisation swaps blocks for ones with
\* none of the bundler's transactions, but by what the new blocks top up.
THEOREM ReorgNeverCreditsHolds == Spec => ReorgNeverCredits
<1> DEFINE A == LET fresh == {chain'[i].hash : i \in DOMAIN chain'} \ Known
                IN  /\ anchor' = anchor /\ ~IsPrefix(chain, chain') /\ phase # "down"
                    /\ \A h \in fresh : blocks[h].txs = {}
                    /\ Slots(pending) \intersect Slots(TxsUpTo(HeadHash)) = {}
                    => \A u \in Users :
                         BalanceWithPending(u)' <= BalanceWithPending(u)
                           + TopupValue * MapThenSumSet(LAMBDA h : Count(u, blocks[h].topups), fresh)
<1>1. /\ Inv /\ SlotInv /\ AcceptedInv /\ Inv' /\ AcceptedInv' /\ [Next]_vars => [A]_vars
  <2> DEFINE fresh == {chain'[i].hash : i \in DOMAIN chain'} \ Known
  <2> SUFFICES ASSUME Inv, SlotInv, AcceptedInv, Inv', AcceptedInv', [Next]_vars,
                      anchor' = anchor, ~IsPrefix(chain, chain'), phase # "down",
                      \A h \in fresh : blocks[h].txs = {},
                      Slots(pending) \intersect Slots(TxsUpTo(HeadHash)) = {},
                      NEW u \in Users
               PROVE  BalanceWithPending(u)' <= BalanceWithPending(u)
                        + TopupValue * MapThenSumSet(LAMBDA h : Count(u, blocks[h].topups), fresh)
    OBVIOUS
  <2>1. chain' # chain
    <3>1. IsPrefix(chain, chain)
      <4>1. Len(chain) \in Nat
        BY DEF Inv, TypeOK
      <4> QED
        BY <4>1 DEF IsPrefix
    <3> QED
      BY <3>1
  <2>2. UNCHANGED <<blocks, anchor>>
    BY <2>1, Grafted
  <2>3. PICK g \in Hashes : \E keep, new, stem :
               Grafts(g, keep, new, stem) /\ new \intersect Known = {}
    BY <2>1, Grafted
  <2>4. PICK keep, new, stem : Grafts(g, keep, new, stem) /\ new \intersect Known = {}
    BY <2>3
  <2>5. fresh = new
    <3>1. OnChain' = Kept(keep) \union new /\ OnChain = Kept(keep) \union Lost(keep)
      BY <2>2, <2>4, GraftBlocks
    <3>2. OnChain' = {chain'[i].hash : i \in DOMAIN chain'} /\ OnChain \subseteq Known
      BY DEF OnChain, Known
    <3> QED
      BY <2>4, <3>1, <3>2
  <2> HIDE DEF fresh
  <2>6. \A f \in new : blocks[f].txs = {}
    BY <2>5
  <2>7. /\ BalanceWithPending(u)' <= BalanceWithPending(u) + TopupValue * Total(Tops(u), fresh)
        /\ IsFiniteSet(fresh) /\ fresh \subseteq Hashes
    BY <2>2, <2>4, <2>5, <2>6, GraftReorg
  <2>8. MapThenSumSet(LAMBDA h : Count(u, blocks[h].topups), fresh) = Total(Tops(u), fresh)
    BY <2>7, TopupsAre
  <2> QED
    BY <2>7, <2>8, Zenon
<1>2. ReorgNeverCredits <=> [][A]_vars
  BY DEF ReorgNeverCredits
<1> HIDE DEF A
<1> QED
  BY <1>1, <1>2, InvHolds, SlotInvHolds, AcceptedInvHolds, PTL DEF Spec
===============================================================================
