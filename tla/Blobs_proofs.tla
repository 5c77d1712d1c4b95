----------------------------- MODULE Blobs_proofs -----------------------------
(***************************************************************************)
(* What a repriced transaction offers; that the encoding of a blob is      *)
(* undone by its decoding; that a transaction made on a block pays the     *)
(* blob gas of its children; that the node decodes what was registered;    *)
(* and that what is served and extracted of a chain is what was posted:    *)
(* for fees, blobs, selections and chains of every size.                   *)
(***************************************************************************)
EXTENDS Blobs, Sums

-----------------------------------------------------------------------------
(* gas.rs: what a repriced transaction offers *)

\* BumpedBounds: a bump is what a node that asks for 10 per cent more computes from its
\* percentage, in integers, and from 10 wei on it is more than what is bumped.
LEMMA BumpedBounds ==
    ASSUME NEW fee \in Nat
    PROVE  /\ Bumped(fee) \in Nat
           /\ Bumped(fee) = (110 * fee) \div 100
           /\ Bumped(fee) >= fee
           /\ fee >= 10 => Bumped(fee) > fee
           /\ fee < 10 => Bumped(fee) = fee
BY DEF Bumped

\* LargerBounds: the larger of two is one of them and no lower than either.
LEMMA LargerBounds ==
    ASSUME NEW a \in Nat, NEW b \in Nat
    PROVE  /\ Larger(a, b) \in Nat
           /\ Larger(a, b) >= a /\ Larger(a, b) >= b
           /\ Larger(a, b) = a \/ Larger(a, b) = b
BY DEF Larger

\* RepriceOutbids: a fee that was repriced over another is no lower than it was
\* estimated in any of its three parts, meets the node's 10 per cent in each, and is
\* above each that was 10 wei or more.
THEOREM RepriceOutbids ==
    ASSUME NEW own \in Fee, NEW other \in Fee,
           NEW part \in {"max_priority_fee_per_gas", "max_fee_per_gas", "max_fee_per_blob_gas"}
    PROVE  /\ Reprice(own, other) \in Fee
           /\ Reprice(own, other)[part] >= own[part]
           /\ Reprice(own, other)[part] >= (110 * other[part]) \div 100
           /\ other[part] >= 10 => Reprice(own, other)[part] > other[part]
<1>1. Reprice(own, other)[part] = Larger(own[part], Bumped(other[part]))
  BY DEF Reprice
<1>2. own[part] \in Nat /\ other[part] \in Nat
  BY DEF Fee
<1>3. Reprice(own, other) \in Fee
  BY BumpedBounds, LargerBounds DEF Reprice, Fee
<1>4. /\ Bumped(other[part]) \in Nat
      /\ Bumped(other[part]) = (110 * other[part]) \div 100
      /\ other[part] >= 10 => Bumped(other[part]) > other[part]
  BY <1>2, BumpedBounds
<1>5. /\ Larger(own[part], Bumped(other[part])) >= own[part]
      /\ Larger(own[part], Bumped(other[part])) >= Bumped(other[part])
      /\ Larger(own[part], Bumped(other[part])) \in Nat
  BY <1>2, <1>4, LargerBounds
<1>6. /\ Reprice(own, other)[part] >= own[part]
      /\ Reprice(own, other)[part] >= Bumped(other[part])
      /\ Reprice(own, other)[part] \in Nat
  BY <1>1, <1>5
<1>7. Reprice(own, other)[part] >= (110 * other[part]) \div 100
  BY <1>4, <1>6
<1>8. other[part] >= 10 => Reprice(own, other)[part] > other[part]
  BY <1>2, <1>4, <1>6
<1> QED
  BY <1>3, <1>6, <1>7, <1>8

\* NoBumpBelowTen: where every part of the other fee is below 10 wei and no lower than
\* the estimate, the repriced fee is the other fee: no node takes it as a replacement.
THEOREM NoBumpBelowTen ==
    ASSUME NEW own \in Fee, NEW other \in Fee,
           \A part \in {"max_priority_fee_per_gas", "max_fee_per_gas", "max_fee_per_blob_gas"} :
             other[part] < 10 /\ own[part] <= other[part]
    PROVE  Reprice(own, other) = other
<1>1. /\ Bumped(other.max_priority_fee_per_gas) = other.max_priority_fee_per_gas
      /\ Bumped(other.max_fee_per_gas) = other.max_fee_per_gas
      /\ Bumped(other.max_fee_per_blob_gas) = other.max_fee_per_blob_gas
  BY BumpedBounds DEF Fee
<1> QED
  BY <1>1 DEF Reprice, Larger, Fee
-----------------------------------------------------------------------------
(* kzg.rs: a blob and its data *)

\* DivMod: quotient and remainder are the only two numbers that make up a dividend.
LEMMA DivMod ==
    ASSUME NEW b \in Nat \ {0}, NEW q \in Nat, NEW r \in 0 .. b - 1
    PROVE  /\ (q * b + r) \div b = q
           /\ (q * b + r) % b = r
OBVIOUS

\* Parts: the quotient and the remainder of a number below a product.
LEMMA Parts ==
    ASSUME NEW b \in Nat \ {0}, NEW n \in Nat, NEW m \in 0 .. n * b - 1
    PROVE  /\ m \div b \in 0 .. n - 1
           /\ m % b \in 0 .. b - 1
           /\ m = (m \div b) * b + (m % b)
OBVIOUS

\* Sizes: the sizes of element and blob are numbers, and a blob has room for Capacity bytes.
LEMMA Sizes ==
    /\ ElementLen \in Nat \ {0} /\ Elements \in Nat \ {0}
    /\ Capacity = Elements * ElementLen /\ Capacity \in Nat
<1>1. ElementLen \in Nat \ {0} /\ Elements \in Nat \ {0}
  BY BlobsAssumption
<1> QED
  BY <1>1 DEF Capacity

\* PaddedFills: padding keeps the data at the front and fills the blob.
LEMMA PaddedFills ==
    ASSUME NEW S, NEW data \in Seq(S), Len(data) <= Capacity
    PROVE  /\ Padded(data) \in Seq(S \union {0}) /\ Len(Padded(data)) = Capacity
           /\ \A k \in 1 .. Len(data) : Padded(data)[k] = data[k]
<1> DEFINE zeros == [k \in 1 .. Capacity - Len(data) |-> 0]
<1>1. Capacity - Len(data) \in Nat
  BY Sizes
<1>2. zeros \in Seq(S \union {0}) /\ Len(zeros) = Capacity - Len(data)
  BY <1>1
<1>3. data \in Seq(S \union {0})
  OBVIOUS
<1> HIDE DEF zeros
<1>4. /\ data \o zeros \in Seq(S \union {0})
      /\ Len(data \o zeros) = Capacity
      /\ \A k \in 1 .. Len(data) : (data \o zeros)[k] = data[k]
  BY <1>1, <1>2, <1>3, Sizes
<1> QED
  BY <1>4 DEF Padded, zeros

\* BlobDecodes: what a full blob was encoded from is what it decodes to.
THEOREM BlobDecodes ==
    ASSUME NEW S, NEW data \in Seq(S), Len(data) = Capacity
    PROVE  DecodeBlobToData(EncodeDataToBlob(data)) = data
<1> DEFINE L == ElementLen
           blob == EncodeDataToBlob(data)
           place(k) == (((k - 1) \div L) * (L + 1)) + 2 + ((k - 1) % L)
<1>1. L \in Nat \ {0} /\ Elements \in Nat \ {0} /\ Capacity = Elements * L /\ Capacity \in Nat
  BY Sizes
<1>2. ASSUME NEW k \in 1 .. Capacity
      PROVE  blob[place(k)] = data[k]
  <2> DEFINE q == (k - 1) \div L
             r == (k - 1) % L
  <2>1. q \in 0 .. Elements - 1 /\ r \in 0 .. L - 1 /\ k - 1 = q * L + r
    <3>1. k - 1 \in 0 .. Elements * L - 1
      BY <1>1
    <3> QED
      BY <1>1, <3>1, Parts
  <2> HIDE DEF q, r
  <2>2. r + 1 \in 0 .. (L + 1) - 1 /\ L + 1 \in Nat \ {0} /\ q \in Nat
    BY <1>1, <2>1
  <2>3. /\ (q * (L + 1) + (r + 1)) \div (L + 1) = q
        /\ (q * (L + 1) + (r + 1)) % (L + 1) = r + 1
    BY <2>2, DivMod
  <2>4. place(k) = q * (L + 1) + (r + 1) + 1
    BY <1>1, <2>1 DEF q, r
  <2> HIDE DEF place
  <2>5. (place(k) - 1) \div (L + 1) = q /\ (place(k) - 1) % (L + 1) = r + 1
    <3>1. place(k) - 1 = q * (L + 1) + (r + 1)
      BY <1>1, <2>1, <2>4
    <3> QED
      BY <2>3, <3>1
  <2>6. place(k) \in 1 .. Elements * (L + 1)
    <3>1. q * (L + 1) <= (Elements - 1) * (L + 1) /\ q * (L + 1) \in Nat
      BY <1>1, <2>1
    <3>2. (Elements - 1) * (L + 1) = Elements * (L + 1) - (L + 1)
      BY <1>1
    <3> QED
      BY <1>1, <2>1, <2>4, <3>1, <3>2
  <2>7. blob[place(k)] = data[q * L + (r + 1)]
    <3>1. ASSUME NEW j \in 1 .. Elements * (L + 1), NEW e, NEW b,
                 (j - 1) \div (L + 1) = e, (j - 1) % (L + 1) = b, b # 0
          PROVE  blob[j] = data[e * L + b]
      BY <3>1 DEF EncodeDataToBlob
    <3>2. r + 1 # 0
      BY <2>1
    <3> HIDE DEF blob
    <3> QED
      BY <2>5, <2>6, <3>1, <3>2
  <2>8. q * L + (r + 1) = k
    BY <1>1, <2>1
  <2> QED
    BY <2>7, <2>8
<1> HIDE DEF blob
<1>3. DecodeBlobToData(blob) = [k \in 1 .. Capacity |-> blob[place(k)]]
  BY DEF DecodeBlobToData
<1> HIDE DEF place
<1>4. DecodeBlobToData(blob) = [k \in 1 .. Capacity |-> data[k]]
  BY <1>2, <1>3
<1>5. data = [k \in 1 .. Capacity |-> data[k]]
  OBVIOUS
<1> QED
  BY <1>4, <1>5 DEF blob

\* BlobRoundTrip: data that fits a blob is padded, encoded and decoded to what starts
\* with the data, whatever the sizes of element and blob.
THEOREM BlobRoundTrip ==
    ASSUME NEW S, NEW data \in Seq(S), Len(data) <= Capacity
    PROVE  \A k \in 1 .. Len(data) :
             DecodeBlobToData(EncodeDataToBlob(Padded(data)))[k] = data[k]
<1>1. Padded(data) \in Seq(S \union {0}) /\ Len(Padded(data)) = Capacity
  BY PaddedFills
<1>2. DecodeBlobToData(EncodeDataToBlob(Padded(data))) = Padded(data)
  BY <1>1, BlobDecodes
<1> QED
  BY <1>2, PaddedFills

-----------------------------------------------------------------------------
(* The transaction the node has *)

\* What EncodeWithTypeInner writes after the type byte, token by token.
Tokens(tx, signature, sidecar) == Tail(EncodeWithTypeInner(tx, signature, sidecar, FALSE))

\* tokens are two headers, the fields of tx in their order, the signature and the
\* lists of the sidecar.
Encodes(tokens, tx, signature, sidecar) ==
    /\ \E S : tokens \in Seq(S)
    /\ Len(tokens) = 17
    /\ tokens[2] = Header(TRUE, FieldsLen(tx) + SignatureLen)
    /\ tokens[1] = Header(TRUE, tokens[2].len + tokens[2].value + SidecarLen(sidecar))
    /\ \A k \in 1 .. 11 : tokens[2 + k] = EncodeFields(tx)[k]
    /\ tokens[14] = Item(signature, SignatureLen)
    /\ tokens[15] = SidecarItem(sidecar.blobs)
    /\ tokens[16] = SidecarItem(sidecar.commitments)
    /\ tokens[17] = SidecarItem(sidecar.proofs)

\* TokensAre: this is what the encoder writes.
LEMMA TokensAre ==
    ASSUME NEW tx, NEW signature, NEW sidecar
    PROVE  Encodes(Tokens(tx, signature, sidecar), tx, signature, sidecar)
<1> DEFINE h2 == Header(TRUE, FieldsLen(tx) + SignatureLen)
           h1 == Header(TRUE, h2.len + h2.value + SidecarLen(sidecar))
           e == EncodeFields(tx)
           sig == Item(signature, SignatureLen)
           x == SidecarItem(sidecar.blobs)
           y == SidecarItem(sidecar.commitments)
           z == SidecarItem(sidecar.proofs)
           body == <<h1, h2>> \o e \o <<sig>> \o <<x, y, z>>
<1>1. Tokens(tx, signature, sidecar) = Tail(<<>> \o <<TypeByte>> \o body)
  BY DEF Tokens, EncodeWithTypeInner, EncodeInner, EncodeSidecar
<1>2. DOMAIN e = 1 .. 11
  BY DEF EncodeFields, FieldOrder
<1> HIDE DEF h1, h2, e, sig, x, y, z
<1> DEFINE S == {h1, h2, sig, x, y, z, TypeByte} \union {e[k] : k \in 1 .. 11}
<1>3. e \in Seq(S) /\ Len(e) = 11
  <2>1. e = [k \in 1 .. 11 |-> e[k]]
    BY <1>2 DEF e, EncodeFields
  <2>2. \A k \in 1 .. 11 : e[k] \in S
    OBVIOUS
  <2> HIDE DEF S
  <2> QED
    BY <2>1, <2>2
<1>4. h1 \in S /\ h2 \in S /\ sig \in S /\ x \in S /\ y \in S /\ z \in S /\ TypeByte \in S
  OBVIOUS
<1> HIDE DEF S
<1> DEFINE a == <<h1, h2>> \o e
           b == a \o <<sig>>
<1>5. a \in Seq(S) /\ Len(a) = 13 /\ a[1] = h1 /\ a[2] = h2 /\ \A k \in 1 .. 11 : a[2 + k] = e[k]
  <2> DEFINE u == <<h1, h2>>
  <2>1. u \in Seq(S)
    BY <1>4
  <2>2. Len(u) = 2 /\ u[1] = h1 /\ u[2] = h2
    OBVIOUS
  <2>3. e \in Seq(S)
    BY <1>3
  <2> HIDE DEF u
  <2>4. /\ u \o e \in Seq(S) /\ Len(u \o e) = Len(u) + Len(e)
        /\ \A k \in 1 .. Len(u) : (u \o e)[k] = u[k]
        /\ \A k \in 1 .. Len(e) : (u \o e)[Len(u) + k] = e[k]
    BY ONLY <2>1, <2>3, Joined
  <2>5. /\ Len(u \o e) = 2 + 11
        /\ \A k \in 1 .. 2 : (u \o e)[k] = u[k]
        /\ \A k \in 1 .. 11 : (u \o e)[2 + k] = e[k]
    BY <1>3, <2>2, <2>4, Zenon
  <2>6. 2 + 11 = 13 /\ 1 \in 1 .. 2 /\ 2 \in 1 .. 2
    OBVIOUS
  <2> QED
    BY <2>2, <2>4, <2>5, <2>6, Zenon DEF u
<1> HIDE DEF a
<1>6. b \in Seq(S) /\ Len(b) = 14 /\ b[14] = sig /\ \A k \in 1 .. 13 : b[k] = a[k]
  <2> DEFINE u == <<sig>>
  <2>1. u \in Seq(S)
    BY <1>4
  <2>2. Len(u) = 1 /\ u[1] = sig
    OBVIOUS
  <2>3. a \in Seq(S)
    BY <1>5
  <2> HIDE DEF u
  <2>4. /\ a \o u \in Seq(S) /\ Len(a \o u) = Len(a) + Len(u)
        /\ \A k \in 1 .. Len(a) : (a \o u)[k] = a[k]
        /\ \A k \in 1 .. Len(u) : (a \o u)[Len(a) + k] = u[k]
    BY ONLY <2>1, <2>3, Joined
  <2>5. /\ Len(a \o u) = 13 + 1
        /\ \A k \in 1 .. 13 : (a \o u)[k] = a[k]
        /\ \A k \in 1 .. 1 : (a \o u)[13 + k] = u[k]
    BY <1>5, <2>2, <2>4, Zenon
  <2>6. 13 + 1 = 14 /\ 1 \in 1 .. 1
    OBVIOUS
  <2>7. (a \o u)[14] = u[1]
    BY <2>5, <2>6, Zenon
  <2> QED
    BY <2>2, <2>4, <2>5, <2>6, <2>7, Zenon DEF u
<1> HIDE DEF b
<1> DEFINE c == b \o <<x, y, z>>
<1>7. /\ c \in Seq(S) /\ Len(c) = 17 /\ c[15] = x /\ c[16] = y /\ c[17] = z
      /\ \A k \in 1 .. 14 : c[k] = b[k]
  <2> DEFINE u == <<x, y, z>>
  <2>1. u \in Seq(S)
    BY <1>4
  <2>2. Len(u) = 3 /\ u[1] = x /\ u[2] = y /\ u[3] = z
    OBVIOUS
  <2>3. b \in Seq(S)
    BY <1>6
  <2> HIDE DEF u
  <2>4. /\ b \o u \in Seq(S) /\ Len(b \o u) = Len(b) + Len(u)
        /\ \A k \in 1 .. Len(b) : (b \o u)[k] = b[k]
        /\ \A k \in 1 .. Len(u) : (b \o u)[Len(b) + k] = u[k]
    BY ONLY <2>1, <2>3, Joined
  <2>5. /\ Len(b \o u) = 14 + 3
        /\ \A k \in 1 .. 14 : (b \o u)[k] = b[k]
        /\ \A k \in 1 .. 3 : (b \o u)[14 + k] = u[k]
    BY <1>6, <2>2, <2>4, Zenon
  <2>6. /\ 14 + 3 = 17 /\ 14 + 2 = 16 /\ 14 + 1 = 15
        /\ 1 \in 1 .. 3 /\ 2 \in 1 .. 3 /\ 3 \in 1 .. 3
    OBVIOUS
  <2>7. (b \o u)[15] = u[1] /\ (b \o u)[16] = u[2] /\ (b \o u)[17] = u[3]
    BY <2>5, <2>6, Zenon
  <2> QED
    BY <2>2, <2>4, <2>5, <2>6, <2>7, Zenon DEF u
<1>8. body = c
  BY DEF a, b
<1> HIDE DEF c, body
<1>9. Tail(<<>> \o <<TypeByte>> \o c) = c
  <2>1. <<>> \o <<TypeByte>> = <<TypeByte>>
    OBVIOUS
  <2>2. c \in Seq(S)
    BY <1>7
  <2>3. Tail(<<TypeByte>> \o c) = c
    BY ONLY <1>4, <2>2, JoinedTail
  <2> QED
    BY <2>1, <2>3
<1>10. Tokens(tx, signature, sidecar) = c
  BY <1>1, <1>8, <1>9
<1>11. \A k \in 1 .. 13 : c[k] = a[k]
  BY <1>6, <1>7
<1>12. \A k \in 1 .. 11 : c[2 + k] = e[k]
  BY <1>5, <1>11
<1>13. c[1] = h1 /\ c[2] = h2 /\ c[14] = sig
  BY <1>5, <1>6, <1>7, <1>11
<1> QED
  <2>1. Encodes(c, tx, signature, sidecar)
    BY <1>7, <1>12, <1>13 DEF h1, h2, e, sig, x, y, z, Encodes
  <2> QED
    BY <1>10, <2>1

IsPayload(tx) == tx = [field \in ToSet(DecodeOrder) |-> tx[field]]

\* NodeDecodes: the node decodes what was encoded, and computes the hash that is registered.
THEOREM NodeDecodes ==
    ASSUME NEW tx, IsPayload(tx), NEW signature, NEW sidecar
    PROVE  DecodeInner(Tokens(tx, signature, sidecar)) =
             [transaction |-> tx, signature |-> signature,
              hash |-> ComputeBlobTxHash(tx, signature),
              sidecar |-> [blobs |-> sidecar.blobs, commitments |-> sidecar.commitments,
                           proofs |-> sidecar.proofs]]
<1> DEFINE tokens == Tokens(tx, signature, sidecar)
           decoded == [field \in ToSet(DecodeOrder) |->
                         tokens[FirstField - 1 + (CHOOSE k \in DOMAIN DecodeOrder :
                                                    DecodeOrder[k] = field)].value]
<1>1. /\ \E S : tokens \in Seq(S)
      /\ Len(tokens) = 17
      /\ \A k \in 1 .. 11 : tokens[2 + k] = EncodeFields(tx)[k]
      /\ tokens[14] = Item(signature, SignatureLen)
      /\ tokens[15] = SidecarItem(sidecar.blobs)
      /\ tokens[16] = SidecarItem(sidecar.commitments)
      /\ tokens[17] = SidecarItem(sidecar.proofs)
  <2>1. Encodes(tokens, tx, signature, sidecar)
    BY TokensAre
  <2> HIDE DEF tokens
  <2> QED
    BY <2>1 DEF Encodes
<1>2. DOMAIN DecodeOrder = 1 .. 11 /\ DecodeOrder = FieldOrder /\ SignatureAt = 14 /\ FirstField = 3
  BY DEF DecodeOrder, FieldOrder, SignatureAt, FirstField
<1> HIDE DEF tokens
<1>3. ASSUME NEW field \in ToSet(DecodeOrder) PROVE decoded[field] = tx[field]
  <2> DEFINE n == CHOOSE k \in DOMAIN DecodeOrder : DecodeOrder[k] = field
  <2>1. n \in DOMAIN DecodeOrder /\ DecodeOrder[n] = field
    BY DEF ToSet
  <2> HIDE DEF n
  <2>2. n \in 1 .. 11 /\ FirstField - 1 + n = 2 + n
    BY <1>2, <2>1
  <2>3. EncodeFields(tx)[n] = Item(tx[field], Length(field, tx[field]))
    BY <1>2, <2>1 DEF EncodeFields
  <2>4. tokens[2 + n].value = tx[field]
    BY <1>1, <2>2, <2>3 DEF Item
  <2> QED
    BY <2>2, <2>4 DEF n
<1>4. decoded = tx
  BY <1>3, Zenon DEF IsPayload
<1> HIDE DEF decoded
<1> DEFINE last == SubSeq(tokens, SignatureAt + 1, SignatureAt + 3)
<1>5. last[1] = tokens[15] /\ last[2] = tokens[16] /\ last[3] = tokens[17]
  BY <1>1, <1>2
<1> HIDE DEF last
<1>6. DecodeInner(tokens) =
        [transaction |-> decoded, signature |-> tokens[SignatureAt].value,
         hash |-> ComputeBlobTxHash(decoded, tokens[SignatureAt].value),
         sidecar |-> [blobs |-> last[1].value, commitments |-> last[2].value,
                      proofs |-> last[3].value]]
  BY Zenon DEF DecodeInner, DecodeSidecar, decoded, last
<1>7. /\ tokens[SignatureAt].value = signature /\ last[1].value = sidecar.blobs
      /\ last[2].value = sidecar.commitments /\ last[3].value = sidecar.proofs
  BY <1>1, <1>2, <1>5 DEF Item, SidecarItem
<1> QED
  BY <1>4, <1>6, <1>7, Zenon DEF tokens

\* NodeTxIs: the transaction the node has is the one that was constructed, and its
\* sender is the one who signed it.
LEMMA NodeTxIs ==
    ASSUME NEW ids, NEW nonce, NEW fee
    PROVE  /\ NodeTx(ConstructBlobTx(ids, nonce, fee).networking) =
                [type |-> BlobTxType, input |-> EncodeBlobTxData(ParticipantsOf(ids)),
                 nonce |-> nonce, max_fee_per_blob_gas |-> fee, from |-> Wallet,
                 blobs |-> <<EncodeDataToBlob(Padded(DataOf(ids)))>>]
           /\ NodeHash(ConstructBlobTx(ids, nonce, fee).networking) =
                ConstructBlobTx(ids, nonce, fee).tx_hash
<1> DEFINE payload == Payload(ids, nonce, fee)
           networking == ConstructBlobTx(ids, nonce, fee).networking
           pooled == DecodeInner(Tail(networking))
<1>1. /\ payload.input = EncodeBlobTxData(ParticipantsOf(ids)) /\ payload.nonce = nonce
      /\ payload.max_fee_per_blob_gas = fee
      /\ payload.blob_versioned_hashes = <<EncodeDataToBlob(Padded(DataOf(ids)))>>
  BY DEF Payload
<1>2. IsPayload(payload)
  <2>1. ToSet(DecodeOrder) = {"chain_id", "nonce", "max_priority_fee_per_gas", "max_fee_per_gas",
                              "gas_limit", "to", "value", "input", "access_list",
                              "max_fee_per_blob_gas", "blob_versioned_hashes"}
    BY DEF ToSet, DecodeOrder
  <2>2. payload = [field \in ToSet(DecodeOrder) |-> payload[field]]
    BY <2>1 DEF Payload
  <2> QED
    BY <2>2 DEF IsPayload
<1> HIDE DEF payload
<1>3. networking = EncodeWithTypeInner(payload, Signature(payload), Sidecar(payload), FALSE)
  BY DEF ConstructBlobTx, payload
<1>4. ConstructBlobTx(ids, nonce, fee).tx_hash = ComputeBlobTxHash(payload, Signature(payload))
  BY DEF ConstructBlobTx, payload
<1> HIDE DEF networking
<1>5. Tail(networking) = Tokens(payload, Signature(payload), Sidecar(payload))
  BY <1>3 DEF Tokens
<1>6. pooled = [transaction |-> payload, signature |-> Signature(payload),
                hash |-> ComputeBlobTxHash(payload, Signature(payload)),
                sidecar |-> [blobs |-> Sidecar(payload).blobs,
                             commitments |-> Sidecar(payload).commitments,
                             proofs |-> Sidecar(payload).proofs]]
  BY <1>2, <1>5, NodeDecodes, Zenon
<1>7. /\ pooled.transaction = payload /\ pooled.signature = Signature(payload)
      /\ pooled.hash = ComputeBlobTxHash(payload, Signature(payload))
      /\ pooled.sidecar.blobs = payload.blob_versioned_hashes
  BY <1>6 DEF Sidecar
<1>8. pooled.signature.of = SignatureHash(pooled.transaction) /\ pooled.signature.by = Wallet
  BY <1>7 DEF Signature
<1>9. NodeTx(networking) = [type |-> BlobTxType, input |-> payload.input, nonce |-> payload.nonce,
                            max_fee_per_blob_gas |-> payload.max_fee_per_blob_gas,
                            from |-> Wallet, blobs |-> payload.blob_versioned_hashes]
  <2> HIDE DEF pooled
  <2>1. NodeTx(networking) =
          [type |-> BlobTxType, input |-> pooled.transaction.input,
           nonce |-> pooled.transaction.nonce,
           max_fee_per_blob_gas |-> pooled.transaction.max_fee_per_blob_gas,
           from |-> IF pooled.signature.of = SignatureHash(pooled.transaction)
                    THEN pooled.signature.by ELSE Foreigner,
           blobs |-> pooled.sidecar.blobs]
    BY Zenon DEF NodeTx, pooled
  <2> QED
    BY <1>7, <1>8, <2>1, Zenon
<1>10. NodeHash(networking) = pooled.hash
  BY Zenon DEF NodeHash
<1> QED
  BY <1>1, <1>4, <1>7, <1>9, <1>10, Zenon DEF networking

-----------------------------------------------------------------------------
(* The fee for the next block *)

\* What the transactions of b are made of.
BlobsOf(b) == [k \in DOMAIN blocks[b].txs |-> Tx(blocks[b].txs[k]).blobs]

Parent(b) == blocks[b].path[Len(blocks[b].path) - 1]

TxsOK == \E S : \E T : txs \in Seq(T) /\ \A t \in DOMAIN txs : Tx(t).blobs \in Seq(S)

BlockOK(b) ==
    /\ blocks[b].path \in Seq(DOMAIN blocks)
    /\ blocks[b].path # <<>> /\ blocks[b].path[Len(blocks[b].path)] = b
    /\ blocks[b].txs \in Seq(DOMAIN txs)
    /\ blocks[b].excess \in Nat
    /\ Len(blocks[b].path) > 1 => blocks[b].excess = ChildExcess(Parent(b))

TreeInv ==
    /\ TxsOK
    /\ \E S : blocks \in Seq(S)
    /\ \A b \in DOMAIN blocks : BlockOK(b)

\* BlobCount: the blobs of a block are a sequence.
LEMMA BlobCount ==
    ASSUME TreeInv, NEW b \in DOMAIN blocks
    PROVE  Len(BlobsIn(b)) \in Nat
<1>1. PICK S : \A t \in DOMAIN txs : Tx(t).blobs \in Seq(S)
  BY DEF TreeInv, TxsOK
<1>2. BlobsOf(b) \in Seq(Seq(S))
  <2>1. blocks[b].txs \in Seq(DOMAIN txs)
    BY DEF TreeInv, BlockOK
  <2>2. \A k \in DOMAIN blocks[b].txs : Tx(blocks[b].txs[k]).blobs \in Seq(S)
    BY <1>1, <2>1
  <2>3. DOMAIN blocks[b].txs = 1 .. Len(blocks[b].txs) /\ Len(blocks[b].txs) \in Nat
    BY <2>1
  <2> DEFINE n == Len(blocks[b].txs)
             T == Seq(S)
  <2>4. /\ BlobsOf(b) = [k \in 1 .. n |-> Tx(blocks[b].txs[k]).blobs]
        /\ \A k \in 1 .. n : Tx(blocks[b].txs[k]).blobs \in T
    BY <2>2, <2>3 DEF BlobsOf
  <2> HIDE DEF n, T
  <2>5. BlobsOf(b) \in Seq(T)
    BY <2>3, <2>4 DEF n
  <2> QED
    BY <2>5 DEF T
<1>3. BlobsIn(b) = FlattenSeq(BlobsOf(b))
  BY Zenon DEF BlobsIn, Concat, BlobsOf
<1>4. BlobsIn(b) \in Seq(S)
  BY <1>2, <1>3, FlattenIs
<1> QED
  BY <1>4

\* SameBlobs: the blobs of a block are the same while transactions are added.
LEMMA SameBlobs ==
    ASSUME TreeInv, NEW b \in DOMAIN blocks, blocks'[b] = blocks[b],
           \A t \in DOMAIN txs : txs'[t] = txs[t]
    PROVE  /\ BlobsIn(b)' = BlobsIn(b)
           /\ ChildExcess(b)' = ChildExcess(b)
<1>1. \A k \in DOMAIN blocks[b].txs : blocks[b].txs[k] \in DOMAIN txs
  BY DEF TreeInv, BlockOK
<1>2. \A k \in DOMAIN blocks[b].txs : txs'[blocks[b].txs[k]] = txs[blocks[b].txs[k]]
  BY <1>1
<1>3. BlobsOf(b)' = BlobsOf(b)
  BY <1>2 DEF BlobsOf, Tx
<1>4. BlobsIn(b)' = BlobsIn(b)
  <2>1. BlobsIn(b) = FlattenSeq(BlobsOf(b))
    BY Zenon DEF BlobsIn, Concat, BlobsOf
  <2>2. BlobsIn(b)' = FlattenSeq(BlobsOf(b)')
    BY Zenon DEF BlobsIn, Concat, BlobsOf
  <2> QED
    BY <1>3, <2>1, <2>2, Zenon
<1> QED
  BY <1>4 DEF ChildExcess

\* ChildExcessIs: what the header of a child must have is what the sender computes.
LEMMA ChildExcessIs ==
    ASSUME TreeInv, NEW b \in DOMAIN blocks
    PROVE  /\ ChildExcess(b) = CalcExcessBlobGas(blocks[b].excess, Len(BlobsIn(b)))
           /\ ChildExcess(b) \in Nat
<1>1. Len(BlobsIn(b)) \in Nat /\ blocks[b].excess \in Nat /\ TargetBlobGas \in Nat
  BY BlobCount, FeesAssumption DEF TreeInv, BlockOK
<1> QED
  BY <1>1 DEF ChildExcess, CalcExcessBlobGas

\* IncludableHere: in every state of the invariant the property holds.
LEMMA IncludableHere == ASSUME TreeInv PROVE IncludableNext
<1> SUFFICES ASSUME NEW b \in DOMAIN blocks, Len(blocks[b].path) > 1
             PROVE  FeeAt(Parent(b)) = BlobGasPrice(blocks[b].excess)
  BY DEF IncludableNext, Parent
<1>1. Parent(b) \in DOMAIN blocks
  BY DEF TreeInv, BlockOK, Parent
<1>2. blocks[b].excess = ChildExcess(Parent(b))
  BY DEF TreeInv, BlockOK
<1>3. FeeAt(Parent(b)) =
        BlobGasPrice(CalcExcessBlobGas(blocks[Parent(b)].excess, Len(BlobsIn(Parent(b)))))
  BY Zenon DEF FeeAt, BlobGasPriceNextBlock
<1> QED
  BY <1>1, <1>2, <1>3, ChildExcessIs, Zenon

\* TreeInit: the first block is a tree.
LEMMA TreeInit == Init => TreeInv
<1> SUFFICES ASSUME Init PROVE TreeInv
  OBVIOUS
<1>1. TxsOK
  <2>1. txs \in Seq({}) /\ \A t \in DOMAIN txs : Tx(t).blobs \in Seq({})
    BY DEF Init
  <2> QED
    BY <2>1 DEF TxsOK
<1> DEFINE block == [path |-> <<1>>, slot |-> 0, txs |-> <<>>, excess |-> 1]
<1>2. block.path = <<1>> /\ block.txs = <<>> /\ block.excess = 1
  OBVIOUS
<1>3. blocks = <<block>>
  BY DEF Init
<1> HIDE DEF block
<1>4. blocks \in Seq({block}) /\ DOMAIN blocks = {1} /\ blocks[1] = block
  BY <1>3
<1>5. BlockOK(1)
  <2>1. <<1>> \in Seq(DOMAIN blocks) /\ <<1>> # <<>> /\ Len(<<1>>) = 1 /\ <<1>>[1] = 1
    BY <1>4
  <2>2. <<>> \in Seq(DOMAIN txs) /\ 1 \in Nat /\ ~(1 > 1)
    OBVIOUS
  <2>3. blocks[1].path = <<1>> /\ blocks[1].txs = <<>> /\ blocks[1].excess = 1
    BY <1>2, <1>4
  <2> QED
    BY <2>1, <2>2, <2>3, Zenon DEF BlockOK
<1> QED
  BY <1>1, <1>4, <1>5 DEF TreeInv

\* SendKeeps: a transaction more changes no block.
LEMMA SendKeeps ==
    ASSUME TreeInv, UNCHANGED blocks, NEW tx, NEW ids,
           txs' = Append(txs, [ids |-> ids, tx |-> tx]), \E S : tx.blobs \in Seq(S)
    PROVE  TreeInv'
<1>1. PICK S, T : txs \in Seq(T) /\ \A t \in DOMAIN txs : Tx(t).blobs \in Seq(S)
  BY DEF TreeInv, TxsOK
<1>2. PICK U : tx.blobs \in Seq(U)
  OBVIOUS
<1> DEFINE new == [ids |-> ids, tx |-> tx]
           n == Len(txs)
<1>3. new.tx = tx
  OBVIOUS
<1> HIDE DEF new
<1>4. /\ n \in Nat /\ DOMAIN txs = 1 .. n
      /\ txs' \in Seq(T \union {new}) /\ DOMAIN txs' = 1 .. n + 1 /\ txs'[n + 1] = new
      /\ \A t \in 1 .. n : txs'[t] = txs[t]
  BY <1>1 DEF new
<1> HIDE DEF n
<1>5. TxsOK'
  <2>1. ASSUME NEW t \in 1 .. n PROVE txs'[t].tx.blobs \in Seq(S \union U)
    <3>1. Tx(t).blobs \in Seq(S) /\ txs'[t] = txs[t]
      BY <1>1, <1>4
    <3> DEFINE blobs == txs[t].tx.blobs
    <3>2. blobs \in Seq(S)
      BY <3>1 DEF Tx
    <3> HIDE DEF blobs
    <3>3. blobs \in Seq(S \union U)
      BY <3>2
    <3> QED
      BY <3>1, <3>3 DEF blobs
  <2>2. txs'[n + 1].tx.blobs \in Seq(S \union U)
    <3>1. txs'[n + 1].tx = tx
      BY <1>3, <1>4
    <3>2. tx.blobs \in Seq(S \union U)
      BY <1>2
    <3> QED
      BY <3>1, <3>2
  <2>3. \A t \in 1 .. n + 1 : t \in 1 .. n \/ t = n + 1
    BY <1>4
  <2>4. \A t \in DOMAIN txs' : txs'[t].tx.blobs \in Seq(S \union U)
    <3> SUFFICES ASSUME NEW t \in 1 .. n + 1 PROVE txs'[t].tx.blobs \in Seq(S \union U)
      BY <1>4
    <3> QED
      BY <2>1, <2>2, <2>3
  <2>5. \A t \in DOMAIN txs' : Tx(t)'.blobs \in Seq(S \union U)
    BY <2>4 DEF Tx
  <2> QED
    BY <1>4, <2>5 DEF TxsOK
<1>6. ASSUME NEW b \in DOMAIN blocks PROVE BlockOK(b)'
  <2>1. BlockOK(b)
    BY DEF TreeInv
  <2>2. blocks[b].txs \in Seq(DOMAIN txs')
    <3>1. DOMAIN txs \subseteq DOMAIN txs' /\ blocks[b].txs \in Seq(DOMAIN txs)
      BY <1>4, <2>1 DEF BlockOK
    <3> QED
      BY <3>1
  <2>3. Len(blocks[b].path) > 1 => ChildExcess(Parent(b))' = ChildExcess(Parent(b))
    <3> HAVE Len(blocks[b].path) > 1
    <3>1. Parent(b) \in DOMAIN blocks /\ Parent(b)' = Parent(b)
      BY <2>1 DEF BlockOK, Parent
    <3>2. blocks'[Parent(b)] = blocks[Parent(b)] /\ \A t \in DOMAIN txs : txs'[t] = txs[t]
      BY <1>4
    <3> DEFINE p == Parent(b)
    <3> QED
      BY <3>1, <3>2, SameBlobs DEF ChildExcess
  <2> QED
    BY <2>1, <2>2, <2>3 DEF BlockOK, Parent
<1> QED
  BY <1>5, <1>6 DEF TreeInv

\* MineKeeps: a new block has the excess its parent leaves it.
LEMMA MineKeeps ==
    ASSUME TreeInv, NEW parent \in DOMAIN blocks, NEW slot, NEW ts \in Orders,
           MineBlock(parent, slot, ts)
    PROVE  TreeInv'
<1> DEFINE new == [path |-> Append(blocks[parent].path, Len(blocks) + 1), slot |-> slot,
                   txs |-> ts, excess |-> ChildExcess(parent)]
           old == blocks[parent].path
<1>1. PICK n : n = Len(blocks)
  OBVIOUS
<1>2. UNCHANGED txs /\ blocks' = Append(blocks, new)
  BY DEF MineBlock
<1>3. /\ new.path = Append(old, n + 1) /\ new.txs = ts /\ new.excess = ChildExcess(parent)
  BY <1>1
<1> HIDE DEF new
<1>4. /\ n \in Nat /\ DOMAIN blocks = 1 .. n
      /\ (\E S : blocks' \in Seq(S)) /\ DOMAIN blocks' = 1 .. n + 1 /\ blocks'[n + 1] = new
      /\ \A b \in 1 .. n : blocks'[b] = blocks[b]
  <2>1. PICK S : blocks \in Seq(S)
    BY DEF TreeInv
  <2>2. blocks' \in Seq(S \union {new})
    BY <1>2, <2>1
  <2> QED
    BY <1>1, <1>2, <2>1, <2>2
<1>5. ts \in Seq(DOMAIN txs)
  <2>1. PICK s \in SUBSET DOMAIN txs : ts \in SetToAllKPermutations(s)
    BY DEF Orders
  <2>2. PICK r \in SUBSET s : ts \in SetToSeqs(r)
    BY <2>1 DEF SetToAllKPermutations
  <2>3. IsFiniteSet(r)
    <3>1. PICK T : txs \in Seq(T)
      BY DEF TreeInv, TxsOK
    <3>2. DOMAIN txs = 1 .. Len(txs) /\ Len(txs) \in Nat
      BY <3>1
    <3>3. IsFiniteSet(DOMAIN txs)
      BY <3>2, FS_Interval
    <3> QED
      BY <3>3, FS_Subset
  <2>4. Cardinality(r) \in Nat
    BY <2>3, FS_CardinalityType
  <2>5. ts \in [1 .. Cardinality(r) -> r]
    BY <2>2 DEF SetToSeqs
  <2>6. ts \in Seq(r)
    BY <2>4, <2>5
  <2> QED
    BY <2>6
<1>6. \A b \in DOMAIN blocks : ChildExcess(b)' = ChildExcess(b)
  <2>1. \A b \in DOMAIN blocks : blocks'[b] = blocks[b]
    BY <1>4
  <2> QED
    BY <1>2, <2>1, SameBlobs
<1>7. ASSUME NEW b \in DOMAIN blocks PROVE BlockOK(b)'
  <2>1. BlockOK(b) /\ blocks'[b] = blocks[b]
    BY <1>4 DEF TreeInv
  <2>2. blocks'[b].path \in Seq(DOMAIN blocks')
    <3>1. DOMAIN blocks \subseteq DOMAIN blocks' /\ blocks[b].path \in Seq(DOMAIN blocks)
      BY <1>4, <2>1 DEF BlockOK
    <3> QED
      BY <2>1, <3>1
  <2>3. Len(blocks[b].path) > 1 => ChildExcess(Parent(b))' = ChildExcess(Parent(b))
    <3> HAVE Len(blocks[b].path) > 1
    <3>1. Parent(b) \in DOMAIN blocks /\ Parent(b)' = Parent(b)
      BY <2>1 DEF BlockOK, Parent
    <3> QED
      BY <1>6, <3>1 DEF ChildExcess
  <2> QED
    BY <1>2, <2>1, <2>2, <2>3 DEF BlockOK, Parent
<1>8. BlockOK(n + 1)'
  <2>1. /\ old \in Seq(DOMAIN blocks) /\ old # <<>> /\ old[Len(old)] = parent
    BY DEF TreeInv, BlockOK
  <2> DEFINE path == Append(old, n + 1)
  <2>2. PICK m : m = Len(old)
    OBVIOUS
  <2>3. /\ path \in Seq(DOMAIN blocks') /\ Len(path) = m + 1 /\ m \in Nat /\ m > 0
        /\ path[m + 1] = n + 1 /\ path[m] = parent /\ path # <<>>
    <3>1. old \in Seq(DOMAIN blocks') /\ n + 1 \in DOMAIN blocks'
      BY <1>4, <2>1
    <3>2. m \in Nat /\ m > 0
      BY <2>1, <2>2
    <3> QED
      BY <2>1, <2>2, <3>1, <3>2
  <2> HIDE DEF path
  <2>4. blocks'[n + 1].path = path /\ blocks'[n + 1].txs = ts
        /\ blocks'[n + 1].excess = ChildExcess(parent)
    BY <1>3, <1>4 DEF path
  <2>5. ChildExcess(parent) \in Nat /\ ChildExcess(parent)' = ChildExcess(parent)
    BY <1>6, ChildExcessIs
  <2>6. blocks'[n + 1].path[Len(blocks'[n + 1].path) - 1] = parent
    BY <2>3, <2>4
  <2> QED
    BY <1>2, <1>5, <2>3, <2>4, <2>5, <2>6 DEF BlockOK, Parent
<1>9. \A b \in DOMAIN blocks' : b \in DOMAIN blocks \/ b = n + 1
  BY <1>4
<1>10. TxsOK'
  BY <1>2 DEF TreeInv, TxsOK, Tx
<1> QED
  BY <1>4, <1>7, <1>8, <1>9, <1>10 DEF TreeInv

\* ForeignBlobsSeq: every transaction of others has a sequence of blobs.
LEMMA ForeignBlobsSeq ==
    ASSUME NEW input, NEW count \in ForeignBlobs
    PROVE  \E S : ForeignBlobTx(input, count).blobs \in Seq(S)
<1>1. count \in Nat
  BY BlobsAssumption
<1>2. ForeignBlobTx(input, count).blobs = [k \in 1 .. count |-> Padding(Foreigner)]
  BY DEF ForeignBlobTx
<1>3. [k \in 1 .. count |-> Padding(Foreigner)] \in Seq({Padding(Foreigner)})
  BY <1>1
<1> QED
  BY <1>2, <1>3

\* TreeStep: every step keeps the tree: blocks are only added, on blocks that are there,
\* and transactions only added.
LEMMA TreeStep == TreeInv /\ [Next]_vars => TreeInv'
<1> SUFFICES ASSUME TreeInv, [Next]_vars PROVE TreeInv'
  OBVIOUS
<1>1. ASSUME NEW parent \in DOMAIN blocks, NEW slot \in 1 .. MaxSlot, NEW ts \in Orders,
             MineBlock(parent, slot, ts)
      PROVE  TreeInv'
  BY <1>1, MineKeeps
<1>2. ASSUME ForeignTx PROVE TreeInv'
  <2>1. PICK input \in ForeignInputs, count \in ForeignBlobs :
          txs' = Append(txs, [ids |-> <<>>, tx |-> ForeignBlobTx(input, count)])
    BY <1>2 DEF ForeignTx
  <2>2. \E S : ForeignBlobTx(input, count).blobs \in Seq(S)
    BY ForeignBlobsSeq
  <2>3. UNCHANGED blocks
    BY <1>2 DEF ForeignTx
  <2> QED
    BY ONLY TreeInv, <2>1, <2>2, <2>3, SendKeeps
<1>3. ASSUME SendSelfTransfer PROVE TreeInv'
  <2> DEFINE tx == Transfer(NextNonce)
  <2>1. txs' = Append(txs, [ids |-> <<>>, tx |-> tx]) /\ UNCHANGED blocks
    BY <1>3 DEF SendSelfTransfer
  <2>2. \E S : tx.blobs \in Seq(S)
    <3>1. tx.blobs = <<>> /\ <<>> \in Seq({})
      BY DEF Transfer
    <3> QED
      BY <3>1, Zenon
  <2> HIDE DEF tx
  <2> QED
    BY ONLY TreeInv, <2>1, <2>2, SendKeeps
<1>4. ASSUME NEW selected \in (SUBSET Intents) \ {{}}, NEW ids \in FetchMany(selected),
             SendBlobTx(ids)
      PROVE  TreeInv'
  <2> DEFINE tx == NodeTx(ConstructBlobTx(ids, NextNonce, FeeAt(head)).networking)
  <2>1. txs' = Append(txs, [ids |-> ids, tx |-> tx]) /\ UNCHANGED blocks
    BY <1>4 DEF SendBlobTx
  <2>2. \E S : tx.blobs \in Seq(S)
    <3> DEFINE blob == EncodeDataToBlob(Padded(DataOf(ids)))
    <3>1. tx.blobs = <<blob>>
      <4> DEFINE nonce == NextNonce
                 fee == FeeAt(head)
      <4> HIDE DEF nonce, fee, blob
      <4>1. NodeTx(ConstructBlobTx(ids, nonce, fee).networking).blobs = <<blob>>
        <5>1. NodeTx(ConstructBlobTx(ids, nonce, fee).networking) =
                [type |-> BlobTxType, input |-> EncodeBlobTxData(ParticipantsOf(ids)),
                 nonce |-> nonce, max_fee_per_blob_gas |-> fee, from |-> Wallet,
                 blobs |-> <<blob>>]
          BY NodeTxIs, Zenon DEF blob
        <5> QED
          BY <5>1
      <4> QED
        BY <4>1 DEF nonce, fee
    <3> HIDE DEF blob, tx
    <3>2. <<blob>> \in Seq({blob})
      OBVIOUS
    <3> QED
      BY <3>1, <3>2
  <2> HIDE DEF tx
  <2> QED
    BY ONLY TreeInv, <2>1, <2>2, SendKeeps
<1>5. ASSUME UNCHANGED <<txs, blocks>> PROVE TreeInv'
  <2>1. ASSUME NEW b PROVE ChildExcess(b)' = ChildExcess(b)
    <3>1. BlobsIn(b)' = BlobsIn(b)
      BY <1>5 DEF BlobsIn, Concat, Tx
    <3> QED
      BY <1>5, <3>1 DEF ChildExcess
  <2>2. TxsOK'
    BY <1>5 DEF TreeInv, TxsOK, Tx
  <2>3. ASSUME NEW b \in DOMAIN blocks PROVE BlockOK(b)'
    <3>1. BlockOK(b) /\ Parent(b)' = Parent(b)
      BY <1>5 DEF TreeInv, Parent
    <3>2. ChildExcess(Parent(b))' = ChildExcess(Parent(b))
      BY <1>5, <2>1, <3>1 DEF ChildExcess, Parent
    <3> QED
      BY <1>5, <3>1, <3>2 DEF BlockOK, Parent
  <2> QED
    BY <1>5, <2>2, <2>3 DEF TreeInv
<1>6. CASE UNCHANGED vars
  BY <1>5, <1>6 DEF vars
<1>7. CASE Next
  <2>1. ASSUME SwitchHead \/ FetchBlob \/ FetchFails \/ \E t \in DOMAIN txs : LookUpTx(t)
        PROVE  TreeInv'
    BY <1>5, <2>1 DEF SwitchHead, FetchBlob, FetchFails, LookUpTx
  <2> QED
    BY <1>1, <1>2, <1>3, <1>4, <1>7, <2>1 DEF Next, Node, Sender, Reader
<1> QED
  BY <1>6, <1>7

\* TreeInvHolds: the blocks of every run are a tree in which each block has the excess its
\* parent leaves it, and every transaction of them has a sequence of blobs.
THEOREM TreeInvHolds == Spec => []TreeInv
BY TreeInit, TreeStep, PTL DEF Spec

\* IncludableNextHolds: in every run, a transaction made on a block offers exactly the
\* blob gas price the protocol asks of the block's children (blob_gas_price_next_head_block
\* and calc_excess_blob_gas of gas.rs agree with the chain), however full the block.
THEOREM IncludableNextHolds == Spec => []IncludableNext
<1>1. TreeInv => IncludableNext
  BY IncludableHere
<1> QED
  BY <1>1, TreeInvHolds, PTL

-----------------------------------------------------------------------------
(* blob_tx_data.rs: the digits and the input of a transaction *)

\* Places: f has the place values up to n.
Places(f, n) == f = [k \in 0 .. n |-> IF k = 0 THEN 1 ELSE LenBase * f[k - 1]]

\* PlacesExist: the recursion has a solution up to each number, and one only.
LEMMA PlacesExist ==
    ASSUME NEW n \in Nat
    PROVE  \E f : Places(f, n)
<1> DEFINE P == {m \in Nat : \E f : Places(f, m)}
<1>1. 0 \in P
  <2>1. Places([k \in 0 .. 0 |-> 1], 0)
    BY DEF Places
  <2> QED
    BY <2>1
<1>2. ASSUME NEW m \in Nat, m \in P PROVE m + 1 \in P
  <2>1. PICK f : Places(f, m)
    BY <1>2
  <2>2. f = [k \in 0 .. m |-> IF k = 0 THEN 1 ELSE LenBase * f[k - 1]]
    BY <2>1 DEF Places
  <2> DEFINE g == [k \in 0 .. m + 1 |-> IF k = m + 1 THEN LenBase * f[m] ELSE f[k]]
  <2>3. g = [k \in 0 .. m + 1 |-> IF k = 0 THEN 1 ELSE LenBase * g[k - 1]]
    <3> SUFFICES ASSUME NEW k \in 0 .. m + 1
                 PROVE  g[k] = IF k = 0 THEN 1 ELSE LenBase * g[k - 1]
      BY Zenon
    <3>1. CASE k = m + 1
      <4>1. k # 0 /\ k - 1 = m /\ m \in 0 .. m + 1 /\ m # m + 1
        BY <3>1
      <4>2. g[m] = f[m] /\ g[k] = LenBase * f[m]
        BY <3>1, <4>1
      <4> QED
        BY <4>1, <4>2
    <3>2. CASE k # m + 1
      <4>1. k \in 0 .. m /\ g[k] = f[k]
        BY <3>2
      <4>2. k # 0 => k - 1 \in 0 .. m + 1 /\ k - 1 # m + 1 /\ g[k - 1] = f[k - 1]
        BY <4>1
      <4>3. f[k] = IF k = 0 THEN 1 ELSE LenBase * f[k - 1]
        BY <2>2, <4>1, Zenon
      <4> QED
        BY <4>1, <4>2, <4>3
    <3> QED
      BY <3>1, <3>2
  <2>4. Places(g, m + 1)
    BY <2>3, Zenon DEF Places
  <2> HIDE DEF g
  <2> QED
    BY <2>4
<1> HIDE DEF P
<1>3. \A m \in Nat : m \in P
  BY <1>1, <1>2, NumberInduction
<1> QED
  BY <1>3 DEF P

\* PlacesSame: there is only one such function.
LEMMA PlacesSame ==
    ASSUME NEW n \in Nat, NEW m \in Nat, NEW f, Places(f, n), NEW g, Places(g, m)
    PROVE  \A k \in Nat : k <= n /\ k <= m => f[k] = g[k]
<1> DEFINE P == {k \in Nat : k <= n /\ k <= m => f[k] = g[k]}
<1>1. ASSUME NEW k \in 0 .. n PROVE f[k] = IF k = 0 THEN 1 ELSE LenBase * f[k - 1]
  <2>1. f = [j \in 0 .. n |-> IF j = 0 THEN 1 ELSE LenBase * f[j - 1]]
    BY DEF Places
  <2> QED
    BY <2>1, Zenon
<1>2. ASSUME NEW k \in 0 .. m PROVE g[k] = IF k = 0 THEN 1 ELSE LenBase * g[k - 1]
  <2>1. g = [j \in 0 .. m |-> IF j = 0 THEN 1 ELSE LenBase * g[j - 1]]
    BY DEF Places
  <2> QED
    BY <2>1, Zenon
<1>3. 0 \in P
  <2>1. 0 \in 0 .. n /\ 0 \in 0 .. m
    OBVIOUS
  <2>2. f[0] = 1 /\ g[0] = 1
    BY <1>1, <1>2, <2>1
  <2> QED
    BY <2>2
<1>4. ASSUME NEW k \in Nat, k \in P PROVE k + 1 \in P
  <2> SUFFICES ASSUME k + 1 <= n, k + 1 <= m PROVE f[k + 1] = g[k + 1]
    OBVIOUS
  <2>1. k + 1 \in 0 .. n /\ k + 1 \in 0 .. m /\ k + 1 # 0 /\ (k + 1) - 1 = k
    OBVIOUS
  <2>2. f[k] = g[k]
    BY <1>4, <2>1
  <2>3. f[k + 1] = LenBase * f[k] /\ g[k + 1] = LenBase * g[k]
    BY <1>1, <1>2, <2>1
  <2> QED
    BY <2>2, <2>3
<1> HIDE DEF P
<1>5. \A k \in Nat : k \in P
  BY <1>3, <1>4, NumberInduction
<1> QED
  BY <1>5 DEF P

\* PlaceIs: each place counts LenBase times the next.
LEMMA PlaceIs ==
    /\ Place[0] = 1
    /\ \A k \in Nat : Place[k] \in Nat \ {0} /\ Place[k + 1] = LenBase * Place[k]
<1> DEFINE upto(n) == CHOOSE f : Places(f, n)
           h == [n \in Nat |-> upto(n)[n]]
<1>1. ASSUME NEW n \in Nat PROVE Places(upto(n), n)
  BY PlacesExist
<1> HIDE DEF upto
<1>2. h = [k \in Nat |-> IF k = 0 THEN 1 ELSE LenBase * h[k - 1]]
  <2> SUFFICES ASSUME NEW k \in Nat PROVE h[k] = IF k = 0 THEN 1 ELSE LenBase * h[k - 1]
    BY Zenon
  <2>1. upto(k) = [j \in 0 .. k |-> IF j = 0 THEN 1 ELSE LenBase * upto(k)[j - 1]]
    BY <1>1, Zenon DEF Places
  <2>2. k \in 0 .. k
    OBVIOUS
  <2>3. upto(k)[k] = IF k = 0 THEN 1 ELSE LenBase * upto(k)[k - 1]
    BY <2>1, <2>2, Zenon
  <2>4. ASSUME k # 0 PROVE upto(k)[k - 1] = upto(k - 1)[k - 1]
    <3>1. k - 1 \in Nat /\ k - 1 <= k /\ k - 1 <= k - 1
      BY <2>4
    <3>2. PICK j \in Nat : j = k - 1
      BY <3>1
    <3>3. Places(upto(k), k) /\ Places(upto(j), j)
      BY <1>1
    <3>4. upto(k)[j] = upto(j)[j]
      BY <3>1, <3>2, <3>3, PlacesSame
    <3> QED
      BY <3>2, <3>4
  <2>5. k # 0 => k - 1 \in Nat /\ h[k - 1] = upto(k - 1)[k - 1]
    OBVIOUS
  <2> QED
    BY <2>3, <2>4, <2>5
<1> HIDE DEF h
<1>3. Place = [k \in Nat |-> IF k = 0 THEN 1 ELSE LenBase * Place[k - 1]]
  BY <1>2, Zenon DEF Place
<1>4. Place[0] = 1 /\ \A k \in Nat : Place[k + 1] = LenBase * Place[k]
  <2>1. \A k \in Nat : Place[k] = IF k = 0 THEN 1 ELSE LenBase * Place[k - 1]
    BY <1>3, Zenon
  <2>2. \A k \in Nat : k + 1 \in Nat /\ k + 1 # 0 /\ (k + 1) - 1 = k
    OBVIOUS
  <2> QED
    BY <2>1, <2>2
<1> DEFINE P == {k \in Nat : Place[k] \in Nat \ {0}}
<1>5. 0 \in P
  BY <1>4
<1>6. ASSUME NEW k \in Nat, k \in P PROVE k + 1 \in P
  <2>1. Place[k] \in Nat \ {0} /\ LenBase \in Nat \ {0} /\ Place[k + 1] = LenBase * Place[k]
    BY <1>4, <1>6, BlobsAssumption
  <2> QED
    BY <2>1
<1> HIDE DEF P
<1>7. \A k \in Nat : k \in P
  BY <1>5, <1>6, NumberInduction
<1> QED
  BY <1>4, <1>7 DEF P

\* What each digit of a sequence is worth.
Weights(digits) == [k \in DOMAIN digits |-> digits[k] * Place[LenDigits - k]]

\* NumberIs: the number of a sequence of digits is the sum of what each is worth.
LEMMA NumberIs ==
    ASSUME NEW digits, IsFiniteSet(DOMAIN digits)
    PROVE  Number(digits) = Total(Weights(digits), DOMAIN digits)
<1> DEFINE D == DOMAIN digits
           iter == CHOOSE h : h = [s \in SUBSET D |->
                     IF s = {} THEN 0
                     ELSE digits[CHOOSE x \in s : TRUE] * Place[LenDigits - (CHOOSE x \in s : TRUE)]
                            + h[s \ {CHOOSE x \in s : TRUE}]]
<1>1. Number(digits) = iter[D]
  BY DEF Number, MapThenSumSet, MapThenFoldSet
<1> DEFINE f == Weights(digits)
<1>2. PICK sum : Sums(sum, f, D)
  BY SumsExist
<1>3. ASSUME NEW s \in SUBSET D, s # {}
      PROVE  f[Chosen(s)] = digits[Chosen(s)] * Place[LenDigits - Chosen(s)]
  BY <1>3, AnyIn DEF Weights
<1> HIDE DEF f, D
<1>4. sum = [s \in SUBSET D |-> IF s = {} THEN 0
                                ELSE digits[Chosen(s)] * Place[LenDigits - Chosen(s)]
                                       + sum[s \ {Chosen(s)}]]
  BY <1>2, <1>3 DEF Sums
<1>5. iter = [s \in SUBSET D |-> IF s = {} THEN 0
                                 ELSE digits[Chosen(s)] * Place[LenDigits - Chosen(s)]
                                        + iter[s \ {Chosen(s)}]]
  BY <1>4 DEF Chosen
<1> HIDE DEF iter
<1>6. Sums(iter, f, D)
  BY <1>3, <1>5 DEF Sums
<1>7. IsFiniteSet(D)
  BY DEF D
<1>8. Total(f, D) = iter[D]
  BY <1>6, <1>7, TotalIs
<1> QED
  BY <1>1, <1>8 DEF f, D

\* Lower: quotient by a product, and what the lower place adds.
LEMMA Lower ==
    ASSUME NEW n \in Nat, NEW p \in Nat \ {0}, NEW b \in Nat \ {0}
    PROVE  /\ n \div (b * p) \in Nat /\ n \div p \in Nat /\ (n \div p) % b \in Nat
           /\ (n \div p) * p = (n \div (b * p)) * (b * p) + ((n \div p) % b) * p
<1>1. PICK q \in Nat, r \in 0 .. p - 1 : n = q * p + r /\ n \div p = q
  OBVIOUS
<1>2. PICK u \in Nat, v \in 0 .. b - 1 : q = u * b + v /\ q % b = v
  OBVIOUS
<1>3. n = u * (b * p) + (v * p + r)
  BY <1>1, <1>2
<1>4. v * p + r \in 0 .. b * p - 1 /\ b * p \in Nat \ {0}
  <2>1. v * p <= (b - 1) * p /\ v * p \in Nat
    BY <1>2
  <2>2. (b - 1) * p = b * p - p
    OBVIOUS
  <2> QED
    BY <1>1, <2>1, <2>2
<1>5. n \div (b * p) = u
  <2>1. PICK d \in Nat \ {0} : d = b * p
    BY <1>4
  <2>2. PICK w \in 0 .. d - 1 : w = v * p + r
    BY <1>4, <2>1
  <2>3. n = u * d + w
    BY <1>3, <2>1, <2>2
  <2>4. n \div d = u
    BY <1>2, <2>3
  <2> QED
    BY <2>1, <2>4
<1>6. q * p = u * (b * p) + v * p
  BY <1>1, <1>2
<1>7. n \div p = q /\ (n \div p) % b = v
  BY <1>1, <1>2
<1>8. (n \div p) * p = (n \div (b * p)) * (b * p) + ((n \div p) % b) * p
  BY ONLY <1>5, <1>6, <1>7
<1> QED
  BY <1>2, <1>5, <1>7, <1>8

\* DigitsAre: digits are numbers below the base.
LEMMA DigitsAre ==
    ASSUME NEW n \in Nat
    PROVE  Digits(n) \in Seq(Nat) /\ Len(Digits(n)) = LenDigits /\ DOMAIN Digits(n) = 1 .. LenDigits
<1>1. LenDigits \in Nat /\ LenBase \in Nat \ {0}
  BY BlobsAssumption
<1>2. ASSUME NEW k \in 1 .. LenDigits PROVE (n \div Place[LenDigits - k]) % LenBase \in Nat
  <2>1. LenDigits - k \in Nat
    BY <1>1
  <2>2. Place[LenDigits - k] \in Nat \ {0}
    BY <2>1, PlaceIs
  <2> QED
    BY <1>1, <2>2, Lower
<1> QED
  BY <1>1, <1>2 DEF Digits

\* NumberOfDigits: digits are read as the number they were written for.
LEMMA NumberOfDigits ==
    ASSUME NEW n \in Nat, n < Place[LenDigits]
    PROVE  Number(Digits(n)) = n
<1>1. LenDigits \in Nat /\ LenBase \in Nat \ {0}
  BY BlobsAssumption
<1>2. PICK d : d = Digits(n)
  OBVIOUS
<1>3. PICK f : f = Weights(d)
  OBVIOUS
<1>4. DOMAIN d = 1 .. LenDigits /\ IsFiniteSet(1 .. LenDigits)
  BY <1>1, <1>2, DigitsAre, FS_Interval
<1>5. Number(d) = Total(f, 1 .. LenDigits)
  BY <1>3, <1>4, NumberIs
<1>6. ASSUME NEW k \in 1 .. LenDigits
      PROVE  LET p == Place[LenDigits - k]
             IN  /\ f[k] = ((n \div p) % LenBase) * p /\ f[k] \in Nat
                 /\ (n \div p) * p =
                      (n \div Place[LenDigits - (k - 1)]) * Place[LenDigits - (k - 1)] + f[k]
  <2>1. PICK p : p = Place[LenDigits - k]
    OBVIOUS
  <2>2. LenDigits - k \in Nat /\ (LenDigits - k) + 1 = LenDigits - (k - 1)
    BY <1>1
  <2>3. p \in Nat \ {0} /\ Place[LenDigits - (k - 1)] = LenBase * p
    BY <2>1, <2>2, PlaceIs
  <2>4. d[k] = (n \div p) % LenBase
    BY <1>2, <2>1 DEF Digits
  <2>5. f[k] = ((n \div p) % LenBase) * p
    BY <1>3, <1>4, <2>1, <2>4 DEF Weights
  <2>6. /\ (n \div p) % LenBase \in Nat
        /\ (n \div p) * p = (n \div (LenBase * p)) * (LenBase * p) + ((n \div p) % LenBase) * p
    BY <1>1, <2>3, Lower
  <2>7. f[k] \in Nat
    BY <2>3, <2>5, <2>6
  <2> QED
    BY <2>1, <2>3, <2>5, <2>6, <2>7
<1> DEFINE P == {j \in Nat : j <= LenDigits =>
                   Total(f, 1 .. j) = (n \div Place[LenDigits - j]) * Place[LenDigits - j]}
<1>7. 0 \in P
  <2>1. Total(f, 1 .. 0) = 0
    <3>1. 1 .. 0 = {}
      OBVIOUS
    <3> QED
      BY <3>1, TotalEmpty
  <2>2. PICK p : p = Place[LenDigits]
    OBVIOUS
  <2>3. p \in Nat \ {0} /\ n < p
    BY <1>1, <2>2, PlaceIs
  <2>4. n \div p = 0
    BY <2>3
  <2>5. LenDigits - 0 = LenDigits
    BY <1>1
  <2> QED
    BY <2>1, <2>2, <2>3, <2>4, <2>5
<1>8. ASSUME NEW j \in Nat, j \in P PROVE j + 1 \in P
  <2> SUFFICES ASSUME j + 1 <= LenDigits
               PROVE  Total(f, 1 .. j + 1) =
                        (n \div Place[LenDigits - (j + 1)]) * Place[LenDigits - (j + 1)]
    OBVIOUS
  <2>1. j + 1 \in 1 .. LenDigits /\ j <= LenDigits /\ (j + 1) - 1 = j
        /\ \A k \in 1 .. j + 1 : k \in 1 .. LenDigits
    BY <1>1
  <2>2. \A k \in 1 .. j + 1 : f[k] \in Nat
    BY <1>6, <2>1
  <2>3. Total(f, 1 .. j + 1) = Total(f, 1 .. j) + f[j + 1]
    BY <2>2, TotalUpto
  <2>4. Total(f, 1 .. j) = (n \div Place[LenDigits - j]) * Place[LenDigits - j]
    BY <1>8, <2>1
  <2>5. (n \div Place[LenDigits - (j + 1)]) * Place[LenDigits - (j + 1)] =
          (n \div Place[LenDigits - j]) * Place[LenDigits - j] + f[j + 1]
    BY <1>6, <2>1
  <2> QED
    BY <2>3, <2>4, <2>5
<1> HIDE DEF P
<1>9. LenDigits \in P
  BY <1>1, <1>7, <1>8, NumberInduction
<1>10. Total(f, 1 .. LenDigits) = (n \div Place[LenDigits - LenDigits]) * Place[LenDigits - LenDigits]
  BY <1>1, <1>9 DEF P
<1>11. LenDigits - LenDigits = 0 /\ n \div 1 = n /\ n * 1 = n
  BY <1>1
<1>12. Total(f, 1 .. LenDigits) = n
  BY <1>10, <1>11, PlaceIs
<1> QED
  BY <1>2, <1>5, <1>12

\* Written: the participants of a transaction, whose lengths can be written.
Written(A) == [address : A, data_len : 0 .. Place[LenDigits] - 1]

\* WriteIs: what is written for a participant has the length of a record, begins with the
\* version, and is read as that participant.
LEMMA WriteIs ==
    ASSUME NEW A, NEW p \in Written(A)
    PROVE  /\ Write(p) \in Seq(Nat \union A) /\ Len(Write(p)) = RecordLen
           /\ Write(p)[1] = ParticipantVersion
           /\ Read(Write(p)) = p
<1>1. LenDigits \in Nat /\ RecordLen = LenDigits + 2
  BY BlobsAssumption DEF RecordLen
<1>2. p.data_len \in Nat /\ p.data_len < Place[LenDigits] /\ p.address \in A
  <2>1. Place[LenDigits] \in Nat
    BY <1>1, PlaceIs
  <2>2. p.data_len \in 0 .. Place[LenDigits] - 1 /\ p.address \in A
    BY DEF Written
  <2> QED
    BY <2>1, <2>2
<1>3. PICK d : d = Digits(p.data_len)
  OBVIOUS
<1>4. d \in Seq(Nat) /\ Len(d) = LenDigits /\ DOMAIN d = 1 .. LenDigits
  BY <1>2, <1>3, DigitsAre
<1>5. PICK S : S = Nat \union A
  OBVIOUS
<1>6. PICK u, v : u = <<ParticipantVersion>> /\ v = <<p.address>>
  OBVIOUS
<1>7. /\ u \in Seq(S) /\ Len(u) = 1 /\ u[1] = ParticipantVersion
      /\ v \in Seq(S) /\ Len(v) = 1 /\ v[1] = p.address
      /\ d \in Seq(S)
  <2>1. ParticipantVersion \in S /\ p.address \in S
    BY <1>2, <1>5 DEF ParticipantVersion
  <2>2. d \in Seq(S)
    BY <1>4, <1>5
  <2> QED
    BY <1>6, <2>1, <2>2
<1>8. PICK b : b = u \o d
  OBVIOUS
<1>9. /\ b \in Seq(S) /\ Len(b) = 1 + LenDigits
      /\ b[1] = ParticipantVersion /\ \A k \in 1 .. LenDigits : b[1 + k] = d[k]
  <2>1. /\ u \o d \in Seq(S) /\ Len(u \o d) = Len(u) + Len(d)
        /\ \A k \in 1 .. Len(u) : (u \o d)[k] = u[k]
        /\ \A k \in 1 .. Len(d) : (u \o d)[Len(u) + k] = d[k]
    <3>1. u \in Seq(S) /\ d \in Seq(S)
      BY <1>7
    <3> QED
      BY ONLY <3>1, Joined
  <2> QED
    BY <1>4, <1>7, <1>8, <2>1
<1>10. PICK w : w = b \o v
  OBVIOUS
<1>11. /\ w \in Seq(S) /\ Len(w) = LenDigits + 2 /\ w[LenDigits + 2] = p.address
       /\ w[1] = ParticipantVersion /\ \A k \in 1 .. LenDigits : w[1 + k] = d[k]
  <2>1. /\ b \o v \in Seq(S) /\ Len(b \o v) = Len(b) + Len(v)
        /\ \A k \in 1 .. Len(b) : (b \o v)[k] = b[k]
        /\ \A k \in 1 .. Len(v) : (b \o v)[Len(b) + k] = v[k]
    <3>1. b \in Seq(S) /\ v \in Seq(S)
      BY <1>7, <1>9
    <3> QED
      BY ONLY <3>1, Joined
  <2>2. Len(b) = 1 + LenDigits /\ Len(v) = 1 /\ 1 \in 1 .. Len(v)
    BY <1>7, <1>9
  <2>3. w[(1 + LenDigits) + 1] = p.address
    BY <1>7, <1>10, <2>1, <2>2
  <2>4. \A k \in 1 .. 1 + LenDigits : w[k] = b[k]
    BY <1>10, <2>1, <2>2
  <2>5. (1 + LenDigits) + 1 = LenDigits + 2 /\ 1 \in 1 .. 1 + LenDigits
        /\ \A k \in 1 .. LenDigits : 1 + k \in 1 .. 1 + LenDigits
    BY <1>1
  <2> QED
    BY <1>9, <1>10, <2>1, <2>2, <2>3, <2>4, <2>5
<1>12. Write(p) = w
  BY <1>3, <1>6, <1>8, <1>10 DEF Write
<1>13. SubSeq(w, 2, LenDigits + 1) = d
  <2>1. SubSeq(w, 1 + 1, 1 + Len(d)) = d
    <3>1. d \in Seq(S) /\ 1 + Len(d) <= Len(w) /\ 1 \in Nat
          /\ \A k \in 1 .. Len(d) : w[1 + k] = d[k]
      BY <1>1, <1>4, <1>7, <1>11
    <3> QED
      BY <1>11, <3>1, PartIs
  <2>2. 1 + 1 = 2 /\ 1 + Len(d) = LenDigits + 1
    BY <1>1, <1>4
  <2> QED
    BY <2>1, <2>2
<1>14. Number(d) = p.data_len
  BY <1>2, <1>3, NumberOfDigits
<1>15. Read(w) = [address |-> p.address, data_len |-> p.data_len]
  BY <1>1, <1>11, <1>13, <1>14 DEF Read
<1>16. [address |-> p.address, data_len |-> p.data_len] = p
  BY DEF Written
<1> QED
  BY <1>1, <1>5, <1>11, <1>12, <1>15, <1>16

\* ReadsWritten: the input of a transaction parses, to the participants that it was
\* written for.
LEMMA ReadsWritten ==
    ASSUME NEW A, NEW ps \in Seq(Written(A)), ps # <<>>
    PROVE  /\ EncodeBlobTxData(ps) \in Seq(Nat \union A)
           /\ Parses(EncodeBlobTxData(ps))
           /\ ReadAll(EncodeBlobTxData(ps)) = ps
<1>1. PICK n : n = Len(ps) /\ n \in Nat /\ DOMAIN ps = 1 .. n /\ \A k \in 1 .. n : ps[k] \in Written(A)
  OBVIOUS
<1>2. PICK R : R = RecordLen
  OBVIOUS
<1>3. R \in Nat \ {0}
  BY <1>2, BlobsAssumption DEF RecordLen
<1>4. PICK S : S = Nat \union A
  OBVIOUS
<1>5. PICK s : s = [k \in DOMAIN ps |-> Write(ps[k])]
  OBVIOUS
<1>6. \A k \in 1 .. n : /\ s[k] = Write(ps[k]) /\ s[k] \in Seq(S) /\ Len(s[k]) = R
                        /\ s[k][1] = ParticipantVersion /\ Read(s[k]) = ps[k]
  BY <1>1, <1>2, <1>4, <1>5, WriteIs
<1>7. s \in Seq(Seq(S)) /\ Len(s) = n
  <2>1. PICK T : T = Seq(S)
    OBVIOUS
  <2>2. s = [k \in 1 .. n |-> s[k]] /\ \A k \in 1 .. n : s[k] \in T
    BY <1>1, <1>5, <1>6, <2>1
  <2>3. s \in Seq(T) /\ Len(s) = n
    BY <1>1, <2>2
  <2> QED
    BY <2>1, <2>3
<1>8. PICK q : q = FlattenSeq(s)
  OBVIOUS
<1>9. EncodeBlobTxData(ps) = q
  BY <1>5, <1>8, Zenon DEF EncodeBlobTxData, Concat
<1>10. PICK lens : lens = [k \in 1 .. n |-> R]
  OBVIOUS
<1>11. \A k \in 1 .. Len(s) : lens[k] = Len(s[k])
  BY <1>6, <1>7, <1>10
<1>12. ASSUME NEW m \in 0 .. n PROVE Total(lens, 1 .. m) = m * R
  <2>1. m \in Nat /\ \A k \in 1 .. m : lens[k] = R
    BY <1>1, <1>10
  <2>2. IsFiniteSet(1 .. m) /\ Cardinality(1 .. m) = m
    BY <2>1, FS_Interval
  <2>3. PICK M : M = 1 .. m
    OBVIOUS
  <2>4. Total(lens, M) = Cardinality(M) * R
    <3>1. IsFiniteSet(M) /\ R \in Int /\ \A k \in M : lens[k] = R
      BY <1>3, <2>1, <2>2, <2>3
    <3> QED
      BY <3>1, TotalConstant
  <2> QED
    BY <2>2, <2>3, <2>4
<1>13. q \in Seq(S) /\ Len(q) = n * R
  <2>1. LaidOut(q, Len(s), s, lens, S)
    BY <1>7, <1>8, <1>11, FlattenPlaces
  <2>2. n \in 0 .. n
    BY <1>1
  <2> QED
    BY <1>7, <1>12, <2>1, <2>2 DEF LaidOut
<1>14. ASSUME NEW k \in 1 .. n
       PROVE  /\ (k - 1) * R \in Nat /\ (k - 1) * R + R <= Len(q)
              /\ SubSeq(q, (k - 1) * R + 1, k * R) = s[k]
  <2>1. k - 1 \in 0 .. n
    BY <1>1
  <2>2. PICK from : from = (k - 1) * R
    OBVIOUS
  <2>3. from = Total(lens, 1 .. k - 1)
    BY <1>12, <2>1, <2>2
  <2>4. k \in 1 .. Len(s) /\ Len(s[k]) = R
    BY <1>6, <1>7
  <2>5. /\ from \in Nat /\ from + Len(s[k]) <= Len(FlattenSeq(s))
        /\ SubSeq(FlattenSeq(s), from + 1, from + Len(s[k])) = s[k]
    BY <1>7, <1>11, <2>3, <2>4, FlattenPart
  <2>6. from + R = k * R
    BY <1>1, <1>3, <2>2
  <2>7. from \in Nat /\ from + R <= Len(q) /\ SubSeq(q, from + 1, from + R) = s[k]
    BY <1>8, <2>4, <2>5
  <2> QED
    BY <2>2, <2>6, <2>7
<1>15. Len(q) \div R = n /\ Len(q) % R = 0
  <2>1. 0 \in 0 .. R - 1 /\ n * R + 0 = n * R
    BY <1>1, <1>3
  <2>2. (n * R + 0) \div R = n /\ (n * R + 0) % R = 0
    BY ONLY <1>1, <1>3, <2>1, DivMod
  <2> QED
    BY <1>13, <2>1, <2>2
<1>16. ASSUME NEW k \in 1 .. n PROVE q[(k - 1) * R + 1] = ParticipantVersion
  <2>1. PICK from : from = (k - 1) * R
    OBVIOUS
  <2>2. from \in Nat /\ from + R <= Len(q) /\ SubSeq(q, from + 1, k * R) = s[k] /\ k * R = from + R
    BY <1>1, <1>3, <1>14, <2>1
  <2>3. PICK to : to = k * R
    OBVIOUS
  <2>4. SubSeq(q, from + 1, to)[1] = q[from + 1]
    <3>1. from \in Nat /\ to \in Nat /\ to = from + R /\ to <= Len(q)
      BY <1>3, <2>2, <2>3
    <3> QED
      BY <1>3, <1>13, <3>1
  <2> QED
    BY <1>6, <2>1, <2>2, <2>3, <2>4
<1>17. Parses(q)
  BY <1>2, <1>15, <1>16 DEF Parses
<1>18. ReadAll(q) = ps
  <2>1. ReadAll(q) = [k \in 1 .. n |-> Read(SubSeq(q, (k - 1) * R + 1, k * R))]
    BY <1>2, <1>15, Zenon DEF ReadAll
  <2>2. \A k \in 1 .. n : Read(SubSeq(q, (k - 1) * R + 1, k * R)) = ps[k]
    BY <1>6, <1>14
  <2>3. ReadAll(q) = [k \in 1 .. n |-> ps[k]]
    BY <2>1, <2>2
  <2> QED
    BY <1>1, <2>3
<1> QED
  BY <1>4, <1>9, <1>13, <1>17, <1>18

-----------------------------------------------------------------------------
(* tx_eip4844.rs, tx_sidecar.rs: the lengths computed and encoded *)

\* Measured: s is a sequence of tokens, each of which has a length.
Measured(s) == (\E S : s \in Seq(S)) /\ \A k \in DOMAIN s : s[k].len \in Nat

LensOf(s) == [k \in DOMAIN s |-> s[k].len]

\* TotalLenIs: the length of an encoding is a sum.
LEMMA TotalLenIs ==
    ASSUME NEW s, Measured(s)
    PROVE  TotalLen(s) = Total(LensOf(s), DOMAIN s) /\ TotalLen(s) \in Nat
<1> DEFINE D == DOMAIN s
           iter == CHOOSE h : h = [r \in SUBSET D |->
                     IF r = {} THEN 0
                     ELSE s[CHOOSE x \in r : TRUE].len + h[r \ {CHOOSE x \in r : TRUE}]]
           f == LensOf(s)
<1>1. TotalLen(s) = iter[D]
  BY DEF TotalLen, FoldSeq, FoldFunction, FoldFunctionOnSet, MapThenFoldSet
<1>2. IsFiniteSet(D)
  <2>1. PICK S : s \in Seq(S)
    BY DEF Measured
  <2>2. D = 1 .. Len(s) /\ Len(s) \in Nat
    BY <2>1
  <2> QED
    BY <2>2, FS_Interval
<1>3. PICK sum : Sums(sum, f, D)
  BY <1>2, SumsExist
<1>4. ASSUME NEW r \in SUBSET D, r # {}
      PROVE  f[Chosen(r)] = s[Chosen(r)].len
  BY <1>4, AnyIn DEF LensOf
<1>5. \A x \in D : f[x] \in Nat
  BY DEF LensOf, Measured
<1> HIDE DEF f, D
<1>6. sum = [r \in SUBSET D |-> IF r = {} THEN 0 ELSE s[Chosen(r)].len + sum[r \ {Chosen(r)}]]
  BY <1>3, <1>4 DEF Sums
<1>7. iter = [r \in SUBSET D |-> IF r = {} THEN 0 ELSE s[Chosen(r)].len + iter[r \ {Chosen(r)}]]
  BY <1>6 DEF Chosen
<1> HIDE DEF iter
<1>8. Sums(iter, f, D)
  BY <1>4, <1>7 DEF Sums
<1>9. Total(f, D) = iter[D] /\ Total(f, D) \in Nat
  BY <1>2, <1>5, <1>8, TotalIs, TotalNat
<1> QED
  BY <1>1, <1>9 DEF f, D

\* TotalLenOne: the length of a single token.
LEMMA TotalLenOne ==
    ASSUME NEW x, x.len \in Nat
    PROVE  Measured(<<x>>) /\ TotalLen(<<x>>) = x.len
<1>1. PICK s : s = <<x>>
  OBVIOUS
<1>2. s \in Seq({x}) /\ DOMAIN s = {1} /\ s[1] = x
  BY <1>1
<1>3. Measured(s)
  BY <1>2 DEF Measured
<1>4. PICK f : f = LensOf(s)
  OBVIOUS
<1>5. f[1] = x.len
  BY <1>2, <1>4 DEF LensOf
<1>6. PICK S, y : S = {} /\ y = 1
  OBVIOUS
<1>7. Total(f, S \union {y}) = Total(f, S) + f[y]
  <2>1. IsFiniteSet(S) /\ y \notin S /\ f[y] \in Int /\ \A z \in S : f[z] \in Int
    BY <1>5, <1>6, FS_EmptySet
  <2> QED
    BY ONLY <2>1, TotalAdd
<1>10. S \union {y} = {1}
  BY <1>6
<1>8. Total(f, {}) = 0
  BY TotalEmpty
<1>9. TotalLen(s) = Total(f, {1})
  BY <1>2, <1>3, <1>4, TotalLenIs
<1> QED
  BY <1>1, <1>3, <1>5, <1>6, <1>7, <1>8, <1>9, <1>10

\* TotalLenJoin: the length of one encoding after another.
LEMMA TotalLenJoin ==
    ASSUME NEW s, Measured(s), NEW t, Measured(t)
    PROVE  Measured(s \o t) /\ TotalLen(s \o t) = TotalLen(s) + TotalLen(t)
<1>1. PICK S : S = {s[k] : k \in DOMAIN s} \union {t[k] : k \in DOMAIN t}
  OBVIOUS
<1>2. s \in Seq(S) /\ t \in Seq(S)
  <2>1. PICK A, B : s \in Seq(A) /\ t \in Seq(B)
    BY DEF Measured
  <2>2. s = [k \in 1 .. Len(s) |-> s[k]] /\ Len(s) \in Nat /\ DOMAIN s = 1 .. Len(s)
    BY <2>1
  <2>3. t = [k \in 1 .. Len(t) |-> t[k]] /\ Len(t) \in Nat /\ DOMAIN t = 1 .. Len(t)
    BY <2>1
  <2>4. \A k \in 1 .. Len(s) : s[k] \in S
    BY <1>1, <2>2
  <2>5. \A k \in 1 .. Len(t) : t[k] \in S
    BY <1>1, <2>3
  <2> QED
    BY <2>2, <2>3, <2>4, <2>5
<1>3. PICK n, m : n = Len(s) /\ m = Len(t) /\ n \in Nat /\ m \in Nat
                  /\ DOMAIN s = 1 .. n /\ DOMAIN t = 1 .. m
  BY <1>2
<1>4. PICK r : r = s \o t
  OBVIOUS
<1>5. /\ r \in Seq(S) /\ Len(r) = n + m
      /\ \A k \in 1 .. n : r[k] = s[k]
      /\ \A k \in 1 .. m : r[n + k] = t[k]
  <2>1. /\ s \o t \in Seq(S) /\ Len(s \o t) = Len(s) + Len(t)
        /\ \A k \in 1 .. Len(s) : (s \o t)[k] = s[k]
        /\ \A k \in 1 .. Len(t) : (s \o t)[Len(s) + k] = t[k]
    BY ONLY <1>2, Joined
  <2> QED
    BY <1>3, <1>4, <2>1
<1>6. DOMAIN r = 1 .. n + m
  BY <1>5
<1>7. \A k \in 1 .. n + m : k \in 1 .. n \/ (k - n \in 1 .. m /\ n + (k - n) = k)
  BY <1>3
<1>8. (\A k \in 1 .. n : s[k].len \in Nat) /\ \A k \in 1 .. m : t[k].len \in Nat
  BY <1>3 DEF Measured
<1>9. \A k \in 1 .. n + m : r[k].len \in Nat
  BY <1>5, <1>7, <1>8
<1>10. Measured(r)
  BY <1>5, <1>6, <1>9 DEF Measured
<1>11. PICK f, g, h : f = LensOf(r) /\ g = LensOf(s) /\ h = LensOf(t)
  OBVIOUS
<1>12. \A k \in 1 .. n : g[k] \in Int /\ f[k] = g[k]
  <2> SUFFICES ASSUME NEW k \in 1 .. n PROVE g[k] \in Int /\ f[k] = g[k]
    OBVIOUS
  <2>1. k \in 1 .. n + m
    BY <1>3
  <2>2. f[k] = r[k].len /\ g[k] = s[k].len
    BY <1>3, <1>6, <1>11, <2>1 DEF LensOf
  <2> QED
    BY <1>5, <1>8, <2>2
<1>13. \A k \in 1 .. m : h[k] \in Int /\ f[n + k] = h[k]
  <2> SUFFICES ASSUME NEW k \in 1 .. m PROVE h[k] \in Int /\ f[n + k] = h[k]
    OBVIOUS
  <2>1. n + k \in 1 .. n + m
    BY <1>3
  <2>2. f[n + k] = r[n + k].len /\ h[k] = t[k].len
    BY <1>3, <1>6, <1>11, <2>1 DEF LensOf
  <2> QED
    BY <1>5, <1>8, <2>2
<1>14. Total(f, 1 .. n + m) = Total(g, 1 .. n) + Total(h, 1 .. m)
  <2>1. n \in Nat /\ m \in Nat
    BY <1>3
  <2> QED
    BY ONLY <2>1, <1>12, <1>13, TotalJoined
<1>15. TotalLen(r) = Total(f, 1 .. n + m)
  BY <1>6, <1>10, <1>11, TotalLenIs
<1>16. TotalLen(s) = Total(g, 1 .. n) /\ TotalLen(t) = Total(h, 1 .. m)
  BY <1>3, <1>11, TotalLenIs
<1> QED
  BY <1>4, <1>10, <1>14, <1>15, <1>16

\* Sized: each field of tx has a length.
Sized(tx) == \A k \in 1 .. 11 : Length(FieldOrder[k], tx[FieldOrder[k]]) \in Nat

\* FieldsLenIs: what the code computes for the fields is the length of their encoding.
LEMMA FieldsLenIs ==
    ASSUME NEW tx, Sized(tx)
    PROVE  /\ Measured(EncodeFields(tx)) /\ FieldsLen(tx) \in Nat
           /\ TotalLen(EncodeFields(tx)) = FieldsLen(tx)
<1> DEFINE D == DOMAIN FieldOrder
           iter == CHOOSE h : h = [r \in SUBSET D |->
                     IF r = {} THEN 0
                     ELSE Length(FieldOrder[CHOOSE x \in r : TRUE], tx[FieldOrder[CHOOSE x \in r : TRUE]])
                            + h[r \ {CHOOSE x \in r : TRUE}]]
           e == EncodeFields(tx)
           f == LensOf(e)
<1>1. FieldsLen(tx) = iter[D]
  BY DEF FieldsLen, FoldSeq, FoldFunction, FoldFunctionOnSet, MapThenFoldSet
<1>2. D = 1 .. 11 /\ IsFiniteSet(D)
  <2>1. D = 1 .. 11
    BY DEF FieldOrder
  <2>2. 1 \in Int /\ 11 \in Int
    OBVIOUS
  <2>3. IsFiniteSet(1 .. 11)
    BY ONLY <2>2, FS_Interval
  <2> HIDE DEF D
  <2> QED
    BY <2>1, <2>3
<1>3. /\ e = [k \in 1 .. 11 |-> e[k]] /\ DOMAIN e = 1 .. 11
      /\ \A k \in 1 .. 11 : e[k].len = Length(FieldOrder[k], tx[FieldOrder[k]]) /\ e[k].len \in Nat
  BY <1>2 DEF EncodeFields, Item, Sized
<1> HIDE DEF e
<1>4. Measured(e)
  <2>1. e \in Seq({e[k] : k \in 1 .. 11})
    BY <1>3
  <2> QED
    BY <1>3, <2>1 DEF Measured
<1>5. \A k \in D : f[k] = Length(FieldOrder[k], tx[FieldOrder[k]])
  BY <1>2, <1>3 DEF LensOf
<1>6. PICK sum : Sums(sum, f, D)
  BY <1>2, SumsExist
<1>7. ASSUME NEW r \in SUBSET D, r # {}
      PROVE  f[Chosen(r)] = Length(FieldOrder[Chosen(r)], tx[FieldOrder[Chosen(r)]])
  BY <1>5, <1>7, AnyIn
<1> HIDE DEF f, D
<1>8. sum = [r \in SUBSET D |-> IF r = {} THEN 0
                                ELSE Length(FieldOrder[Chosen(r)], tx[FieldOrder[Chosen(r)]])
                                       + sum[r \ {Chosen(r)}]]
  BY <1>6, <1>7 DEF Sums
<1>9. iter = [r \in SUBSET D |-> IF r = {} THEN 0
                                 ELSE Length(FieldOrder[Chosen(r)], tx[FieldOrder[Chosen(r)]])
                                        + iter[r \ {Chosen(r)}]]
  BY <1>8 DEF Chosen
<1> HIDE DEF iter
<1>10. Sums(iter, f, D)
  BY <1>7, <1>9 DEF Sums
<1>11. Total(f, D) = iter[D]
  BY <1>2, <1>10, TotalIs
<1>12. TotalLen(e) = Total(f, D) /\ TotalLen(e) \in Nat
  BY <1>2, <1>3, <1>4, TotalLenIs DEF f
<1> QED
  BY <1>1, <1>4, <1>11, <1>12 DEF e

\* A token with a length.
HasLen(x) == x.len \in Nat

\* LengthsNat: what a header is long.
LEMMA LengthsNat ==
    /\ \A n : LengthOfLength(n) \in Nat
    /\ TypeByte.len = 1
    /\ \A list \in BOOLEAN : \A n : /\ Header(list, n).len = LengthOfLength(n)
                                /\ Header(list, n).value = n
    /\ \A v, n : Item(v, n).len = n /\ Item(v, n).value = v
<1>1. \A n : LengthOfLength(n) \in Nat
  BY DEF LengthOfLength
<1>2. TypeByte.len = 1
  BY DEF TypeByte
<1>3. \A list \in BOOLEAN : \A n : /\ Header(list, n).len = LengthOfLength(n)
                               /\ Header(list, n).value = n
  BY DEF Header
<1>4. \A v, n : Item(v, n).len = n /\ Item(v, n).value = v
  BY DEF Item
<1> QED
  BY <1>1, <1>2, <1>3, <1>4

\* TotalLenCons: a token before an encoding; what it announces.
LEMMA TotalLenCons ==
    ASSUME NEW x, x.len \in Nat, NEW s, Measured(s)
    PROVE  /\ Measured(<<x>> \o s) /\ TotalLen(<<x>> \o s) = x.len + TotalLen(s)
           /\ x.value = TotalLen(s) => AnnouncesLength(<<x>> \o s)
<1>1. Measured(<<x>>) /\ TotalLen(<<x>>) = x.len
  BY TotalLenOne
<1>2. PICK o : o = <<x>>
  OBVIOUS
<1>3. Measured(o \o s) /\ TotalLen(o \o s) = TotalLen(o) + TotalLen(s)
  <2>1. Measured(o)
    BY <1>1, <1>2
  <2> QED
    BY ONLY <2>1, Measured(s), TotalLenJoin
<1>4. Tail(<<x>> \o s) = s /\ (<<x>> \o s)[1] = x
  <2>1. PICK S : s \in Seq(S)
    BY DEF Measured
  <2>2. PICK T : T = S \union {x}
    OBVIOUS
  <2>3. s \in Seq(T) /\ x \in T
    <3>1. s = [k \in 1 .. Len(s) |-> s[k]] /\ Len(s) \in Nat /\ \A k \in 1 .. Len(s) : s[k] \in S
      BY <2>1
    <3> QED
      BY <2>2, <3>1
  <2>4. Tail(<<x>> \o s) = s
    BY ONLY <2>3, JoinedTail
  <2>5. o \in Seq(T) /\ Len(o) = 1 /\ o[1] = x
    BY <1>2, <2>3
  <2>6. \A k \in 1 .. Len(o) : (o \o s)[k] = o[k]
    BY ONLY <2>3, <2>5, Joined
  <2>7. (o \o s)[1] = x
    BY <2>5, <2>6
  <2> QED
    BY <1>2, <2>4, <2>7
<1> QED
  BY <1>1, <1>2, <1>3, <1>4 DEF AnnouncesLength

\* TotalLenTwo: two tokens before an encoding.
LEMMA TotalLenTwo ==
    ASSUME NEW x, NEW y, x.len \in Nat, y.len \in Nat, NEW s, Measured(s)
    PROVE  Measured(<<x, y>> \o s) /\ TotalLen(<<x, y>> \o s) = x.len + y.len + TotalLen(s)
<1>1. PICK a, b, c : a = <<x>> /\ b = <<y>> /\ c = <<x, y>>
  OBVIOUS
<1>2. Measured(a) /\ Measured(b) /\ TotalLen(a) = x.len /\ TotalLen(b) = y.len
  BY <1>1, TotalLenOne
<1>3. c = a \o b
  <2>1. PICK S : S = {x, y}
    OBVIOUS
  <2>2. /\ a \in Seq(S) /\ b \in Seq(S) /\ Len(a) = 1 /\ Len(b) = 1 /\ a[1] = x /\ b[1] = y
        /\ c \in Seq(S) /\ Len(c) = 2 /\ c[1] = x /\ c[2] = y
    BY <1>1, <2>1
  <2>3. /\ a \o b \in Seq(S) /\ Len(a \o b) = Len(a) + Len(b)
        /\ \A k \in 1 .. Len(a) : (a \o b)[k] = a[k]
        /\ \A k \in 1 .. Len(b) : (a \o b)[Len(a) + k] = b[k]
    <3>1. a \in Seq(S) /\ b \in Seq(S)
      BY <2>2
    <3> QED
      BY ONLY <3>1, Joined
  <2>4. PICK d : d = a \o b
    OBVIOUS
  <2>5. d \in Seq(S) /\ Len(d) = 2 /\ d[1] = x /\ d[2] = y
    BY <2>2, <2>3, <2>4
  <2>6. c = [k \in 1 .. 2 |-> c[k]] /\ d = [k \in 1 .. 2 |-> d[k]] /\ 1 .. 2 = {1, 2}
    BY <2>2, <2>5
  <2>7. \A k \in 1 .. 2 : c[k] = d[k]
    BY <2>2, <2>5, <2>6
  <2> QED
    BY <2>4, <2>6, <2>7
<1>4. Measured(a \o b) /\ TotalLen(a \o b) = TotalLen(a) + TotalLen(b)
  BY ONLY <1>2, TotalLenJoin
<1>5. Measured(c) /\ TotalLen(c) = x.len + y.len
  BY <1>2, <1>3, <1>4
<1>6. Measured(c \o s) /\ TotalLen(c \o s) = TotalLen(c) + TotalLen(s)
  BY ONLY <1>5, Measured(s), TotalLenJoin
<1> QED
  BY <1>1, <1>5, <1>6

\* SignedLen: the encodings for the signature and with it have the lengths computed for
\* them, and the string header announces the rest.
LEMMA SignedLen ==
    ASSUME NEW tx, Sized(tx), NEW signature
    PROVE  /\ TotalLen(EncodeForSigning(tx)) = PayloadLenForSignature(tx)
           /\ \A withHeader \in BOOLEAN :
                LET signed == EncodeWithSignature(tx, signature, withHeader)
                IN  /\ TotalLen(signed) = PayloadLenWithSignature(tx, withHeader)
                    /\ withHeader => AnnouncesLength(signed)
<1>1. PICK e, n : e = EncodeFields(tx) /\ n = FieldsLen(tx)
  OBVIOUS
<1>2. Measured(e) /\ n \in Nat /\ TotalLen(e) = n
  BY <1>1, FieldsLenIs
<1>3. PICK t, h, g, i : t = TypeByte /\ h = Header(TRUE, n) /\ g = Header(TRUE, n + SignatureLen)
                        /\ i = Item(signature, SignatureLen)
  OBVIOUS
<1>4. SignatureLen \in Nat
  BY DEF SignatureLen
<1>5. /\ t.len = 1 /\ h.len = LengthOfLength(n) /\ g.len = LengthOfLength(n + SignatureLen)
      /\ i.len = SignatureLen /\ t.len \in Nat /\ h.len \in Nat /\ g.len \in Nat
  <2>1. TRUE \in BOOLEAN
    OBVIOUS
  <2>2. t.len = 1
    BY ONLY <1>3, LengthsNat
  <2>3. h.len = LengthOfLength(n) /\ g.len = LengthOfLength(n + SignatureLen)
    BY ONLY <1>3, <2>1, LengthsNat
  <2>4. i.len = SignatureLen
    BY ONLY <1>3, LengthsNat
  <2>5. h.len \in Nat /\ g.len \in Nat
    BY ONLY <2>3, LengthsNat
  <2> QED
    BY <2>2, <2>3, <2>4, <2>5
<1>6. TotalLen(<<t, h>> \o e) = t.len + h.len + TotalLen(e)
  BY ONLY <1>2, <1>5, TotalLenTwo
<1>7. EncodeForSigning(tx) = <<t, h>> \o e
  BY <1>1, <1>3 DEF EncodeForSigning
<1>8. PICK u : u = <<t, g>> \o e
  OBVIOUS
<1>9. Measured(u) /\ TotalLen(u) = t.len + g.len + n
  BY <1>2, <1>5, <1>8, TotalLenTwo
<1>10. PICK o : o = <<i>>
  OBVIOUS
<1>11. Measured(o) /\ TotalLen(o) = SignatureLen
  BY <1>4, <1>5, <1>10, TotalLenOne
<1>12. Measured(u \o o) /\ TotalLen(u \o o) = TotalLen(u) + TotalLen(o)
  BY ONLY <1>9, <1>11, TotalLenJoin
<1>13. PICK body : body = u \o o
  OBVIOUS
<1>14. PICK len : len = 1 + LengthOfLength(n + SignatureLen) + (n + SignatureLen)
  OBVIOUS
<1>15. Measured(body) /\ TotalLen(body) = len
  BY <1>2, <1>4, <1>5, <1>9, <1>11, <1>12, <1>13, <1>14
<1>16. EncodeWithSignature(tx, signature, FALSE) = body
  BY <1>1, <1>3, <1>8, <1>10, <1>13 DEF EncodeWithSignature
<1>17. PICK s : s = Header(FALSE, len)
  OBVIOUS
<1>18. EncodeWithSignature(tx, signature, TRUE) = <<s>> \o body
  BY <1>1, <1>3, <1>8, <1>10, <1>13, <1>14, <1>17 DEF EncodeWithSignature
<1>19. s.len = LengthOfLength(len) /\ s.value = len /\ s.len \in Nat
  <2>1. FALSE \in BOOLEAN
    OBVIOUS
  <2> QED
    BY <1>17, <2>1, LengthsNat
<1>20. /\ TotalLen(<<s>> \o body) = s.len + TotalLen(body)
       /\ s.value = TotalLen(body) => AnnouncesLength(<<s>> \o body)
  BY ONLY <1>15, <1>19, TotalLenCons
<1>21. /\ PayloadLenWithSignature(tx, FALSE) = len
       /\ PayloadLenWithSignature(tx, TRUE) = LengthOfLength(len) + len
  BY <1>1, <1>14 DEF PayloadLenWithSignature
<1>22. TotalLen(EncodeForSigning(tx)) = PayloadLenForSignature(tx)
  BY <1>1, <1>2, <1>5, <1>6, <1>7 DEF PayloadLenForSignature
<1>23. ASSUME NEW withHeader \in BOOLEAN
       PROVE  /\ TotalLen(EncodeWithSignature(tx, signature, withHeader)) =
                   PayloadLenWithSignature(tx, withHeader)
              /\ withHeader => AnnouncesLength(EncodeWithSignature(tx, signature, withHeader))
  <2>1. CASE withHeader
    <3>1. withHeader = TRUE
      BY <2>1
    <3> QED
      BY <1>15, <1>18, <1>19, <1>20, <1>21, <3>1
  <2>2. CASE ~withHeader
    <3>1. withHeader = FALSE
      BY <2>2
    <3> QED
      BY <1>15, <1>16, <1>21, <3>1
  <2> QED
    BY <2>1, <2>2
<1> QED
  BY <1>22, <1>23

\* SidecarMeasured: the lists of a sidecar have lengths.
LEMMA SidecarMeasured ==
    ASSUME NEW sidecar, Len(sidecar.blobs) \in Nat, Len(sidecar.commitments) \in Nat,
           Len(sidecar.proofs) \in Nat
    PROVE  Measured(EncodeSidecar(sidecar)) /\ Len(EncodeSidecar(sidecar)) = 3
<1>1. PICK x, y, z : x = SidecarItem(sidecar.blobs) /\ y = SidecarItem(sidecar.commitments)
                     /\ z = SidecarItem(sidecar.proofs)
  OBVIOUS
<1>2. x.len \in Nat /\ y.len \in Nat /\ z.len \in Nat
  <2>1. ASSUME NEW list, Len(list) \in Nat PROVE SidecarItem(list).len \in Nat
    <3>1. SidecarItem(list).len = LengthOfLength(Len(list)) + Len(list)
      BY LengthsNat DEF SidecarItem
    <3>2. LengthOfLength(Len(list)) \in Nat
      BY LengthsNat
    <3> QED
      BY <2>1, <3>1, <3>2
  <2> QED
    BY <1>1, <2>1
<1>3. EncodeSidecar(sidecar) = <<x, y, z>>
  BY <1>1 DEF EncodeSidecar
<1>4. PICK s : s = <<x, y, z>>
  OBVIOUS
<1>5. s \in Seq({x, y, z}) /\ DOMAIN s = 1 .. 3 /\ Len(s) = 3 /\ s[1] = x /\ s[2] = y /\ s[3] = z
  BY <1>4
<1>6. \A k \in 1 .. 3 : s[k].len \in Nat
  BY <1>2, <1>5
<1>7. Measured(s)
  BY <1>5, <1>6 DEF Measured
<1> QED
  BY <1>3, <1>4, <1>5, <1>7

\* PooledLen: what is encoded for the node, and its length.
LEMMA PooledLen ==
    ASSUME NEW tx, Sized(tx), NEW signature, NEW sidecar, Measured(EncodeSidecar(sidecar))
    PROVE  \A withHeader \in BOOLEAN :
             LET pooled == EncodeWithTypeInner(tx, signature, sidecar, withHeader)
             IN  /\ TotalLen(pooled) = PayloadLenWithType(tx, signature, sidecar, withHeader)
                 /\ withHeader => AnnouncesLength(pooled)
<1>1. PICK e, n, c, m : e = EncodeFields(tx) /\ n = FieldsLen(tx) + SignatureLen
                        /\ c = EncodeSidecar(sidecar) /\ m = SidecarLen(sidecar)
  OBVIOUS
<1>2. Measured(e) /\ n \in Nat /\ TotalLen(e) = n - SignatureLen /\ SignatureLen \in Nat
  <2>1. Measured(e) /\ FieldsLen(tx) \in Nat /\ TotalLen(e) = FieldsLen(tx)
    BY <1>1, FieldsLenIs
  <2>2. SignatureLen = 3
    BY DEF SignatureLen
  <2> QED
    BY <1>1, <2>1, <2>2
<1>3. Measured(c) /\ m = TotalLen(c) /\ m \in Nat
  <2>1. Measured(c) /\ m = TotalLen(c)
    BY <1>1 DEF SidecarLen
  <2> QED
    BY <2>1, TotalLenIs
<1>4. PICK h2, i, t : h2 = Header(TRUE, n) /\ i = Item(signature, SignatureLen) /\ t = TypeByte
  OBVIOUS
<1>5. h2.len \in Nat /\ h2.value = n /\ i.len = SignatureLen /\ t.len = 1
  <2>1. TRUE \in BOOLEAN
    OBVIOUS
  <2>2. h2.len = LengthOfLength(n) /\ h2.value = n
    BY ONLY <1>4, <2>1, LengthsNat
  <2>3. i.len = SignatureLen
    BY ONLY <1>4, LengthsNat
  <2>4. t.len = 1
    BY ONLY <1>4, LengthsNat
  <2>5. h2.len \in Nat
    BY ONLY <2>2, LengthsNat
  <2> QED
    BY <2>2, <2>3, <2>4, <2>5
<1>6. PICK len : len = h2.len + h2.value + m
  OBVIOUS
<1>7. len \in Nat
  BY <1>2, <1>3, <1>5, <1>6
<1>8. PICK h1 : h1 = Header(TRUE, len)
  OBVIOUS
<1>9. h1.len \in Nat /\ h1.value = len
  <2>1. TRUE \in BOOLEAN
    OBVIOUS
  <2>2. h1.len = LengthOfLength(len) /\ h1.value = len
    BY ONLY <1>8, <2>1, LengthsNat
  <2>3. h1.len \in Nat
    BY ONLY <2>2, LengthsNat
  <2> QED
    BY <2>2, <2>3
<1>10. PICK u, o : u = <<h1, h2>> \o e /\ o = <<i>>
  OBVIOUS
<1>11. Measured(u) /\ TotalLen(u) = h1.len + h2.len + TotalLen(e)
  BY <1>2, <1>5, <1>9, <1>10, TotalLenTwo
<1>12. Measured(o) /\ TotalLen(o) = SignatureLen
  BY <1>2, <1>5, <1>10, TotalLenOne
<1>13. PICK v : v = u \o o
  OBVIOUS
<1>14. Measured(v) /\ TotalLen(v) = TotalLen(u) + TotalLen(o)
  <2>1. Measured(u \o o) /\ TotalLen(u \o o) = TotalLen(u) + TotalLen(o)
    BY ONLY <1>11, <1>12, TotalLenJoin
  <2> QED
    BY <1>13, <2>1
<1>15. PICK inner : inner = v \o c
  OBVIOUS
<1>16. Measured(inner) /\ TotalLen(inner) = TotalLen(v) + TotalLen(c)
  <2>1. Measured(v \o c) /\ TotalLen(v \o c) = TotalLen(v) + TotalLen(c)
    BY ONLY <1>3, <1>14, TotalLenJoin
  <2> QED
    BY <1>15, <2>1
<1>17. TotalLen(inner) = h1.len + len
  BY <1>2, <1>3, <1>5, <1>6, <1>9, <1>11, <1>12, <1>14, <1>16
<1>18. EncodeInner(tx, signature, sidecar) = inner
  BY <1>1, <1>4, <1>6, <1>8, <1>10, <1>13, <1>15 DEF EncodeInner
<1>19. PayloadLen(tx, signature, sidecar) = h1.len + len
  BY <1>1, <1>4, <1>6, <1>8, <1>9 DEF PayloadLen
<1>20. PICK body : body = <<t>> \o inner
  OBVIOUS
<1>21. Measured(body) /\ TotalLen(body) = t.len + TotalLen(inner)
  BY <1>5, <1>16, <1>20, TotalLenCons
<1>22. PICK total : total = 1 + (h1.len + len)
  OBVIOUS
<1>23. TotalLen(body) = total
  BY <1>5, <1>17, <1>21, <1>22
<1>24. EncodeWithTypeInner(tx, signature, sidecar, FALSE) = body
  <2>1. EncodeWithTypeInner(tx, signature, sidecar, FALSE) = <<>> \o <<t>> \o inner
    BY <1>4, <1>18 DEF EncodeWithTypeInner
  <2>2. <<>> \o <<t>> = <<t>>
    OBVIOUS
  <2> QED
    BY <1>20, <2>1, <2>2
<1>25. PICK s : s = Header(FALSE, total)
  OBVIOUS
<1>26. s.len = LengthOfLength(total) /\ s.value = total /\ s.len \in Nat
  <2>1. FALSE \in BOOLEAN
    OBVIOUS
  <2>2. s.len = LengthOfLength(total) /\ s.value = total
    BY ONLY <1>25, <2>1, LengthsNat
  <2>3. s.len \in Nat
    BY ONLY <2>2, LengthsNat
  <2> QED
    BY <2>2, <2>3
<1>27. /\ TotalLen(<<s>> \o body) = s.len + TotalLen(body)
       /\ AnnouncesLength(<<s>> \o body)
  BY <1>21, <1>23, <1>26, TotalLenCons
<1>28. EncodeWithTypeInner(tx, signature, sidecar, TRUE) = <<s>> \o body
  <2>1. EncodeWithTypeInner(tx, signature, sidecar, TRUE) = <<s>> \o <<t>> \o inner
    BY <1>4, <1>18, <1>19, <1>22, <1>25 DEF EncodeWithTypeInner
  <2>2. PICK S : inner \in Seq(S)
    BY <1>16 DEF Measured
  <2>3. PICK a, b : a = <<s>> /\ b = <<t>>
    OBVIOUS
  <2>4. a \o b \o inner = a \o (b \o inner)
    <3>1. PICK T : T = S \union {s, t}
      OBVIOUS
    <3>2. inner \in Seq(T)
      <4>1. inner = [k \in 1 .. Len(inner) |-> inner[k]] /\ Len(inner) \in Nat
            /\ \A k \in 1 .. Len(inner) : inner[k] \in S
        BY <2>2
      <4> QED
        BY <3>1, <4>1
    <3>3. a \in Seq(T) /\ b \in Seq(T)
      BY <2>3, <3>1
    <3> QED
      BY ONLY <3>2, <3>3
  <2> QED
    BY <1>20, <2>1, <2>3, <2>4
<1>29. /\ PayloadLenWithType(tx, signature, sidecar, FALSE) = total
       /\ PayloadLenWithType(tx, signature, sidecar, TRUE) = LengthOfLength(total) + total
  BY <1>19, <1>22 DEF PayloadLenWithType
<1> SUFFICES ASSUME NEW withHeader \in BOOLEAN
             PROVE  /\ TotalLen(EncodeWithTypeInner(tx, signature, sidecar, withHeader)) =
                         PayloadLenWithType(tx, signature, sidecar, withHeader)
                    /\ withHeader =>
                         AnnouncesLength(EncodeWithTypeInner(tx, signature, sidecar, withHeader))
  OBVIOUS
<1>30. CASE withHeader
  <2>1. withHeader = TRUE
    BY <1>30
  <2> QED
    BY <1>23, <1>26, <1>27, <1>28, <1>29, <2>1
<1>31. CASE ~withHeader
  <2>1. withHeader = FALSE
    BY <1>31
  <2> QED
    BY <1>23, <1>24, <1>29, <2>1
<1> QED
  BY <1>30, <1>31

\* TokensDecode: the decoder finds that the headers announce what follows them.
LEMMA TokensDecode ==
    ASSUME NEW tx, Sized(tx), NEW signature, NEW sidecar, Measured(EncodeSidecar(sidecar)),
           Len(EncodeSidecar(sidecar)) = 3
    PROVE  Decodes(Tokens(tx, signature, sidecar))
<1>1. PICK q : q = Tokens(tx, signature, sidecar)
  OBVIOUS
<1>2. Encodes(q, tx, signature, sidecar)
  BY <1>1, TokensAre
<1>3. PICK S : q \in Seq(S)
  BY <1>2 DEF Encodes
<1>4. PICK e, n, c, i : e = EncodeFields(tx) /\ n = FieldsLen(tx) /\ c = EncodeSidecar(sidecar)
                        /\ i = Item(signature, SignatureLen)
  OBVIOUS
<1>5. /\ Len(q) = 17 /\ q[2] = Header(TRUE, n + SignatureLen)
      /\ q[1] = Header(TRUE, q[2].len + q[2].value + TotalLen(c))
      /\ \A k \in 1 .. 11 : q[2 + k] = e[k]
      /\ q[14] = i /\ q[15] = c[1] /\ q[16] = c[2] /\ q[17] = c[3]
  <2>1. c[1] = SidecarItem(sidecar.blobs) /\ c[2] = SidecarItem(sidecar.commitments)
        /\ c[3] = SidecarItem(sidecar.proofs)
    BY <1>4 DEF EncodeSidecar
  <2> QED
    BY <1>2, <1>4, <2>1 DEF Encodes, SidecarLen
<1>6. Measured(e) /\ n \in Nat /\ TotalLen(e) = n
  BY <1>4, FieldsLenIs
<1>7. PICK A, B : e \in Seq(A) /\ c \in Seq(B)
  BY <1>4, <1>6 DEF Measured
<1>8. Len(e) = 11
  <2>1. e = [k \in 1 .. 11 |-> e[k]]
    <3>1. DOMAIN FieldOrder = 1 .. 11
      BY DEF FieldOrder
    <3>2. DOMAIN e = 1 .. 11
      BY <1>4, <3>1 DEF EncodeFields
    <3> QED
      BY <1>7, <3>2
  <2> QED
    BY <1>7, <2>1
<1>9. PICK T : T = A \union B \union {i, q[2]}
  OBVIOUS
<1>10. e \in Seq(T) /\ c \in Seq(T) /\ Len(c) = 3
  <2>1. A \subseteq T /\ B \subseteq T
    BY <1>9
  <2>2. Len(c) = 3
    BY <1>4
  <2> QED
    BY ONLY <1>7, <2>1, <2>2, Widened
<1>11. PICK o, h : o = <<i>> /\ h = <<q[2]>>
  OBVIOUS
<1>12. o \in Seq(T) /\ h \in Seq(T) /\ Len(o) = 1 /\ Len(h) = 1 /\ o[1] = i /\ h[1] = q[2]
  BY <1>9, <1>11
<1>13. PICK inner : inner = e \o o
  OBVIOUS
<1>14. /\ inner \in Seq(T) /\ Len(inner) = 12
       /\ \A k \in 1 .. 11 : inner[k] = e[k]
       /\ inner[12] = i
  <2>1. e \in Seq(T) /\ o \in Seq(T)
    BY <1>10, <1>12
  <2>2. Len(e) = 11 /\ Len(o) = 1
    BY <1>8, <1>12
  <2>3. /\ e \o o \in Seq(T) /\ Len(e \o o) = 11 + 1
        /\ \A k \in 1 .. 11 : (e \o o)[k] = e[k]
        /\ \A k \in 1 .. 1 : (e \o o)[11 + k] = o[k]
    <3>1. /\ e \o o \in Seq(T) /\ Len(e \o o) = Len(e) + Len(o)
          /\ \A k \in 1 .. Len(e) : (e \o o)[k] = e[k]
          /\ \A k \in 1 .. Len(o) : (e \o o)[Len(e) + k] = o[k]
      BY ONLY <2>1, Joined
    <3> QED
      BY ONLY <2>2, <3>1, Zenon
  <2>4. /\ inner \in Seq(T) /\ Len(inner) = 11 + 1
        /\ \A k \in 1 .. 11 : inner[k] = e[k]
        /\ \A k \in 1 .. 1 : inner[11 + k] = o[k]
    BY ONLY <2>3, <1>13
  <2>5. inner[11 + 1] = o[1]
    BY ONLY <2>4
  <2> QED
    BY ONLY <2>4, <2>5, <1>12
<1>15. PICK all : all = h \o inner
  OBVIOUS
<1>16. /\ all \in Seq(T) /\ Len(all) = 13 /\ all[1] = q[2]
       /\ \A k \in 1 .. 12 : all[1 + k] = inner[k]
  <2>1. h \in Seq(T) /\ inner \in Seq(T)
    BY <1>12, <1>14
  <2>2. Len(h) = 1 /\ Len(inner) = 12
    BY <1>12, <1>14
  <2>3. /\ h \o inner \in Seq(T) /\ Len(h \o inner) = 1 + 12
        /\ \A k \in 1 .. 1 : (h \o inner)[k] = h[k]
        /\ \A k \in 1 .. 12 : (h \o inner)[1 + k] = inner[k]
    <3>1. /\ h \o inner \in Seq(T) /\ Len(h \o inner) = Len(h) + Len(inner)
          /\ \A k \in 1 .. Len(h) : (h \o inner)[k] = h[k]
          /\ \A k \in 1 .. Len(inner) : (h \o inner)[Len(h) + k] = inner[k]
      BY ONLY <2>1, Joined
    <3> QED
      BY ONLY <2>2, <3>1, Zenon
  <2>4. /\ all \in Seq(T) /\ Len(all) = 1 + 12
        /\ \A k \in 1 .. 1 : all[k] = h[k]
        /\ \A k \in 1 .. 12 : all[1 + k] = inner[k]
    BY ONLY <2>3, <1>15
  <2> QED
    BY ONLY <2>4, <1>12
<1>17. PICK rest : rest = all \o c
  OBVIOUS
<1>18. /\ rest \in Seq(T) /\ Len(rest) = 16
       /\ \A k \in 1 .. 13 : rest[k] = all[k]
       /\ \A k \in 1 .. 3 : rest[13 + k] = c[k]
  <2>1. all \in Seq(T) /\ c \in Seq(T)
    BY <1>10, <1>16
  <2>2. Len(all) = 13 /\ Len(c) = 3
    BY <1>10, <1>16
  <2>3. /\ all \o c \in Seq(T) /\ Len(all \o c) = 13 + 3
        /\ \A k \in 1 .. 13 : (all \o c)[k] = all[k]
        /\ \A k \in 1 .. 3 : (all \o c)[13 + k] = c[k]
    <3>1. /\ all \o c \in Seq(T) /\ Len(all \o c) = Len(all) + Len(c)
          /\ \A k \in 1 .. Len(all) : (all \o c)[k] = all[k]
          /\ \A k \in 1 .. Len(c) : (all \o c)[Len(all) + k] = c[k]
      BY ONLY <2>1, Joined
    <3> QED
      BY ONLY <2>2, <3>1, Zenon
  <2>4. /\ rest \in Seq(T) /\ Len(rest) = 13 + 3
        /\ \A k \in 1 .. 13 : rest[k] = all[k]
        /\ \A k \in 1 .. 3 : rest[13 + k] = c[k]
    BY ONLY <2>3, <1>17
  <2> QED
    BY ONLY <2>4
<1>19. \A k \in 1 .. 12 : q[2 + k] = inner[k]
  <2> SUFFICES ASSUME NEW k \in 1 .. 12 PROVE q[2 + k] = inner[k]
    OBVIOUS
  <2>1. CASE k = 12
    BY <1>5, <1>14, <2>1
  <2>2. CASE k \in 1 .. 11
    BY <1>5, <1>14, <2>2
  <2> QED
    BY <2>1, <2>2
<1>20. \A k \in 1 .. 16 : q[1 + k] = rest[k]
  <2> SUFFICES ASSUME NEW k \in 1 .. 16 PROVE q[1 + k] = rest[k]
    OBVIOUS
  <2>1. CASE k = 1
    BY <1>16, <1>18, <2>1
  <2>2. CASE k \in 2 .. 13
    <3>1. PICK j : j = k - 1 /\ j \in 1 .. 12
      BY <2>2
    <3>2. rest[k] = all[1 + j] /\ all[1 + j] = inner[j] /\ q[2 + j] = inner[j]
      BY <1>16, <1>18, <1>19, <2>2, <3>1
    <3> QED
      BY <3>1, <3>2
  <2>3. CASE k \in {14, 15, 16}
    BY <1>5, <1>18, <2>3
  <2> QED
    BY <2>1, <2>2, <2>3
<1>21. SubSeq(q, 3, 14) = inner
  <2>1. PICK a : a = 3
    OBVIOUS
  <2>2. a \in Nat \ {0} /\ a + Len(inner) - 1 <= Len(q)
        /\ \A k \in 1 .. Len(inner) : q[a + k - 1] = inner[k]
    BY <1>5, <1>14, <1>19, <2>1
  <2>3. SubSeq(q, a, a + Len(inner) - 1) = inner
    <3>1. inner \in Seq(T)
      BY <1>14
    <3> QED
      BY ONLY <1>3, <2>2, <3>1, SubSeqIs
  <2> QED
    BY <1>14, <2>1, <2>3
<1>22. SubSeq(q, 2, 17) = rest
  <2>1. PICK a : a = 2
    OBVIOUS
  <2>2. a \in Nat \ {0} /\ a + Len(rest) - 1 <= Len(q)
        /\ \A k \in 1 .. Len(rest) : q[a + k - 1] = rest[k]
    BY <1>5, <1>18, <1>20, <2>1
  <2>3. SubSeq(q, a, a + Len(rest) - 1) = rest
    <3>1. rest \in Seq(T)
      BY <1>18
    <3> QED
      BY ONLY <1>3, <2>2, <3>1, SubSeqIs
  <2> QED
    BY <1>18, <2>1, <2>3
<1>23. /\ i.len = SignatureLen /\ SignatureLen \in Nat /\ q[2].len \in Nat /\ q[2].value = n + SignatureLen
       /\ q[1].value = q[2].len + q[2].value + TotalLen(c)
  <2>1. TRUE \in BOOLEAN
    OBVIOUS
  <2>2. i.len = SignatureLen
    BY ONLY <1>4, LengthsNat
  <2>3. q[2].len = LengthOfLength(n + SignatureLen) /\ q[2].value = n + SignatureLen
    BY ONLY <1>5, <2>1, LengthsNat
  <2>4. q[2].len \in Nat
    BY ONLY <2>3, LengthsNat
  <2>5. q[1].value = q[2].len + q[2].value + TotalLen(c)
    BY ONLY <1>5, <2>1, LengthsNat
  <2>6. SignatureLen \in Nat
    BY DEF SignatureLen
  <2> QED
    BY <2>2, <2>3, <2>4, <2>5, <2>6
<1>24. IsList(q[1]) /\ IsList(q[2])
  BY <1>5 DEF IsList, Header
<1>25. Measured(inner) /\ TotalLen(inner) = n + SignatureLen
  <2>1. Measured(o) /\ TotalLen(o) = SignatureLen
    BY <1>11, <1>23, TotalLenOne
  <2>2. Measured(e \o o) /\ TotalLen(e \o o) = TotalLen(e) + TotalLen(o)
    BY ONLY <1>6, <2>1, TotalLenJoin
  <2> QED
    BY <1>6, <1>13, <2>1, <2>2
<1>26. Measured(all) /\ TotalLen(all) = q[2].len + (n + SignatureLen)
  <2>1. PICK x : x = q[2]
    OBVIOUS
  <2>2. x.len \in Nat
    BY <1>23, <2>1
  <2>3. Measured(<<x>> \o inner) /\ TotalLen(<<x>> \o inner) = x.len + TotalLen(inner)
    BY ONLY <1>25, <2>2, TotalLenCons
  <2> QED
    BY <1>11, <1>15, <1>25, <2>1, <2>3
<1>27. TotalLen(rest) = TotalLen(all) + TotalLen(c)
  <2>1. Measured(c)
    BY <1>4
  <2>2. TotalLen(all \o c) = TotalLen(all) + TotalLen(c)
    BY ONLY <1>26, <2>1, TotalLenJoin
  <2> QED
    BY <1>17, <2>2
<1>28. TotalLen(rest) = q[1].value
  BY <1>23, <1>26, <1>27
<1>29. FirstField = 3 /\ SignatureAt = 14 /\ SignatureAt + 3 = 17
  BY DEF FirstField, SignatureAt, DecodeOrder
<1>30. Decodes(q)
  BY <1>21, <1>22, <1>23, <1>24, <1>25, <1>28, <1>29 DEF Decodes
<1> QED
  BY <1>1, <1>30

\* SelectedIs: the selected rows are a nonempty sequence of intents.
LEMMA SelectedIs ==
    ASSUME NEW selected \in (SUBSET Intents) \ {{}}, NEW ids \in FetchMany(selected)
    PROVE  ids \in Seq(Intents) /\ ids # <<>>
<1>1. selected \subseteq Intents /\ selected # {} /\ IsFiniteSet(selected)
  <2>1. selected \subseteq Intents /\ selected # {}
    OBVIOUS
  <2>2. IsFiniteSet(Intents)
    BY BlobsAssumption
  <2> QED
    BY <2>1, <2>2, FS_Subset
<1>2. PICK n : n = Cardinality(selected)
  OBVIOUS
<1>3. n \in Nat /\ n # 0
  BY <1>1, <1>2, FS_CardinalityType, FS_EmptySet
<1>4. ids \in [1 .. n -> selected]
  BY <1>2 DEF FetchMany, SetToSeqs
<1>5. DOMAIN ids = 1 .. n /\ ids = [k \in 1 .. n |-> ids[k]] /\ \A k \in 1 .. n : ids[k] \in Intents
  BY <1>1, <1>4
<1>6. ids \in Seq(Intents) /\ Len(ids) = n
  BY <1>3, <1>5
<1> QED
  BY <1>3, <1>6

Addresses == {From[i] : i \in Intents}

\* ParticipantsWritten: the participants of a selection can be written.
LEMMA ParticipantsWritten ==
    ASSUME NEW ids \in Seq(Intents)
    PROVE  /\ ParticipantsOf(ids) \in Seq(Written(Addresses))
           /\ Len(ParticipantsOf(ids)) = Len(ids)
           /\ \A k \in 1 .. Len(ids) : ParticipantsOf(ids)[k].data_len = Len(Data[ids[k]])
<1>1. PICK n : n = Len(ids) /\ n \in Nat /\ DOMAIN ids = 1 .. n /\ \A k \in 1 .. n : ids[k] \in Intents
  OBVIOUS
<1>2. PICK ps : ps = ParticipantsOf(ids)
  OBVIOUS
<1>3. ps = [k \in 1 .. n |-> [address |-> From[ids[k]], data_len |-> Len(Data[ids[k]])]]
  BY <1>1, <1>2 DEF ParticipantsOf
<1>4. ASSUME NEW i \in Intents
      PROVE  [address |-> From[i], data_len |-> Len(Data[i])] \in Written(Addresses)
  <2>1. PICK d : d = Data[i]
    OBVIOUS
  <2>2. d \in Seq(ToSet(d)) /\ Len(d) < Place[LenDigits] /\ LenDigits \in Nat
    BY <2>1, BlobsAssumption
  <2>3. Len(d) \in Nat
    BY <2>2
  <2>4. Place[LenDigits] \in Nat
    BY <2>2, PlaceIs
  <2>5. Len(d) \in 0 .. Place[LenDigits] - 1
    BY <2>2, <2>3, <2>4
  <2>6. From[i] \in Addresses
    BY DEF Addresses
  <2> QED
    BY <2>1, <2>5, <2>6 DEF Written
<1>5. PICK W : W = Written(Addresses)
  OBVIOUS
<1>6. \A k \in 1 .. n : ps[k] \in W
  BY <1>1, <1>3, <1>4, <1>5
<1>7. ps = [k \in 1 .. n |-> ps[k]]
  BY <1>3
<1>8. ps \in Seq(W) /\ Len(ps) = n
  BY <1>1, <1>6, <1>7
<1>9. \A k \in 1 .. n : ps[k].data_len = Len(Data[ids[k]])
  BY <1>3
<1> QED
  BY <1>1, <1>2, <1>5, <1>8, <1>9

\* The bytes that intents have, and the data of each of ids.
Bytes == UNION {ToSet(Data[i]) : i \in Intents}

DataParts(ids) == [k \in DOMAIN ids |-> Data[ids[k]]]

\* DataIs: the data of a selection is a sequence of the bytes of its intents.
LEMMA DataIs ==
    ASSUME NEW ids \in Seq(Intents)
    PROVE  /\ DataParts(ids) \in Seq(Seq(Bytes)) /\ Len(DataParts(ids)) = Len(ids)
           /\ DataOf(ids) = FlattenSeq(DataParts(ids)) /\ DataOf(ids) \in Seq(Bytes)
           /\ \A i \in Intents : Data[i] \in Seq(Bytes)
<1>1. PICK n : n = Len(ids) /\ n \in Nat /\ DOMAIN ids = 1 .. n /\ \A k \in 1 .. n : ids[k] \in Intents
  OBVIOUS
<1>2. ASSUME NEW i \in Intents PROVE Data[i] \in Seq(Bytes)
  <2>1. PICK d, A : d = Data[i] /\ A = ToSet(d)
    OBVIOUS
  <2>2. d \in Seq(A)
    BY <2>1, BlobsAssumption
  <2>3. A \subseteq Bytes
    BY <2>1 DEF Bytes
  <2> QED
    BY ONLY <2>1, <2>2, <2>3, Widened
<1>3. PICK T : T = Seq(Bytes)
  OBVIOUS
<1>4. PICK p : p = DataParts(ids)
  OBVIOUS
<1>5. p = [k \in 1 .. n |-> Data[ids[k]]]
  BY <1>1, <1>4 DEF DataParts
<1>6. p \in Seq(T) /\ Len(p) = n
  BY <1>1, <1>2, <1>3, <1>5
<1>7. DataOf(ids) = FlattenSeq(p)
  BY <1>4, Zenon DEF DataOf, Concat, DataParts
<1>8. FlattenSeq(p) \in Seq(Bytes)
  BY <1>3, <1>6, FlattenIs
<1> QED
  BY <1>1, <1>2, <1>3, <1>4, <1>6, <1>7, <1>8

\* PayloadSized: the fields of what is sent have lengths, and so have the sidecar's lists.
LEMMA PayloadSized ==
    ASSUME NEW ids \in Seq(Intents), ids # <<>>, NEW nonce, NEW fee
    PROVE  /\ Sized(Payload(ids, nonce, fee))
           /\ Measured(EncodeSidecar(Sidecar(Payload(ids, nonce, fee))))
           /\ Len(EncodeSidecar(Sidecar(Payload(ids, nonce, fee)))) = 3
<1>1. PICK payload : payload = Payload(ids, nonce, fee)
  OBVIOUS
<1>2. PICK input, blob : /\ input = EncodeBlobTxData(ParticipantsOf(ids))
                         /\ blob = EncodeDataToBlob(Padded(DataOf(ids)))
  OBVIOUS
<1>3. payload.input = input /\ payload.blob_versioned_hashes = <<blob>>
  BY <1>1, <1>2 DEF Payload
<1>4. Len(input) \in Nat
  <2>1. PICK ps, A : ps = ParticipantsOf(ids) /\ A = Addresses
    OBVIOUS
  <2>2. ps \in Seq(Written(A)) /\ ps # <<>>
    <3>1. ps \in Seq(Written(A)) /\ Len(ps) = Len(ids)
      BY <2>1, ParticipantsWritten
    <3> QED
      BY <3>1
  <2>3. EncodeBlobTxData(ps) \in Seq(Nat \union A)
    BY ONLY <2>2, ReadsWritten
  <2> QED
    BY <1>2, <2>1, <2>3
<1>5. \A n : LengthOfLength(n) \in Nat
  BY LengthsNat
<1>6. Length("input", payload["input"]) \in Nat
  BY <1>3, <1>4, <1>5 DEF Length
<1>7. Length("blob_versioned_hashes", payload["blob_versioned_hashes"]) \in Nat
  <2>1. Len(<<blob>>) = 1
    OBVIOUS
  <2> QED
    BY <1>3, <1>5, <2>1 DEF Length
<1>8. ASSUME NEW field, field \notin {"input", "blob_versioned_hashes"}, NEW v
      PROVE  Length(field, v) \in Nat
  BY <1>8 DEF Length
<1>9. Sized(payload)
  <2> SUFFICES ASSUME NEW k \in 1 .. 11
               PROVE  Length(FieldOrder[k], payload[FieldOrder[k]]) \in Nat
    BY DEF Sized
  <2>1. PICK field : field = FieldOrder[k]
    OBVIOUS
  <2>2. CASE field = "input"
    BY <1>6, <2>1, <2>2
  <2>3. CASE field = "blob_versioned_hashes"
    BY <1>7, <2>1, <2>3
  <2>4. CASE field \notin {"input", "blob_versioned_hashes"}
    BY <1>8, <2>1, <2>4
  <2> QED
    BY <2>2, <2>3, <2>4
<1>10. PICK sidecar : sidecar = Sidecar(payload)
  OBVIOUS
<1>11. /\ Len(sidecar.blobs) \in Nat /\ Len(sidecar.commitments) \in Nat
       /\ Len(sidecar.proofs) \in Nat
  <2>1. Len(<<blob>>) \in Nat
    OBVIOUS
  <2> QED
    BY <1>3, <1>10, <2>1 DEF Sidecar
<1>12. Measured(EncodeSidecar(sidecar)) /\ Len(EncodeSidecar(sidecar)) = 3
  BY ONLY <1>11, SidecarMeasured
<1> QED
  BY <1>1, <1>9, <1>10, <1>12

\* AgreesHere: what is made of a nonempty selection that fits a blob.
LEMMA AgreesHere ==
    ASSUME NEW ids \in Seq(Intents), ids # <<>>, Len(DataOf(ids)) <= Capacity,
           NEW nonce, NEW fee, NEW tx, tx = NodeTx(ConstructBlobTx(ids, nonce, fee).networking)
    PROVE  Agrees(ids, tx)
<1>1. PICK payload, signature, sidecar :
        payload = Payload(ids, nonce, fee) /\ signature = Signature(payload)
        /\ sidecar = Sidecar(payload)
  OBVIOUS
<1>2. PICK sent : sent = ConstructBlobTx(ids, nonce, fee)
  OBVIOUS
<1>3. PICK input, blob : /\ input = EncodeBlobTxData(ParticipantsOf(ids))
                         /\ blob = EncodeDataToBlob(Padded(DataOf(ids)))
  OBVIOUS
<1>4. /\ tx = [type |-> BlobTxType, input |-> input, nonce |-> nonce,
               max_fee_per_blob_gas |-> fee, from |-> Wallet, blobs |-> <<blob>>]
      /\ NodeHash(sent.networking) = sent.tx_hash
  BY <1>2, <1>3, NodeTxIs, Zenon
<1>5. /\ tx.input = input /\ tx.nonce = nonce /\ tx.max_fee_per_blob_gas = fee
      /\ tx.from = Wallet /\ tx.blobs[1] = blob
  BY <1>4
<1>6. /\ Sized(payload) /\ Measured(EncodeSidecar(sidecar)) /\ Len(EncodeSidecar(sidecar)) = 3
  BY <1>1, PayloadSized
<1>7. Decodes(Tail(sent.networking))
  <2>1. sent.networking = EncodeWithTypeInner(payload, signature, sidecar, FALSE)
    BY <1>1, <1>2 DEF ConstructBlobTx
  <2>2. Decodes(Tokens(payload, signature, sidecar))
    BY ONLY <1>6, TokensDecode
  <2> QED
    BY <2>1, <2>2 DEF Tokens
<1>8. FromTx(tx) = sent.tx_summary
  <2>1. PICK ps, A : ps = ParticipantsOf(ids) /\ A = Addresses
    OBVIOUS
  <2>2. ps \in Seq(Written(A)) /\ ps # <<>>
    <3>1. ps \in Seq(Written(A)) /\ Len(ps) = Len(ids)
      BY <2>1, ParticipantsWritten
    <3> QED
      BY <3>1
  <2>3. ReadAll(EncodeBlobTxData(ps)) = ps
    BY ONLY <2>2, ReadsWritten
  <2>4. PICK rec : rec = [from |-> Wallet, nonce |-> nonce, max_fee_per_blob_gas |-> fee]
    OBVIOUS
  <2>5. sent.tx_summary = Summary(ps, rec)
    BY <1>2, <2>1, <2>4 DEF ConstructBlobTx
  <2>6. FromTx(tx) = Summary(ps, tx)
    BY <1>3, <1>5, <2>1, <2>3 DEF FromTx
  <2>7. tx.from = rec.from /\ tx.nonce = rec.nonce
        /\ tx.max_fee_per_blob_gas = rec.max_fee_per_blob_gas
    BY <1>5, <2>4
  <2>8. Summary(ps, tx) = Summary(ps, rec)
    BY ONLY <2>7 DEF Summary
  <2> QED
    BY <2>5, <2>6, <2>8
<1>9. DecodeBlobToData(tx.blobs[1]) = Padded(DataOf(ids))
  <2>1. PICK data, S : data = DataOf(ids) /\ S = Bytes
    OBVIOUS
  <2>2. data \in Seq(S) /\ Len(data) <= Capacity
    BY <2>1, DataIs
  <2>3. Padded(data) \in Seq(S \union {0}) /\ Len(Padded(data)) = Capacity
    BY ONLY <2>2, PaddedFills
  <2>4. PICK d, T : d = Padded(data) /\ T = S \union {0}
    OBVIOUS
  <2>5. d \in Seq(T) /\ Len(d) = Capacity
    BY <2>3, <2>4
  <2>6. DecodeBlobToData(EncodeDataToBlob(d)) = d
    BY ONLY <2>5, BlobDecodes
  <2> QED
    BY <1>3, <1>5, <2>1, <2>4, <2>6
<1>10. /\ TotalLen(EncodeForSigning(payload)) = PayloadLenForSignature(payload)
       /\ \A withHeader \in BOOLEAN :
            LET signed == EncodeWithSignature(payload, signature, withHeader)
            IN  /\ TotalLen(signed) = PayloadLenWithSignature(payload, withHeader)
                /\ withHeader => AnnouncesLength(signed)
  BY ONLY <1>6, SignedLen
<1>11. \A withHeader \in BOOLEAN :
         LET pooled == EncodeWithTypeInner(payload, signature, sidecar, withHeader)
         IN  /\ TotalLen(pooled) = PayloadLenWithType(payload, signature, sidecar, withHeader)
             /\ withHeader => AnnouncesLength(pooled)
  BY ONLY <1>6, PooledLen
<1>12. \A withHeader \in BOOLEAN :
         LET signed == EncodeWithSignature(payload, signature, withHeader)
             pooled == EncodeWithTypeInner(payload, signature, sidecar, withHeader)
         IN  /\ TotalLen(signed) = PayloadLenWithSignature(payload, withHeader)
             /\ TotalLen(pooled) = PayloadLenWithType(payload, signature, sidecar, withHeader)
             /\ withHeader => AnnouncesLength(signed) /\ AnnouncesLength(pooled)
  BY ONLY <1>10, <1>11, Zenon
<1>13. /\ sent = ConstructBlobTx(ids, tx.nonce, tx.max_fee_per_blob_gas)
       /\ payload = Payload(ids, tx.nonce, tx.max_fee_per_blob_gas)
  BY <1>1, <1>2, <1>5
<1> QED
  BY ONLY <1>1, <1>4, <1>7, <1>8, <1>9, <1>10, <1>12, <1>13, Zenon DEF Agrees

\* NodeAgreesStep: every transaction the sender adds is one of these.
LEMMA NodeAgreesStep ==
    ASSUME TreeInv, [Next]_vars
    PROVE  \A t \in DOMAIN txs' \ DOMAIN txs :
             txs'[t].ids # <<>> => Agrees(txs'[t].ids, txs'[t].tx)
<1>1. PICK T : txs \in Seq(T)
  BY DEF TreeInv, TxsOK
<1>2. ASSUME NEW r, txs' = Append(txs, r), NEW t \in DOMAIN txs' \ DOMAIN txs
      PROVE  txs'[t] = r
  BY <1>1, <1>2
<1>3. ASSUME NEW tx, txs' = Append(txs, [ids |-> <<>>, tx |-> tx]),
             NEW t \in DOMAIN txs' \ DOMAIN txs
      PROVE  txs'[t].ids = <<>>
  BY <1>2, <1>3
<1>4. ASSUME UNCHANGED txs PROVE DOMAIN txs' \ DOMAIN txs = {}
  BY <1>4
<1> SUFFICES ASSUME NEW t \in DOMAIN txs' \ DOMAIN txs, txs'[t].ids # <<>>
             PROVE  Agrees(txs'[t].ids, txs'[t].tx)
  OBVIOUS
<1>5. ASSUME NEW selected \in (SUBSET Intents) \ {{}}, NEW ids \in FetchMany(selected),
             SendBlobTx(ids)
      PROVE  Agrees(txs'[t].ids, txs'[t].tx)
  <2>1. PICK nonce, fee, tx : nonce = NextNonce /\ fee = FeeAt(head)
          /\ tx = NodeTx(ConstructBlobTx(ids, nonce, fee).networking)
    OBVIOUS
  <2>2. Len(DataOf(ids)) <= Capacity /\ txs' = Append(txs, [ids |-> ids, tx |-> tx])
    BY <1>5, <2>1 DEF SendBlobTx
  <2>3. txs'[t] = [ids |-> ids, tx |-> tx]
    BY <1>2, <2>2
  <2>4. ids \in Seq(Intents) /\ ids # <<>>
    BY <1>5, SelectedIs
  <2>5. Agrees(ids, tx)
    BY ONLY <2>1, <2>2, <2>4, AgreesHere
  <2> QED
    BY <2>3, <2>5
<1>6. \/ UNCHANGED txs
      \/ \E tx : txs' = Append(txs, [ids |-> <<>>, tx |-> tx])
      \/ \E selected \in (SUBSET Intents) \ {{}} : \E ids \in FetchMany(selected) : SendBlobTx(ids)
  BY DEF Next, Node, Sender, Reader, vars, MineBlock, SwitchHead, ForeignTx, SendSelfTransfer,
         LookUpTx, FetchBlob, FetchFails
<1> QED
  BY <1>3, <1>4, <1>5, <1>6

\* NodeAgreesHolds: of whatever selection, with whatever nonce and fee, the node decodes the
\* hash, sender, summary and data that the bundler registers (construct_blob_tx), and every
\* header and buffer has the length computed for it beforehand.
THEOREM NodeAgreesHolds == Spec => NodeAgrees
<1>1. TreeInv /\ [Next]_vars =>
        [\A t \in DOMAIN txs' \ DOMAIN txs :
           txs'[t].ids # <<>> => Agrees(txs'[t].ids, txs'[t].tx)]_vars
  BY NodeAgreesStep
<1> QED
  BY <1>1, TreeInvHolds, PTL DEF Spec, NodeAgrees

\* UsedBytesIs: the bytes that participants use are a sum.
LEMMA UsedBytesIs ==
    ASSUME NEW n \in Nat, NEW ps, DOMAIN ps = 1 .. n, NEW f,
           \A k \in 1 .. n : f[k] = ps[k].data_len
    PROVE  UsedBytes(ps) = Total(f, 1 .. n)
<1> DEFINE D == DOMAIN ps
           iter == CHOOSE h : h = [r \in SUBSET D |->
                     IF r = {} THEN 0
                     ELSE ps[CHOOSE x \in r : TRUE].data_len + h[r \ {CHOOSE x \in r : TRUE}]]
<1>1. UsedBytes(ps) = iter[D]
  BY DEF UsedBytes, FoldSeq, FoldFunction, FoldFunctionOnSet, MapThenFoldSet
<1>2. IsFiniteSet(D)
  <2>1. IsFiniteSet(1 .. n)
    BY FS_Interval
  <2> QED
    BY <2>1
<1>3. PICK sum : Sums(sum, f, D)
  BY <1>2, SumsExist
<1>4. ASSUME NEW r \in SUBSET D, r # {}
      PROVE  f[Chosen(r)] = ps[Chosen(r)].data_len
  BY <1>4, AnyIn
<1>5. D = 1 .. n
  OBVIOUS
<1> HIDE DEF D
<1>6. sum = [r \in SUBSET D |-> IF r = {} THEN 0
                                ELSE ps[Chosen(r)].data_len + sum[r \ {Chosen(r)}]]
  BY <1>3, <1>4 DEF Sums
<1>7. iter = [r \in SUBSET D |-> IF r = {} THEN 0
                                 ELSE ps[Chosen(r)].data_len + iter[r \ {Chosen(r)}]]
  BY <1>6 DEF Chosen
<1> HIDE DEF iter
<1>8. Sums(iter, f, D)
  BY <1>4, <1>7 DEF Sums
<1>9. Total(f, D) = iter[D]
  BY <1>2, <1>8, TotalIs
<1> QED
  BY <1>1, <1>5, <1>9

Posted(ids) == [k \in DOMAIN ids |-> [address |-> From[ids[k]], data |-> Data[ids[k]]]]

\* PartOfBlob: the bytes of the blob from where a participant's data starts to where it
\* ends are the data.
LEMMA PartOfBlob ==
    ASSUME NEW ids \in Seq(Intents), Len(DataOf(ids)) <= Capacity, NEW k \in 1 .. Len(ids)
    PROVE  /\ Start(ParticipantsOf(ids), k) \in Nat
           /\ End(ParticipantsOf(ids), k) \in Nat
           /\ End(ParticipantsOf(ids), k) <= Capacity
           /\ SubSeq(Padded(DataOf(ids)), Start(ParticipantsOf(ids), k) + 1,
                     End(ParticipantsOf(ids), k)) = Data[ids[k]]
<1>1. PICK ps, parts, n : ps = ParticipantsOf(ids) /\ parts = DataParts(ids) /\ n = Len(ids)
  OBVIOUS
<1>2. n \in Nat /\ k \in 1 .. n /\ \A j \in 1 .. n : ids[j] \in Intents
  BY <1>1
<1>3. ps \in Seq(Written(Addresses)) /\ Len(ps) = n
      /\ \A j \in 1 .. n : ps[j].data_len = Len(Data[ids[j]])
  BY <1>1, ParticipantsWritten
<1>4. PICK S : S = Bytes
  OBVIOUS
<1>5. parts \in Seq(Seq(S)) /\ Len(parts) = n /\ DataOf(ids) = FlattenSeq(parts)
  BY <1>1, <1>4, DataIs
<1>6. \A j \in 1 .. n : parts[j] = Data[ids[j]]
  BY <1>1, <1>2 DEF DataParts
<1>7. PICK lens : lens = [j \in 1 .. n |-> Len(parts[j])]
  OBVIOUS
<1>8. \A j \in 1 .. n : lens[j] = Len(parts[j]) /\ lens[j] = ps[j].data_len
  BY <1>3, <1>6, <1>7
<1>9. PICK m : m = k - 1
  OBVIOUS
<1>10. m \in Nat /\ m <= n /\ \A j \in 1 .. m : j \in 1 .. n
  BY <1>2, <1>9
<1>11. PICK before : before = SubSeq(ps, 1, m)
  OBVIOUS
<1>12. DOMAIN before = 1 .. m /\ \A j \in 1 .. m : before[j] = ps[j]
  BY <1>3, <1>10, <1>11
<1>13. Start(ps, k) = Total(lens, 1 .. m)
  <2>1. \A j \in 1 .. m : lens[j] = before[j].data_len
    BY <1>8, <1>10, <1>12
  <2>2. UsedBytes(before) = Total(lens, 1 .. m)
    BY ONLY <1>10, <1>12, <2>1, UsedBytesIs
  <2> QED
    BY <1>9, <1>11, <2>2 DEF Start
<1>14. PICK from : from = Total(lens, 1 .. m)
  OBVIOUS
<1>15. PICK data : data = DataOf(ids)
  OBVIOUS
<1>16. PICK d : d = Data[ids[k]]
  OBVIOUS
<1>17. d \in Seq(S) /\ d = parts[k]
  BY <1>2, <1>5, <1>6, <1>16
<1>18. from \in Nat /\ from + Len(d) <= Len(data) /\ SubSeq(data, from + 1, from + Len(d)) = d
  <2>1. k \in 1 .. Len(parts) /\ \A j \in 1 .. Len(parts) : lens[j] = Len(parts[j])
    BY <1>2, <1>5, <1>8
  <2>2. from = Total(lens, 1 .. k - 1) /\ parts \in Seq(Seq(S))
    BY <1>5, <1>9, <1>14
  <2>3. /\ from \in Nat /\ from + Len(parts[k]) <= Len(FlattenSeq(parts))
        /\ SubSeq(FlattenSeq(parts), from + 1, from + Len(parts[k])) = parts[k]
    BY ONLY <2>1, <2>2, FlattenPart
  <2> QED
    BY <1>5, <1>15, <1>17, <2>3
<1>19. End(ps, k) = from + Len(d)
  BY <1>2, <1>8, <1>13, <1>14, <1>17 DEF End
<1>20. data \in Seq(S) /\ Len(data) <= Capacity /\ Len(data) \in Nat /\ Capacity \in Nat
  BY <1>4, <1>15, DataIs, Sizes
<1>21. PICK blob, T : blob = Padded(data) /\ T = S \union {0}
  OBVIOUS
<1>22. /\ blob \in Seq(T) /\ Len(blob) = Capacity
       /\ \A j \in 1 .. Len(data) : blob[j] = data[j]
  BY <1>20, <1>21, PaddedFills
<1>23. PICK e : e = Len(d) /\ e \in Nat
  BY <1>17
<1>24. ASSUME NEW j \in 1 .. e PROVE blob[(from + 1) + j - 1] = d[j]
  <2>1. from + j \in 1 .. Len(data) /\ (from + 1) + j - 1 = from + j
    BY <1>18, <1>20, <1>23
  <2>2. PICK part : part = SubSeq(data, from + 1, from + e)
    OBVIOUS
  <2>3. part[j] = data[from + j]
    <3>1. data \in Seq(S) /\ from \in Nat /\ e \in Nat /\ from + e <= Len(data)
      BY <1>18, <1>20, <1>23
    <3>2. \A i \in 1 .. e : SubSeq(data, from + 1, from + e)[i] = data[from + i]
      BY ONLY <3>1, PartElements
    <3> QED
      BY <2>2, <3>2
  <2> QED
    BY <1>18, <1>22, <1>23, <2>1, <2>2, <2>3
<1>25. SubSeq(blob, from + 1, from + e) = d
  <2>1. PICK a : a = from + 1
    OBVIOUS
  <2>2. a \in Nat \ {0} /\ a + Len(d) - 1 <= Len(blob) /\ a + Len(d) - 1 = from + e
    BY <1>18, <1>20, <1>22, <1>23, <2>1
  <2>3. \A j \in 1 .. Len(d) : blob[a + j - 1] = d[j]
    BY <1>23, <1>24, <2>1
  <2>4. blob \in Seq(T) /\ d \in Seq(S)
    BY <1>17, <1>22
  <2>5. SubSeq(blob, a, a + Len(d) - 1) = d
    BY ONLY <2>2, <2>3, <2>4, SubSeqIs
  <2> QED
    BY <2>1, <2>2, <2>5
<1>26. from + e \in Nat /\ from + e <= Capacity
  BY <1>18, <1>20, <1>23
<1> QED
  BY <1>1, <1>13, <1>14, <1>15, <1>16, <1>18, <1>19, <1>21, <1>23, <1>25, <1>26

\* ResponseIsPosted: what is served of the blob of a selection is what was posted.
LEMMA ResponseIsPosted ==
    ASSUME NEW ids \in Seq(Intents), Len(DataOf(ids)) <= Capacity
    PROVE  Response(ParticipantsOf(ids), Padded(DataOf(ids))) = Posted(ids)
<1>1. PICK ps, blob, n : ps = ParticipantsOf(ids) /\ blob = Padded(DataOf(ids)) /\ n = Len(ids)
  OBVIOUS
<1>2. DOMAIN ids = 1 .. n /\ DOMAIN ps = 1 .. n
  BY <1>1 DEF ParticipantsOf
<1>3. Len(blob) = Capacity
  <2>1. PICK data, S : data = DataOf(ids) /\ S = Bytes
    OBVIOUS
  <2>2. data \in Seq(S) /\ Len(data) <= Capacity
    BY <2>1, DataIs
  <2>3. Len(Padded(data)) = Capacity
    BY ONLY <2>2, PaddedFills
  <2> QED
    BY <1>1, <2>1, <2>3
<1>4. ASSUME NEW k \in 1 .. n
      PROVE  /\ ps[k].address = From[ids[k]]
             /\ SubSeq(blob, Start(ps, k) + 1, Min({End(ps, k), Len(blob)})) = Data[ids[k]]
  <2>1. ps[k].address = From[ids[k]]
    BY <1>1, <1>2 DEF ParticipantsOf
  <2>2. PICK end : end = End(ps, k)
    OBVIOUS
  <2>3. end \in Nat /\ end <= Capacity /\ SubSeq(blob, Start(ps, k) + 1, end) = Data[ids[k]]
    BY <1>1, <2>2, PartOfBlob
  <2>4. Min({end, Len(blob)}) = end
    <3>1. Capacity \in Nat
      BY Sizes
    <3>2. PICK c : c = Capacity
      OBVIOUS
    <3>3. Min({end, c}) \in {end, c} /\ \A y \in {end, c} : Min({end, c}) <= y
      <4>1. \E x \in {end, c} : \A y \in {end, c} : x <= y
        <5>1. \A y \in {end, c} : end <= y
          BY <2>3, <3>1, <3>2
        <5> QED
          BY <5>1
      <4> QED
        BY <4>1 DEF Min
    <3> QED
      BY <1>3, <2>3, <3>1, <3>2, <3>3
  <2> QED
    BY <2>1, <2>2, <2>3, <2>4
<1>5. Response(ps, blob) = [k \in 1 .. n |->
        [address |-> ps[k].address,
         data |-> SubSeq(blob, Start(ps, k) + 1, Min({End(ps, k), Len(blob)}))]]
  BY <1>2 DEF Response
<1>6. Posted(ids) = [k \in 1 .. n |-> [address |-> From[ids[k]], data |-> Data[ids[k]]]]
  BY <1>2 DEF Posted
<1>7. Response(ps, blob) = Posted(ids)
  BY ONLY <1>4, <1>5, <1>6
<1> QED
  BY <1>1, <1>7

BlobOf(ids) == EncodeDataToBlob(Padded(DataOf(ids)))

\* A transaction of the bundler, with the intents in it
OwnOK(r) ==
    /\ r.ids \in Seq(Intents) /\ r.ids # <<>> /\ Len(DataOf(r.ids)) <= Capacity
    /\ r.tx.type = BlobTxType /\ r.tx.from = Wallet
    /\ r.tx.input = EncodeBlobTxData(ParticipantsOf(r.ids))
    /\ r.tx.blobs = <<BlobOf(r.ids)>>

\* Any other has no blobs, or is a blob transaction of somebody else.
OtherOK(r) ==
    /\ r.ids = <<>>
    /\ \/ r.tx.type # BlobTxType /\ r.tx.blobs = <<>>
       \/ r.tx.type = BlobTxType /\ r.tx.from = Foreigner /\ Len(r.tx.blobs) > 0

TxsAre == \A t \in DOMAIN txs : OwnOK(txs[t]) \/ OtherOK(txs[t])

\* No slot has two blocks, and no block a transaction twice.
BlocksOK ==
    /\ head \in DOMAIN blocks
    /\ \A b \in DOMAIN blocks : blocks[b].slot \in Nat
    /\ \A a, b \in DOMAIN blocks : blocks[a].slot = blocks[b].slot => a = b
    /\ \A b \in DOMAIN blocks : \A j, k \in DOMAIN blocks[b].txs :
         blocks[b].txs[j] = blocks[b].txs[k] => j = k

\* What is read is a transaction of the block that was looked up.
ReaderOK ==
    /\ request = <<>> \/ \E r : /\ request = <<r>> /\ r.block \in DOMAIN blocks
                                /\ r.tx \in ToSet(blocks[r.block].txs)
    /\ DOMAIN blobCache \subseteq DOMAIN txs

ServeInv == TreeInv /\ TxsAre /\ BlocksOK /\ ReaderOK

\* BlobsAre: where the blobs of a block come from.
LEMMA BlobsAre ==
    ASSUME TreeInv, NEW b \in DOMAIN blocks
    PROVE  \E S : /\ BlobsOf(b) \in Seq(Seq(S)) /\ BlobsIn(b) = FlattenSeq(BlobsOf(b))
                  /\ BlobsIn(b) \in Seq(S)
                  /\ Len(BlobsOf(b)) = Len(blocks[b].txs)
                  /\ \A k \in 1 .. Len(blocks[b].txs) : BlobsOf(b)[k] = Tx(blocks[b].txs[k]).blobs
<1>1. PICK S : \A t \in DOMAIN txs : Tx(t).blobs \in Seq(S)
  BY DEF TreeInv, TxsOK
<1>2. PICK ts, n : ts = blocks[b].txs /\ n = Len(ts)
  OBVIOUS
<1>3. ts \in Seq(DOMAIN txs)
  BY <1>2 DEF TreeInv, BlockOK
<1>4. n \in Nat /\ DOMAIN ts = 1 .. n /\ \A k \in 1 .. n : ts[k] \in DOMAIN txs
  BY <1>2, <1>3
<1>5. PICK s : s = BlobsOf(b)
  OBVIOUS
<1>6. s = [k \in 1 .. n |-> Tx(ts[k]).blobs]
  BY <1>2, <1>4, <1>5 DEF BlobsOf
<1>7. PICK T : T = Seq(S)
  OBVIOUS
<1>8. \A k \in 1 .. n : Tx(ts[k]).blobs \in T
  BY <1>1, <1>4, <1>7
<1>9. s \in Seq(T) /\ Len(s) = n
  BY <1>4, <1>6, <1>8
<1>10. BlobsIn(b) = FlattenSeq(s)
  BY <1>5, Zenon DEF BlobsIn, Concat, BlobsOf
<1>11. FlattenSeq(s) \in Seq(S)
  BY <1>7, <1>9, FlattenIs
<1>12. \A k \in 1 .. n : s[k] = Tx(ts[k]).blobs
  BY <1>6
<1> QED
  BY <1>2, <1>5, <1>7, <1>9, <1>10, <1>11, <1>12

\* OneBlock: the slot of a block is found again from its time, and has no other block.
LEMMA OneBlock ==
    ASSUME ServeInv, NEW b \in DOMAIN blocks
    PROVE  BlockAt(SlotOfBlock(b)) \subseteq {b} /\ (b \in Canonical => BlockAt(SlotOfBlock(b)) = {b})
<1>1. PICK slot, g, p : slot = blocks[b].slot /\ g = GenesisTime /\ p = SecondsPerSlot
  OBVIOUS
<1>2. slot \in Nat /\ g \in Nat /\ p \in Nat \ {0}
  BY <1>1, BlobsAssumption DEF ServeInv, BlocksOK
<1>3. SlotOfBlock(b) = slot
  <2>1. TimeOf(b) = g + p * slot
    BY ONLY <1>1 DEF TimeOf
  <2>2. PICK x : x = TimeOf(b) - g
    OBVIOUS
  <2>3. x = slot * p + 0
    <3>1. p * slot = slot * p /\ p * slot \in Int
      BY ONLY <1>2
    <3> QED
      BY ONLY <1>2, <2>1, <2>2, <3>1
  <2>4. SlotOfBlock(b) = x \div p
    BY ONLY <1>1, <2>2, Zenon DEF SlotOfBlock
  <2>5. 0 \in 0 .. p - 1
    BY ONLY <1>2
  <2>6. (slot * p + 0) \div p = slot
    BY ONLY <1>2, <2>5, DivMod
  <2> QED
    BY ONLY <2>3, <2>4, <2>6, Zenon
<1>4. Canonical \subseteq DOMAIN blocks
  <2>1. blocks[head].path \in Seq(DOMAIN blocks)
    BY DEF ServeInv, BlocksOK, TreeInv, BlockOK
  <2>2. PICK path : path = blocks[head].path
    OBVIOUS
  <2>3. \A k \in DOMAIN path : path[k] \in DOMAIN blocks
    BY <2>1, <2>2
  <2> QED
    BY <2>2, <2>3 DEF Canonical, ToSet
<1>5. BlockAt(slot) \subseteq {b}
  BY <1>1, <1>4 DEF BlockAt, ServeInv, BlocksOK
<1>6. b \in Canonical => b \in BlockAt(slot)
  BY <1>1 DEF BlockAt
<1> QED
  BY <1>3, <1>5, <1>6

\* SidecarsAre: the sidecars of the indices of a block's blobs.
LEMMA SidecarsAre ==
    ASSUME TreeInv, NEW b \in DOMAIN blocks, NEW slot, BlockAt(slot) = {b}, NEW indices
    PROVE  /\ \E R : GetBlobSidecars(slot, indices) \in Seq(R)
           /\ ToSet(GetBlobSidecars(slot, indices)) =
                {[index |-> k - 1, blob |-> BlobsIn(b)[k]] :
                   k \in {k \in 1 .. Len(BlobsIn(b)) : k - 1 \in indices}}
<1>1. PICK S : BlobsIn(b) \in Seq(S)
  BY BlobsAre
<1>2. PICK blobs, n : blobs = BlobsIn(b) /\ n = Len(blobs)
  OBVIOUS
<1>3. n \in Nat /\ DOMAIN blobs = 1 .. n
  BY <1>1, <1>2
<1>4. PICK s : s = [k \in 1 .. n |-> IF k - 1 \in indices
                                     THEN <<[index |-> k - 1, blob |-> blobs[k]]>> ELSE <<>>]
  OBVIOUS
<1>5. GetBlobSidecars(slot, indices) = FlattenSeq(s)
  <2>1. (CHOOSE a \in BlockAt(slot) : TRUE) = b
    OBVIOUS
  <2> QED
    BY <1>2, <1>3, <1>4, <2>1 DEF GetBlobSidecars
<1>6. PICK R : R = {[index |-> k - 1, blob |-> blobs[k]] : k \in 1 .. n}
  OBVIOUS
<1>7. ASSUME NEW k \in 1 .. n
      PROVE  /\ s[k] \in Seq(R)
             /\ ToSet(s[k]) = IF k - 1 \in indices THEN {[index |-> k - 1, blob |-> blobs[k]]} ELSE {}
  <2>1. PICK x : x = [index |-> k - 1, blob |-> blobs[k]]
    OBVIOUS
  <2>2. x \in R
    BY <1>6, <2>1
  <2>3. CASE k - 1 \in indices
    <3>1. s[k] = <<x>>
      BY <1>4, <2>1, <2>3
    <3>2. PICK y : y = <<x>>
      OBVIOUS
    <3>3. y \in Seq(R) /\ DOMAIN y = {1} /\ y[1] = x
      BY <2>2, <3>2
    <3>4. ToSet(y) = {x}
      BY <3>3 DEF ToSet
    <3> QED
      BY <2>1, <2>3, <3>1, <3>2, <3>3, <3>4
  <2>4. CASE k - 1 \notin indices
    <3>1. s[k] = <<>>
      BY <1>4, <2>4
    <3>2. PICK y : y = <<>>
      OBVIOUS
    <3>3. y \in Seq(R) /\ DOMAIN y = {}
      BY <3>2
    <3>4. ToSet(y) = {}
      BY <3>3 DEF ToSet
    <3> QED
      BY <2>4, <3>1, <3>2, <3>3, <3>4
  <2> QED
    BY <2>3, <2>4
<1>8. PICK T : T = Seq(R)
  OBVIOUS
<1>9. s \in Seq(T) /\ Len(s) = n
  <2>1. \A k \in 1 .. n : s[k] \in T
    BY <1>7, <1>8
  <2>2. s = [k \in 1 .. n |-> s[k]]
    BY <1>4
  <2> QED
    BY <1>3, <2>1, <2>2
<1>10. s \in Seq(Seq(R))
  BY <1>8, <1>9
<1>11. FlattenSeq(s) \in Seq(R)
  BY ONLY <1>10, FlattenIs
<1>12. ToSet(FlattenSeq(s)) = UNION {ToSet(s[k]) : k \in 1 .. Len(s)}
  BY ONLY <1>10, FlattenElements
<1>13. PICK found : found = {[index |-> k - 1, blob |-> blobs[k]] :
                               k \in {k \in 1 .. n : k - 1 \in indices}}
  OBVIOUS
<1>14. ASSUME NEW x
       PROVE  x \in UNION {ToSet(s[k]) : k \in 1 .. n} <=> x \in found
  <2>1. ASSUME x \in UNION {ToSet(s[k]) : k \in 1 .. n} PROVE x \in found
    <3>1. PICK k \in 1 .. n : x \in ToSet(s[k])
      BY <2>1
    <3>2. k - 1 \in indices /\ x = [index |-> k - 1, blob |-> blobs[k]]
      BY <1>7, <3>1
    <3> QED
      BY <1>13, <3>2
  <2>2. ASSUME x \in found PROVE x \in UNION {ToSet(s[k]) : k \in 1 .. n}
    <3>1. PICK k \in 1 .. n : k - 1 \in indices /\ x = [index |-> k - 1, blob |-> blobs[k]]
      BY <1>13, <2>2
    <3>2. x \in ToSet(s[k])
      BY <1>7, <3>1
    <3> QED
      BY <3>2
  <2> QED
    BY <2>1, <2>2
<1>15. UNION {ToSet(s[k]) : k \in 1 .. n} = found
  BY <1>14
<1> QED
  BY <1>2, <1>5, <1>9, <1>11, <1>12, <1>13, <1>15

\* OwnBlob: unless a transaction before it has several blobs, the blob of the bundler's
\* transaction is where the readers look for it.
LEMMA OwnBlob ==
    ASSUME ServeInv, NEW b \in DOMAIN blocks, NEW m \in DOMAIN blocks[b].txs,
           NEW t, t = blocks[b].txs[m], t \in Own, ~Shifted(b, t)
    PROVE  /\ BlobIndex(b, t) \in Nat
           /\ BlobIndex(b, t) + 1 \in 1 .. Len(BlobsIn(b))
           /\ BlobsIn(b)[BlobIndex(b, t) + 1] = BlobOf(txs[t].ids)
<1>1. TreeInv
  BY DEF ServeInv
<1>2. PICK S : /\ BlobsOf(b) \in Seq(Seq(S)) /\ BlobsIn(b) = FlattenSeq(BlobsOf(b))
               /\ BlobsIn(b) \in Seq(S)
               /\ Len(BlobsOf(b)) = Len(blocks[b].txs)
               /\ \A k \in 1 .. Len(blocks[b].txs) : BlobsOf(b)[k] = Tx(blocks[b].txs[k]).blobs
  BY <1>1, BlobsAre
<1>3. PICK ts, n, s, q : /\ ts = blocks[b].txs /\ n = Len(ts) /\ s = BlobsOf(b)
                         /\ q = BlobsIn(b)
  OBVIOUS
<1>4. n \in Nat /\ DOMAIN ts = 1 .. n /\ m \in 1 .. n /\ \A k \in 1 .. n : ts[k] \in DOMAIN txs
  <2>1. ts \in Seq(DOMAIN txs)
    BY <1>1, <1>3 DEF TreeInv, BlockOK
  <2> QED
    BY <1>3, <2>1
<1>5. PICK lens : lens = [k \in 1 .. n |-> Len(s[k])]
  OBVIOUS
<1>6. \A k \in 1 .. n : lens[k] = Len(Tx(ts[k]).blobs) /\ lens[k] = Len(s[k]) /\ lens[k] \in Nat
  <2>1. s \in Seq(Seq(S)) /\ Len(s) = n
    BY <1>2, <1>3
  <2>2. PICK T : T = Seq(S)
    OBVIOUS
  <2>3. \A k \in 1 .. n : s[k] \in T
    BY <2>1, <2>2
  <2>4. \A k \in 1 .. n : Len(s[k]) \in Nat
    BY <2>2, <2>3
  <2> QED
    BY <1>2, <1>3, <1>5, <2>4
<1>7. PICK i : i = m - 1
  OBVIOUS
<1>8. i \in Nat /\ 1 .. i \subseteq 1 .. n /\ \A k \in 1 .. n : k < m <=> k \in 1 .. i
  BY <1>4, <1>7
<1>9. PICK counted : counted = {k \in 1 .. i : IsBlobTx(Tx(ts[k]))}
  OBVIOUS
<1>10. ASSUME NEW k \in 1 .. i
       PROVE  lens[k] = IF IsBlobTx(Tx(ts[k])) THEN 1 ELSE 0
  <2>1. k \in 1 .. n /\ k < m
    BY <1>8
  <2>2. ~(Len(Tx(ts[k]).blobs) > 1)
    BY <1>3, <1>4, <2>1 DEF Shifted
  <2>3. OwnOK(txs[ts[k]]) \/ OtherOK(txs[ts[k]])
    BY <1>4, <2>1 DEF ServeInv, TxsAre
  <2>4. PICK tx : tx = Tx(ts[k])
    OBVIOUS
  <2>5. lens[k] = Len(tx.blobs) /\ lens[k] \in Nat /\ ~(lens[k] > 1)
    BY <1>6, <2>1, <2>2, <2>4
  <2>6. CASE OwnOK(txs[ts[k]])
    <3>1. tx.type = BlobTxType /\ \E x : tx.blobs = <<x>>
      BY <2>4, <2>6 DEF OwnOK, Tx
    <3>2. Len(tx.blobs) = 1
      BY <3>1
    <3> QED
      BY <2>4, <2>5, <3>1, <3>2 DEF IsBlobTx
  <2>7. CASE tx.type # BlobTxType /\ tx.blobs = <<>>
    <3>1. Len(tx.blobs) = 0
      BY <2>7
    <3> QED
      BY <2>4, <2>5, <2>7, <3>1 DEF IsBlobTx
  <2>8. CASE tx.type = BlobTxType /\ Len(tx.blobs) > 0
    <3>1. lens[k] = 1
      <4>1. PICK x, y : x = lens[k] /\ y = Len(tx.blobs)
        OBVIOUS
      <4>2. x = y /\ x \in Nat /\ ~(x > 1) /\ y > 0
        BY <2>5, <2>8, <4>1
      <4>3. x = 1
        BY ONLY <4>2
      <4> QED
        BY <4>1, <4>3
    <3> QED
      BY <2>4, <2>8, <3>1 DEF IsBlobTx
  <2> QED
    BY <2>3, <2>4, <2>6, <2>7, <2>8 DEF OtherOK, Tx
<1>11. Total(lens, 1 .. i) = Cardinality(counted)
  <2>1. PICK D : D = 1 .. i
    OBVIOUS
  <2>2. IsFiniteSet(D)
    BY <1>8, <2>1, FS_Interval
  <2>3. /\ counted \subseteq D /\ \A k \in counted : lens[k] = 1
        /\ \A k \in D \ counted : lens[k] = 0
    BY <1>9, <1>10, <2>1
  <2>4. Total(lens, D) = Cardinality(counted)
    BY ONLY <2>2, <2>3, TotalCounts
  <2> QED
    BY <2>1, <2>4
<1>12. BlobIndex(b, t) = Cardinality(counted)
  <2>1. (CHOOSE j \in DOMAIN ts : ts[j] = t) = m
    <3>1. \A j \in DOMAIN ts : ts[j] = t => j = m
      BY <1>3 DEF ServeInv, BlocksOK
    <3>2. m \in DOMAIN ts /\ ts[m] = t
      BY <1>3
    <3> QED
      BY <3>1, <3>2
  <2>2. {k \in DOMAIN ts : k < m} = 1 .. i
    BY <1>4, <1>8
  <2>3. BlobIndex(b, t) = Cardinality({k \in {k \in DOMAIN ts : k < m} : IsBlobTx(Tx(ts[k]))})
    BY <1>3, <2>1 DEF BlobIndex
  <2> QED
    BY <1>9, <2>2, <2>3
<1>13. PICK index : index = BlobIndex(b, t)
  OBVIOUS
<1>14. LaidOut(q, n, s, lens, S)
  <2>1. s \in Seq(Seq(S)) /\ Len(s) = n /\ q = FlattenSeq(s)
    BY <1>2, <1>3
  <2>2. \A k \in 1 .. Len(s) : lens[k] = Len(s[k])
    BY <1>6, <2>1
  <2>3. LaidOut(FlattenSeq(s), Len(s), s, lens, S)
    BY ONLY <2>1, <2>2, FlattenPlaces
  <2> QED
    BY <2>1, <2>3
<1>15. s[m] = <<BlobOf(txs[t].ids)>>
  <2>1. t \in DOMAIN txs /\ txs[t].ids # <<>>
    BY DEF Own
  <2>2. OwnOK(txs[t])
    BY <2>1 DEF ServeInv, TxsAre, OtherOK
  <2> QED
    BY <1>2, <1>3, <1>4, <2>2 DEF OwnOK, Tx
<1>16. Len(s[m]) = 1 /\ s[m][1] = BlobOf(txs[t].ids)
  BY <1>15
<1>17. index + 1 \in 1 .. Len(q) /\ q[index + 1] = s[m][1]
  <2>1. 1 \in 1 .. Len(s[m])
    BY <1>16
  <2>2. Total(lens, 1 .. m - 1) + 1 \in 1 .. Len(q) /\ q[Total(lens, 1 .. m - 1) + 1] = s[m][1]
    BY ONLY <1>4, <1>14, <2>1 DEF LaidOut
  <2> QED
    BY <1>7, <1>11, <1>12, <1>13, <2>2
<1>18. index \in Nat
  <2>1. IsFiniteSet(1 .. i)
    BY <1>8, FS_Interval
  <2>2. IsFiniteSet(counted)
    BY <1>9, <2>1, FS_Subset
  <2> QED
    BY <1>12, <1>13, <2>2, FS_CardinalityType
<1> QED
  BY <1>3, <1>13, <1>16, <1>17, <1>18

\* Grows: transactions and blocks are added, and what there is stays as it is.
LEMMA Grows ==
    ASSUME TreeInv, [Next]_vars
    PROVE  /\ DOMAIN txs \subseteq DOMAIN txs' /\ \A t \in DOMAIN txs : txs'[t] = txs[t]
           /\ DOMAIN blocks \subseteq DOMAIN blocks'
           /\ \A b \in DOMAIN blocks : blocks'[b] = blocks[b]
<1>1. PICK S, T : txs \in Seq(S) /\ blocks \in Seq(T)
  BY DEF TreeInv, TxsOK
<1>2. ASSUME NEW A, NEW s \in Seq(A), NEW x, NEW s2, s2 = Append(s, x)
      PROVE  DOMAIN s \subseteq DOMAIN s2 /\ \A k \in DOMAIN s : s2[k] = s[k]
  BY <1>2
<1>3. UNCHANGED txs \/ \E r : txs' = Append(txs, r)
  BY DEF Next, Node, Sender, Reader, vars, MineBlock, SwitchHead, ForeignTx, SendSelfTransfer,
         SendBlobTx, LookUpTx, FetchBlob, FetchFails
<1>4. UNCHANGED blocks \/ \E r : blocks' = Append(blocks, r)
  BY DEF Next, Node, Sender, Reader, vars, MineBlock, SwitchHead, ForeignTx, SendSelfTransfer,
         SendBlobTx, LookUpTx, FetchBlob, FetchFails
<1>5. DOMAIN txs \subseteq DOMAIN txs' /\ \A t \in DOMAIN txs : txs'[t] = txs[t]
  BY <1>1, <1>2, <1>3
<1>6. /\ DOMAIN blocks \subseteq DOMAIN blocks'
      /\ \A b \in DOMAIN blocks : blocks'[b] = blocks[b]
  BY <1>1, <1>2, <1>4
<1> QED
  BY <1>5, <1>6

\* AddedTx: the sequence has the new transaction, and the old ones.
LEMMA AddedTx ==
    ASSUME TreeInv, NEW r, txs' = Append(txs, r)
    PROVE  \A t \in DOMAIN txs' : (t \in DOMAIN txs /\ txs'[t] = txs[t]) \/ txs'[t] = r
<1>1. PICK S : txs \in Seq(S)
  BY DEF TreeInv, TxsOK
<1> QED
  BY <1>1

\* AddedOK: each action adds a transaction of the bundler or one of others.
LEMMA AddedOK ==
    ASSUME TreeInv, TxsAre, [Next]_vars
    PROVE  TxsAre'
<1>1. ASSUME NEW r, txs' = Append(txs, r), OwnOK(r) \/ OtherOK(r) PROVE TxsAre'
  <2>1. \A t \in DOMAIN txs' : (t \in DOMAIN txs /\ txs'[t] = txs[t]) \/ txs'[t] = r
    BY <1>1, AddedTx
  <2> SUFFICES ASSUME NEW t \in DOMAIN txs' PROVE OwnOK(txs'[t]) \/ OtherOK(txs'[t])
    BY DEF TxsAre, OwnOK, OtherOK
  <2>2. CASE txs'[t] = r
    BY <1>1, <2>2
  <2>3. CASE t \in DOMAIN txs /\ txs'[t] = txs[t]
    BY <2>3 DEF TxsAre
  <2> QED
    BY <2>1, <2>2, <2>3
<1>2. ASSUME UNCHANGED txs PROVE TxsAre'
  BY <1>2 DEF TxsAre, OwnOK, OtherOK
<1>3. ASSUME ForeignTx PROVE TxsAre'
  <2>1. PICK input \in ForeignInputs, count \in ForeignBlobs :
          txs' = Append(txs, [ids |-> <<>>, tx |-> ForeignBlobTx(input, count)])
    BY <1>3 DEF ForeignTx
  <2>2. PICK r : r = [ids |-> <<>>, tx |-> ForeignBlobTx(input, count)]
    OBVIOUS
  <2>3. count \in Nat /\ count > 0
    BY BlobsAssumption
  <2>4. PICK blobs : blobs = [k \in 1 .. count |-> Padding(Foreigner)]
    OBVIOUS
  <2>5. Len(blobs) = count
    <3>1. blobs \in Seq({Padding(Foreigner)})
      BY <2>3, <2>4
    <3> QED
      BY <2>3, <2>4, <3>1
  <2>6. /\ r.ids = <<>> /\ r.tx.type = BlobTxType /\ r.tx.from = Foreigner
        /\ r.tx.blobs = blobs
    BY <2>2, <2>4 DEF ForeignBlobTx
  <2>7. OtherOK(r)
    BY <2>3, <2>5, <2>6 DEF OtherOK
  <2> QED
    BY <1>1, <2>1, <2>2, <2>7
<1>4. ASSUME SendSelfTransfer PROVE TxsAre'
  <2>1. PICK r : r = [ids |-> <<>>, tx |-> Transfer(NextNonce)]
    OBVIOUS
  <2>2. r.ids = <<>> /\ r.tx.type # BlobTxType /\ r.tx.blobs = <<>>
    BY <2>1 DEF Transfer, BlobTxType
  <2>3. OtherOK(r)
    BY <2>2 DEF OtherOK
  <2>4. txs' = Append(txs, r)
    BY <1>4, <2>1 DEF SendSelfTransfer
  <2> QED
    BY <1>1, <2>3, <2>4
<1>5. ASSUME NEW selected \in (SUBSET Intents) \ {{}}, NEW ids \in FetchMany(selected),
             SendBlobTx(ids)
      PROVE  TxsAre'
  <2>1. PICK nonce, fee, tx : nonce = NextNonce /\ fee = FeeAt(head)
          /\ tx = NodeTx(ConstructBlobTx(ids, nonce, fee).networking)
    OBVIOUS
  <2>2. PICK r : r = [ids |-> ids, tx |-> tx]
    OBVIOUS
  <2>3. Len(DataOf(ids)) <= Capacity /\ txs' = Append(txs, r)
    BY <1>5, <2>1, <2>2 DEF SendBlobTx
  <2>4. ids \in Seq(Intents) /\ ids # <<>>
    BY <1>5, SelectedIs
  <2>5. PICK input, blob : /\ input = EncodeBlobTxData(ParticipantsOf(ids))
                           /\ blob = BlobOf(ids)
    OBVIOUS
  <2>6. tx = [type |-> BlobTxType, input |-> input, nonce |-> nonce,
              max_fee_per_blob_gas |-> fee, from |-> Wallet, blobs |-> <<blob>>]
    BY <2>1, <2>5, NodeTxIs, Zenon DEF BlobOf
  <2>7. /\ r.ids = ids /\ r.tx.type = BlobTxType /\ r.tx.from = Wallet /\ r.tx.input = input
        /\ r.tx.blobs = <<blob>>
    BY <2>2, <2>6
  <2>8. OwnOK(r)
    BY <2>3, <2>4, <2>5, <2>7 DEF OwnOK
  <2> QED
    BY <1>1, <2>3, <2>8
<1>6. UNCHANGED txs \/ ForeignTx \/ SendSelfTransfer
      \/ \E selected \in (SUBSET Intents) \ {{}} : \E ids \in FetchMany(selected) : SendBlobTx(ids)
  BY DEF Next, Node, Sender, Reader, vars, MineBlock, SwitchHead, LookUpTx, FetchBlob, FetchFails
<1> QED
  BY <1>2, <1>3, <1>4, <1>5, <1>6

\* OrdersOnce: an order of transactions has each of them once.
LEMMA OrdersOnce ==
    ASSUME TreeInv, NEW ts \in Orders
    PROVE  \A j, k \in DOMAIN ts : ts[j] = ts[k] => j = k
<1>1. PICK s \in SUBSET DOMAIN txs : ts \in SetToAllKPermutations(s)
  BY DEF Orders
<1>2. PICK r \in SUBSET s : ts \in SetToSeqs(r)
  BY <1>1 DEF SetToAllKPermutations
<1>3. PICK n : n = Cardinality(r)
  OBVIOUS
<1>4. ts \in [1 .. n -> r] /\ \A i, j \in 1 .. n : i # j => ts[i] # ts[j]
  BY <1>2, <1>3 DEF SetToSeqs
<1> QED
  BY <1>4

\* BlocksStep: blocks are mined in slots of their own.
LEMMA BlocksStep == ASSUME TreeInv, BlocksOK, [Next]_vars PROVE BlocksOK'
<1>1. ASSUME UNCHANGED blocks, head' \in DOMAIN blocks PROVE BlocksOK'
  BY <1>1 DEF BlocksOK
<1>2. ASSUME UNCHANGED <<blocks, head>> PROVE BlocksOK'
  BY <1>2 DEF BlocksOK
<1>3. ASSUME NEW parent \in DOMAIN blocks, NEW slot \in 1 .. MaxSlot, NEW ts \in Orders,
             MineBlock(parent, slot, ts)
      PROVE  BlocksOK'
  <2>1. PICK T, n : blocks \in Seq(T) /\ n = Len(blocks)
    BY DEF TreeInv
  <2>2. PICK new : new = [path |-> Append(blocks[parent].path, Len(blocks) + 1), slot |-> slot,
                          txs |-> ts, excess |-> ChildExcess(parent)]
    OBVIOUS
  <2>3. /\ blocks' = Append(blocks, new) /\ head' = n + 1 /\ slot > blocks[parent].slot
        /\ \A b \in DOMAIN blocks : blocks[b].slot # slot
    BY <1>3, <2>1, <2>2 DEF MineBlock
  <2>4. new.slot = slot /\ new.txs = ts
    BY <2>2
  <2>5. /\ n \in Nat /\ DOMAIN blocks = 1 .. n /\ DOMAIN blocks' = 1 .. n + 1
        /\ blocks'[n + 1] = new /\ \A b \in 1 .. n : blocks'[b] = blocks[b]
    BY <2>1, <2>3
  <2>6. \A j, k \in DOMAIN ts : ts[j] = ts[k] => j = k
    BY OrdersOnce
  <2>7. slot \in Nat
    OBVIOUS
  <2>8. \A b \in 1 .. n + 1 : b \in 1 .. n \/ b = n + 1
    BY <2>5
  <2>9. head' \in DOMAIN blocks'
    BY <2>3, <2>5
  <2>10. \A b \in 1 .. n + 1 : blocks'[b].slot \in Nat
    BY <2>4, <2>5, <2>7, <2>8 DEF BlocksOK
  <2>11. ASSUME NEW a \in 1 .. n + 1, NEW b \in 1 .. n + 1, blocks'[a].slot = blocks'[b].slot
         PROVE  a = b
    <3>1. CASE a \in 1 .. n /\ b \in 1 .. n
      BY <2>5, <2>11, <3>1 DEF BlocksOK
    <3>2. CASE a = n + 1 /\ b \in 1 .. n
      BY <2>3, <2>4, <2>5, <2>11, <3>2
    <3>3. CASE a \in 1 .. n /\ b = n + 1
      BY <2>3, <2>4, <2>5, <2>11, <3>3
    <3> QED
      BY <2>8, <3>1, <3>2, <3>3
  <2>12. ASSUME NEW b \in 1 .. n + 1, NEW j \in DOMAIN blocks'[b].txs,
                NEW k \in DOMAIN blocks'[b].txs, blocks'[b].txs[j] = blocks'[b].txs[k]
         PROVE  j = k
    <3>1. CASE b \in 1 .. n
      BY <2>5, <2>12, <3>1 DEF BlocksOK
    <3>2. CASE b = n + 1
      BY <2>4, <2>5, <2>6, <2>12, <3>2
    <3> QED
      BY <2>8, <3>1, <3>2
  <2> QED
    BY <2>5, <2>9, <2>10, <2>11, <2>12 DEF BlocksOK
<1>4. ASSUME SwitchHead PROVE BlocksOK'
  BY <1>1, <1>4 DEF SwitchHead
<1>5. \/ UNCHANGED <<blocks, head>> \/ SwitchHead
      \/ \E parent \in DOMAIN blocks, slot \in 1 .. MaxSlot, ts \in Orders :
           MineBlock(parent, slot, ts)
  BY DEF Next, Node, Sender, Reader, vars, ForeignTx, SendSelfTransfer, SendBlobTx, LookUpTx,
         FetchBlob, FetchFails
<1> QED
  BY <1>2, <1>3, <1>4, <1>5

\* ReaderStep: a request is for a transaction of a block, which stays one.
LEMMA ReaderStep == ASSUME TreeInv, ReaderOK, BlocksOK, [Next]_vars PROVE ReaderOK'
<1>1. /\ DOMAIN txs \subseteq DOMAIN txs' /\ DOMAIN blocks \subseteq DOMAIN blocks'
      /\ \A b \in DOMAIN blocks : blocks'[b] = blocks[b]
  BY Grows
<1>2. ASSUME UNCHANGED request
      PROVE  request' = <<>> \/ \E r : /\ request' = <<r>> /\ r.block \in DOMAIN blocks'
                                       /\ r.tx \in ToSet(blocks'[r.block].txs)
  BY <1>1, <1>2 DEF ReaderOK
<1>3. ASSUME UNCHANGED blobCache PROVE DOMAIN blobCache' \subseteq DOMAIN txs'
  BY <1>1, <1>3 DEF ReaderOK
<1>4. ASSUME NEW t \in DOMAIN txs, LookUpTx(t) PROVE ReaderOK'
  <2>1. PICK b \in Canonical : t \in ToSet(blocks[b].txs) /\ request' = <<[tx |-> t, block |-> b]>>
    BY <1>4 DEF LookUpTx
  <2>2. b \in DOMAIN blocks
    <3>1. blocks[head].path \in Seq(DOMAIN blocks)
      BY DEF BlocksOK, TreeInv, BlockOK
    <3>2. PICK path : path = blocks[head].path
      OBVIOUS
    <3>3. \A k \in DOMAIN path : path[k] \in DOMAIN blocks
      BY <3>1, <3>2
    <3> QED
      BY <3>2, <3>3 DEF Canonical, ToSet
  <2>3. PICK r : r = [tx |-> t, block |-> b]
    OBVIOUS
  <2>4. r.tx = t /\ r.block = b /\ request' = <<r>>
    BY <2>1, <2>3
  <2>5. blocks'[b] = blocks[b] /\ b \in DOMAIN blocks'
    BY <1>1, <2>2
  <2>6. r.tx \in ToSet(blocks'[r.block].txs)
    BY <2>1, <2>4, <2>5
  <2>7. UNCHANGED blobCache
    BY <1>4 DEF LookUpTx
  <2> QED
    BY <1>3, <2>4, <2>5, <2>6, <2>7 DEF ReaderOK
<1>5. ASSUME FetchBlob PROVE ReaderOK'
  <2>1. request # <<>> /\ request' = <<>> /\ UNCHANGED txs
    BY <1>5 DEF FetchBlob
  <2>2. PICK r : /\ request = <<r>> /\ r.block \in DOMAIN blocks
                 /\ r.tx \in ToSet(blocks[r.block].txs)
    BY <2>1 DEF ReaderOK
  <2>3. request[1].tx \in DOMAIN txs
    <3>1. PICK ts : ts = blocks[r.block].txs
      OBVIOUS
    <3>2. ts \in Seq(DOMAIN txs) /\ r.tx \in ToSet(ts)
      BY <2>2, <3>1 DEF TreeInv, BlockOK
    <3>3. r.tx \in DOMAIN txs
      BY <3>2 DEF ToSet
    <3> QED
      BY <2>2, <3>3
  <2>4. DOMAIN blobCache' = DOMAIN blobCache \union {request[1].tx}
    BY <1>5 DEF FetchBlob
  <2> QED
    BY <2>1, <2>3, <2>4 DEF ReaderOK
<1>6. ASSUME FetchFails PROVE ReaderOK'
  BY <1>3, <1>6 DEF FetchFails, ReaderOK
<1>7. ASSUME UNCHANGED <<request, blobCache>> PROVE ReaderOK'
  BY <1>2, <1>3, <1>7 DEF ReaderOK
<1>8. \/ UNCHANGED <<request, blobCache>> \/ FetchBlob \/ FetchFails
      \/ \E t \in DOMAIN txs : LookUpTx(t)
  BY DEF Next, Node, Sender, Reader, vars, MineBlock, SwitchHead, ForeignTx, SendSelfTransfer,
         SendBlobTx
<1> QED
  BY <1>4, <1>5, <1>6, <1>7, <1>8

\* ServeInit: the invariant holds of the empty chain.
LEMMA ServeInit == Init => ServeInv
<1> SUFFICES ASSUME Init PROVE ServeInv
  OBVIOUS
<1>1. TreeInv
  BY TreeInit
<1>2. TxsAre
  BY DEF Init, TxsAre
<1>3. BlocksOK
  <2>1. PICK r : r = [path |-> <<1>>, slot |-> 0, txs |-> <<>>, excess |-> 1]
    OBVIOUS
  <2>2. blocks = <<r>> /\ r.slot = 0 /\ r.txs = <<>> /\ head = 1
    BY <2>1 DEF Init
  <2>3. DOMAIN blocks = {1} /\ blocks[1] = r
    BY <2>2
  <2>4. blocks[1].slot = 0 /\ DOMAIN blocks[1].txs = {}
    BY <2>2, <2>3
  <2> QED
    BY <2>2, <2>3, <2>4 DEF BlocksOK
<1>4. ReaderOK
  <2>1. request = <<>> /\ DOMAIN blobCache = {}
    BY DEF Init
  <2> QED
    BY <2>1 DEF ReaderOK
<1> QED
  BY <1>1, <1>2, <1>3, <1>4 DEF ServeInv

\* ServeStep: every step preserves it.
LEMMA ServeStep == ServeInv /\ [Next]_vars => ServeInv'
BY TreeStep, AddedOK, BlocksStep, ReaderStep DEF ServeInv

\* FetchIsPosted: what is made of the sidecar that is fetched.
LEMMA FetchIsPosted ==
    ASSUME ServeInv, NEW b \in DOMAIN blocks, NEW t \in ToSet(blocks[b].txs), t \in Own,
           ~Shifted(b, t), NEW slot, slot = SlotOfBlock(b), BlockAt(slot) # {},
           NEW sidecars, sidecars = GetBlobSidecars(slot, {BlobIndex(b, t)}), sidecars # <<>>
    PROVE  Response(FromTx(Tx(t)).participants, DecodeBlobToData(Head(sidecars).blob))
             = Posted(txs[t].ids)
<1>1. TreeInv
  BY DEF ServeInv
<1>2. PICK m \in DOMAIN blocks[b].txs : t = blocks[b].txs[m]
  BY DEF ToSet
<1>3. PICK index, blobs, ids : index = BlobIndex(b, t) /\ blobs = BlobsIn(b) /\ ids = txs[t].ids
  OBVIOUS
<1>4. index \in Nat /\ index + 1 \in 1 .. Len(blobs) /\ blobs[index + 1] = BlobOf(ids)
  BY <1>2, <1>3, OwnBlob
<1>5. BlockAt(slot) = {b}
  BY OneBlock
<1>6. PICK indices : indices = {index}
  OBVIOUS
<1>7. /\ \E R : sidecars \in Seq(R)
      /\ ToSet(sidecars) = {[index |-> k - 1, blob |-> blobs[k]] :
                              k \in {k \in 1 .. Len(blobs) : k - 1 \in indices}}
  <2>1. /\ \E R : GetBlobSidecars(slot, indices) \in Seq(R)
        /\ ToSet(GetBlobSidecars(slot, indices)) =
             {[index |-> k - 1, blob |-> BlobsIn(b)[k]] :
                k \in {k \in 1 .. Len(BlobsIn(b)) : k - 1 \in indices}}
    BY ONLY <1>1, <1>5, SidecarsAre, b \in DOMAIN blocks
  <2>2. sidecars = GetBlobSidecars(slot, indices)
    BY <1>3, <1>6
  <2> QED
    BY <1>3, <2>1, <2>2
<1>8. Head(sidecars) \in ToSet(sidecars)
  <2>1. PICK R : sidecars \in Seq(R)
    BY <1>7
  <2>2. Head(sidecars) = sidecars[1] /\ 1 \in DOMAIN sidecars
    BY <2>1
  <2> QED
    BY <2>2 DEF ToSet
<1>9. Head(sidecars).blob = BlobOf(ids)
  <2>1. PICK k \in 1 .. Len(blobs) :
          k - 1 \in indices /\ Head(sidecars) = [index |-> k - 1, blob |-> blobs[k]]
    BY <1>7, <1>8
  <2>2. k = index + 1
    <3>1. k - 1 = index
      BY <1>6, <2>1
    <3>2. k \in Int
      OBVIOUS
    <3> QED
      BY <1>4, <3>1, <3>2
  <2> QED
    BY <1>4, <2>1, <2>2
<1>10. OwnOK(txs[t])
  <2>1. t \in DOMAIN txs /\ txs[t].ids # <<>>
    BY DEF Own
  <2> QED
    BY <2>1 DEF ServeInv, TxsAre, OtherOK
<1>11. ids \in Seq(Intents) /\ ids # <<>> /\ Len(DataOf(ids)) <= Capacity
       /\ Tx(t).input = EncodeBlobTxData(ParticipantsOf(ids))
  BY <1>3, <1>10 DEF OwnOK, Tx
<1>12. FromTx(Tx(t)).participants = ParticipantsOf(ids)
  <2>1. PICK ps, A : ps = ParticipantsOf(ids) /\ A = Addresses
    OBVIOUS
  <2>2. ps \in Seq(Written(A)) /\ ps # <<>>
    <3>1. ps \in Seq(Written(A)) /\ Len(ps) = Len(ids)
      BY <1>11, <2>1, ParticipantsWritten
    <3> QED
      BY <1>11, <3>1
  <2>3. ReadAll(EncodeBlobTxData(ps)) = ps
    BY ONLY <2>2, ReadsWritten
  <2>4. FromTx(Tx(t)).participants = ReadAll(Tx(t).input)
    BY DEF FromTx, Summary
  <2> QED
    BY <1>11, <2>1, <2>3, <2>4
<1>13. DecodeBlobToData(BlobOf(ids)) = Padded(DataOf(ids))
  <2>1. PICK data, S : data = DataOf(ids) /\ S = Bytes
    OBVIOUS
  <2>2. data \in Seq(S) /\ Len(data) <= Capacity
    BY <1>11, <2>1, DataIs
  <2>3. Padded(data) \in Seq(S \union {0}) /\ Len(Padded(data)) = Capacity
    BY ONLY <2>2, PaddedFills
  <2>4. PICK d, T : d = Padded(data) /\ T = S \union {0}
    OBVIOUS
  <2>5. d \in Seq(T) /\ Len(d) = Capacity
    BY <2>3, <2>4
  <2>6. DecodeBlobToData(EncodeDataToBlob(d)) = d
    BY ONLY <2>5, BlobDecodes
  <2> QED
    BY <2>1, <2>4, <2>6 DEF BlobOf
<1>14. Response(ParticipantsOf(ids), Padded(DataOf(ids))) = Posted(ids)
  BY ONLY <1>11, ResponseIsPosted
<1> QED
  BY <1>3, <1>9, <1>12, <1>13, <1>14

\* ServedStep: what is cached stays, what is fetched is what was posted.
LEMMA ServedStep == ASSUME ServeInv, ServedOwnData, [Next]_vars PROVE ServedOwnData'
<1>1. TreeInv
  BY DEF ServeInv
<1>2. /\ DOMAIN txs \subseteq DOMAIN txs' /\ \A t \in DOMAIN txs : txs'[t] = txs[t]
      /\ DOMAIN blocks \subseteq DOMAIN blocks'
      /\ \A b \in DOMAIN blocks : blocks'[b] = blocks[b]
  BY <1>1, Grows
<1>3. ASSUME NEW b \in DOMAIN blocks, NEW t, Shifted(b, t) PROVE Shifted(b, t)'
  <2>1. PICK k \in DOMAIN blocks[b].txs, m \in DOMAIN blocks[b].txs :
          k < m /\ blocks[b].txs[m] = t /\ Len(Tx(blocks[b].txs[k]).blobs) > 1
    BY <1>3 DEF Shifted
  <2>2. blocks[b].txs[k] \in DOMAIN txs
    <3>1. blocks[b].txs \in Seq(DOMAIN txs)
      BY <1>1 DEF TreeInv, BlockOK
    <3> QED
      BY <3>1
  <2>3. blocks'[b] = blocks[b] /\ Tx(blocks[b].txs[k])' = Tx(blocks[b].txs[k])
    BY <1>2, <2>2 DEF Tx
  <2> QED
    BY <2>1, <2>3 DEF Shifted, Tx
<1>4. ASSUME NEW t \in DOMAIN blobCache, t \in Own', blobCache'[t] = blobCache[t]
      PROVE  blobCache'[t] = Posted(txs'[t].ids) \/ \E b \in DOMAIN blocks' : Shifted(b, t)'
  <2>1. t \in DOMAIN txs /\ txs'[t] = txs[t]
    BY <1>2 DEF ServeInv, ReaderOK
  <2>2. t \in Own
    BY <1>4, <2>1 DEF Own
  <2>3. blobCache[t] = Posted(txs[t].ids) \/ \E b \in DOMAIN blocks : Shifted(b, t)
    BY <2>2 DEF ServedOwnData, Posted
  <2>4. CASE blobCache[t] = Posted(txs[t].ids)
    BY <1>4, <2>1, <2>4
  <2>5. CASE \E b \in DOMAIN blocks : Shifted(b, t)
    <3>1. PICK b \in DOMAIN blocks : Shifted(b, t)
      BY <2>5
    <3>2. Shifted(b, t)' /\ b \in DOMAIN blocks'
      BY <1>2, <1>3, <3>1
    <3> QED
      BY <3>2
  <2> QED
    BY <2>3, <2>4, <2>5
<1>5. ASSUME NEW t \in DOMAIN blobCache', t \in Own'
      PROVE  blobCache'[t] = Posted(txs'[t].ids) \/ \E b \in DOMAIN blocks' : Shifted(b, t)'
  <2>1. CASE UNCHANGED blobCache
    BY <1>4, <1>5, <2>1
  <2>2. CASE FetchBlob
    <3>1. PICK r : /\ request = <<r>> /\ r.block \in DOMAIN blocks
                   /\ r.tx \in ToSet(blocks[r.block].txs)
      BY <2>2 DEF FetchBlob, ServeInv, ReaderOK
    <3>2. PICK u, b : u = r.tx /\ b = r.block
      OBVIOUS
    <3>3. request[1].tx = u /\ request[1].block = b /\ b \in DOMAIN blocks
          /\ u \in ToSet(blocks[b].txs)
      BY <3>1, <3>2
    <3>4. PICK slot : slot = SlotOfBlock(b)
      OBVIOUS
    <3>5. PICK sidecars : sidecars = GetBlobSidecars(slot, {BlobIndex(b, u)})
      OBVIOUS
    <3>6. PICK response : response = Response(FromTx(Tx(u)).participants,
                                              DecodeBlobToData(Head(sidecars).blob))
      OBVIOUS
    <3>7. /\ BlockAt(slot) # {} /\ sidecars # <<>> /\ UNCHANGED <<txs, blocks>>
          /\ blobCache' = [s \in DOMAIN blobCache \union {u} |->
                             IF s = u THEN response ELSE blobCache[s]]
      BY <2>2, <3>3, <3>4, <3>5, <3>6 DEF FetchBlob
    <3>8. CASE t = u
      <4>1. t \in Own
        BY <1>5, <3>7 DEF Own
      <4>2. CASE Shifted(b, t)
        BY <1>2, <1>3, <3>3, <4>2
      <4>3. CASE ~Shifted(b, t)
        <5>1. response = Posted(txs[t].ids)
          BY <3>3, <3>4, <3>5, <3>6, <3>7, <3>8, <4>1, <4>3, FetchIsPosted
        <5>2. blobCache'[t] = response
          BY <3>7, <3>8
        <5> QED
          BY <3>7, <5>1, <5>2
      <4> QED
        BY <4>2, <4>3
    <3>9. CASE t # u
      <4>1. t \in DOMAIN blobCache /\ blobCache'[t] = blobCache[t]
        BY <1>5, <3>7, <3>9
      <4> QED
        BY <1>4, <1>5, <4>1
    <3> QED
      BY <3>8, <3>9
  <2>3. UNCHANGED blobCache \/ FetchBlob
    BY DEF Next, Node, Sender, Reader, vars, MineBlock, SwitchHead, ForeignTx,
           SendSelfTransfer, SendBlobTx, LookUpTx, FetchFails
  <2> QED
    BY <2>1, <2>2, <2>3
<1> QED
  BY <1>5 DEF ServedOwnData, Posted, Own

\* ServedOwnDataHolds: in every run, whatever the node reorganises between the lookup and the
\* fetch (get_blobs_by_tx_hash), what is cached for a transaction of the bundler is what its
\* participants posted, unless a transaction of several blobs precedes it in its block.
THEOREM ServedOwnDataHolds == Spec => []ServedOwnData
<1>1. Init => ServeInv /\ ServedOwnData
  <2>1. Init => ServedOwnData
    BY DEF Init, ServedOwnData
  <2> QED
    BY <2>1, ServeInit
<1>2. (ServeInv /\ ServedOwnData) /\ [Next]_vars => (ServeInv /\ ServedOwnData)'
  BY ServeStep, ServedStep
<1> QED
  BY <1>1, <1>2, PTL DEF Spec

\* Where the data of the intent at place j of transaction t is, and the data; of those
\* that are user's.
Chunk(b, t, j) ==
    [blob_index |-> BlobIndex(b, t), from |-> Start(ParticipantsOf(txs[t].ids), j),
     to |-> End(ParticipantsOf(txs[t].ids), j)]

ChunksOf(b, t, user) ==
    [j \in DOMAIN txs[t].ids |-> IF From[txs[t].ids[j]] = user THEN <<Chunk(b, t, j)>> ELSE <<>>]

DatasOf(t, user) ==
    [j \in DOMAIN txs[t].ids |->
       IF From[txs[t].ids[j]] = user THEN <<Data[txs[t].ids[j]]>> ELSE <<>>]

BlockChunks(b, user) ==
    [k \in DOMAIN blocks[b].txs |-> FlattenSeq(ChunksOf(b, blocks[b].txs[k], user))]

BlockDatas(b, user) ==
    [k \in DOMAIN blocks[b].txs |-> FlattenSeq(DatasOf(blocks[b].txs[k], user))]

\* TxIds: the intents of a transaction, if it has any.
LEMMA TxIds ==
    ASSUME ServeInv, NEW t \in DOMAIN txs
    PROVE  /\ txs[t].ids \in Seq(Intents)
           /\ t \in Own <=> OwnOK(txs[t])
           /\ t \notin Own => txs[t].ids = <<>> /\ OtherOK(txs[t])
<1>1. OwnOK(txs[t]) \/ OtherOK(txs[t])
  BY DEF ServeInv, TxsAre
<1>2. t \in Own <=> txs[t].ids # <<>>
  BY DEF Own
<1>3. CASE OwnOK(txs[t])
  BY <1>2, <1>3 DEF OwnOK
<1>4. CASE OtherOK(txs[t])
  <2>1. txs[t].ids = <<>> /\ ~OwnOK(txs[t])
    BY <1>4 DEF OtherOK, OwnOK
  <2>2. <<>> \in Seq(Intents)
    OBVIOUS
  <2> QED
    BY <1>2, <1>4, <2>1, <2>2
<1> QED
  BY <1>1, <1>3, <1>4

\* OwnReads: the input of the bundler's transactions tells the participants.
LEMMA OwnReads ==
    ASSUME NEW t, OwnOK(txs[t])
    PROVE  Parses(Tx(t).input) /\ FromTx(Tx(t)).participants = ParticipantsOf(txs[t].ids)
<1>1. PICK ids : ids = txs[t].ids
  OBVIOUS
<1>2. ids \in Seq(Intents) /\ ids # <<>> /\ Tx(t).input = EncodeBlobTxData(ParticipantsOf(ids))
  BY <1>1 DEF OwnOK, Tx
<1>3. PICK ps, A : ps = ParticipantsOf(ids) /\ A = Addresses
  OBVIOUS
<1>4. ps \in Seq(Written(A)) /\ ps # <<>>
  <2>1. ps \in Seq(Written(A)) /\ Len(ps) = Len(ids)
    BY <1>2, <1>3, ParticipantsWritten
  <2> QED
    BY <1>2, <2>1
<1>5. Parses(EncodeBlobTxData(ps)) /\ ReadAll(EncodeBlobTxData(ps)) = ps
  BY ONLY <1>4, ReadsWritten
<1>6. FromTx(Tx(t)).participants = ReadAll(Tx(t).input)
  BY DEF FromTx, Summary
<1> QED
  BY <1>1, <1>2, <1>3, <1>5, <1>6

\* ParticipationsAre: a block's participations are those of the bundler's transactions.
LEMMA ParticipationsAre ==
    ASSUME ServeInv, NEW b \in DOMAIN blocks, NEW user
    PROVE  Participations(b, user) = FlattenSeq(BlockChunks(b, user))
<1> DEFINE ofTx(t) ==
             LET participants == FromTx(Tx(t)).participants
             IN  FlattenSeq([k \in DOMAIN participants |->
                   IF participants[k].address = user
                   THEN <<[blob_index |-> BlobIndex(b, t), from |-> Start(participants, k),
                           to |-> End(participants, k)]>>
                   ELSE <<>>])
           readable(t) == IsBlobTx(Tx(t)) /\ Tx(t).from = Wallet /\ Parses(Tx(t).input)
           ts == blocks[b].txs
<1>1. Participations(b, user) =
        FlattenSeq([k \in DOMAIN ts |-> IF readable(ts[k]) THEN ofTx(ts[k]) ELSE <<>>])
  BY Zenon DEF Participations, Concat
<1>2. ASSUME NEW t \in DOMAIN txs
      PROVE  (IF readable(t) THEN ofTx(t) ELSE <<>>) = FlattenSeq(ChunksOf(b, t, user))
  <2>1. CASE OwnOK(txs[t])
    <3>1. PICK ps, ids : ps = ParticipantsOf(txs[t].ids) /\ ids = txs[t].ids
      OBVIOUS
    <3>2. FromTx(Tx(t)).participants = ps /\ Parses(Tx(t).input)
      BY <2>1, <3>1, OwnReads
    <3>3. readable(t)
      BY <2>1, <3>2 DEF OwnOK, IsBlobTx, Tx
    <3>4. DOMAIN ps = DOMAIN ids /\ \A j \in DOMAIN ids : ps[j].address = From[ids[j]]
      BY <3>1 DEF ParticipantsOf
    <3>5. ofTx(t) = FlattenSeq([k \in DOMAIN ps |->
                      IF ps[k].address = user
                      THEN <<[blob_index |-> BlobIndex(b, t), from |-> Start(ps, k),
                              to |-> End(ps, k)]>>
                      ELSE <<>>])
      BY ONLY <3>2, Zenon
    <3>6. ChunksOf(b, t, user) = [k \in DOMAIN ids |->
                      IF From[ids[k]] = user
                      THEN <<[blob_index |-> BlobIndex(b, t), from |-> Start(ps, k),
                              to |-> End(ps, k)]>>
                      ELSE <<>>]
      BY ONLY <3>1, Zenon DEF ChunksOf, Chunk
    <3> HIDE DEF readable, ofTx
    <3>7. [k \in DOMAIN ps |->
             IF ps[k].address = user
             THEN <<[blob_index |-> BlobIndex(b, t), from |-> Start(ps, k), to |-> End(ps, k)]>>
             ELSE <<>>] =
          [k \in DOMAIN ids |->
             IF From[ids[k]] = user
             THEN <<[blob_index |-> BlobIndex(b, t), from |-> Start(ps, k), to |-> End(ps, k)]>>
             ELSE <<>>]
      BY ONLY <3>4
    <3>8. ofTx(t) = FlattenSeq(ChunksOf(b, t, user))
      BY ONLY <3>5, <3>6, <3>7, Zenon
    <3> QED
      BY ONLY <3>3, <3>8, Zenon
  <2>2. CASE ~OwnOK(txs[t])
    <3>1. txs[t].ids = <<>> /\ OtherOK(txs[t])
      BY <2>2, TxIds
    <3>2. ~readable(t)
      <4>1. Foreigner # Wallet
        BY BlobsAssumption
      <4> QED
        BY <3>1, <4>1 DEF OtherOK, IsBlobTx, Tx
    <3>3. ChunksOf(b, t, user) = <<>>
      <4>1. DOMAIN txs[t].ids = {}
        BY <3>1
      <4>2. PICK s : s = ChunksOf(b, t, user)
        OBVIOUS
      <4>3. s = [j \in {} |-> 0]
        BY <4>1, <4>2 DEF ChunksOf
      <4> QED
        BY <4>2, <4>3
    <3>4. FlattenSeq(ChunksOf(b, t, user)) = <<>>
      BY ONLY <3>3, FlattenEmpty
    <3> HIDE DEF readable, ofTx
    <3> QED
      BY ONLY <3>2, <3>4, Zenon
  <2> QED
    BY <2>1, <2>2
<1>3. \A k \in DOMAIN ts : ts[k] \in DOMAIN txs
  <2>1. ts \in Seq(DOMAIN txs)
    BY DEF ServeInv, TreeInv, BlockOK
  <2> HIDE DEF ts
  <2> QED
    BY <2>1
<1>4. BlockChunks(b, user) = [k \in DOMAIN ts |-> FlattenSeq(ChunksOf(b, ts[k], user))]
  BY DEF BlockChunks
<1> HIDE DEF readable, ofTx, ts
<1>5. [k \in DOMAIN ts |-> IF readable(ts[k]) THEN ofTx(ts[k]) ELSE <<>>] =
      [k \in DOMAIN ts |-> FlattenSeq(ChunksOf(b, ts[k], user))]
  BY ONLY <1>2, <1>3
<1> QED
  BY ONLY <1>1, <1>4, <1>5, Zenon

\* AllChunks, AllDatas: what the readers look for, and what they find.
AllChunks(b) == {Chunk(b, t, j) : t \in DOMAIN txs, j \in Nat}

AllDatas == {Data[i] : i \in Intents}

\* PiecesAre: the pieces of one transaction.
LEMMA PiecesAre ==
    ASSUME ServeInv, NEW b, NEW t \in DOMAIN txs, NEW user
    PROVE  /\ ChunksOf(b, t, user) \in Seq(Seq(AllChunks(b)))
           /\ DatasOf(t, user) \in Seq(Seq(AllDatas))
           /\ Len(ChunksOf(b, t, user)) = Len(txs[t].ids)
           /\ Len(DatasOf(t, user)) = Len(txs[t].ids)
           /\ \A j \in 1 .. Len(txs[t].ids) :
                IF From[txs[t].ids[j]] = user
                THEN /\ ChunksOf(b, t, user)[j] = <<Chunk(b, t, j)>>
                     /\ DatasOf(t, user)[j] = <<Data[txs[t].ids[j]]>>
                ELSE ChunksOf(b, t, user)[j] = <<>> /\ DatasOf(t, user)[j] = <<>>
<1>1. PICK ids, n : ids = txs[t].ids /\ n = Len(ids)
  OBVIOUS
<1>2. ids \in Seq(Intents)
  BY <1>1, TxIds
<1>3. n \in Nat /\ DOMAIN ids = 1 .. n /\ \A j \in 1 .. n : ids[j] \in Intents
  BY <1>1, <1>2
<1>4. PICK P : P = {j \in 1 .. n : From[ids[j]] = user}
  OBVIOUS
<1>5. PICK s, u : s = ChunksOf(b, t, user) /\ u = DatasOf(t, user)
  OBVIOUS
<1>6. PICK x, y : /\ x = [j \in 1 .. n |-> Chunk(b, t, j)]
                  /\ y = [j \in 1 .. n |-> Data[ids[j]]]
  OBVIOUS
<1>7. s = [j \in 1 .. n |-> IF j \in P THEN <<x[j]>> ELSE <<>>]
  <2>1. s = [j \in 1 .. n |-> IF From[ids[j]] = user THEN <<Chunk(b, t, j)>> ELSE <<>>]
    BY <1>1, <1>3, <1>5 DEF ChunksOf
  <2>2. ASSUME NEW j \in 1 .. n
        PROVE  (IF From[ids[j]] = user THEN <<Chunk(b, t, j)>> ELSE <<>>) =
                 (IF j \in P THEN <<x[j]>> ELSE <<>>)
    BY <1>4, <1>6
  <2> QED
    BY ONLY <2>1, <2>2
<1>8. u = [j \in 1 .. n |-> IF j \in P THEN <<y[j]>> ELSE <<>>]
  <2>1. u = [j \in 1 .. n |-> IF From[ids[j]] = user THEN <<Data[ids[j]]>> ELSE <<>>]
    BY <1>1, <1>3, <1>5 DEF DatasOf
  <2>2. ASSUME NEW j \in 1 .. n
        PROVE  (IF From[ids[j]] = user THEN <<Data[ids[j]]>> ELSE <<>>) =
                 (IF j \in P THEN <<y[j]>> ELSE <<>>)
    BY <1>4, <1>6
  <2> QED
    BY ONLY <2>1, <2>2
<1>9. PICK R, D : R = AllChunks(b) /\ D = AllDatas
  OBVIOUS
<1>10. \A j \in 1 .. n : x[j] \in R /\ y[j] \in D
  <2> SUFFICES ASSUME NEW j \in 1 .. n PROVE x[j] \in R /\ y[j] \in D
    OBVIOUS
  <2>1. j \in Nat
    OBVIOUS
  <2>2. Chunk(b, t, j) \in R
    BY <1>9, <2>1 DEF AllChunks
  <2>3. Data[ids[j]] \in D
    BY <1>3, <1>9 DEF AllDatas
  <2> QED
    BY <1>6, <2>2, <2>3
<1>11. s \in Seq(Seq(R)) /\ Len(s) = n
  <2>1. \E Q, z : s = [j \in 1 .. n |-> IF j \in Q THEN <<z[j]>> ELSE <<>>]
                  /\ \A j \in 1 .. n : j \in Q => z[j] \in R
    BY <1>7, <1>10
  <2>2. n \in Nat
    BY <1>3
  <2> QED
    BY ONLY <2>1, <2>2, OptionalSeq
<1>12. u \in Seq(Seq(D)) /\ Len(u) = n
  <2>1. \E Q, z : u = [j \in 1 .. n |-> IF j \in Q THEN <<z[j]>> ELSE <<>>]
                  /\ \A j \in 1 .. n : j \in Q => z[j] \in D
    BY <1>8, <1>10
  <2>2. n \in Nat
    BY <1>3
  <2> QED
    BY ONLY <2>1, <2>2, OptionalSeq
<1>13. ASSUME NEW j \in 1 .. n
       PROVE  IF From[ids[j]] = user
              THEN s[j] = <<Chunk(b, t, j)>> /\ u[j] = <<Data[ids[j]]>>
              ELSE s[j] = <<>> /\ u[j] = <<>>
  <2>1. x[j] = Chunk(b, t, j) /\ y[j] = Data[ids[j]] /\ (j \in P <=> From[ids[j]] = user)
    BY <1>4, <1>6
  <2>2. /\ s[j] = IF j \in P THEN <<x[j]>> ELSE <<>>
        /\ u[j] = IF j \in P THEN <<y[j]>> ELSE <<>>
    BY <1>7, <1>8
  <2> QED
    BY ONLY <2>1, <2>2
<1> QED
  BY ONLY <1>1, <1>5, <1>9, <1>11, <1>12, <1>13

\* BlockPieces: and of a block's transactions.
LEMMA BlockPieces ==
    ASSUME ServeInv, NEW b \in DOMAIN blocks, NEW user
    PROVE  /\ BlockChunks(b, user) \in Seq(Seq(AllChunks(b)))
           /\ BlockDatas(b, user) \in Seq(Seq(AllDatas))
           /\ Len(BlockChunks(b, user)) = Len(blocks[b].txs)
           /\ Len(BlockDatas(b, user)) = Len(blocks[b].txs)
           /\ \A k \in 1 .. Len(blocks[b].txs) :
                /\ blocks[b].txs[k] \in DOMAIN txs
                /\ BlockChunks(b, user)[k] = FlattenSeq(ChunksOf(b, blocks[b].txs[k], user))
                /\ BlockDatas(b, user)[k] = FlattenSeq(DatasOf(blocks[b].txs[k], user))
<1>1. PICK ts, n : ts = blocks[b].txs /\ n = Len(ts)
  OBVIOUS
<1>2. ts \in Seq(DOMAIN txs)
  BY <1>1 DEF ServeInv, TreeInv, BlockOK
<1>3. n \in Nat /\ DOMAIN ts = 1 .. n /\ \A k \in 1 .. n : ts[k] \in DOMAIN txs
  BY <1>1, <1>2
<1>4. PICK s, u : s = BlockChunks(b, user) /\ u = BlockDatas(b, user)
  OBVIOUS
<1>5. /\ s = [k \in 1 .. n |-> FlattenSeq(ChunksOf(b, ts[k], user))]
      /\ u = [k \in 1 .. n |-> FlattenSeq(DatasOf(ts[k], user))]
  BY <1>1, <1>3, <1>4 DEF BlockChunks, BlockDatas
<1>6. PICK R, D : R = AllChunks(b) /\ D = AllDatas
  OBVIOUS
<1>7. ASSUME NEW k \in 1 .. n PROVE s[k] \in Seq(R) /\ u[k] \in Seq(D)
  <2>1. PICK t : t = ts[k] /\ t \in DOMAIN txs
    BY <1>3
  <2>2. PICK x, y : x = ChunksOf(b, t, user) /\ y = DatasOf(t, user)
    OBVIOUS
  <2>3. x \in Seq(Seq(R)) /\ y \in Seq(Seq(D))
    BY <1>6, <2>1, <2>2, PiecesAre
  <2>4. FlattenSeq(x) \in Seq(R)
    BY ONLY <2>3, FlattenIs
  <2>5. FlattenSeq(y) \in Seq(D)
    BY ONLY <2>3, FlattenIs
  <2>6. s[k] = FlattenSeq(x) /\ u[k] = FlattenSeq(y)
    BY <1>5, <2>1, <2>2
  <2> QED
    BY <2>4, <2>5, <2>6
<1>8. PICK A, B : A = Seq(R) /\ B = Seq(D)
  OBVIOUS
<1>9. s \in Seq(A) /\ Len(s) = n /\ u \in Seq(B) /\ Len(u) = n
  <2>1. s = [k \in 1 .. n |-> s[k]] /\ u = [k \in 1 .. n |-> u[k]]
    BY <1>5
  <2>2. \A k \in 1 .. n : s[k] \in A /\ u[k] \in B
    BY <1>7, <1>8
  <2> QED
    BY <1>3, <2>1, <2>2
<1>10. \A k \in 1 .. n : /\ s[k] = FlattenSeq(ChunksOf(b, ts[k], user))
                         /\ u[k] = FlattenSeq(DatasOf(ts[k], user))
  BY <1>5
<1> QED
  BY ONLY <1>1, <1>3, <1>4, <1>6, <1>8, <1>9, <1>10

\* FindsBlob: the sidecars that are fetched have the blob of each of the bundler's
\* transactions under its index.
LEMMA FindsBlob ==
    ASSUME ServeInv, NEW b \in Canonical, b \in DOMAIN blocks,
           NEW m \in DOMAIN blocks[b].txs, NEW t, t = blocks[b].txs[m], t \in Own,
           ~Shifted(b, t), NEW indices, BlobIndex(b, t) \in indices
    PROVE  (CHOOSE s \in ToSet(GetBlobSidecars(SlotOfBlock(b), indices)) :
              s.index = BlobIndex(b, t)).blob = BlobOf(txs[t].ids)
<1>1. PICK index, blobs : index = BlobIndex(b, t) /\ blobs = BlobsIn(b)
  OBVIOUS
<1>2. index \in Nat /\ index + 1 \in 1 .. Len(blobs) /\ blobs[index + 1] = BlobOf(txs[t].ids)
  BY <1>1, OwnBlob
<1>3. PICK slot : slot = SlotOfBlock(b)
  OBVIOUS
<1>4. BlockAt(slot) = {b}
  BY <1>3, OneBlock
<1>5. PICK found : found = ToSet(GetBlobSidecars(slot, indices))
  OBVIOUS
<1>6. found = {[index |-> k - 1, blob |-> blobs[k]] :
                 k \in {k \in 1 .. Len(blobs) : k - 1 \in indices}}
  <2>1. TreeInv /\ b \in DOMAIN blocks
    BY DEF ServeInv
  <2>2. ToSet(GetBlobSidecars(slot, indices)) =
          {[index |-> k - 1, blob |-> BlobsIn(b)[k]] :
             k \in {k \in 1 .. Len(BlobsIn(b)) : k - 1 \in indices}}
    BY ONLY <1>4, <2>1, SidecarsAre
  <2> QED
    BY <1>1, <1>5, <2>2
<1>7. PICK x : x = [index |-> index, blob |-> blobs[index + 1]]
  OBVIOUS
<1>8. x \in found /\ x.index = index
  <2>1. (index + 1) - 1 = index
    BY <1>2
  <2>2. index + 1 \in {k \in 1 .. Len(blobs) : k - 1 \in indices}
    BY <1>1, <1>2, <2>1
  <2>3. x = [index |-> (index + 1) - 1, blob |-> blobs[index + 1]]
    BY <1>7, <2>1
  <2>4. PICK k : k = index + 1
    OBVIOUS
  <2>5. /\ k \in {i \in 1 .. Len(blobs) : i - 1 \in indices}
        /\ x = [index |-> k - 1, blob |-> blobs[k]]
    BY <2>2, <2>3, <2>4
  <2>6. x \in found
    BY ONLY <1>6, <2>5
  <2> QED
    BY <1>7, <2>6
<1>9. ASSUME NEW y \in found, y.index = index PROVE y.blob = BlobOf(txs[t].ids)
  <2>1. PICK k \in 1 .. Len(blobs) : y = [index |-> k - 1, blob |-> blobs[k]]
    BY <1>6
  <2>2. k - 1 = index /\ y.blob = blobs[k]
    BY <1>9, <2>1
  <2>3. k \in Int
    OBVIOUS
  <2>4. k = index + 1
    BY <1>2, <2>2, <2>3
  <2> QED
    BY <1>2, <2>2, <2>4
<1>10. PICK z : z = CHOOSE s \in found : s.index = index
  OBVIOUS
<1>11. z \in found /\ z.index = index
  BY <1>8, <1>10
<1> QED
  BY <1>1, <1>3, <1>5, <1>9, <1>10, <1>11

ReadChunk(b, indices, c) ==
    SubSeq(DecodeBlobToData((CHOOSE s \in ToSet(GetBlobSidecars(SlotOfBlock(b), indices)) :
                               s.index = c.blob_index).blob), c.from + 1, c.to)

\* ChunkFinds: what is read for a chunk is the data of its intent.
LEMMA ChunkFinds ==
    ASSUME ServeInv, NEW b \in Canonical, b \in DOMAIN blocks,
           NEW t \in DOMAIN txs, t \in ToSet(blocks[b].txs),
           NEW j \in 1 .. Len(txs[t].ids), t \in Own => ~Shifted(b, t),
           NEW indices, BlobIndex(b, t) \in indices
    PROVE  ReadChunk(b, indices, Chunk(b, t, j)) = Data[txs[t].ids[j]]
<1> DEFINE c == Chunk(b, t, j)
<1>0. PICK m \in DOMAIN blocks[b].txs : t = blocks[b].txs[m]
  BY DEF ToSet
<1>1. PICK ids : ids = txs[t].ids
  OBVIOUS
<1>2. t \in Own
  <2>1. ids \in Seq(Intents)
    BY <1>1, TxIds
  <2>2. ids # <<>>
    BY <1>1, <2>1
  <2> QED
    BY <1>1, <2>2 DEF Own
<1>3. ids \in Seq(Intents) /\ Len(DataOf(ids)) <= Capacity /\ j \in 1 .. Len(ids)
  BY <1>1, <1>2, TxIds DEF OwnOK
<1>4. /\ c.blob_index = BlobIndex(b, t) /\ c.from = Start(ParticipantsOf(ids), j)
      /\ c.to = End(ParticipantsOf(ids), j)
  BY <1>1 DEF Chunk
<1> HIDE DEF c
<1>5. PICK blob : blob = (CHOOSE s \in ToSet(GetBlobSidecars(SlotOfBlock(b), indices)) :
                            s.index = BlobIndex(b, t)).blob
  OBVIOUS
<1>6. blob = BlobOf(ids)
  BY <1>0, <1>1, <1>2, <1>5, FindsBlob
<1>7. DecodeBlobToData(BlobOf(ids)) = Padded(DataOf(ids))
  <2>1. PICK data, S : data = DataOf(ids) /\ S = Bytes
    OBVIOUS
  <2>2. data \in Seq(S) /\ Len(data) <= Capacity
    BY <1>3, <2>1, DataIs
  <2>3. Padded(data) \in Seq(S \union {0}) /\ Len(Padded(data)) = Capacity
    BY ONLY <2>2, PaddedFills
  <2>4. PICK d, T : d = Padded(data) /\ T = S \union {0}
    OBVIOUS
  <2>5. d \in Seq(T) /\ Len(d) = Capacity
    BY <2>3, <2>4
  <2>6. DecodeBlobToData(EncodeDataToBlob(d)) = d
    BY ONLY <2>5, BlobDecodes
  <2> QED
    BY <2>1, <2>4, <2>6 DEF BlobOf
<1>8. SubSeq(Padded(DataOf(ids)), Start(ParticipantsOf(ids), j) + 1, End(ParticipantsOf(ids), j))
        = Data[ids[j]]
  BY ONLY <1>3, PartOfBlob
<1> QED
  <2>1. ReadChunk(b, indices, c) = SubSeq(DecodeBlobToData(blob), c.from + 1, c.to)
    BY ONLY <1>4, <1>5, Zenon DEF ReadChunk
  <2> QED
    BY ONLY <1>1, <1>4, <1>6, <1>7, <1>8, <2>1, Zenon DEF c

\* ExtractIs: a user gets the data of all their intents in a block.
LEMMA ExtractIs ==
    ASSUME ServeInv, NEW b \in Canonical, b \in DOMAIN blocks, NEW user,
           \A t \in Own : ~Shifted(b, t)
    PROVE  ExtractDataParticipation(b, user) = FlattenSeq(BlockDatas(b, user))
<1>1. PICK ts, n, s, u : /\ ts = blocks[b].txs /\ n = Len(ts) /\ s = BlockChunks(b, user)
                         /\ u = BlockDatas(b, user)
  OBVIOUS
<1>2. PICK R, D : R = AllChunks(b) /\ D = AllDatas
  OBVIOUS
<1>3. /\ s \in Seq(Seq(R)) /\ u \in Seq(Seq(D)) /\ Len(s) = n /\ Len(u) = n
      /\ \A k \in 1 .. n : /\ ts[k] \in DOMAIN txs
                           /\ s[k] = FlattenSeq(ChunksOf(b, ts[k], user))
                           /\ u[k] = FlattenSeq(DatasOf(ts[k], user))
  BY <1>1, <1>2, BlockPieces
<1>4. n \in Nat /\ DOMAIN ts = 1 .. n
  <2>1. ts \in Seq(DOMAIN txs)
    BY <1>1 DEF ServeInv, TreeInv, BlockOK
  <2> QED
    BY <1>1, <2>1
<1> DEFINE chunks == Participations(b, user)
           indices == {chunks[k].blob_index : k \in DOMAIN chunks}
<1>5. chunks = FlattenSeq(s)
  BY <1>1, ParticipationsAre
<1>6. ExtractDataParticipation(b, user) =
        [k \in DOMAIN chunks |-> ReadChunk(b, indices, chunks[k])]
  BY ONLY Zenon DEF ExtractDataParticipation, ReadChunk
<1>7. indices = {chunks[k].blob_index : k \in DOMAIN chunks}
  OBVIOUS
<1> HIDE DEF chunks, indices
<1>8. PICK C : C = ToSet(chunks)
  OBVIOUS
<1>9. PICK g : g = [c \in C |-> ReadChunk(b, indices, c)]
  OBVIOUS
<1>10. ExtractDataParticipation(b, user) = [k \in DOMAIN chunks |-> g[chunks[k]]]
  <2>1. \A k \in DOMAIN chunks : chunks[k] \in C
    BY <1>8 DEF ToSet
  <2>2. \A k \in DOMAIN chunks : g[chunks[k]] = ReadChunk(b, indices, chunks[k])
    BY ONLY <1>9, <2>1
  <2> QED
    BY ONLY <1>6, <2>2
<1>11. ASSUME NEW k \in 1 .. n
       PROVE  Len(u[k]) = Len(s[k]) /\ \A p \in 1 .. Len(s[k]) : u[k][p] = g[s[k][p]]
  <2>1. PICK t, x, y, ids : /\ t = ts[k] /\ x = ChunksOf(b, t, user) /\ y = DatasOf(t, user)
                            /\ ids = txs[t].ids
    OBVIOUS
  <2>2. t \in DOMAIN txs /\ s[k] = FlattenSeq(x) /\ u[k] = FlattenSeq(y)
    BY <1>3, <2>1
  <2>3. /\ x \in Seq(Seq(R)) /\ y \in Seq(Seq(D)) /\ Len(x) = Len(ids) /\ Len(y) = Len(ids)
        /\ \A j \in 1 .. Len(ids) :
             IF From[ids[j]] = user
             THEN x[j] = <<Chunk(b, t, j)>> /\ y[j] = <<Data[ids[j]]>>
             ELSE x[j] = <<>> /\ y[j] = <<>>
    BY <1>2, <2>1, <2>2, PiecesAre
  <2>4. ASSUME NEW j \in 1 .. Len(ids), From[ids[j]] = user
        PROVE  g[Chunk(b, t, j)] = Data[ids[j]]
    <3>1. PICK c : c = Chunk(b, t, j)
      OBVIOUS
    <3>2. c \in C
      <4>1. x[j] = <<c>>
        BY <2>3, <2>4, <3>1
      <4>2. c \in ToSet(x[j])
        <5>1. PICK z : z = <<c>>
          OBVIOUS
        <5>2. 1 \in DOMAIN z /\ z[1] = c
          BY <5>1
        <5> QED
          BY <4>1, <5>1, <5>2 DEF ToSet
      <4>3. ToSet(FlattenSeq(x)) = UNION {ToSet(x[i]) : i \in 1 .. Len(x)}
        BY ONLY <2>3, FlattenElements
      <4>4. c \in ToSet(s[k])
        BY <2>2, <2>3, <4>2, <4>3
      <4>5. ToSet(FlattenSeq(s)) = UNION {ToSet(s[i]) : i \in 1 .. Len(s)}
        BY ONLY <1>3, FlattenElements
      <4> QED
        BY <1>3, <1>5, <1>8, <4>4, <4>5
    <3>3. BlobIndex(b, t) \in indices
      <4>1. PICK p \in DOMAIN chunks : chunks[p] = c
        BY <1>8, <3>2 DEF ToSet
      <4>2. c.blob_index = BlobIndex(b, t)
        BY <3>1 DEF Chunk
      <4> QED
        BY <1>7, <4>1, <4>2
    <3>4. t \in ToSet(blocks[b].txs) /\ j \in 1 .. Len(txs[t].ids)
      BY <1>1, <1>4, <2>1 DEF ToSet
    <3>5. t \in Own => ~Shifted(b, t)
      OBVIOUS
    <3>6. ReadChunk(b, indices, c) = Data[txs[t].ids[j]]
      <4>1. b \in Canonical /\ b \in DOMAIN blocks /\ ServeInv
        OBVIOUS
      <4>2. ReadChunk(b, indices, Chunk(b, t, j)) = Data[txs[t].ids[j]]
        BY ONLY <2>2, <3>3, <3>4, <3>5, <4>1, ChunkFinds
      <4> QED
        BY ONLY <3>1, <4>2
    <3>7. g[c] = ReadChunk(b, indices, c)
      BY ONLY <1>9, <3>2
    <3> QED
      BY ONLY <2>1, <3>1, <3>6, <3>7
  <2>5. ASSUME NEW j \in 1 .. Len(x)
        PROVE  Len(y[j]) = Len(x[j]) /\ \A i \in 1 .. Len(x[j]) : y[j][i] = g[x[j][i]]
    <3>1. CASE From[ids[j]] = user
      <4>1. PICK c, d : c = Chunk(b, t, j) /\ d = Data[ids[j]]
        OBVIOUS
      <4>2. x[j] = <<c>> /\ y[j] = <<d>> /\ g[c] = d
        BY <2>3, <2>4, <3>1, <4>1
      <4> QED
        BY ONLY <4>2
    <3>2. CASE From[ids[j]] # user
      <4>1. x[j] = <<>> /\ y[j] = <<>>
        BY <2>3, <3>2
      <4> QED
        BY ONLY <4>1
    <3> QED
      BY <3>1, <3>2
  <2>6. [p \in DOMAIN FlattenSeq(x) |-> g[FlattenSeq(x)[p]]] = FlattenSeq(y)
    <3>1. x \in Seq(Seq(R)) /\ y \in Seq(Seq(D)) /\ Len(y) = Len(x)
      BY <2>3
    <3>2. Maps(g, x, y)
      BY ONLY <2>5, <3>1 DEF Maps
    <3> QED
      BY ONLY <3>1, <3>2, FlattenMap
  <2>7. FlattenSeq(x) \in Seq(R)
    BY ONLY <2>3, FlattenIs
  <2>8. FlattenSeq(y) \in Seq(D)
    BY ONLY <2>3, FlattenIs
  <2>9. PICK f, h : f = FlattenSeq(x) /\ h = FlattenSeq(y)
    OBVIOUS
  <2>10. f \in Seq(R) /\ h \in Seq(D) /\ h = [p \in DOMAIN f |-> g[f[p]]]
    BY ONLY <2>6, <2>7, <2>8, <2>9
  <2>11. DOMAIN f = 1 .. Len(f) /\ Len(f) \in Nat /\ DOMAIN h = 1 .. Len(h) /\ Len(h) \in Nat
    BY ONLY <2>10
  <2>12. DOMAIN h = DOMAIN f /\ \A p \in 1 .. Len(f) : h[p] = g[f[p]]
    BY ONLY <2>10, <2>11
  <2>13. Len(h) = Len(f)
    <3>1. PICK a, e : a = Len(f) /\ e = Len(h) /\ a \in Nat /\ e \in Nat
      BY ONLY <2>11
    <3>2. 1 .. a = 1 .. e
      BY ONLY <2>11, <2>12, <3>1
    <3>3. a # 0 => a \in 1 .. e
      BY ONLY <3>1, <3>2
    <3>4. e # 0 => e \in 1 .. a
      BY ONLY <3>1, <3>2
    <3>5. a = e
      BY ONLY <3>1, <3>3, <3>4
    <3> QED
      BY ONLY <3>1, <3>5
  <2> QED
    BY ONLY <2>2, <2>9, <2>12, <2>13
<1>12. [p \in DOMAIN FlattenSeq(s) |-> g[FlattenSeq(s)[p]]] = FlattenSeq(u)
  <2>1. s \in Seq(Seq(R)) /\ u \in Seq(Seq(D)) /\ Len(u) = Len(s)
    BY <1>3
  <2>2. \A k \in 1 .. Len(s) :
          Len(u[k]) = Len(s[k]) /\ \A p \in 1 .. Len(s[k]) : u[k][p] = g[s[k][p]]
    BY <1>3, <1>11
  <2>3. Maps(g, s, u)
    BY ONLY <2>1, <2>2 DEF Maps
  <2> QED
    BY ONLY <2>1, <2>3, FlattenMap
<1> QED
  BY ONLY <1>1, <1>5, <1>10, <1>12, Zenon

\* ExtractsOwnDataHolds: in every run, whoever reads a block of the chain gets the data of
\* all their intents in it and no other (extract_data_participation_from_block), unless a
\* transaction of several blobs precedes one of the bundler's.
THEOREM ExtractsOwnDataHolds == Spec => []ExtractsOwnData
<1>1. ServeInv => ExtractsOwnData
  <2> SUFFICES ASSUME ServeInv, NEW b \in Canonical, NEW user \in Range(From),
                      ~\E t \in Own : Shifted(b, t)
               PROVE  ExtractDataParticipation(b, user) =
                        Concat(LAMBDA t : Concat(LAMBDA i : IF From[i] = user THEN <<Data[i]>> ELSE <<>>,
                                                 txs[t].ids), blocks[b].txs)
    BY Zenon DEF ExtractsOwnData
  <2>1. b \in DOMAIN blocks
    <3>1. PICK path : path = blocks[head].path
      OBVIOUS
    <3>2. path \in Seq(DOMAIN blocks)
      BY <3>1 DEF ServeInv, BlocksOK, TreeInv, BlockOK
    <3>3. \A k \in DOMAIN path : path[k] \in DOMAIN blocks
      BY <3>2
    <3> QED
      BY <3>1, <3>3 DEF Canonical, ToSet
  <2>2. ExtractDataParticipation(b, user) = FlattenSeq(BlockDatas(b, user))
    BY <2>1, ExtractIs
  <2>3. Concat(LAMBDA t : Concat(LAMBDA i : IF From[i] = user THEN <<Data[i]>> ELSE <<>>,
                                 txs[t].ids), blocks[b].txs) = FlattenSeq(BlockDatas(b, user))
    BY Zenon DEF Concat, BlockDatas, DatasOf
  <2> QED
    BY <2>2, <2>3, Zenon
<1>2. Init => ServeInv
  BY ServeInit
<1>3. ServeInv /\ [Next]_vars => ServeInv'
  BY ServeStep
<1> QED
  BY <1>1, <1>2, <1>3, PTL DEF Spec
=============================================================================
