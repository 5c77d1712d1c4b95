--------------------------------- MODULE Blobs ---------------------------------
(***************************************************************************)
(* From the data of intents to a blob transaction, to the node, into a     *)
(* block, and back to the data: construct_blob_tx, the participants in its *)
(* input, the encoding of the blob, and the two readers of consumer.rs     *)
(* with the cache in front of one of them.                                 *)
(*                                                                         *)
(* A field element has ElementLen usable bytes and one that is zero; a     *)
(* length is written with LenDigits digits of base LenBase; an address is  *)
(* one byte.  The KZG commitment of a blob is the blob.  Blocks are a tree *)
(* (path: the block's ancestors and itself) with at most one block in a    *)
(* slot: a proposer does not sign two.                                     *)
(***************************************************************************)
EXTENDS TxEncoding, Fees, FiniteSetsExt, TLC

CONSTANTS
    Intents,        \* stored intents
    From, Data,     \* of each intent: its owner's address, its data
    Wallet,         \* the sender, one of target_addresses
    Foreigner,      \* somebody who sends blob transactions, too
    ForeignInputs,  \* the inputs these may have
    ForeignBlobs,   \* how many blobs these may have
    ElementLen,     \* usable bytes of a field element (31)
    Elements,       \* FIELD_ELEMENTS_PER_BLOB
    LenBase, LenDigits, \* base and number of digits of a length (256, 4)
    GenesisTime, SecondsPerSlot, \* the beacon chain's
    MaxBlobs,       \* blobs a block may have
    MaxTxs, MaxBlocks, MaxSlot   \* bounds

\* what a digit counts that has k digits after it
Place[k \in Nat] == IF k = 0 THEN 1 ELSE LenBase * Place[k - 1]

ASSUME BlobsAssumption ==
    /\ ForeignBlobs \subseteq 1 .. MaxBlobs /\ Foreigner # Wallet
    /\ LenBase \in Nat \ {0} /\ LenDigits \in Nat
    /\ IsFiniteSet(Intents)
    /\ \A i \in Intents : Data[i] \in Seq(ToSet(Data[i])) /\ Len(Data[i]) < Place[LenDigits]
    /\ ElementLen \in Nat \ {0} /\ Elements \in Nat \ {0}
    /\ GenesisTime \in Nat /\ SecondsPerSlot \in Nat \ {0}

VARIABLES
    txs,        \* transactions in the mempool or mined, as the node tells them, with the
                \* intents of ours; a transaction's hash is its index
    blocks,     \* the node's blocks, records [path, slot, txs, excess]; a hash is an index
    head,       \* the node's head
    request,    \* a request for the blob of a transaction: <<>> or <<record>>
    blobCache   \* blob_cache: responses by transaction hash

vars == <<txs, blocks, head, request, blobCache>>

Capacity == Elements * ElementLen

\* The concatenation of what f gives for each element of s.
Concat(f(_), s) == FlattenSeq([k \in DOMAIN s |-> f(s[k])])

-----------------------------------------------------------------------------
(* Participants: BlobTxParticipant and encode_blob_tx_data *)

ParticipantVersion == 1

\* a length, most significant digit first
Digits(n) == [k \in 1 .. LenDigits |-> (n \div Place[LenDigits - k]) % LenBase]
Number(digits) ==
    MapThenSumSet(LAMBDA k : digits[k] * Place[LenDigits - k], DOMAIN digits)

Write(p) == <<ParticipantVersion>> \o Digits(p.data_len) \o <<p.address>>

\* The buffer starts as one zero byte, which the first participant overwrites.
EncodeBlobTxData(participants) ==
    IF participants = <<>> THEN <<0>> ELSE Concat(Write, participants)

RecordLen == LenDigits + 2

Read(bytes) ==
    [address |-> bytes[RecordLen], data_len |-> Number(SubSeq(bytes, 2, LenDigits + 1))]

\* BlobTxParticipant::read until the input ends: every record is whole and of version 1
Parses(input) ==
    /\ Len(input) % RecordLen = 0
    /\ \A k \in 1 .. Len(input) \div RecordLen :
         input[(k - 1) * RecordLen + 1] = ParticipantVersion

ReadAll(input) ==
    [k \in 1 .. Len(input) \div RecordLen |->
       Read(SubSeq(input, (k - 1) * RecordLen + 1, k * RecordLen))]

IsBlobTx(tx) == tx.type = BlobTxType

UsedBytes(participants) == FoldSeq(LAMBDA p, sum : p.data_len + sum, 0, participants)

Summary(participants, tx) ==
    [participants |-> participants, used_bytes |-> UsedBytes(participants), from |-> tx.from,
     nonce |-> tx.nonce, max_fee_per_blob_gas |-> tx.max_fee_per_blob_gas]

\* BlobTxSummary::from_tx, of a blob transaction whose input parses
FromTx(tx) == Summary(ReadAll(tx.input), tx)

-----------------------------------------------------------------------------
(* kzg.rs *)

Padded(data) == data \o [k \in 1 .. Capacity - Len(data) |-> 0]

\* each chunk of data after a zero byte
EncodeDataToBlob(data) ==
    [k \in 1 .. Elements * (ElementLen + 1) |->
       LET element == (k - 1) \div (ElementLen + 1)
           byte    == (k - 1) % (ElementLen + 1)
       IN  IF byte = 0 THEN 0 ELSE data[element * ElementLen + byte]]

DecodeBlobToData(blob) ==
    [k \in 1 .. Capacity |->
       blob[((k - 1) \div ElementLen) * (ElementLen + 1) + 2 + ((k - 1) % ElementLen)]]

EstimateGasLimit(input) ==
    FoldSeq(LAMBDA byte, gas : (IF byte = 0 THEN 4 ELSE 16) + gas, 21000 + 5000, input)

\* fetch_many_data_intent_db_full: the rows of the selected intents, in the order the
\* database likes; participants and data are both taken from them.
FetchMany(selected) == SetToSeqs(selected)

ParticipantsOf(ids) == [k \in DOMAIN ids |-> [address |-> From[ids[k]],
                                              data_len |-> Len(Data[ids[k]])]]
DataOf(ids) == Concat(LAMBDA i : Data[i], ids)

Payload(ids, nonce, fee) ==
    LET input == EncodeBlobTxData(ParticipantsOf(ids))
    IN  [chain_id |-> 1, nonce |-> nonce, max_priority_fee_per_gas |-> 2, max_fee_per_gas |-> 5,
         gas_limit |-> EstimateGasLimit(input), to |-> 0, value |-> 0, input |-> input,
         access_list |-> {}, max_fee_per_blob_gas |-> fee,
         blob_versioned_hashes |-> <<EncodeDataToBlob(Padded(DataOf(ids)))>>]

Signature(payload) == [by |-> Wallet, of |-> SignatureHash(payload)]

Sidecar(payload) ==
    [blobs |-> payload.blob_versioned_hashes, commitments |-> payload.blob_versioned_hashes,
     proofs |-> payload.blob_versioned_hashes]

\* construct_blob_tx, of data that fits
ConstructBlobTx(ids, nonce, fee) ==
    LET payload == Payload(ids, nonce, fee)
    IN  [tx_hash |-> ComputeBlobTxHash(payload, Signature(payload)),
         networking |-> EncodeWithTypeInner(payload, Signature(payload), Sidecar(payload), FALSE),
         tx_summary |-> Summary(ParticipantsOf(ids),
                                [from |-> Wallet, nonce |-> nonce, max_fee_per_blob_gas |-> fee])]

-----------------------------------------------------------------------------
(* The node *)

\* What the node makes of the bytes it is sent: the fields it decodes, and as sender
\* whoever signed these.
NodeTx(networking) ==
    LET pooled == DecodeInner(Tail(networking))
        tx     == pooled.transaction
    IN  [type |-> BlobTxType, input |-> tx.input, nonce |-> tx.nonce,
         max_fee_per_blob_gas |-> tx.max_fee_per_blob_gas,
         from |-> IF pooled.signature.of = SignatureHash(tx) THEN pooled.signature.by
                  ELSE Foreigner,
         blobs |-> pooled.sidecar.blobs]

NodeHash(networking) == DecodeInner(Tail(networking)).hash

Tx(t) == txs[t].tx

Padding(address) == EncodeDataToBlob([k \in 1 .. Capacity |-> address])

ForeignBlobTx(input, count) ==
    [type |-> BlobTxType, input |-> input, nonce |-> 0, max_fee_per_blob_gas |-> 99,
     from |-> Foreigner, blobs |-> [k \in 1 .. count |-> Padding(Foreigner)]]

Transfer(nonce) ==
    [type |-> 2, input |-> <<>>, nonce |-> nonce, max_fee_per_blob_gas |-> 0,
     from |-> Wallet, blobs |-> <<>>]

BlobsIn(b) == Concat(LAMBDA t : Tx(t).blobs, blocks[b].txs)

Mined(b) == UNION {ToSet(blocks[a].txs) : a \in ToSet(blocks[b].path)}

Canonical == ToSet(blocks[head].path)

TimeOf(b) == GenesisTime + SecondsPerSlot * blocks[b].slot

\* EIP-4844: the excess of a child, and what a transaction of a block must pay
ChildExcess(b) ==
    LET sum == blocks[b].excess + Len(BlobsIn(b))
    IN  IF sum < TargetBlobGas THEN 0 ELSE sum - TargetBlobGas
Pays(t, excess) == IsBlobTx(Tx(t)) => Tx(t).max_fee_per_blob_gas >= BlobGasPrice(excess)

NextNonce == Cardinality({t \in DOMAIN txs : Tx(t).from = Wallet})

\* A block on parent with the transactions ts, in a slot of its own.
MineBlock(parent, slot, ts) ==
    LET excess == ChildExcess(parent)
    IN  /\ Len(blocks) < MaxBlocks
        /\ slot > blocks[parent].slot /\ \A b \in DOMAIN blocks : blocks[b].slot # slot
        /\ \A t \in ToSet(ts) : t \notin Mined(parent) /\ Pays(t, excess)
        /\ Len(Concat(LAMBDA t : Tx(t).blobs, ts)) <= MaxBlobs
        /\ blocks' = Append(blocks, [path |-> Append(blocks[parent].path, Len(blocks) + 1),
                                     slot |-> slot, txs |-> ts, excess |-> excess])
        /\ head' = Len(blocks) + 1
        /\ UNCHANGED <<txs, request, blobCache>>

SwitchHead ==
    /\ \E b \in DOMAIN blocks \ {head} : head' = b
    /\ UNCHANGED <<txs, blocks, request, blobCache>>

\* Others send blob transactions, whose input may be anything.
ForeignTx ==
    /\ Len(txs) < MaxTxs
    /\ \E input \in ForeignInputs, n \in ForeignBlobs :
         txs' = Append(txs, [ids |-> <<>>, tx |-> ForeignBlobTx(input, n)])
    /\ UNCHANGED <<blocks, head, request, blobCache>>

\* Blob sidecars of the canonical block in a slot, those of the indices: the beacon node
\* answers in the order of their indices, and not at all if the slot is empty.
BlockAt(slot) == {b \in Canonical : blocks[b].slot = slot}

GetBlobSidecars(slot, indices) ==
    LET blobs == BlobsIn(CHOOSE b \in BlockAt(slot) : TRUE)
    IN  FlattenSeq([k \in DOMAIN blobs |-> IF k - 1 \in indices
                                           THEN <<[index |-> k - 1, blob |-> blobs[k]]>>
                                           ELSE <<>>])

-----------------------------------------------------------------------------
(* The sender *)

\* blob_gas_price_next_head_block
FeeAt(b) == BlobGasPriceNextBlock(blocks[b].excess, Len(BlobsIn(b)))

\* A packed selection is sent; data that does not fit is refused.
SendBlobTx(ids) ==
    /\ Len(txs) < MaxTxs
    /\ Len(DataOf(ids)) <= Capacity
    /\ txs' = Append(txs, [ids |-> ids,
                           tx |-> NodeTx(ConstructBlobTx(ids, NextNonce, FeeAt(head)).networking)])
    /\ UNCHANGED <<blocks, head, request, blobCache>>

SendSelfTransfer ==
    /\ Len(txs) < MaxTxs
    /\ txs' = Append(txs, [ids |-> <<>>, tx |-> Transfer(NextNonce)])
    /\ UNCHANGED <<blocks, head, request, blobCache>>

-----------------------------------------------------------------------------
(* consumer.rs *)

SlotOfBlock(b) == (TimeOf(b) - GenesisTime) \div SecondsPerSlot

\* The index of t's blob in its block: the blob transactions before it
BlobIndex(b, t) ==
    LET before == {k \in DOMAIN blocks[b].txs : k < CHOOSE m \in DOMAIN blocks[b].txs :
                                                      blocks[b].txs[m] = t}
    IN  Cardinality({k \in before : IsBlobTx(Tx(blocks[b].txs[k]))})

\* Where each participant's data starts and ends
Start(participants, k) == UsedBytes(SubSeq(participants, 1, k - 1))
End(participants, k) == Start(participants, k) + participants[k].data_len

\* Mutant of Response: the last participant gets the padding, too.
ResponseOfAll(participants, decoded) ==
    [k \in DOMAIN participants |->
       [address |-> participants[k].address,
        data |-> SubSeq(decoded, Start(participants, k) + 1,
                        IF k = Len(participants) THEN Len(decoded) ELSE End(participants, k))]]

Response(participants, decoded) ==
    [k \in DOMAIN participants |->
       [address |-> participants[k].address,
        data |-> SubSeq(decoded, Start(participants, k) + 1,
                        Min({End(participants, k), Len(decoded)}))]]

\* get_blobs_by_tx_hash and the explorer's get_tx, when the response is not cached:
\* get_transaction tells the block, get_block_with_txs its transactions.
LookUpTx(t) ==
    /\ request = <<>> /\ t \notin DOMAIN blobCache
    /\ IsBlobTx(Tx(t)) /\ Parses(Tx(t).input)
    /\ \E b \in Canonical :
         /\ t \in ToSet(blocks[b].txs)
         /\ request' = <<[tx |-> t, block |-> b]>>
    /\ UNCHANGED <<txs, blocks, head, blobCache>>

\* get_blob_sidecars, decoding and caching
FetchBlob ==
    /\ request # <<>>
    /\ BlockAt(SlotOfBlock(request[1].block)) # {}
    /\ LET t        == request[1].tx
           sidecars == GetBlobSidecars(SlotOfBlock(request[1].block),
                                       {BlobIndex(request[1].block, t)})
       IN  /\ sidecars # <<>>
           /\ blobCache' = [s \in DOMAIN blobCache \union {t} |->
                              IF s = t THEN Response(FromTx(Tx(t)).participants,
                                                     DecodeBlobToData(Head(sidecars).blob))
                              ELSE blobCache[s]]
    /\ request' = <<>>
    /\ UNCHANGED <<txs, blocks, head>>

\* The block is not canonical any more, or a call fails: an error, nothing is cached.
FetchFails ==
    /\ request # <<>> /\ request' = <<>>
    /\ UNCHANGED <<txs, blocks, head, blobCache>>

\* extract_data_participations_from_block: where a user's data is, by blob index
Participations(b, user) ==
    LET ofTx(t) ==
          LET participants == FromTx(Tx(t)).participants
          IN  FlattenSeq([k \in DOMAIN participants |->
                IF participants[k].address = user
                THEN <<[blob_index |-> BlobIndex(b, t), from |-> Start(participants, k),
                        to |-> End(participants, k)]>>
                ELSE <<>>])
        readable(t) == IsBlobTx(Tx(t)) /\ Tx(t).from = Wallet /\ Parses(Tx(t).input)
    IN  Concat(LAMBDA t : IF readable(t) THEN ofTx(t) ELSE <<>>, blocks[b].txs)

\* Mutant of ExtractDataParticipation: sidecars taken by their place in the answer.
ExtractByPlace(b, user) ==
    LET chunks   == Participations(b, user)
        sidecars == GetBlobSidecars(SlotOfBlock(b), {chunks[k].blob_index : k \in DOMAIN chunks})
    IN  [k \in DOMAIN chunks |->
           SubSeq(DecodeBlobToData(sidecars[1].blob), chunks[k].from + 1, chunks[k].to)]

\* extract_data_participation_from_block, while the block is canonical; a range that
\* exceeds the blob is an error
ExtractDataParticipation(b, user) ==
    LET chunks   == Participations(b, user)
        sidecars == GetBlobSidecars(SlotOfBlock(b), {chunks[k].blob_index : k \in DOMAIN chunks})
        blobData(index) == DecodeBlobToData(
          (CHOOSE s \in ToSet(sidecars) : s.index = index).blob)
    IN  [k \in DOMAIN chunks |->
           SubSeq(blobData(chunks[k].blob_index), chunks[k].from + 1, chunks[k].to)]

-----------------------------------------------------------------------------

\* The first block is empty and at the beacon chain's genesis.
Init ==
    /\ txs = <<>> /\ head = 1 /\ request = <<>> /\ blobCache = << >>
    /\ blocks = <<[path |-> <<1>>, slot |-> 0, txs |-> <<>>, excess |-> 1]>>

Orders == UNION {SetToAllKPermutations(s) : s \in SUBSET DOMAIN txs}

Node == \/ \E parent \in DOMAIN blocks, slot \in 1 .. MaxSlot, ts \in Orders :
             MineBlock(parent, slot, ts)
        \/ SwitchHead \/ ForeignTx
Sender ==
    \/ SendSelfTransfer
    \/ \E selected \in (SUBSET Intents) \ {{}} : \E ids \in FetchMany(selected) : SendBlobTx(ids)
Reader == (\E t \in DOMAIN txs : LookUpTx(t)) \/ FetchBlob \/ FetchFails

Next == Node \/ Sender \/ Reader

Spec == Init /\ [][Next]_vars

-----------------------------------------------------------------------------
(* Properties *)

Own == {t \in DOMAIN txs : txs[t].ids # <<>>}

\* The readers count transactions, where the beacon node counts blobs: in block b a
\* transaction before t has several.
Shifted(b, t) ==
    \E k, m \in DOMAIN blocks[b].txs :
      k < m /\ blocks[b].txs[m] = t /\ Len(Tx(blocks[b].txs[k]).blobs) > 1

\* ServedOwnData: what is served, and cached for good, for a transaction of the bundler
\* is what its participants posted, in their order, whatever precedes it in its block
\* but a transaction of several blobs, and though the node may reorganise between the
\* lookup of the block and the fetch of the sidecars (get_blobs.rs: "blob data for
\* included txs is immutable").
ServedOwnData ==
    \A t \in Own \intersect DOMAIN blobCache :
      \/ blobCache[t] = [k \in DOMAIN txs[t].ids |->
                           [address |-> From[txs[t].ids[k]], data |-> Data[txs[t].ids[k]]]]
      \/ \E b \in DOMAIN blocks : Shifted(b, t)

\* ExtractsOwnData: a user who reads a block of the chain gets the data of all their
\* intents in it, of several transactions too, and nobody else's, but where a
\* transaction of several blobs comes first.
ExtractsOwnData ==
    \A b \in Canonical, user \in Range(From) :
      \/ ExtractDataParticipation(b, user) =
           Concat(LAMBDA t : Concat(LAMBDA i : IF From[i] = user THEN <<Data[i]>> ELSE <<>>,
                                    txs[t].ids), blocks[b].txs)
      \/ \E t \in Own : Shifted(b, t)

\* NodeAgrees: of the bytes that are sent the node decodes the hash, the sender and the
\* summary that are registered for them, and the data of the blob; every encoding has
\* the length that is computed for it beforehand, and that its header announces.
Agrees(ids, tx) ==
    LET sent      == ConstructBlobTx(ids, tx.nonce, tx.max_fee_per_blob_gas)
        payload   == Payload(ids, tx.nonce, tx.max_fee_per_blob_gas)
        signature == Signature(payload)
        sidecar   == Sidecar(payload)
    IN  /\ Decodes(Tail(sent.networking))
        /\ NodeHash(sent.networking) = sent.tx_hash
        /\ FromTx(tx) = sent.tx_summary
        /\ DecodeBlobToData(tx.blobs[1]) = Padded(DataOf(ids))
        /\ TotalLen(EncodeForSigning(payload)) = PayloadLenForSignature(payload)
        /\ \A withHeader \in BOOLEAN :
             LET signed == EncodeWithSignature(payload, signature, withHeader)
                 pooled == EncodeWithTypeInner(payload, signature, sidecar, withHeader)
             IN  /\ TotalLen(signed) = PayloadLenWithSignature(payload, withHeader)
                 /\ TotalLen(pooled) = PayloadLenWithType(payload, signature, sidecar, withHeader)
                 /\ withHeader => AnnouncesLength(signed) /\ AnnouncesLength(pooled)

NodeAgrees ==
    [][\A t \in DOMAIN txs' \ DOMAIN txs :
         txs'[t].ids # <<>> => Agrees(txs'[t].ids, txs'[t].tx)]_vars

\* IncludableNext: a transaction that is made on a block pays the blob gas of each child
\* of it, however full the block is: its fee is the price the protocol asks of a child.
IncludableNext ==
    \A b \in DOMAIN blocks : Len(blocks[b].path) > 1 =>
      LET parent == blocks[b].path[Len(blocks[b].path) - 1]
      IN  FeeAt(parent) = BlobGasPrice(blocks[b].excess)
=============================================================================
