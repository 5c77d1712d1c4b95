------------------------------ MODULE TxEncoding ------------------------------
(***************************************************************************)
(* The encodings of a blob transaction: for its signature, for its hash,   *)
(* and for the node, which decodes it and computes the hash again.         *)
(*                                                                         *)
(* A byte string is a sequence of tokens, each of which knows how many     *)
(* bytes it has: a type byte, an RLP header with the payload length it     *)
(* announces, an RLP item.  A hash is what was hashed.  What RLP does to a *)
(* single value is external; the order of the fields, what each header     *)
(* announces and what the decoder demands is the code's.                   *)
(***************************************************************************)
EXTENDS Integers, SequencesExt

CONSTANT LongAt     \* payloads this long have a longer header (RLP: 56)

ASSUME TxEncodingAssumption == LongAt \in Nat

BlobTxType == 3

LengthOfLength(n) == IF n < LongAt THEN 1 ELSE 2

\* Strings and lists of hashes have a header of their own, numbers and addresses one byte.
Length(field, v) ==
    IF field \in {"input", "blob_versioned_hashes"} THEN LengthOfLength(Len(v)) + Len(v) ELSE 1

SignatureLen == 3   \* y_parity, r, s

TypeByte == [kind |-> "type", value |-> BlobTxType, len |-> 1]
Header(list, payloadLen) ==
    [kind |-> IF list THEN "list" ELSE "string", value |-> payloadLen,
     len |-> LengthOfLength(payloadLen)]
Item(v, len) == [kind |-> "item", value |-> v, len |-> len]

TotalLen(tokens) == FoldSeq(LAMBDA token, sum : token.len + sum, 0, tokens)

\* What a header announces is what follows it.
AnnouncesLength(tokens) == tokens[1].value = TotalLen(Tail(tokens))

-----------------------------------------------------------------------------
(* TxEip4844 *)

\* the order of encode_fields
FieldOrder == <<"chain_id", "nonce", "max_priority_fee_per_gas", "max_fee_per_gas", "gas_limit",
                "to", "value", "input", "access_list", "max_fee_per_blob_gas",
                "blob_versioned_hashes">>

\* the order of decode_inner
DecodeOrder == <<"chain_id", "nonce", "max_priority_fee_per_gas", "max_fee_per_gas", "gas_limit",
                 "to", "value", "input", "access_list", "max_fee_per_blob_gas",
                 "blob_versioned_hashes">>

FieldsLen(tx) == FoldSeq(LAMBDA field, sum : Length(field, tx[field]) + sum, 0, FieldOrder)

\* Mutant of EncodeFields: the order of the struct, where the gas limit is second to the fee.
EncodeStructOrder(tx) ==
    LET order == <<"chain_id", "nonce", "gas_limit", "max_fee_per_gas",
                   "max_priority_fee_per_gas", "to", "value", "input", "access_list",
                   "max_fee_per_blob_gas", "blob_versioned_hashes">>
    IN  [k \in DOMAIN order |-> Item(tx[order[k]], Length(order[k], tx[order[k]]))]

EncodeFields(tx) ==
    [k \in DOMAIN FieldOrder |->
       Item(tx[FieldOrder[k]], Length(FieldOrder[k], tx[FieldOrder[k]]))]

EncodeForSigning(tx) == <<TypeByte, Header(TRUE, FieldsLen(tx))>> \o EncodeFields(tx)

\* payload_len_for_signature
PayloadLenForSignature(tx) == 1 + LengthOfLength(FieldsLen(tx)) + FieldsLen(tx)

SignatureHash(tx) == EncodeForSigning(tx)

\* The string header is for other encodings: the hash is computed without.
EncodeWithSignature(tx, signature, withHeader) ==
    LET payloadLen == FieldsLen(tx) + SignatureLen
        body == <<TypeByte, Header(TRUE, payloadLen)>> \o EncodeFields(tx)
                  \o <<Item(signature, SignatureLen)>>
    IN  IF withHeader
        THEN <<Header(FALSE, 1 + LengthOfLength(payloadLen) + payloadLen)>> \o body
        ELSE body

\* payload_len_with_signature, and _without_header
PayloadLenWithSignature(tx, withHeader) ==
    LET payloadLen == FieldsLen(tx) + SignatureLen
        len        == 1 + LengthOfLength(payloadLen) + payloadLen
    IN  IF withHeader THEN LengthOfLength(len) + len ELSE len

ComputeBlobTxHash(tx, signature) == EncodeWithSignature(tx, signature, FALSE)

-----------------------------------------------------------------------------
(* BlobTransactionSidecar and BlobTransaction *)

SidecarItem(list) == Item(list, LengthOfLength(Len(list)) + Len(list))

EncodeSidecar(sidecar) ==
    <<SidecarItem(sidecar.blobs), SidecarItem(sidecar.commitments), SidecarItem(sidecar.proofs)>>

SidecarLen(sidecar) == TotalLen(EncodeSidecar(sidecar))

\* encode_inner: the outer list holds the inner list with its header, and the sidecar.
EncodeInner(tx, signature, sidecar) ==
    LET txHeader  == Header(TRUE, FieldsLen(tx) + SignatureLen)
        txLength  == txHeader.len + txHeader.value
    IN  <<Header(TRUE, txLength + SidecarLen(sidecar)), txHeader>> \o EncodeFields(tx)
          \o <<Item(signature, SignatureLen)>> \o EncodeSidecar(sidecar)

\* payload_len
PayloadLen(tx, signature, sidecar) ==
    LET txHeader == Header(TRUE, FieldsLen(tx) + SignatureLen)
        header   == Header(TRUE, txHeader.len + txHeader.value + SidecarLen(sidecar))
    IN  header.len + header.value

\* payload_len_with_type
PayloadLenWithType(tx, signature, sidecar, withHeader) ==
    LET len == 1 + PayloadLen(tx, signature, sidecar)
    IN  IF withHeader THEN LengthOfLength(len) + len ELSE len

EncodeWithTypeInner(tx, signature, sidecar, withHeader) ==
    (IF withHeader THEN <<Header(FALSE, 1 + PayloadLen(tx, signature, sidecar))>> ELSE <<>>)
      \o <<TypeByte>> \o EncodeInner(tx, signature, sidecar)

FirstField == 3
SignatureAt == FirstField + Len(DecodeOrder)

IsList(token) == token.kind = "list"

\* decode_inner, of what follows the type byte.  Nothing is read past a wrong header.
Decodes(tokens) ==
    /\ IsList(tokens[1]) /\ IsList(tokens[2])
    /\ TotalLen(SubSeq(tokens, FirstField, SignatureAt)) = tokens[2].value
    /\ TotalLen(SubSeq(tokens, 2, SignatureAt + 3)) = tokens[1].value

\* blobs, commitments and proofs, in this order
DecodeSidecar(tokens) ==
    [blobs |-> tokens[1].value, commitments |-> tokens[2].value, proofs |-> tokens[3].value]

DecodeInner(tokens) ==
    LET tx == [field \in ToSet(DecodeOrder) |->
                 tokens[FirstField - 1 + (CHOOSE k \in DOMAIN DecodeOrder :
                                            DecodeOrder[k] = field)].value]
        signature == tokens[SignatureAt].value
    IN  [transaction |-> tx, signature |-> signature,
         hash |-> ComputeBlobTxHash(tx, signature),
         sidecar |-> DecodeSidecar(SubSeq(tokens, SignatureAt + 1, SignatureAt + 3))]
=============================================================================
