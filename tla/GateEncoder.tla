----------------------------- MODULE GateEncoder -----------------------------
(****************************************************************************)
(* GateEncoder: the two-way map between keys and the ids 0, 1, 2, ...       *)
(* (src/src/utility/encoder.hpp).  Since ids are given in order and never   *)
(* taken back, an encoder is the sequence of its keys: key i has id i.      *)
(* The keys of a circuit's encoder are gate names; inside the transformers  *)
(* they are gate ids or auxiliary names.                                    *)
(****************************************************************************)
LOCAL INSTANCE Integers
LOCAL INSTANCE Sequences

NoEncoder == <<>>

KeyExists(encoder, key) == \E i \in DOMAIN encoder : encoder[i] = key

(* encodeGate changes the encoder only if the key is new ...                *)
EncodeGate(encoder, key) ==
    IF KeyExists(encoder, key) THEN encoder ELSE Append(encoder, key)

(* ... and returns the id of the key.                                       *)
IdOf(encoder, key) ==
    LET keys == EncodeGate(encoder, key)
    IN  CHOOSE id \in DOMAIN keys : keys[id] = key

DecodeGate(encoder, id) == encoder[id]

(* A loop that encodes one key after another.                               *)
EncodeGates(encoder, keys) ==
    LET after[k \in 0 .. Len(keys)] ==
            IF k = 0 THEN encoder ELSE EncodeGate(after[k - 1], keys[k])
    IN  after[Len(keys)]

MergeGateEncoders(first, second) ==
    EncodeGates(NoEncoder, [i \in DOMAIN second |-> DecodeGate(first, second[i])])

(* getUniqueId_ and getNewGateName_ (transformer_base.hpp): a transformer   *)
(* draws a prefix and names the gates it adds with the prefix and a number. *)
(* The draw of nine digits is taken to be a prefix no name has yet.         *)
UniquePrefix(ids, names) ==
    CHOOSE p \in ids : \A g \in DOMAIN names : names[g][1] # p

NewGateName(prefix, id) == <<prefix, id>>
==============================================================================
