------------------------------ MODULE GiftWrap ------------------------------
(***************************************************************************)
(* NIP-44 encryption and the NIP-59 envelope of gift_wrap.rs: a rumor that *)
(* is not signed, sealed for the recipient and signed by the sender,       *)
(* wrapped again under a key made for the occasion.                        *)
(*                                                                         *)
(* A ciphertext is the pair of the key and the plaintext; only the same    *)
(* key opens it, and one damaged on the way carries a key that is none.    *)
(* Lengths are bytes and have operators of their own.                      *)
(***************************************************************************)
EXTENDS Events

KIND_SEAL == 13
KIND_GIFT_WRAP == 1059

-----------------------------------------------------------------------------
(* NIP-44.                                                                  *)

\* Diffie-Hellman: both ends derive the same key.
conversation_key(secret, pubkey) ==
    IF {secret, pubkey} \subseteq Keys THEN Ok({secret, pubkey}) ELSE Err("Hex")

nip44_encrypt(key, plaintext) == [form |-> "nip44", key |-> key, text |-> plaintext]

nip44_decrypt(key, payload) ==
    IF payload.form # "nip44" THEN Err("InvalidPayload")
    ELSE IF payload.key # key THEN Err("HmacMismatch")
    ELSE Ok(payload.text)

Powers == {32, 64, 128, 256, 512, 1024, 2048, 4096, 8192, 16384, 32768, 65536}

\* The next power of two, at least 32; a length outside 1..65535 is a panic.
PaddableLen(len) == len \in 1..65535
PaddedLen(len) == CHOOSE p \in Powers : p >= len /\ \A q \in Powers : q >= len => p <= q

\* Version, nonce, the ciphertext of the length prefix and the padding with
\* its tag, and the HMAC, in base64.
PayloadLen(len) == 1 + 32 + (2 + PaddedLen(len) + 16) + 32
Base64Len(len) == 4 * ((len + 2) \div 3)

-----------------------------------------------------------------------------
(* The envelope.                                                            *)

gift_wrap(rumor, sender, recipient, now, ephemeral, jittered) ==
    LET dated == [rumor EXCEPT !.pubkey = sender, !.created_at = now, !.sig = NoId]
        sent == [dated EXCEPT !.id = compute_event_id(dated)]
        inner == conversation_key(sender, recipient)
        seal == sign_event(Unsigned(KIND_SEAL, <<>>, nip44_encrypt(inner.val, sent)),
                           sender, now)
        outer == conversation_key(ephemeral, recipient)
    IN  IF sender \notin Keys THEN Err("Hex")
        ELSE IF ~inner.ok THEN inner
        ELSE sign_event(Unsigned(KIND_GIFT_WRAP, << <<"p", recipient>> >>,
                                 nip44_encrypt(outer.val, seal.val)),
                        ephemeral, jittered)

\* The random time of a wrap, within two days of now and not negative.
TimesAround(now, jitter) == (IF now < jitter THEN 0 ELSE now - jitter)..(now + jitter)

unwrap_gift(wrapped, recipient) ==
    LET outer == conversation_key(recipient, wrapped.pubkey)
        seal == nip44_decrypt(outer.val, wrapped.content)
        verdict == verify_event(seal.val)
        inner == conversation_key(recipient, seal.val.pubkey)
        rumor == nip44_decrypt(inner.val, seal.val.content)
    IN  IF wrapped.kind # KIND_GIFT_WRAP THEN Err("WrongKind")
        ELSE IF ~outer.ok THEN outer
        ELSE IF ~seal.ok THEN seal
        ELSE IF seal.val.kind # KIND_SEAL THEN Err("WrongKind")
        ELSE IF ~verdict.ok THEN verdict
        ELSE IF ~inner.ok THEN inner
        ELSE IF ~rumor.ok THEN rumor
        ELSE Ok([rumor |-> rumor.val, sender_pubkey |-> seal.val.pubkey])

\* The bytes of the seal around a rumor: its JSON has SealOverhead bytes
\* beside the payload, and base64 needs no escape.  A rumor can be wrapped
\* when both layers can be padded.
SealLen(rumorLen, overhead) == overhead + Base64Len(PayloadLen(rumorLen))
Wrappable(rumorLen, overhead) ==
    PaddableLen(rumorLen) /\ PaddableLen(SealLen(rumorLen, overhead))

=============================================================================
