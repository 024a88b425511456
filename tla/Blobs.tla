------------------------------- MODULE Blobs -------------------------------
(***************************************************************************)
(* The blobs that clients relay to each other through the server: layers   *)
(* of an onion, and sealed trade messages.  They look alike, and a client  *)
(* tells them apart by trying: to peel a layer, and then to open a trade.  *)
(* Base64 and JSON are left out, for they are inverted exactly; what is    *)
(* encrypted under a key is read with an equal key and with no other.      *)
(***************************************************************************)
EXTENDS Sequences, SequencesExt

\* SERVER_HOP: after the last hop comes the server.
SERVER == "SERVER"

\* A pair that is generated for one blob.  One value stands for all of them, for
\* no two blobs are ever compared.
Ephemeral == "ephemeral"

\* derive_shared: the same from the private key of either side and the public key
\* of the other, also where these are converted from signing keys.
Shared(x, y) == {x, y}

\* aead_encrypt, and whether aead_decrypt does not raise InvalidTag.
Encrypt(key, plain) == [key |-> key, plain |-> plain]
Decrypts(key, ct) == ct.key = key

\* seal_trade_payload, and the encryption of a layer in _wrap_layer.
Seal(d, plain) == [eph |-> Ephemeral, ct |-> Encrypt(Shared(Ephemeral, d), plain)]

\* Whether the identity c can decrypt a blob, and what it reads then.
Opens(c, blob) == Decrypts(Shared(c, blob.eph), blob.ct)
Plain(blob) == blob.ct.plain

\* Mutant: a layer is sealed to the hop that comes after it.
WrapLayerForNext(inner, next, hop) ==
    Seal(IF next = SERVER THEN hop ELSE next, [next |-> next, blob |-> inner])

\* _wrap_layer.
WrapLayer(inner, next, hop) == Seal(hop, [next |-> next, blob |-> inner])

\* build_onion: from the last hop back to the first, each wraps what the next
\* one is to be sent.
BuildOnion(final, path) ==
    FoldRight(LAMBDA hop, below : [next |-> hop, blob |-> WrapLayer(below.blob, below.next, hop)],
              path, [next |-> SERVER, blob |-> final]).blob

\* peel_layer succeeds: a trade message has no "next", which is a KeyError.
Peels(c, blob) == Opens(c, blob) /\ "next" \in DOMAIN Plain(blob)

IsExit(layer) == layer.next = SERVER

\* open_trade_payload of what is no layer.
OpensTrade(c, blob) == ~Peels(c, blob) /\ Opens(c, blob)
=============================================================================
