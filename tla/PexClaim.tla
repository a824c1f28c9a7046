-------------------------------- MODULE PexClaim ------------------------------
(***************************************************************************)
(* Payment claims (src/src/payment.rs): what a peer signs to say where it  *)
(* is paid, what the claim carries on the wire, and the ladder by which it *)
(* is verified.  A string is the sequence of its bytes, for what is signed *)
(* is a concatenation.  The hash and the signature primitive are not part  *)
(* of the crate: the first is the constant PeerIdOf, the second a set of   *)
(* the signatures that were made.                                          *)
(***************************************************************************)
EXTENDS Integers, Sequences

CONSTANTS
    None,      \* Rust's Option::None
    Context,   \* PAYMENT_SIG_CONTEXT
    U32Max,    \* u32::MAX
    Spkis,     \* the TLS keys, each as its SPKI DER
    PeerIdOf,  \* spki -> the SHA-256 of it in hex
    SpkiLen,   \* spki -> the number of its bytes
    SigLen,    \* the bytes of a signature
    PEX_MAX_PAYMENT_ADDRESS_LEN,
    PEX_MAX_PAYMENT_SPKI_LEN,
    PEX_MAX_PAYMENT_SIG_LEN

(* Bytes, and the length prefixes, which are four bytes each and stand as one
   number. *)
String == Seq(Nat)

PaymentClaimError == {"NotPresent", "Malformed", "PeerIdMismatch", "BadSignature"}

ASSUME ClaimAssumption ==
    /\ U32Max \in Nat
    /\ Context \in String
    /\ PeerIdOf \in [Spkis -> {s \in String : Len(s) < U32Max}]
    /\ SpkiLen \in [Spkis -> Nat] /\ SigLen \in Nat
    /\ None \notin Spkis \cup PaymentClaimError

(* A field with its length, which saturates. *)
Field(s) == <<IF Len(s) <= U32Max THEN Len(s) ELSE U32Max>> \o s

(* Mutant of payment_signing_bytes: the fields are run together. *)
payment_signing_bytes_plain(peer_id, network_id, address) ==
    Context \o (peer_id \o (network_id \o address))

payment_signing_bytes(peer_id, network_id, address) ==
    Context \o (Field(peer_id) \o (Field(network_id) \o Field(address)))

peer_id_for_spki(spki) == PeerIdOf[spki]

(* A signature by the key over the bytes, and whether the injected verifier
   accepts one: it was made by that key, over those bytes. *)
Signature(spki, bytes) == [by |-> spki, over |-> bytes]

Verifies(signed, spki, bytes, sig) == sig \in signed /\ sig = Signature(spki, bytes)

(* Base64 text: what it decodes to, None if nothing, and its characters. *)
Base64(value, bytes) == [of |-> value, len |-> 4 * ((bytes + 2) \div 3)]

(* PaymentClaim::new. *)
NewClaim(address, spki, sig) ==
    [address |-> address, spki |-> Base64(spki, SpkiLen[spki]), sig |-> Base64(sig, SigLen)]

(* Mutant of within_caps: an address as long as its cap is refused. *)
within_caps_strict(claim) ==
    /\ Len(claim.address) < PEX_MAX_PAYMENT_ADDRESS_LEN
    /\ claim.spki.len <= PEX_MAX_PAYMENT_SPKI_LEN
    /\ claim.sig.len <= PEX_MAX_PAYMENT_SIG_LEN

within_caps(claim) ==
    /\ Len(claim.address) <= PEX_MAX_PAYMENT_ADDRESS_LEN
    /\ claim.spki.len <= PEX_MAX_PAYMENT_SPKI_LEN
    /\ claim.sig.len <= PEX_MAX_PAYMENT_SIG_LEN

-----------------------------------------------------------------------------
(* Result<&str, PaymentClaimError>.                                          *)

Ok(address) == [address |-> address, error |-> None]
Err(error) == [address |-> None, error |-> error]

verify(claim, peer_id, network_id, signed) ==
    LET decodable == claim.spki.of # None /\ claim.sig.of # None
        message == payment_signing_bytes(peer_id, network_id, claim.address)
    IN  IF ~within_caps(claim) \/ ~decodable THEN Err("Malformed")
        ELSE IF peer_id_for_spki(claim.spki.of) # peer_id THEN Err("PeerIdMismatch")
        ELSE IF ~Verifies(signed, claim.spki.of, message, claim.sig.of) THEN Err("BadSignature")
        ELSE Ok(claim.address)

verified_payment_address(entry, signed) ==
    IF entry.payment = None THEN Err("NotPresent")
    ELSE verify(entry.payment, entry.peer_id, entry.network_id, signed)
===============================================================================
