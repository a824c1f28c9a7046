------------------------------- MODULE PexPayment -----------------------------
(***************************************************************************)
(* Who is paid.  Peers designate payees by signing, records reach a node   *)
(* through others with their fields in any combination, and the node asks  *)
(* a record for its verified payment address.                              *)
(***************************************************************************)
EXTENDS PexClaim, FiniteSets

CONSTANTS
    Networks,       \* the networks a peer designates a payee on
    Addresses,      \* the payees
    PeerIds,        \* the peer ids of the records
    LooseTexts,     \* other base64 fields a record may carry
    MaxDesignations \* bound: designations made

ASSUME PaymentAssumption ==
    /\ \A s \in Networks \cup Addresses \cup PeerIds : s \in String /\ Len(s) < U32Max
    /\ None \notin Addresses
    /\ MaxDesignations \in Nat

VARIABLES
    designated,  \* the designations peers have made
    signed,      \* the signatures those came with
    entry,       \* the record the node looks at
    payee        \* what verified_payment_address said of it

paymentVars == <<designated, signed, entry, payee>>

Designation == [spki : Spkis, network_id : Networks, address : Addresses]

SignatureOf(d) ==
    Signature(d.spki, payment_signing_bytes(PeerIdOf[d.spki], d.network_id, d.address))

(* The claim the peer of designation d hands out. *)
ClaimOf(d) == NewClaim(d.address, d.spki, SignatureOf(d))

(* Nobody has a signature before it is made, and None is neither a claim nor a
   signature. *)
ASSUME SignatureAssumption ==
    \A d \in Designation :
        /\ None # ClaimOf(d) /\ None # SignatureOf(d)
        /\ \A text \in LooseTexts : text.of # SignatureOf(d)

SpkiTexts == {Base64(k, SpkiLen[k]) : k \in Spkis} \cup LooseTexts
SigTexts == {Base64(s, SigLen) : s \in signed} \cup LooseTexts

Record ==
    [ peer_id    : PeerIds,
      network_id : Networks,
      payment    : [address : Addresses, spki : SpkiTexts, sig : SigTexts] \cup {None} ]

PaymentInit ==
    /\ designated = {} /\ signed = {}
    /\ entry = None /\ payee = Err("NotPresent")

(* A peer, with its own tools, signs the bytes this crate gives it. *)
Designate ==
    /\ Cardinality(designated) < MaxDesignations
    /\ \E d \in Designation \ designated :
          /\ designated' = designated \cup {d}
          /\ signed' = signed \cup {SignatureOf(d)}
    /\ UNCHANGED <<entry, payee>>

(* The node asks a record for its payee. *)
Ask ==
    /\ entry' \in Record
    /\ payee' = verified_payment_address(entry', signed)
    /\ UNCHANGED <<designated, signed>>

PaymentNext == Designate \/ Ask

PaymentSpec == PaymentInit /\ [][PaymentNext]_paymentVars

-----------------------------------------------------------------------------
(* A payee is named only if the peer of the record, on the network of the
   record, has designated exactly it, whichever parts of other claims the
   record was put together from (payment.rs:236, SPEC 3.4.3). *)
PayeeIsDesignated ==
    payee.error = None =>
        \E d \in designated :
            /\ PeerIdOf[d.spki] = entry.peer_id
            /\ d.network_id = entry.network_id
            /\ d.address = payee.address

(* The caps of SPEC 3.4.2, in characters. *)
FitsCaps(d) ==
    /\ Len(d.address) <= PEX_MAX_PAYMENT_ADDRESS_LEN
    /\ 4 * ((SpkiLen[d.spki] + 2) \div 3) <= PEX_MAX_PAYMENT_SPKI_LEN
    /\ 4 * ((SigLen + 2) \div 3) <= PEX_MAX_PAYMENT_SIG_LEN

(* And a peer whose claim fits the caps and arrives as it was made is paid:
   encoding, caps and signed bytes agree between the two ends (payment.rs:134,
   190, 223). *)
IntactClaimPays ==
    \A d \in designated :
        (/\ entry # None
         /\ entry.peer_id = PeerIdOf[d.spki] /\ entry.network_id = d.network_id
         /\ entry.payment = ClaimOf(d)
         /\ FitsCaps(d))
        => payee = Ok(d.address)
===============================================================================
