---------------------------- MODULE PexPayment_proofs -------------------------
(***************************************************************************)
(* Proofs about payment claims: the signed bytes determine what was        *)
(* signed, and so a payee that is named was designated.                    *)
(***************************************************************************)
EXTENDS PexPayment, SequenceTheorems, TLAPS

LEMMA CatCancelLeft ==
    ASSUME NEW s \in String, NEW t \in String, NEW v \in String, s \o t = s \o v
    PROVE  t = v
BY ConcatSimplifications DEF String

(* Two concatenations whose first parts are as long agree in both parts. *)
LEMMA CatCancel ==
    ASSUME NEW s \in String, NEW t \in String, NEW u \in String, NEW v \in String,
           Len(s) = Len(u), s \o t = u \o v
    PROVE  s = u /\ t = v
<1> USE DEF String
<1>1. s = u
  <2>1. ASSUME NEW i \in 1..Len(s)  PROVE s[i] = u[i]
    <3>1. /\ Len(s) \in Nat /\ Len(t) \in Nat /\ Len(v) \in Nat
          /\ i \in 1..Len(s) + Len(t) /\ i \in 1..Len(u) + Len(v) /\ i <= Len(s)
      BY <2>1, LenProperties
    <3>2. (s \o t)[i] = s[i]
      BY <3>1, ConcatProperties
    <3>3. (u \o v)[i] = u[i]
      BY <3>1, ConcatProperties
    <3> QED  BY <3>2, <3>3
  <2> QED  BY <2>1, SeqEqual
<1>2. t = v
  BY <1>1, CatCancelLeft
<1> QED  BY <1>1, <1>2

(* A field is its length and its bytes, as long as it is not beyond the width
   of the length. *)
LEMMA FieldCancel ==
    ASSUME NEW s \in String, NEW t \in String, NEW u \in String, NEW v \in String,
           Len(s) < U32Max, Len(u) < U32Max,
           Field(s) \o t = Field(u) \o v
    PROVE  s = u /\ t = v
<1>1. Field(s) = <<Len(s)>> \o s /\ Field(u) = <<Len(u)>> \o u
  BY ClaimAssumption, SMTT(30) DEF Field, String
<1>2. Field(s) \in String /\ Field(u) \in String
      /\ Len(Field(s)) = 1 + Len(s) /\ Len(Field(u)) = 1 + Len(u)
  BY <1>1 DEF String
<1>3. Len(s) = Len(u)
  <2>1. (Field(s) \o t)[1] = Len(s) /\ (Field(u) \o v)[1] = Len(u)
    <3>1. Field(s)[1] = Len(s) /\ Field(u)[1] = Len(u)
      BY <1>1 DEF String
    <3> QED  BY <1>2, <3>1 DEF String
  <2> QED  BY <2>1
<1>4. Field(s) = Field(u) /\ t = v
  BY <1>2, <1>3, CatCancel
<1>5. s = u
  <2>1. <<Len(s)>> \in String /\ <<Len(u)>> \in String /\ Len(<<Len(s)>>) = Len(<<Len(u)>>)
    BY DEF String
  <2> HIDE DEF String
  <2> QED  BY <1>1, <1>4, <2>1, CatCancel
<1> QED  BY <1>4, <1>5

LEMMA FieldType ==
    ASSUME NEW s \in String  PROVE Field(s) \in String
BY ClaimAssumption DEF Field, String

LEMMA CatType ==
    ASSUME NEW s \in String, NEW t \in String  PROVE s \o t \in String
BY DEF String

(* The bytes that are signed determine the peer, the network and the address:
   a signature cannot be read as one of something else (payment.rs:134). *)
THEOREM SigningBytesInjective ==
    ASSUME NEW p \in String, NEW n \in String, NEW a \in String,
           NEW q \in String, NEW m \in String, NEW b \in String,
           Len(p) < U32Max, Len(n) < U32Max, Len(a) < U32Max,
           Len(q) < U32Max, Len(m) < U32Max, Len(b) < U32Max,
           payment_signing_bytes(p, n, a) = payment_signing_bytes(q, m, b)
    PROVE  p = q /\ n = m /\ a = b
<1> DEFINE na == Field(n) \o Field(a)
           mb == Field(m) \o Field(b)
<1>1. na \in String /\ mb \in String
  BY FieldType, CatType
<1>2. Field(p) \o na \in String /\ Field(q) \o mb \in String
  BY <1>1, FieldType, CatType
<1>3. Context \o (Field(p) \o na) = Context \o (Field(q) \o mb)
  BY DEF payment_signing_bytes
<1> HIDE DEF na, mb
<1>4. Field(p) \o na = Field(q) \o mb
  BY <1>2, <1>3, CatCancel, ClaimAssumption
<1>5. p = q /\ na = mb
  BY <1>1, <1>4, FieldCancel
<1>6. n = m /\ Field(a) = Field(b)
  <2>1. Field(n) \o Field(a) = Field(m) \o Field(b)
    BY <1>5 DEF na, mb
  <2> QED  BY <2>1, FieldCancel, FieldType, ZenonT(30)
<1>7. a = b
  <2>1. <<>> \in String
    BY DEF String
  <2>2. Field(a) \o <<>> = Field(b) \o <<>>
    BY <1>6
  <2> QED  BY <2>1, <2>2, FieldCancel
<1> QED  BY <1>5, <1>6, <1>7

-----------------------------------------------------------------------------
(* What holds between the steps: every signature is that of a designation. *)
SignedIsDesignated ==
    /\ designated \subseteq Designation
    /\ signed = {SignatureOf(d) : d \in designated}

(* And the answer is that of verify, with the signatures there were when it
   was asked; the signature the record carries was one of those, if it is a
   signature at all. *)
AnswerIsVerified ==
    entry # None =>
        \E sigs \in SUBSET signed :
            /\ payee = verified_payment_address(entry, sigs)
            /\ entry.payment = None \/ entry.payment.sig \in {Base64(s, SigLen) : s \in sigs} \cup LooseTexts

PaymentInv == SignedIsDesignated /\ PayeeIsDesignated /\ AnswerIsVerified

LEMMA OkIsVerified ==
    ASSUME NEW e, NEW sigs, verified_payment_address(e, sigs).error = None
    PROVE  /\ e.payment # None
           /\ peer_id_for_spki(e.payment.spki.of) = e.peer_id
           /\ Verifies(sigs, e.payment.spki.of,
                  payment_signing_bytes(e.peer_id, e.network_id, e.payment.address),
                  e.payment.sig.of)
           /\ verified_payment_address(e, sigs) = Ok(e.payment.address)
BY ClaimAssumption DEF verified_payment_address, verify, Ok, Err, PaymentClaimError

LEMMA DesignateStep ==
    ASSUME PaymentInv, Designate  PROVE PaymentInv'
<1> USE DEF PaymentInv
<1>1. PICK d \in Designation :
          /\ designated' = designated \cup {d}
          /\ signed' = signed \cup {SignatureOf(d)}
  BY DEF Designate
<1>2. SignedIsDesignated'
  BY <1>1 DEF SignedIsDesignated
<1>3. PayeeIsDesignated'
  BY <1>1 DEF PayeeIsDesignated, Designate
<1>4. AnswerIsVerified'
  <2>1. entry' = entry /\ payee' = payee /\ SUBSET signed \subseteq SUBSET signed'
    BY <1>1 DEF Designate
  <2> QED  BY <2>1 DEF AnswerIsVerified
<1> QED  BY <1>2, <1>3, <1>4

LEMMA AskStep ==
    ASSUME PaymentInv, Ask  PROVE PaymentInv'
<1> USE DEF PaymentInv
<1>1. SignedIsDesignated'
  BY DEF Ask, SignedIsDesignated
<1>2. ASSUME payee'.error = None
      PROVE  \E d \in designated' :
                 /\ PeerIdOf[d.spki] = entry'.peer_id
                 /\ d.network_id = entry'.network_id
                 /\ d.address = payee'.address
  <2> DEFINE claim == entry'.payment
             bytes == payment_signing_bytes(entry'.peer_id, entry'.network_id, claim.address)
  <2>1. /\ claim # None
        /\ peer_id_for_spki(claim.spki.of) = entry'.peer_id
        /\ Verifies(signed, claim.spki.of, bytes, claim.sig.of)
        /\ payee' = Ok(claim.address)
    BY <1>2, OkIsVerified DEF Ask
  <2>2. PICK d \in designated : SignatureOf(d) = Signature(claim.spki.of, bytes)
    BY <2>1 DEF Verifies, SignedIsDesignated
  <2>3. /\ d.spki = claim.spki.of
        /\ payment_signing_bytes(PeerIdOf[d.spki], d.network_id, d.address) = bytes
    BY <2>2 DEF SignatureOf, Signature
  <2>4. d \in Designation  BY <2>2 DEF SignedIsDesignated
  <2>5. /\ entry'.peer_id \in PeerIds /\ entry'.network_id \in Networks
        /\ claim.address \in Addresses
    BY <2>1 DEF Ask, Record
  <2>6. /\ PeerIdOf[d.spki] \in String /\ Len(PeerIdOf[d.spki]) < U32Max
        /\ d.network_id \in Networks /\ d.address \in Addresses
    BY <2>4, ClaimAssumption DEF Designation
  <2>7. d.network_id = entry'.network_id /\ d.address = claim.address
    <3>1. /\ entry'.peer_id \in String /\ Len(entry'.peer_id) < U32Max
          /\ entry'.network_id \in String /\ Len(entry'.network_id) < U32Max
          /\ claim.address \in String /\ Len(claim.address) < U32Max
      BY <2>5, PaymentAssumption
    <3>2. /\ d.network_id \in String /\ Len(d.network_id) < U32Max
          /\ d.address \in String /\ Len(d.address) < U32Max
      BY <2>6, PaymentAssumption
    <3>3. payment_signing_bytes(PeerIdOf[d.spki], d.network_id, d.address)
              = payment_signing_bytes(entry'.peer_id, entry'.network_id, claim.address)
      BY <2>3
    <3> HIDE DEF claim, bytes, PaymentInv
    <3>4. ASSUME NEW p \in String, NEW n \in String, NEW a \in String,
                 Len(p) < U32Max, Len(n) < U32Max, Len(a) < U32Max,
                 payment_signing_bytes(PeerIdOf[d.spki], d.network_id, d.address)
                     = payment_signing_bytes(p, n, a)
          PROVE  d.network_id = n /\ d.address = a
      BY <2>6, <3>2, <3>4, SigningBytesInjective, SMTT(30)
    <3> QED  BY <3>1, <3>3, <3>4
  <2>8. PeerIdOf[d.spki] = entry'.peer_id
    BY <2>1, <2>3 DEF peer_id_for_spki
  <2> QED  BY <2>1, <2>7, <2>8 DEF Ask, Ok
<1>3. AnswerIsVerified'
  <2>1. payee' = verified_payment_address(entry', signed) /\ signed' = signed
    BY DEF Ask
  <2>2. entry'.payment = None \/ entry'.payment.sig \in {Base64(s, SigLen) : s \in signed} \cup LooseTexts
    BY DEF Ask, Record, SigTexts
  <2> QED  BY <2>1, <2>2 DEF AnswerIsVerified
<1> QED  BY <1>1, <1>2, <1>3 DEF PayeeIsDesignated

(* verify accepts what PaymentClaim::new made, if it fits the caps and its
   signature was made. *)
LEMMA IntactClaimVerifies ==
    ASSUME NEW d \in Designation, FitsCaps(d), NEW sigs, SignatureOf(d) \in sigs,
           NEW e, e.peer_id = PeerIdOf[d.spki], e.network_id = d.network_id, e.payment = ClaimOf(d)
    PROVE  verified_payment_address(e, sigs) = Ok(d.address)
<1> DEFINE claim == ClaimOf(d)
<1>1. /\ claim.address = d.address
      /\ claim.spki.of = d.spki /\ claim.spki.len = 4 * ((SpkiLen[d.spki] + 2) \div 3)
      /\ claim.sig.of = SignatureOf(d) /\ claim.sig.len = 4 * ((SigLen + 2) \div 3)
  BY DEF ClaimOf, NewClaim, Base64
<1>2. claim # None /\ d.spki # None /\ SignatureOf(d) # None
  BY SignatureAssumption, ClaimAssumption DEF Designation
<1> HIDE DEF claim
<1>3. within_caps(claim)
  BY <1>1 DEF within_caps, FitsCaps
<1>4. Verifies(sigs, d.spki, payment_signing_bytes(PeerIdOf[d.spki], d.network_id, d.address), SignatureOf(d))
  BY DEF Verifies, SignatureOf
<1>5. verify(claim, PeerIdOf[d.spki], d.network_id, sigs) = Ok(d.address)
  BY <1>1, <1>2, <1>3, <1>4 DEF verify, peer_id_for_spki
<1> QED  BY <1>2, <1>5 DEF verified_payment_address, claim

LEMMA PaymentInvariance == PaymentSpec => []PaymentInv
<1>1. PaymentInit => PaymentInv
  BY ClaimAssumption DEF PaymentInit, PaymentInv, SignedIsDesignated, PayeeIsDesignated,
     AnswerIsVerified, Err, PaymentClaimError
<1>2. PaymentInv /\ [PaymentNext]_paymentVars => PaymentInv'
  <2> SUFFICES ASSUME PaymentInv, [PaymentNext]_paymentVars  PROVE PaymentInv'
    OBVIOUS
  <2>1. CASE Designate  BY <2>1, DesignateStep
  <2>2. CASE Ask  BY <2>2, AskStep
  <2>3. CASE UNCHANGED paymentVars
    BY <2>3 DEF paymentVars, PaymentInv, SignedIsDesignated, PayeeIsDesignated, AnswerIsVerified
  <2> QED  BY <2>1, <2>2, <2>3 DEF PaymentNext
<1> QED  BY <1>1, <1>2, PTL DEF PaymentSpec

(* Whatever records arrive, a payee that is named is one the peer of the record
   designated on the network of the record. *)
THEOREM PayeesAreDesignated == PaymentSpec => []PayeeIsDesignated
<1>1. PaymentInv => PayeeIsDesignated
  BY DEF PaymentInv
<1> QED  BY <1>1, PaymentInvariance, PTL

(* A peer whose claim fits the caps and reaches the node in a record of its
   own is paid, whichever other designations were made before or after. *)
THEOREM IntactClaimsPay == PaymentSpec => []IntactClaimPays
<1>1. PaymentInv => IntactClaimPays
  <2> SUFFICES ASSUME PaymentInv, NEW d \in designated, entry # None,
                      entry.peer_id = PeerIdOf[d.spki], entry.network_id = d.network_id,
                      entry.payment = ClaimOf(d), FitsCaps(d)
               PROVE  payee = Ok(d.address)
    BY DEF IntactClaimPays
  <2>1. d \in Designation
    BY DEF PaymentInv, SignedIsDesignated
  <2>2. PICK sigs \in SUBSET signed :
            /\ payee = verified_payment_address(entry, sigs)
            /\ entry.payment = None \/ entry.payment.sig \in {Base64(s, SigLen) : s \in sigs} \cup LooseTexts
    BY DEF PaymentInv, AnswerIsVerified
  <2>3. entry.payment.sig.of = SignatureOf(d)
    BY DEF ClaimOf, NewClaim, Base64
  <2>4. entry.payment # None /\ entry.payment.sig \notin LooseTexts
    BY <2>1, <2>3, SignatureAssumption
  <2>5. PICK s \in sigs : entry.payment.sig = Base64(s, SigLen)
    BY <2>2, <2>4
  <2>6. SignatureOf(d) \in sigs
    BY <2>3, <2>5 DEF Base64
  <2> QED  BY <2>1, <2>2, <2>6, IntactClaimVerifies
<1> QED  BY <1>1, PaymentInvariance, PTL
===============================================================================
