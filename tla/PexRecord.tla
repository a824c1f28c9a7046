------------------------------- MODULE PexRecord ------------------------------
(***************************************************************************)
(* The peer entry in full (src/src/entry.rs): how a host builds it, the    *)
(* ladder by which a receiver keeps or skips it, and the two fingerprints  *)
(* of its content.  PexEntry, which the engine's modules use, knows of all *)
(* this a content, whether it is well formed, and its fingerprint; the     *)
(* properties here say that this is enough.                                *)
(***************************************************************************)
EXTENDS PexClaim, SequencesExt, FiniteSetsExt

CONSTANTS
    HexIds,     \* the peer ids that are 64 hex digits
    PEX_MAX_ADDRESSES, PEX_MAX_FLAGS, PEX_MAX_FLAG_LEN, PEX_MAX_ENTRY_AGE,
    Ids, Networks, Seen, Vias,                  \* what records are built from
    AddressChoices, FlagChoices, ClaimChoices,
    PortText,   \* port -> its decimal digits
    KindText,   \* AddressKind::as_str
    PartText,   \* the part of a claim that is base64 -> its characters
    Contexts,   \* the receivers a record is looked at by
    MaxParts    \* bound: addresses and flags of a record

(* AddressKind in the order of its wire tokens, and Provenance. *)
AddressKind == <<"direct", "mapped", "reflexive", "relay", "unknown">>
Provenance == {"direct", "relay", "introducer", "unknown"}

(* The reasons to skip an entry, in the order they are looked for. *)
EntrySkip ==
    << "BadPeerId", "SelfOrPartner", "TooManyAddresses", "BadAddress", "TooManyFlags",
       "NetworkMismatch", "BadVia", "OversizePayment", "TooOld" >>

ASSUME RecordAssumption ==
    /\ Vias \subseteq Provenance /\ Seen \subseteq Nat
    /\ AddressChoices \subseteq [host : String, port : Nat, kind : ToSet(AddressKind)]
    /\ FlagChoices \subseteq String
    /\ \A c \in ClaimChoices : c = [address |-> c.address, spki |-> c.spki, sig |-> c.sig]
    /\ \A ctx \in Contexts : ctx.now \in Nat
    /\ None \notin ClaimChoices /\ None \notin ToSet(EntrySkip)
    /\ PEX_MAX_ENTRY_AGE \in Nat /\ MaxParts \in Nat

is_registered(token) == token # "unknown"

is_valid(a) == a.host # <<>> /\ a.port # 0 /\ is_registered(a.kind)

-----------------------------------------------------------------------------
(* What a receiver makes of an entry.                                        *)

(* Which of the checks fail. *)
Fails(e, ctx) ==
    [ BadPeerId        |-> e.peer_id \notin HexIds,
      SelfOrPartner    |-> e.peer_id \in {ctx.receiver, ctx.sender},
      TooManyAddresses |-> Len(e.addresses) > PEX_MAX_ADDRESSES,
      BadAddress       |-> \E a \in ToSet(e.addresses) : ~is_valid(a),
      TooManyFlags     |-> Len(e.flags) > PEX_MAX_FLAGS
                           \/ \E f \in ToSet(e.flags) : Len(f) > PEX_MAX_FLAG_LEN,
      NetworkMismatch  |-> e.network_id # ctx.network_id,
      BadVia           |-> ~is_registered(e.via),
      OversizePayment  |-> e.payment # None /\ ~within_caps(e.payment),
      TooOld           |-> e.last_seen < ctx.now /\ ctx.now - e.last_seen > PEX_MAX_ENTRY_AGE ]

(* Mutant of validate: a claim that does not decode costs the entry. *)
validate_payable(e, ctx) ==
    LET failed == {i \in DOMAIN EntrySkip : Fails(e, ctx)[EntrySkip[i]]}
    IN  IF failed = {}
        THEN IF e.payment # None /\ e.payment.sig.of = None THEN "OversizePayment" ELSE None
        ELSE EntrySkip[Min(failed)]

(* Mutant of validate: an entry with no address does not age. *)
validate_ageless(e, ctx) ==
    LET failed == {i \in DOMAIN EntrySkip : Fails(e, ctx)[EntrySkip[i]]}
    IN  IF failed = {} \/ (Min(failed) = 9 /\ e.addresses = <<>>) THEN None
        ELSE EntrySkip[Min(failed)]

(* The first failing check is the reason to skip the entry. *)
validate(e, ctx) ==
    LET failed == {i \in DOMAIN EntrySkip : Fails(e, ctx)[EntrySkip[i]]}
    IN  IF failed = {} THEN None ELSE EntrySkip[Min(failed)]

-----------------------------------------------------------------------------
(* Fingerprints.                                                             *)

(* The order of str: s is a proper prefix of t, or smaller where they differ. *)
StrLess(s, t) ==
    \E i \in 1..Len(t) :
        /\ \A j \in 1..i - 1 : j <= Len(s) /\ s[j] = t[j]
        /\ i > Len(s) \/ s[i] < t[i]

KindRank(kind) == CHOOSE i \in DOMAIN AddressKind : AddressKind[i] = kind

AddressLess(a, b) ==
    \/ StrLess(a.host, b.host)
    \/ a.host = b.host /\ a.port < b.port
    \/ a.host = b.host /\ a.port = b.port /\ KindRank(a.kind) < KindRank(b.kind)

AddressOrder == {ab \in AddressChoices \X AddressChoices : AddressLess(ab[1], ab[2])}
FlagOrder == {fg \in FlagChoices \X FlagChoices : StrLess(fg[1], fg[2])}

(* The elements of s rearranged so that none comes before a smaller one. *)
InOrder(s, order) == \A i, j \in DOMAIN s : i < j => <<s[i], s[j]>> \in order \/ s[i] = s[j]

sort(s, order) ==
    LET moved(p) == [i \in 1..Len(s) |-> s[p[i]]]
    IN  moved(CHOOSE p \in Bijection(1..Len(s), 1..Len(s)) : InOrder(moved(p), order))

WireParts(claim) == IF claim = None THEN <<>> ELSE <<claim.address, claim.spki, claim.sig>>

(* Mutant of fingerprint_hash: the flags are taken in their order. *)
fingerprint_hash_ordered(e) ==
    <<sort(e.addresses, AddressOrder), e.flags, WireParts(e.payment)>>

(* What is fed to the hasher, list by list with its length, so that it can be
   read back; the hash of it is taken to be free of collisions. *)
fingerprint_hash(e) ==
    <<sort(e.addresses, AddressOrder), sort(e.flags, FlagOrder), WireParts(e.payment)>>

(* The separators of the text, strings of one byte. *)
Comma == <<44>>
Pipe == <<124>>
Hash == <<35>>

Without(s, separator) == \A i \in DOMAIN s : s[i] # separator[1]

(* One string for each x, without the separators inside an address. *)
Names(text) ==
    /\ IsInjective(text)
    /\ \A x \in DOMAIN text :
           text[x] \in String /\ Without(text[x], Comma) /\ Without(text[x], Pipe)

(* The digits of a port and the name of a kind tell it, and hold no separator;
   neither is true of hosts, flags and claims, which are any strings. *)
ASSUME TextAssumption ==
    /\ DOMAIN KindText = ToSet(AddressKind)
    /\ \A a \in AddressChoices : a.port \in DOMAIN PortText
    /\ \A c \in ClaimChoices : {c.spki, c.sig} \subseteq DOMAIN PartText
    /\ Names(PortText) /\ Names(KindText)
    /\ IsInjective(PartText) /\ \A x \in DOMAIN PartText : PartText[x] \in String
    /\ \A c \in ClaimChoices : c.address \in String

(* parts.join(separator). *)
join(parts, separator) ==
    LET upto[k \in 0..Len(parts)] ==
            IF k = 0 THEN <<>>
            ELSE IF k = 1 THEN parts[1] ELSE upto[k - 1] \o separator \o parts[k]
    IN  upto[Len(parts)]

AddressText(a) == join(<<a.host, PortText[a.port], KindText[a.kind]>>, Pipe)

AddressTexts == {AddressText(a) : a \in AddressChoices}
TextOrder == {xy \in AddressTexts \X AddressTexts : StrLess(xy[1], xy[2])}

Texts(addresses) == [i \in DOMAIN addresses |-> AddressText(addresses[i])]

PaymentText(claim) ==
    IF claim = None THEN <<>>
    ELSE join(<<claim.address, PartText[claim.spki], PartText[claim.sig]>>, Pipe)

(* fingerprint: all of the content in one string. *)
fingerprint(e) ==
    join(<< join(sort(Texts(e.addresses), TextOrder), Comma),
            join(sort(e.flags, FlagOrder), Comma),
            PaymentText(e.payment) >>, Hash)

-----------------------------------------------------------------------------
(* The host builds its record of a peer, and builds it anew when something
   changes; a link is told when its fingerprint is not the told one.         *)

VARIABLES
    entry,  \* the record
    told,   \* of LinkState.told, the record's value: None or a fingerprint
    sent    \* history: the record that was sent when it was told

recordVars == <<entry, told, sent>>

NewEntry(peer_id, network_id, last_seen, via) ==
    [ peer_id |-> peer_id, addresses |-> <<>>, network_id |-> network_id,
      last_seen |-> last_seen, via |-> via, flags |-> <<>>, payment |-> None ]

RecordInit ==
    /\ \E id \in Ids, n \in Networks, t \in Seen, v \in Vias : entry = NewEntry(id, n, t, v)
    /\ told = None /\ sent = None

Rebuild ==
    /\ \E n \in Networks, t \in Seen, v \in Vias :
          entry' = NewEntry(entry.peer_id, n, t, v)
    /\ UNCHANGED <<told, sent>>

Parts == Len(entry.addresses) + Len(entry.flags)

with_address(a) ==
    /\ Parts < MaxParts
    /\ entry' = [entry EXCEPT !.addresses = Append(@, a)]
    /\ UNCHANGED <<told, sent>>

with_flag(f) ==
    /\ Parts < MaxParts
    /\ entry' = [entry EXCEPT !.flags = Append(@, f)]
    /\ UNCHANGED <<told, sent>>

with_payment(claim) ==
    /\ entry' = [entry EXCEPT !.payment = claim]
    /\ UNCHANGED <<told, sent>>

Tell ==
    /\ told # fingerprint_hash(entry)
    /\ told' = fingerprint_hash(entry)
    /\ sent' = [addresses |-> entry.addresses, flags |-> entry.flags, payment |-> entry.payment]
    /\ UNCHANGED entry

RecordNext ==
    \/ Rebuild
    \/ \E a \in AddressChoices : with_address(a)
    \/ \E f \in FlagChoices : with_flag(f)
    \/ \E claim \in ClaimChoices : with_payment(claim)
    \/ Tell

RecordSpec == RecordInit /\ [][RecordNext]_recordVars

-----------------------------------------------------------------------------
(* A record is told again exactly when its content has changed: not when the
   host builds it in another order, refreshes its last_seen or its
   provenance, but for every change of an address, a flag or a claim
   (entry.rs:333, SPEC 9.1). *)
ToldMeansSameContent ==
    sent # None =>
        (told = fingerprint_hash(entry)
             <=> /\ ToBag(sent.addresses) = ToBag(entry.addresses)
                 /\ ToBag(sent.flags) = ToBag(entry.flags)
                 /\ sent.payment = entry.payment)

(* Reachability and payability are two verdicts on one record (entry.rs:230,
   SPEC 3.4.3): whatever is wrong with a claim but its size, the entry is kept
   or skipped as it would be without one. *)
TwoVerdicts ==
    \A ctx \in Contexts :
        entry.payment # None /\ within_caps(entry.payment)
            => validate(entry, ctx) = validate([entry EXCEPT !.payment = None], ctx)

(* Whether the content is well formed is the same for every receiver of the
   network at every time, and the rest of the verdict depends on the peer id
   and the age alone: what PexEntry takes a verdict to be (entry.rs:247). *)
VerdictFactors ==
    \A ctx \in Contexts :
        LET wellFormed == \E id \in HexIds, c \in Contexts :
                c.network_id = ctx.network_id
                /\ validate([entry EXCEPT !.peer_id = id, !.last_seen = c.now], c) = None
        IN  validate(entry, ctx) = None
                <=> /\ entry.peer_id \in HexIds \ {ctx.receiver, ctx.sender}
                    /\ wellFormed
                    /\ ctx.now <= entry.last_seen + PEX_MAX_ENTRY_AGE

(* Parts of a record that cannot run together in the text. *)
PlainFlag(f) == f # <<>> /\ Without(f, Comma) /\ Without(f, Hash)

PlainClaim(c) ==
    /\ Without(c.address, Hash)
    /\ \A text \in {PartText[c.spki], PartText[c.sig]} : Without(text, Pipe) /\ Without(text, Hash)

Plain(r) ==
    /\ \A i \in DOMAIN r.addresses : Without(r.addresses[i].host, Comma)
    /\ \A i \in DOMAIN r.flags : PlainFlag(r.flags[i])
    /\ r.payment # None => PlainClaim(r.payment)

(* The two fingerprints draw the same line (entry.rs:322).  Records with one
   hash always have one string; records with one string have one hash if both
   are Plain.  Nothing in the code keeps a record Plain, and without it they need
   not: a comma in a host or a flag, an empty flag, a # both in a flag and in a
   claim run parts together that the hash keeps apart. *)
FingerprintsAgree ==
    sent # None =>
        /\ fingerprint_hash(entry) = fingerprint_hash(sent) => fingerprint(entry) = fingerprint(sent)
        /\ Plain(entry) /\ Plain(sent) /\ fingerprint(entry) = fingerprint(sent)
               => fingerprint_hash(entry) = fingerprint_hash(sent)
===============================================================================
