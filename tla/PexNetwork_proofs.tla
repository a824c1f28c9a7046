---------------------------- MODULE PexNetwork_proofs -------------------------
(***************************************************************************)
(* Proofs about two engines on one connection, for every first-hand set,   *)
(* caps, delays and clocks.                                                *)
(***************************************************************************)
EXTENDS PexNetwork, PexReceiving_proofs, PexSending_proofs

ToSet(s) == SeqExt!ToSet(s)

-----------------------------------------------------------------------------
(* Lists.                                                                    *)

(* s lists the elements of S, each once. *)
Lists(s, S) == s \in Seq(S) /\ Len(s) = Cardinality(S) /\ ToSet(s) = S

LEMMA SetListed ==
  ASSUME NEW S, IsFiniteSet(S)
  PROVE  Lists(SeqExt!SetToSeq(S), S)
<1> DEFINE n == Cardinality(S)
           f == SeqExt!SetToSeq(S)
<1>1. n \in Nat /\ ExistsBijection(1..n, S)
  BY FS_CardinalityType
<1>2. \E g \in [1..n -> S] : SeqExt!IsInjective(g)
  BY <1>1 DEF ExistsBijection, Bijection, Injection, IsInjective, SeqExt!IsInjective
<1>3. f \in [1..n -> S] /\ SeqExt!IsInjective(f)
  <2>1. f = CHOOSE g \in [1..n -> S] : SeqExt!IsInjective(g)
    BY Zenon DEF SeqExt!SetToSeq, SeqExt!Cardinality, Cardinality
  <2> HIDE DEF f, n
  <2> QED
    BY <1>2, <2>1, Zenon
<1> HIDE DEF f
<1>4. f \in Injection(1..n, S)
  BY <1>3 DEF Injection, IsInjective, SeqExt!IsInjective
<1>5. Cardinality(1..n) = n
  <2>1. n = 0 \/ ~(1 > n)
    BY <1>1
  <2> HIDE DEF n
  <2>2. Cardinality(1..n) = IF 1 > n THEN 0 ELSE n - 1 + 1
    BY <1>1, FS_Interval
  <2> QED
    BY <1>1, <2>1, <2>2
<1>6. f \in Surjection(1..n, S)
  BY <1>4, <1>5, FS_Injection
<1>7. f \in Seq(S) /\ Len(f) = n
  BY <1>1, <1>3
<1>8. ToSet(f) = S
  BY <1>3, <1>6 DEF ToSet, SeqExt!ToSet, Surjection
<1> QED
  BY <1>7, <1>8 DEF f, Lists

LEMMA ListOne ==
  ASSUME NEW x
  PROVE  SeqExt!SetToSeq({x}) = <<x>>
<1> DEFINE s == SeqExt!SetToSeq({x})
<1>1. s \in Seq({x}) /\ Len(s) = 1
  BY SetListed, FS_Singleton DEF Lists
<1> HIDE DEF s
<1>2. s[1] = x
  BY <1>1
<1>3. s = <<x>>
  BY <1>1, <1>2
<1> QED
  BY <1>3 DEF s

LEMMA ListNone == SeqExt!SetToSeq({}) = <<>>
<1> DEFINE s == SeqExt!SetToSeq({})
<1>1. s \in Seq({}) /\ Len(s) = 0
  BY SetListed, FS_EmptySet DEF Lists
<1> HIDE DEF s
<1>2. s = <<>>
  BY <1>1
<1> QED
  BY <1>2 DEF s

Ordered(s, S) ==
    /\ s \in [1..Cardinality(S) -> S]
    /\ \A i, j \in 1..Cardinality(S) : i < j => Before(s[i], s[j])

LEMMA CanBeOrdered ==
  ASSUME NEW S, IsFiniteSet(S), OnePerPeer(S)
  PROVE  \E s : Ordered(s, S)
<1> DEFINE Failing == {n \in Nat : \E T \in SUBSET S : Cardinality(T) = n /\ ~\E s : Ordered(s, T)}
<1>1. SUFFICES ASSUME Failing # {} PROVE FALSE
  <2>1. Cardinality(S) \in Nat
    BY FS_CardinalityType
  <2> QED
    BY <1>1, <2>1
<1>2. PICK n \in Failing : \A m \in Failing : n <= m
  <2>1. Failing \in SUBSET Nat
    OBVIOUS
  <2> HIDE DEF Failing
  <2> QED
    BY <1>1, <2>1, LeastNat
<1>3. PICK T \in SUBSET S : Cardinality(T) = n /\ ~\E s : Ordered(s, T)
  BY <1>2
<1>4. n \in Nat /\ IsFiniteSet(T) /\ OnePerPeer(T)
  BY <1>2, SubsetOnePerPeer
<1>5. T # {}
  <2>1. SUFFICES ASSUME T = {} PROVE FALSE
    OBVIOUS
  <2>2. n = 0
    BY <2>1, <1>3, FS_EmptySet
  <2>3. <<>> \in [1..0 -> T] /\ \A i \in 1..0 : FALSE
    OBVIOUS
  <2>4. Ordered(<<>>, T)
    BY <2>2, <2>3, <1>3 DEF Ordered
  <2> QED
    BY <2>4, <1>3
<1>6. PICK e \in T : \A x \in T : x = e \/ Before(x, e)
  BY <1>4, <1>5, LastEntry DEF HasLast
<1> DEFINE U == T \ {e}
<1>7. Cardinality(U) = n - 1 /\ Cardinality(U) \in Nat /\ U \in SUBSET S
  BY <1>3, <1>4, <1>6, FS_RemoveElement, FS_CardinalityType
<1>8. PICK s : Ordered(s, U)
  <2>1. ~(n <= Cardinality(U))
    BY <1>4, <1>7
  <2> HIDE DEF Failing, U
  <2>2. Cardinality(U) \notin Failing
    BY <2>1, <1>2
  <2> QED
    BY <2>2, <1>7 DEF Failing
<1> DEFINE t == [i \in 1..n |-> IF i = n THEN e ELSE s[i]]
<1>9. s \in [1..n - 1 -> U] /\ \A i, j \in 1..n - 1 : i < j => Before(s[i], s[j])
  BY <1>7, <1>8 DEF Ordered
<1>10. \A i \in 1..n : i = n \/ (i \in 1..n - 1 /\ i < n)
  BY <1>4
<1>11. t \in [1..n -> T]
  BY <1>6, <1>9, <1>10
<1>12. ASSUME NEW i \in 1..n, NEW j \in 1..n, i < j PROVE Before(t[i], t[j])
  <2>1. i \in 1..n - 1 /\ i # n
    BY <1>4, <1>12
  <2>2. t[i] = s[i] /\ s[i] \in U
    BY <2>1, <1>9
  <2>3. CASE j = n
    BY <2>2, <2>3, <1>6
  <2>4. CASE j # n
    <3>1. j \in 1..n - 1 /\ t[j] = s[j]
      BY <2>4, <1>10
    <3> QED
      BY <2>1, <2>2, <3>1, <1>9, <1>12
  <2> QED
    BY <2>3, <2>4
<1> HIDE DEF t
<1>13. Ordered(t, T)
  BY <1>3, <1>11, <1>12 DEF Ordered
<1> QED
  BY <1>3, <1>13

LEMMA OrderListed ==
  ASSUME NEW S, IsFiniteSet(S), OnePerPeer(S)
  PROVE  Lists(InOrder(S), S)
<1> DEFINE n == Cardinality(S)
           f == InOrder(S)
<1>1. n \in Nat
  BY FS_CardinalityType
<1>2. \E g \in [1..n -> S] : \A i, j \in DOMAIN g : i < j => Before(g[i], g[j])
  <2>1. PICK g : Ordered(g, S)
    BY CanBeOrdered
  <2>2. g \in [1..n -> S] /\ DOMAIN g = 1..n
    BY <2>1 DEF Ordered
  <2> QED
    BY <2>1, <2>2 DEF Ordered
<1>3. f \in [1..n -> S] /\ \A i, j \in DOMAIN f : i < j => Before(f[i], f[j])
  <2>1. f = CHOOSE g \in [1..n -> S] : \A i, j \in DOMAIN g : i < j => Before(g[i], g[j])
    BY Zenon DEF InOrder
  <2> HIDE DEF f, n
  <2> QED
    BY <1>2, <2>1, Zenon
<1> HIDE DEF f
<1>4. f \in Injection(1..n, S)
  <2>1. ASSUME NEW i \in 1..n, NEW j \in 1..n, f[i] = f[j], i # j PROVE FALSE
    <3>1. i < j \/ j < i
      BY <1>1, <2>1
    <3>2. Before(f[i], f[i]) /\ f[i] \in S
      BY <3>1, <2>1, <1>3
    <3> QED
      BY <3>2, BeforeOrders
  <2> QED
    BY <2>1, <1>3 DEF Injection, IsInjective
<1>5. Cardinality(1..n) = n
  <2>1. n = 0 \/ ~(1 > n)
    BY <1>1
  <2> HIDE DEF n
  <2>2. Cardinality(1..n) = IF 1 > n THEN 0 ELSE n - 1 + 1
    BY <1>1, FS_Interval
  <2> QED
    BY <1>1, <2>1, <2>2
<1>6. f \in Surjection(1..n, S)
  BY <1>4, <1>5, FS_Injection
<1>7. f \in Seq(S) /\ Len(f) = n
  BY <1>1, <1>3
<1>8. ToSet(f) = S
  BY <1>3, <1>6 DEF ToSet, SeqExt!ToSet, Surjection
<1> QED
  BY <1>7, <1>8 DEF f, Lists

-----------------------------------------------------------------------------
(* What a host writes.                                                       *)

Framed(body) == [conn |-> conn, sent |-> now, body |-> body]

(* Written, with its parts named. *)
Hello(o) == {m \in o.sent : m.type = "pex_handshake"}
FramesOf(S) == SeqExt!SetToSeq({Framed(OnWire(m)) : m \in S})
ErrorOf(o) == IF o.reply = None THEN <<>> ELSE <<Framed([type |-> "pex_error", code |-> o.reply])>>

LEMMA WrittenParts ==
  ASSUME NEW o
  PROVE  Written(o) = FramesOf(Hello(o)) \o FramesOf(o.sent \ Hello(o)) \o ErrorOf(o)
BY Zenon DEF Written, Hello, FramesOf, ErrorOf, Framed

LEMMA FramesOfNone == FramesOf({}) = <<>>
<1>1. {Framed(OnWire(m)) : m \in {}} = {}
  OBVIOUS
<1> QED
  BY <1>1, ListNone, Zenon DEF FramesOf

LEMMA FramesOfOne ==
  ASSUME NEW m
  PROVE  FramesOf({m}) = <<Framed(OnWire(m))>>
<1>1. {Framed(OnWire(x)) : x \in {m}} = {Framed(OnWire(m))}
  OBVIOUS
<1> QED
  BY <1>1, ListOne, Zenon DEF FramesOf

LEMMA EmptyEnds ==
  ASSUME NEW S, NEW s \in Seq(S)
  PROVE  <<>> \o s = s /\ s \o <<>> = s
<1>1. <<>> \o s \in Seq(S) /\ Len(<<>> \o s) = Len(s) /\ \A i \in 1..Len(s) : (<<>> \o s)[i] = s[i]
  OBVIOUS
<1>2. s \o <<>> \in Seq(S) /\ Len(s \o <<>>) = Len(s) /\ \A i \in 1..Len(s) : (s \o <<>>)[i] = s[i]
  OBVIOUS
<1>3. ASSUME NEW t \in Seq(S), Len(t) = Len(s), \A i \in 1..Len(s) : t[i] = s[i]
      PROVE  t = s
  BY <1>3
<1> QED
  BY <1>1, <1>2, <1>3, Zenon

LEMMA Concatenations ==
  ASSUME NEW x, NEW y
  PROVE  /\ <<>> \o <<>> \o <<>> = <<>>
         /\ <<>> \o <<>> \o <<x>> = <<x>>
         /\ <<>> \o <<x>> \o <<>> = <<x>>
         /\ <<x>> \o <<y>> \o <<>> = <<x, y>>
<1>1. <<>> \in Seq({x, y}) /\ <<x>> \in Seq({x, y}) /\ <<x, y>> \in Seq({x, y})
  OBVIOUS
<1>2. <<x>> \o <<y>> = <<x, y>>
  <2> DEFINE u == <<x>>
             v == <<y>>
             w == <<x, y>>
             c == u \o v
  <2>1. /\ u \in Seq({x, y}) /\ Len(u) = 1 /\ u[1] = x
        /\ v \in Seq({x, y}) /\ Len(v) = 1 /\ v[1] = y
        /\ w \in Seq({x, y}) /\ Len(w) = 2 /\ w[1] = x /\ w[2] = y
    OBVIOUS
  <2> HIDE DEF u, v, w
  <2>2. c \in Seq({x, y}) /\ Len(c) = 2 /\ c[1] = x /\ c[2] = y
    BY <2>1, SMTT(40)
  <2> HIDE DEF c
  <2>3. c = w
    <3>1. \A i \in 1..2 : i = 1 \/ i = 2
      OBVIOUS
    <3>2. \A i \in 1..2 : c[i] = w[i]
      BY <2>1, <2>2, <3>1
    <3> QED
      BY <2>1, <2>2, <3>2
  <2> QED
    BY <2>3 DEF c, u, v, w
<1> QED
  BY <1>1, <1>2, EmptyEnds, Zenon

LEMMA WritesNothing ==
  ASSUME NEW o, o.sent = {}, o.reply = None
  PROVE  Written(o) = <<>>
<1>1. Hello(o) = {} /\ o.sent \ Hello(o) = {} /\ ErrorOf(o) = <<>>
  BY DEF Hello, ErrorOf
<1> QED
  BY <1>1, WrittenParts, FramesOfNone, Concatenations, Zenon

LEMMA WritesError ==
  ASSUME NEW o, o.sent = {}, o.reply # None
  PROVE  Written(o) = <<Framed([type |-> "pex_error", code |-> o.reply])>>
<1>1. Hello(o) = {} /\ o.sent \ Hello(o) = {}
      /\ ErrorOf(o) = <<Framed([type |-> "pex_error", code |-> o.reply])>>
  BY DEF Hello, ErrorOf
<1> QED
  BY <1>1, WrittenParts, FramesOfNone, Concatenations, Zenon

LEMMA WritesOne ==
  ASSUME NEW o, NEW m, o.sent = {m}, o.reply = None, m.type # "pex_handshake"
  PROVE  Written(o) = <<Framed(OnWire(m))>>
<1>1. Hello(o) = {} /\ o.sent \ Hello(o) = {m} /\ ErrorOf(o) = <<>>
  BY DEF Hello, ErrorOf
<1> QED
  BY <1>1, WrittenParts, FramesOfNone, FramesOfOne, Concatenations, Zenon

LEMMA WritesTwo ==
  ASSUME NEW o, NEW h, NEW m, o.sent = {h, m}, o.reply = None,
         h.type = "pex_handshake", m.type # "pex_handshake"
  PROVE  Written(o) = <<Framed(OnWire(h)), Framed(OnWire(m))>>
<1>1. Hello(o) = {h} /\ o.sent \ Hello(o) = {m} /\ ErrorOf(o) = <<>>
  BY DEF Hello, ErrorOf
<1> QED
  BY <1>1, WrittenParts, FramesOfNone, FramesOfOne, Concatenations, Zenon

-----------------------------------------------------------------------------
(* What holds of every network, whatever its delays and clocks.              *)

(* A frame of the connection. *)
Frame == [conn : {conn}, sent : Nat, body : Message]

HostStates == {"Down", "Up", "Speaking"}

(* The links of our engine, and the frames under way. *)
NearBase ==
    /\ Inv /\ CacheInv
    /\ Keys(links) \subseteq {FarId}
    /\ conn \in Nat /\ ahead \in Nat
    /\ side \in HostStates /\ far_side \in HostStates
    /\ to_far \in Seq(Frame) /\ to_near \in Seq(Frame)
    /\ side = "Down" => links[FarId] = None /\ to_near = <<>>

(* The partner's link, before it was given a frame of the connection: only the
   sending direction of it can be set. *)
NewBut(a, b, c, d) ==
    [Far!NewLink EXCEPT !.handshake_sent = a, !.snapshot_sent = b,
                        !.last_data_send_ms = c, !.send_jitter_ms = d]

IsNew(l) ==
    \E a \in BOOLEAN, b \in BOOLEAN, c \in Option(Nat), d \in Nat : l = NewBut(a, b, c, d)

FarBase ==
    /\ DOMAIN far_links = {LocalPeerId}
    /\ far_cache # None => far_cache.list = {}
    /\ far_side = "Down" => far_links[LocalPeerId] = None /\ to_far = <<>>
    /\ far_side # "Down" /\ ~heard => IsNew(FarLink)

Base == NearBase /\ FarBase

LEMMA BaseFresh ==
  ASSUME Base
  PROVE  StartsFresh
<1> SUFFICES ASSUME IsNew(FarLink)
             PROVE  [FarLink EXCEPT !.handshake_sent = FALSE, !.snapshot_sent = FALSE,
                         !.last_data_send_ms = None, !.send_jitter_ms = 0] = Far!NewLink
  BY DEF Base, FarBase, StartsFresh
<1>1. PICK a, b, c, d : FarLink = NewBut(a, b, c, d)
  BY DEF IsNew
<1> DEFINE r == Far!NewLink
           f == [NewBut(a, b, c, d) EXCEPT !.handshake_sent = FALSE, !.snapshot_sent = FALSE,
                     !.last_data_send_ms = None, !.send_jitter_ms = 0]
           D == DOMAIN r
<1>2. /\ r = [x \in D |-> r[x]]
      /\ r.handshake_sent = FALSE /\ r.snapshot_sent = FALSE
      /\ r.last_data_send_ms = None /\ r.send_jitter_ms = 0
  BY DEF Far!NewLink
<1> HIDE DEF r, D
<1>3. f = [x \in D |-> f[x]]
  BY <1>2 DEF NewBut, r
<1>4. \A x \in D : f[x] = r[x]
  BY <1>2 DEF NewBut, r
<1> HIDE DEF f
<1>5. f = r
  BY <1>2, <1>3, <1>4
<1> QED
  BY <1>1, <1>5, Zenon DEF f, r

(* An answer of either engine to a frame: no message, and at most an error. *)
Answer(o) == o.sent = {} /\ o.reply \in Option(Nat)

LEMMA NearAnswers ==
  ASSUME NEW p, NEW m, NEW code \in Nat, on_message(p, m) \/ record_violation(p, code)
  PROVE  /\ Answer(out') /\ UNCHANGED <<now, known, known_epoch, advertisable_cache>>
<1>1. ASSUME NEW c \in Nat, strike(p, c) \/ mute_mismatch(p, c) PROVE Answer(out')
  BY <1>1 DEF strike, mute_mismatch, Quiet, Answer, Option
<1>2. ASSUME out' = Quiet PROVE Answer(out')
  BY <1>2 DEF Quiet, Answer, Option
<1>3. ASSUME NEW a, NEW b, \/ out' = [Quiet EXCEPT !.peer = p, !.candidates = a]
                          \/ out' = [Quiet EXCEPT !.peer = p, !.candidates = a, !.attributed = b]
      PROVE  Answer(out')
  BY <1>3 DEF Quiet, Answer, Option
<1>4. /\ ProtocolViolation \in Nat /\ UnsupportedVersion \in Nat /\ NetworkMismatch \in Nat
      /\ Oversized \in Nat /\ RateViolation \in Nat /\ BadMessage \in Nat
  BY DEF ProtocolViolation, UnsupportedVersion, NetworkMismatch, Oversized, RateViolation, BadMessage
<1>5. ASSUME OnMuted(p) \/ on_pex_error(p, m) PROVE Answer(out')
  BY <1>2, <1>5 DEF OnMuted, on_pex_error
<1>6. ASSUME on_handshake(p, m) PROVE Answer(out')
  BY <1>1, <1>2, <1>4, <1>6, Zenon DEF on_handshake
<1>7. ASSUME on_snapshot(p, m) PROVE Answer(out')
  BY <1>1, <1>3, <1>4, <1>7, Zenon DEF on_snapshot
<1>8. ASSUME on_delta(p, m) PROVE Answer(out')
  BY <1>1, <1>3, <1>4, <1>8, Zenon DEF on_delta
<1>9. Answer(out')
  BY <1>1, <1>5, <1>6, <1>7, <1>8, Zenon DEF on_message, record_violation
<1> QED
  BY <1>9 DEF on_message, record_violation, OutboundUnchanged

LEMMA FarAnswers ==
  ASSUME NEW m, NEW code \in Nat,
         Far!on_message(LocalPeerId, m) \/ Far!record_violation(LocalPeerId, code)
  PROVE  /\ Answer(far_out') /\ far_cache' = far_cache
         /\ DOMAIN far_links' = DOMAIN far_links
<1> DEFINE p == LocalPeerId
           Same == DOMAIN far_links' = DOMAIN far_links
<1>1. ASSUME NEW c \in Nat, Far!strike(p, c) \/ Far!mute_mismatch(p, c) PROVE Answer(far_out') /\ Same
  BY <1>1 DEF Far!strike, Far!mute_mismatch, Far!Quiet, Answer, Option
<1>2. ASSUME far_out' = Far!Quiet PROVE Answer(far_out')
  BY <1>2 DEF Far!Quiet, Answer, Option
<1>3. ASSUME NEW a, NEW b, \/ far_out' = [Far!Quiet EXCEPT !.peer = p, !.candidates = a]
                          \/ far_out' = [Far!Quiet EXCEPT !.peer = p, !.candidates = a, !.attributed = b]
      PROVE  Answer(far_out')
  BY <1>3 DEF Far!Quiet, Answer, Option
<1>4. /\ Far!ProtocolViolation \in Nat /\ Far!UnsupportedVersion \in Nat /\ Far!NetworkMismatch \in Nat
      /\ Far!Oversized \in Nat /\ Far!RateViolation \in Nat /\ Far!BadMessage \in Nat
  BY DEF Far!ProtocolViolation, Far!UnsupportedVersion, Far!NetworkMismatch, Far!Oversized,
         Far!RateViolation, Far!BadMessage
<1>5. ASSUME NEW l, far_links' = [far_links EXCEPT ![p] = l] PROVE Same
  BY <1>5
<1>6. ASSUME Far!OnMuted(p) \/ Far!on_pex_error(p, m) PROVE Answer(far_out') /\ Same
  BY <1>2, <1>5, <1>6, Zenon DEF Far!OnMuted, Far!on_pex_error
<1>7. ASSUME Far!on_handshake(p, m) PROVE Answer(far_out') /\ Same
  BY <1>1, <1>2, <1>4, <1>5, <1>7, Zenon DEF Far!on_handshake
<1>8. ASSUME Far!on_snapshot(p, m) PROVE Answer(far_out') /\ Same
  BY <1>1, <1>3, <1>4, <1>5, <1>8, Zenon DEF Far!on_snapshot
<1>9. ASSUME Far!on_delta(p, m) PROVE Answer(far_out') /\ Same
  BY <1>1, <1>3, <1>4, <1>5, <1>9, Zenon DEF Far!on_delta
<1>10. Answer(far_out') /\ Same
  BY <1>1, <1>6, <1>7, <1>8, <1>9, Zenon DEF Far!on_message, Far!record_violation
<1> QED
  BY <1>10 DEF Far!on_message, Far!record_violation, Far!OutboundUnchanged

(* The frame a host writes for one message of the engine. *)
LEMMA FrameType ==
  ASSUME now \in Nat, NEW m \in Message
  PROVE  Framed(m) \in Frame
BY DEF Framed, Frame

LEMMA OneFrame ==
  ASSUME NEW f \in Frame
  PROVE  <<f>> \in Seq(Frame)
OBVIOUS

LEMMA NoFrame == <<>> \in Seq(Frame)
OBVIOUS

LEMMA HandshakeOnWire ==
  ASSUME NEW m, m.type = "pex_handshake", m.version \in Nat, m.network_id \in STRING,
         m.interval \in Nat
  PROVE  /\ OnWire(m) = [type |-> "pex_handshake", version |-> m.version,
                         network_id |-> m.network_id, interval |-> m.interval]
         /\ OnWire(m) \in Message
BY DEF OnWire, Message

LEMMA SnapshotOnWire ==
  ASSUME NEW m, m.type = "pex_snapshot", IsFiniteSet(m.peers), OnePerPeer(m.peers)
  PROVE  /\ OnWire(m) = [type |-> "pex_snapshot", peers |-> InOrder(m.peers)]
         /\ Lists(InOrder(m.peers), m.peers)
         /\ OnWire(m) \in Message
<1>1. OnWire(m) = [type |-> "pex_snapshot", peers |-> InOrder(m.peers)]
  BY DEF OnWire
<1>2. Lists(InOrder(m.peers), m.peers)
  BY OrderListed
<1> DEFINE S == m.peers
           s == InOrder(S)
<1> HIDE DEF s, S
<1>3. s \in Seq(Entry)
  <2>1. s \in Seq(S) /\ S \subseteq Entry
    BY <1>2 DEF Lists, OnePerPeer, s, S
  <2> QED
    BY <2>1
<1>4. [type |-> "pex_snapshot", peers |-> s] \in Message
  BY <1>3 DEF Message
<1> QED
  BY <1>1, <1>2, <1>4 DEF s, S

LEMMA DeltaOnWire ==
  ASSUME NEW m, m.type = "pex_delta", IsFiniteSet(m.added), OnePerPeer(m.added),
         m.dropped \in SUBSET PeerIds
  PROVE  /\ OnWire(m) = [type |-> "pex_delta", added |-> InOrder(m.added),
                         dropped |-> SeqExt!SetToSeq(m.dropped)]
         /\ Lists(InOrder(m.added), m.added)
         /\ Lists(SeqExt!SetToSeq(m.dropped), m.dropped)
         /\ OnWire(m) \in Message
<1>1. OnWire(m) = [type |-> "pex_delta", added |-> InOrder(m.added),
                   dropped |-> SeqExt!SetToSeq(m.dropped)]
  BY DEF OnWire
<1>2. Lists(InOrder(m.added), m.added)
  BY OrderListed
<1>3. Lists(SeqExt!SetToSeq(m.dropped), m.dropped)
  <2>1. IsFiniteSet(m.dropped)
    BY PeerIdsFinite, FS_Subset
  <2> QED
    BY <2>1, SetListed
<1> DEFINE S == m.added
           D == m.dropped
           s == InOrder(S)
           d == SeqExt!SetToSeq(D)
<1> HIDE DEF s, S, d, D
<1>4. s \in Seq(Entry) /\ d \in Seq(PeerIds)
  <2>1. s \in Seq(S) /\ S \subseteq Entry /\ d \in Seq(D) /\ D \subseteq PeerIds
    BY <1>2, <1>3 DEF Lists, OnePerPeer, s, S, d, D
  <2> QED
    BY <2>1
<1>5. [type |-> "pex_delta", added |-> s, dropped |-> d] \in Message
  BY <1>4 DEF Message
<1> QED
  BY <1>1, <1>2, <1>3, <1>5 DEF s, S, d, D

LEMMA AnswerWrites ==
  ASSUME now \in Nat, NEW o, Answer(o)
  PROVE  /\ Written(o) \in Seq(Frame)
         /\ \/ Written(o) = <<>>
            \/ /\ o.reply \in Nat
               /\ Written(o) = <<Framed([type |-> "pex_error", code |-> o.reply])>>
<1>1. CASE o.reply = None
  BY <1>1, WritesNothing, NoFrame DEF Answer
<1>2. CASE o.reply # None
  <2>1. o.reply \in Nat
    BY <1>2 DEF Answer, Option
  <2>2. [type |-> "pex_error", code |-> o.reply] \in Message
    BY <2>1 DEF Message
  <2>3. Written(o) = <<Framed([type |-> "pex_error", code |-> o.reply])>>
    BY <1>2, WritesError DEF Answer
  <2> QED
    BY <2>1, <2>2, <2>3, FrameType, OneFrame
<1> QED
  BY <1>1, <1>2

-----------------------------------------------------------------------------
(* What each call makes its host write.                                      *)

Delta(dropped) ==
    [to |-> FarId, type |-> "pex_delta", added |-> Added(FarId), dropped |-> dropped]

FirstList == [to |-> FarId, type |-> "pex_snapshot", peers |-> Snapshot(FarId)]

(* A tick that has nothing due, and one that tells the partner something. *)
TickQuiet == links' = links /\ Written(out') = <<>>

TickTells(dropped, jitter) ==
    /\ FarId \in Sending /\ dropped \in DroppedPicks(Gone(FarId)) /\ jitter \in Nat
    /\ links' = [links EXCEPT ![FarId] = AfterDelta(FarId, dropped, jitter)]
    /\ Written(out') = <<Framed(OnWire(Delta(dropped)))>>

LEMMA SendingIsFar ==
  ASSUME NearBase
  PROVE  Sending \subseteq {FarId} /\ Sending \subseteq Keys(links)
BY DEF NearBase, Sending, Due

LEMMA TickWrites ==
  ASSUME NearBase, tick
  PROVE  TickQuiet \/ \E dropped \in SUBSET PeerIds, jitter \in Nat : TickTells(dropped, jitter)
<1>1. PICK dropped \in [Sending -> SUBSET PeerIds], jitter \in [Sending -> JitterSamples] :
         /\ \A p \in Sending : /\ dropped[p] \in DroppedPicks(Gone(p))
                               /\ jitter[p] \in jitter_ms(Effective(links[p]))
         /\ links' = [p \in Partners |->
                         IF p \in Sending THEN AfterDelta(p, dropped[p], jitter[p]) ELSE links[p]]
         /\ out' = [Quiet EXCEPT !.sent =
                       {[to |-> p, type |-> "pex_delta",
                         added |-> Added(p), dropped |-> dropped[p]] : p \in Sending}]
  BY Zenon DEF tick
<1>2. links \in [Partners -> Option(LinkState)] /\ FarId \in Partners
  BY NetworkAssumption DEF NearBase, Inv, TypeOK
<1>3. out'.reply = None
  BY <1>1 DEF Quiet
<1>4. CASE FarId \notin Sending
  <2>1. Sending = {}
    BY <1>4, SendingIsFar
  <2>2. out'.sent = {}
    BY <1>1, <2>1 DEF Quiet
  <2>3. links' = [p \in Partners |-> links[p]]
    BY <1>1, <2>1
  <2>4. links' = links
    BY <1>2, <2>3
  <2> QED
    BY <1>3, <2>2, <2>4, WritesNothing DEF TickQuiet
<1>5. CASE FarId \in Sending
  <2> DEFINE d == dropped[FarId]
             j == jitter[FarId]
  <2>1. Sending = {FarId}
    BY <1>5, SendingIsFar
  <2>2. d \in DroppedPicks(Gone(FarId)) /\ d \in SUBSET PeerIds /\ j \in Nat
    BY <1>1, <1>5, JitterAssumption
  <2>3. out'.sent = {Delta(d)}
    BY <1>1, <2>1 DEF Quiet, Delta
  <2>4. Delta(d).type # "pex_handshake"
    BY DEF Delta
  <2>5. links' = [p \in Partners |-> IF p = FarId THEN AfterDelta(FarId, d, j) ELSE links[p]]
    BY <1>1, <2>1
  <2> HIDE DEF d, j
  <2>6. links' = [links EXCEPT ![FarId] = AfterDelta(FarId, d, j)]
    BY <1>2, <2>5
  <2>7. Written(out') = <<Framed(OnWire(Delta(d)))>>
    BY <1>3, <2>3, <2>4, WritesOne
  <2> QED
    BY <1>5, <2>2, <2>6, <2>7 DEF TickTells
<1> QED
  BY <1>4, <1>5

LEMMA DeltaFrame ==
  ASSUME NearBase, NEW dropped \in SUBSET PeerIds
  PROVE  /\ OnWire(Delta(dropped)) = [type |-> "pex_delta", added |-> InOrder(Added(FarId)),
                                      dropped |-> SeqExt!SetToSeq(dropped)]
         /\ Lists(InOrder(Added(FarId)), Added(FarId))
         /\ Lists(SeqExt!SetToSeq(dropped), dropped)
         /\ OnWire(Delta(dropped)) \in Message
<1>1. IsFiniteSet(Added(FarId)) /\ OnePerPeer(Added(FarId))
  <2>1. IsFiniteSet(advertisable_for(FarId)) /\ OnePerPeer(advertisable_for(FarId))
    BY AdvertisedSet DEF NearBase
  <2>2. Added(FarId) \subseteq advertisable_for(FarId)
    BY DEF Added, Freshest, Changed
  <2> QED
    BY <2>1, <2>2, SubsetOnePerPeer
<1> DEFINE m == Delta(dropped)
<1>2. m.type = "pex_delta" /\ m.added = Added(FarId) /\ m.dropped = dropped
  BY DEF Delta
<1> HIDE DEF m
<1>3. /\ OnWire(m) = [type |-> "pex_delta", added |-> InOrder(m.added),
                      dropped |-> SeqExt!SetToSeq(m.dropped)]
      /\ Lists(InOrder(m.added), m.added)
      /\ Lists(SeqExt!SetToSeq(m.dropped), m.dropped)
      /\ OnWire(m) \in Message
  <2>1. IsFiniteSet(m.added) /\ OnePerPeer(m.added) /\ m.dropped \in SUBSET PeerIds
    BY <1>1, <1>2
  <2> QED
    BY <1>2, <2>1, DeltaOnWire
<1> QED
  BY <1>2, <1>3, Zenon DEF m

LinkedUp(jitter) ==
    [Link(FarId) EXCEPT !.self_interval_secs = Interval,
                        !.handshake_sent = TRUE,
                        !.told = Told(@, Snapshot(FarId), {}),
                        !.snapshot_sent = TRUE,
                        !.last_data_send_ms = now,
                        !.send_jitter_ms = jitter]

LEMMA LinkUpWrites ==
  ASSUME NearBase, link_up(FarId)
  PROVE  /\ \E jitter \in Nat : links' = [links EXCEPT ![FarId] = LinkedUp(jitter)]
         /\ Written(out') = <<Framed(OnWire(Handshake(FarId))), Framed(OnWire(FirstList))>>
<1>1. \E jitter \in Nat : links' = [links EXCEPT ![FarId] = LinkedUp(jitter)]
  BY JitterAssumption DEF link_up, LinkedUp, jitter_ms
<1>2. out'.sent = {Handshake(FarId), FirstList} /\ out'.reply = None
  BY DEF link_up, FirstList, Quiet
<1>3. Handshake(FarId).type = "pex_handshake" /\ FirstList.type # "pex_handshake"
  BY DEF Handshake, FirstList
<1> QED
  BY <1>1, <1>2, <1>3, WritesTwo

LEMMA FirstFrames ==
  ASSUME NearBase
  PROVE  /\ OnWire(Handshake(FarId)) = [type |-> "pex_handshake", version |-> PEX_VERSION,
                                        network_id |-> NetworkId, interval |-> Interval]
         /\ OnWire(Handshake(FarId)) \in Message
         /\ OnWire(FirstList) = [type |-> "pex_snapshot", peers |-> InOrder(Snapshot(FarId))]
         /\ Lists(InOrder(Snapshot(FarId)), Snapshot(FarId))
         /\ OnWire(FirstList) \in Message
<1> DEFINE h == Handshake(FarId)
<1>1. /\ h.type = "pex_handshake" /\ h.version = PEX_VERSION /\ h.network_id = NetworkId
      /\ h.interval = Interval
  BY DEF Handshake
<1> HIDE DEF h
<1>2. /\ OnWire(h) = [type |-> "pex_handshake", version |-> PEX_VERSION,
                      network_id |-> NetworkId, interval |-> Interval]
      /\ OnWire(h) \in Message
  BY <1>1, HandshakeOnWire, StateAssumption
<1>3. IsFiniteSet(Snapshot(FarId)) /\ OnePerPeer(Snapshot(FarId))
  <2>1. IsFiniteSet(advertisable_for(FarId)) /\ OnePerPeer(advertisable_for(FarId))
    BY AdvertisedSet DEF NearBase
  <2>2. Snapshot(FarId) \subseteq advertisable_for(FarId)
    BY DEF Snapshot, trim_to_frame_budget, Freshest
  <2> QED
    BY <2>1, <2>2, SubsetOnePerPeer
<1> DEFINE m == FirstList
<1>4. m.type = "pex_snapshot" /\ m.peers = Snapshot(FarId)
  BY DEF FirstList
<1> HIDE DEF m
<1>5. /\ OnWire(m) = [type |-> "pex_snapshot", peers |-> InOrder(m.peers)]
      /\ Lists(InOrder(m.peers), m.peers)
      /\ OnWire(m) \in Message
  <2>1. IsFiniteSet(m.peers) /\ OnePerPeer(m.peers)
    BY <1>3, <1>4
  <2> QED
    BY <1>4, <2>1, SnapshotOnWire
<1> QED
  BY <1>2, <1>4, <1>5, Zenon DEF h, m

(* The partner advertises nothing: its first list is empty. *)
FarLinkedUp(jitter) ==
    [FarLink EXCEPT !.self_interval_secs = FarInterval,
                    !.handshake_sent = TRUE,
                    !.told = Far!Told(@, {}, {}),
                    !.snapshot_sent = TRUE,
                    !.last_data_send_ms = now + ahead,
                    !.send_jitter_ms = jitter]

FarHello == [type |-> "pex_handshake", version |-> PEX_VERSION, network_id |-> NetworkId,
             interval |-> FarInterval]

FarFirst == [type |-> "pex_snapshot", peers |-> <<>>]

LEMMA FarListEmpty ==
  ASSUME far_cache # None => far_cache.list = {}
  PROVE  Far!Snapshot(LocalPeerId) = {} /\ Far!RefreshedCache.list = {}
<1>1. Far!advertisable_base = {}
  BY DEF Far!advertisable_base, Far!Keys, Empty
<1>2. Far!advertisable_cached = {}
  BY <1>1 DEF Far!advertisable_cached, Far!CacheHit
<1>3. Far!advertisable_for(LocalPeerId) = {}
  BY <1>2 DEF Far!advertisable_for
<1>4. Far!Snapshot(LocalPeerId) = {}
  BY <1>3 DEF Far!Snapshot, Far!trim_to_frame_budget, Far!Freshest
<1> QED
  BY <1>2, <1>4 DEF Far!RefreshedCache

LEMMA FarUpWrites ==
  ASSUME far_cache # None => far_cache.list = {}, Far!link_up(LocalPeerId)
  PROVE  /\ \E jitter \in Nat :
                far_links' = [far_links EXCEPT ![LocalPeerId] = FarLinkedUp(jitter)]
         /\ Written(far_out') = <<Framed(FarHello), Framed(FarFirst)>>
         /\ FarHello \in Message /\ FarFirst \in Message
         /\ far_cache'.list = {}
<1>1. Far!Snapshot(LocalPeerId) = {} /\ Far!RefreshedCache.list = {}
  BY FarListEmpty
<1>2. \E jitter \in Nat : far_links' = [far_links EXCEPT ![LocalPeerId] = FarLinkedUp(jitter)]
  BY <1>1, JitterAssumption DEF Far!link_up, FarLinkedUp, FarLink, Far!jitter_ms
<1> DEFINE h == Far!Handshake(LocalPeerId)
           m == [to |-> LocalPeerId, type |-> "pex_snapshot", peers |-> {}]
<1>3. far_out'.sent = {h, m} /\ far_out'.reply = None
  BY <1>1 DEF Far!link_up, Far!Quiet
<1>4. /\ h.type = "pex_handshake" /\ h.version = PEX_VERSION /\ h.network_id = NetworkId
      /\ h.interval = FarInterval
      /\ m.type = "pex_snapshot" /\ m.peers = {}
  BY DEF Far!Handshake
<1> HIDE DEF h, m
<1>5. OnWire(h) = FarHello /\ FarHello \in Message
  BY <1>4, HandshakeOnWire, StateAssumption, NetworkAssumption DEF FarHello
<1>6. OnWire(m) = FarFirst /\ FarFirst \in Message
  <2>1. IsFiniteSet({}) /\ OnePerPeer({})
    BY FS_EmptySet DEF OnePerPeer
  <2>2. /\ OnWire(m) = [type |-> "pex_snapshot", peers |-> InOrder({})]
        /\ Lists(InOrder({}), {}) /\ OnWire(m) \in Message
    BY <1>4, <2>1, SnapshotOnWire
  <2>3. InOrder({}) = <<>>
    <3> DEFINE s == InOrder({})
    <3>1. s \in Seq({}) /\ Len(s) = 0
      BY <2>2, FS_EmptySet DEF Lists
    <3> HIDE DEF s
    <3>2. s = <<>>
      BY <3>1
    <3> QED
      BY <3>2 DEF s
  <2> QED
    BY <2>2, <2>3 DEF FarFirst
<1>7. Written(far_out') = <<Framed(OnWire(h)), Framed(OnWire(m))>>
  BY <1>3, <1>4, WritesTwo
<1>8. far_cache'.list = {}
  BY <1>1 DEF Far!link_up
<1> QED
  BY <1>2, <1>5, <1>6, <1>7, <1>8

-----------------------------------------------------------------------------
(* Every step keeps it.                                                      *)

LEMMA SameFrames ==
  ASSUME conn' = conn
  PROVE  Frame' = Frame
BY DEF Frame, Message

LEMMA FarKept ==
  ASSUME FarBase, UNCHANGED <<farVars, far_side, heard>>, far_side = "Down" => to_far' = <<>>
  PROVE  FarBase'
<1>1. far_links' = far_links /\ far_cache' = far_cache /\ far_side' = far_side /\ heard' = heard
  BY DEF farVars
<1>2. FarLink' = FarLink
  BY <1>1 DEF FarLink, Far!Link, Far!NewLink
<1>3. IsNew(FarLink)' <=> IsNew(FarLink)
  BY <1>2 DEF IsNew, NewBut, Far!NewLink
<1> QED
  BY <1>1, <1>2, <1>3 DEF FarBase

LEMMA NearCallBase ==
  ASSUME Base, Inv', CacheInv', Keys(links)' \subseteq {FarId},
         NEW w \in Seq(Frame),
         to_far' = IF far_side = "Down" THEN to_far ELSE to_far \o w,
         to_near' \in Seq(Frame), side' \in HostStates,
         side' = "Down" => links'[FarId] = None /\ to_near' = <<>>,
         UNCHANGED <<ahead, farVars, heard, conn, far_side>>
  PROVE  Base'
<1>1. to_far' \in Seq(Frame) /\ (far_side = "Down" => to_far' = <<>>)
  BY DEF Base, NearBase, FarBase
<1>2. Frame' = Frame
  BY SameFrames
<1>3. FarBase'
  BY <1>1, FarKept DEF Base
<1> QED
  BY <1>1, <1>2, <1>3 DEF Base, NearBase

LEMMA BaseInit == NetInit => Base
<1> SUFFICES ASSUME NetInit PROVE Base
  OBVIOUS
<1>1. Inv /\ CacheInv
  BY InitInv, CacheInit DEF NetInit
<1>2. Keys(links) = {} /\ links[FarId] = None
  BY NetworkAssumption DEF NetInit, Init, Keys, Empty
<1>3. to_far \in Seq(Frame) /\ to_near \in Seq(Frame)
  BY DEF NetInit
<1>4. NearBase
  BY <1>1, <1>2, <1>3 DEF NetInit, NearBase, HostStates
<1>5. FarBase
  BY DEF NetInit, Far!Init, Far!Empty, FarBase
<1> QED
  BY <1>4, <1>5 DEF Base

LEMMA ConnectBase ==
  ASSUME Base, Connect
  PROVE  Base'
<1>1. to_far' = <<>> /\ to_near' = <<>> /\ conn' \in Nat
  BY DEF Connect, Base, NearBase, FarBase
<1>2. <<>> \in Seq(Frame')
  OBVIOUS
<1>3. Inv' /\ CacheInv'
  <2>1. UNCHANGED <<now, links, hints, known, known_epoch, advertisable_cache>>
    BY DEF Connect, vars
  <2>2. Inv'
    BY <2>1, StutterInv DEF Base, NearBase
  <2>3. CacheInv'
    BY <2>1, RefreshedInv DEF Base, NearBase, Inv
  <2> QED
    BY <2>2, <2>3
<1>4. NearBase'
  BY <1>1, <1>2, <1>3 DEF Base, NearBase, Connect, HostStates, vars, Keys
<1>5. far_links' = far_links /\ far_cache' = far_cache /\ far_links[LocalPeerId] = None
  BY DEF Connect, farVars, Base, FarBase
<1>6. IsNew(FarLink)'
  <2>1. FarLink' = Far!NewLink
    BY <1>5 DEF FarLink, Far!Link, Far!NewLink
  <2>2. Far!NewLink = NewBut(FALSE, FALSE, None, 0)
    <3> DEFINE r == Far!NewLink
               f == NewBut(FALSE, FALSE, None, 0)
               D == DOMAIN r
    <3>1. /\ r = [x \in D |-> r[x]]
          /\ r.handshake_sent = FALSE /\ r.snapshot_sent = FALSE
          /\ r.last_data_send_ms = None /\ r.send_jitter_ms = 0
      BY DEF Far!NewLink
    <3> HIDE DEF r, D
    <3>2. f = [x \in D |-> f[x]]
      BY <3>1 DEF NewBut, r
    <3>3. \A x \in D : f[x] = r[x]
      BY <3>1 DEF NewBut, r
    <3> HIDE DEF f
    <3>4. f = r
      BY <3>1, <3>2, <3>3
    <3> QED
      BY <3>4, Zenon DEF f, r
  <2>3. None \in Option(Nat) /\ 0 \in Nat /\ NewBut(FALSE, FALSE, None, 0)' = NewBut(FALSE, FALSE, None, 0)
    BY DEF Option, NewBut, Far!NewLink
  <2> QED
    BY <2>1, <2>2, <2>3 DEF IsNew
<1>7. FarBase'
  BY <1>1, <1>5, <1>6 DEF Base, FarBase, Connect
<1> QED
  BY <1>4, <1>7 DEF Base

LEMMA KnowsBase ==
  ASSUME Base, Knows
  PROVE  Base'
<1>1. PICK e \in FirstHand : Near(upsert_known(e)) \/ Near(remove_known(e.peer_id))
  BY DEF Knows
<1>2. upsert_known(e) \/ remove_known(e.peer_id)
  BY <1>1 DEF Near
<1>3. out' = Quiet /\ links' = links /\ advertisable_cache' = advertisable_cache
  BY <1>2 DEF upsert_known, remove_known
<1>4. Written(out') = <<>>
  BY <1>3, WritesNothing DEF Quiet
<1>5. Inv'
  BY <1>2, KnownInv DEF Base, NearBase
<1>6. CacheInv'
  <2>1. CASE UNCHANGED <<known, known_epoch>>
    BY <2>1, <1>3, RefreshedInv DEF Base, NearBase, Inv
  <2>2. CASE known_epoch' = known_epoch + 1
    BY <2>2, <1>3, MutationInv DEF Base, NearBase, Inv
  <2> QED
    BY <1>2, <2>1, <2>2 DEF upsert_known, remove_known
<1>7. /\ Keys(links)' \subseteq {FarId} /\ side' \in HostStates
      /\ to_near' \in Seq(Frame) /\ UNCHANGED <<conn, far_side>>
      /\ side' = "Down" => links'[FarId] = None /\ to_near' = <<>>
  BY <1>3 DEF Base, NearBase, Knows, hostVars, Keys
<1> QED
  BY <1>1, <1>4, <1>5, <1>6, <1>7, NoFrame, NearCallBase DEF Near

LEMMA TicksBase ==
  ASSUME Base, Ticks
  PROVE  Base'
<1>1. tick /\ Near(tick) /\ UNCHANGED hostVars /\ to_near' = to_near
  BY DEF Ticks, Near
<1>2. Inv' /\ CacheInv'
  <2>1. Inv'
    BY <1>1, TickInv DEF Base, NearBase
  <2>2. UNCHANGED <<known, known_epoch>> /\ advertisable_cache' \in {advertisable_cache, RefreshedCache}
    BY <1>1 DEF tick
  <2> QED
    BY <2>1, <2>2, RefreshedInv DEF Base, NearBase, Inv
<1>3. NearBase /\ links \in [Partners -> Option(LinkState)] /\ now \in Nat
  BY DEF Base, NearBase, Inv, TypeOK
<1> DEFINE Kept == /\ Written(out') \in Seq(Frame)
                   /\ Keys(links)' \subseteq {FarId}
                   /\ links[FarId] = None => links'[FarId] = None
<1>4. Kept
  <2>1. CASE TickQuiet
    BY <1>3, <2>1, NoFrame DEF TickQuiet, NearBase, Keys
  <2>2. ASSUME NEW dropped \in SUBSET PeerIds, NEW jitter \in Nat, TickTells(dropped, jitter)
        PROVE  Kept
    <3>1. Framed(OnWire(Delta(dropped))) \in Frame
      BY <1>3, DeltaFrame, FrameType
    <3>2. Written(out') \in Seq(Frame)
      BY <2>2, <3>1, OneFrame DEF TickTells
    <3>3. FarId \in Keys(links)
      BY <1>3, <2>2, SendingIsFar DEF TickTells
    <3>4. Keys(links)' \subseteq {FarId}
      BY <1>3, <2>2 DEF TickTells, NearBase, Keys
    <3> QED
      BY <3>2, <3>3, <3>4 DEF Keys
  <2> QED
    BY <1>1, <1>3, <2>1, <2>2, TickWrites
<1>5. /\ side' \in HostStates /\ to_near' \in Seq(Frame) /\ UNCHANGED <<conn, far_side>>
      /\ side' = "Down" => links'[FarId] = None /\ to_near' = <<>>
  BY <1>1, <1>3, <1>4 DEF NearBase, hostVars
<1> QED
  BY <1>1, <1>2, <1>4, <1>5, NearCallBase DEF Near

LEMMA NearUpBase ==
  ASSUME Base, NearUp
  PROVE  Base'
<1>1. link_up(FarId) /\ Near(link_up(FarId)) /\ to_near' = to_near /\ side' = "Speaking"
      /\ UNCHANGED <<conn, far_side>>
  BY DEF NearUp, Near
<1>2. Inv' /\ CacheInv'
  <2>1. Inv'
    BY <1>1, NetworkAssumption, LinkUpInv DEF Base, NearBase
  <2>2. UNCHANGED <<known, known_epoch>> /\ advertisable_cache' \in {advertisable_cache, RefreshedCache}
    BY <1>1 DEF link_up
  <2> QED
    BY <2>1, <2>2, RefreshedInv DEF Base, NearBase, Inv
<1>3. NearBase /\ links \in [Partners -> Option(LinkState)] /\ now \in Nat
  BY DEF Base, NearBase, Inv, TypeOK
<1>4. Written(out') \in Seq(Frame)
  <2> DEFINE h == Framed(OnWire(Handshake(FarId)))
             s == Framed(OnWire(FirstList))
  <2>1. h \in Frame /\ s \in Frame
    BY <1>3, FirstFrames, FrameType
  <2>2. Written(out') = <<h, s>>
    BY <1>1, <1>3, LinkUpWrites
  <2> HIDE DEF h, s
  <2> QED
    BY <2>1, <2>2
<1>5. Keys(links)' \subseteq {FarId}
  BY <1>1, <1>3 DEF link_up, NearBase, Keys
<1>6. to_near' \in Seq(Frame) /\ side' \in HostStates /\ side' # "Down"
  BY <1>1, <1>3 DEF NearBase, HostStates
<1> QED
  BY <1>1, <1>2, <1>4, <1>5, <1>6, NearCallBase DEF Near

LEMMA NearReadsBase ==
  ASSUME Base, NearReads
  PROVE  Base'
<1> DEFINE f == Head(to_near)
           m == f.body
<1>1. to_near # <<>> /\ to_near' = Tail(to_near) /\ UNCHANGED hostVars
  BY DEF NearReads
<1>2. f \in Frame /\ m \in Message /\ to_near' \in Seq(Frame)
  <2>1. to_near \in Seq(Frame)
    BY DEF Base, NearBase
  <2>2. f \in Frame /\ to_near' \in Seq(Frame)
    BY <1>1, <2>1
  <2> HIDE DEF f
  <2> QED
    BY <2>2 DEF Frame
<1> HIDE DEF f
<1>3. on_message(FarId, m) \/ record_violation(FarId, Oversized)
  BY DEF NearReads, Near, f
<1>4. Answer(out') /\ UNCHANGED <<now, known, known_epoch, advertisable_cache>>
  BY <1>3, NearAnswers DEF Oversized
<1>5. NearBase /\ links \in [Partners -> Option(LinkState)] /\ now \in Nat /\ FarId \in Partners
  BY NetworkAssumption DEF Base, NearBase, Inv, TypeOK
<1>6. Written(out') \in Seq(Frame)
  BY <1>4, <1>5, AnswerWrites
<1>7. Inv'
  <2>1. CASE on_message(FarId, m)
    BY <1>2, <1>5, <2>1, MessageInv DEF NearBase
  <2>2. CASE record_violation(FarId, Oversized)
    BY <1>4, <1>5, <2>2, StrikeInv DEF NearBase, record_violation, RestUnchanged
  <2> QED
    BY <1>3, <2>1, <2>2
<1>8. CacheInv'
  BY <1>4, <1>5, RefreshedInv DEF NearBase, Inv
<1>9. Keys(links)' \subseteq {FarId}
  <2>1. \/ links' = links
        \/ \E l : links' = [links EXCEPT ![FarId] = l]
    BY <1>3, Zenon DEF on_message, OnMuted, on_pex_error, on_handshake, on_snapshot, on_delta,
                record_violation, strike, mute_mismatch
  <2> QED
    BY <1>5, <2>1 DEF NearBase, Keys
<1>10. side # "Down"
  BY <1>1, <1>5 DEF NearBase
<1>11. side' \in HostStates \ {"Down"} /\ UNCHANGED <<conn, far_side>>
  BY <1>1, <1>5, <1>10 DEF NearBase, hostVars
<1>12. /\ to_far' = IF far_side = "Down" THEN to_far ELSE to_far \o Written(out')
       /\ UNCHANGED <<ahead, farVars, heard>>
  BY DEF NearReads, Near
<1> QED
  BY <1>2, <1>6, <1>7, <1>8, <1>9, <1>11, <1>12, NearCallBase

LEMMA CutFrames ==
  ASSUME NEW S, NEW s \in Seq(S), NEW n \in 0..Len(s)
  PROVE  SubSeq(s, 1, n) \in Seq(S) /\ (s = <<>> => SubSeq(s, 1, n) = <<>>)
<1>1. SubSeq(s, 1, n) \in Seq(S) /\ Len(SubSeq(s, 1, n)) = n
  OBVIOUS
<1> QED
  BY <1>1

LEMMA NearDownBase ==
  ASSUME Base, NearDown
  PROVE  Base'
<1>1. NearBase /\ links \in [Partners -> Option(LinkState)] /\ FarId \in Partners
  BY NetworkAssumption DEF Base, NearBase, Inv, TypeOK
<1>2. link_down(FarId) /\ UNCHANGED <<ahead, farVars, conn, far_side, heard>>
      /\ side' = "Down" /\ to_near' = <<>>
  BY DEF NearDown
<1>3. Inv'
  BY <1>1, <1>2, LinkDownInv DEF NearBase
<1>4. CacheInv'
  BY <1>1, <1>2, RefreshedInv DEF NearBase, Inv, link_down
<1>5. Keys(links)' \subseteq {FarId} /\ links'[FarId] = None
  BY <1>1, <1>2 DEF link_down, Remove, NearBase, Keys
<1>6. PICK n \in 0..Len(to_far) : to_far' = SubSeq(to_far, 1, n)
  BY DEF NearDown
<1>7. to_far \in Seq(Frame) /\ (far_side = "Down" => to_far = <<>>)
  BY DEF Base, NearBase, FarBase
<1>8. to_far' \in Seq(Frame) /\ (far_side = "Down" => to_far' = <<>>)
  BY <1>6, <1>7, CutFrames
<1>9. Frame' = Frame /\ FarBase'
  BY <1>2, <1>8, SameFrames, FarKept DEF Base
<1>10. NearBase'
  BY <1>1, <1>2, <1>3, <1>4, <1>5, <1>8, <1>9 DEF NearBase, HostStates
<1> QED
  BY <1>9, <1>10 DEF Base

(* What the partner or the clocks do leaves our engine alone. *)
LEMMA NearRests ==
  ASSUME NearBase, UNCHANGED <<vars, conn, side>>, ahead' \in Nat, far_side' \in HostStates,
         to_far' \in Seq(Frame), to_near' \in Seq(Frame),
         side = "Down" => to_near' = <<>>
  PROVE  NearBase'
<1>1. UNCHANGED <<now, links, hints, known, known_epoch, advertisable_cache>>
  BY DEF vars
<1>2. Inv'
  BY <1>1, StutterInv DEF NearBase
<1>3. CacheInv'
  BY <1>1, RefreshedInv DEF NearBase, Inv
<1>4. Frame' = Frame
  BY SameFrames
<1> QED
  BY <1>1, <1>2, <1>3, <1>4 DEF NearBase, Keys

LEMMA FarWrites ==
  ASSUME NearBase, NEW w \in Seq(Frame),
         to_near' = IF side = "Down" THEN to_near ELSE to_near \o w
  PROVE  to_near' \in Seq(Frame) /\ (side = "Down" => to_near' = <<>>)
BY DEF NearBase

LEMMA FarIds == Far!PeerIds = PeerIds
BY NetworkAssumption, StateAssumption DEF Far!PeerIds, PeerIds

LEMMA ToldNothing ==
  ASSUME NEW l, l.told = Far!Empty(Far!PeerIds)
  PROVE  Far!Told(l.told, {}, {}) = Far!Empty(Far!PeerIds)
BY DEF Far!Told, Far!Empty

LEMMA FarUpBase ==
  ASSUME Base, FarUp
  PROVE  Base'
<1>1. NearBase /\ FarBase /\ now \in Nat /\ ahead \in Nat
  BY DEF Base, NearBase, Inv, TypeOK
<1>2. /\ Far!link_up(LocalPeerId) /\ far_side = "Up" /\ far_side' = "Speaking"
      /\ to_near' = IF side = "Down" THEN to_near ELSE to_near \o Written(far_out')
      /\ UNCHANGED <<ahead, vars, conn, side, to_far, heard>>
  BY DEF FarUp, FarDoes
<1>3. PICK jitter \in Nat : far_links' = [far_links EXCEPT ![LocalPeerId] = FarLinkedUp(jitter)]
  BY <1>1, <1>2, FarUpWrites DEF FarBase
<1>4. Written(far_out') \in Seq(Frame)
  <2> DEFINE h == Framed(FarHello)
             s == Framed(FarFirst)
  <2>1. h \in Frame /\ s \in Frame
    BY <1>1, <1>2, FarUpWrites, FrameType DEF FarBase
  <2>2. Written(far_out') = <<h, s>>
    BY <1>1, <1>2, FarUpWrites DEF FarBase
  <2> HIDE DEF h, s
  <2> QED
    BY <2>1, <2>2
<1>5. NearBase'
  <2>1. to_near' \in Seq(Frame) /\ (side = "Down" => to_near' = <<>>)
    BY <1>1, <1>2, <1>4, FarWrites
  <2>2. UNCHANGED <<vars, conn, side>> /\ ahead' \in Nat /\ far_side' \in HostStates
        /\ to_far' \in Seq(Frame)
    BY <1>1, <1>2 DEF NearBase, HostStates
  <2> QED
    BY <1>1, <2>1, <2>2, NearRests
<1>6. far_cache'.list = {}
  BY <1>1, <1>2, FarUpWrites DEF FarBase
<1>7. DOMAIN far_links' = {LocalPeerId} /\ far_links'[LocalPeerId] = FarLinkedUp(jitter)
  BY <1>1, <1>3 DEF FarBase
<1>8. heard' \/ IsNew(FarLink)'
  <2>1. SUFFICES ASSUME ~heard PROVE IsNew(FarLink)'
    BY <1>2
  <2>2. PICK a \in BOOLEAN, b \in BOOLEAN, c \in Option(Nat), d \in Nat : FarLink = NewBut(a, b, c, d)
    BY <1>1, <1>2, <2>1 DEF FarBase, IsNew
  <2> DEFINE r == Far!NewLink
             k == NewBut(a, b, c, d)
             f == FarLinkedUp(jitter)
             g == NewBut(TRUE, TRUE, now + ahead, jitter)
             D == DOMAIN r
  <2>3. /\ r = [x \in D |-> r[x]]
        /\ r.self_interval_secs = FarInterval /\ r.told = Far!Empty(Far!PeerIds)
    BY DEF Far!NewLink
  <2>4. k.told = Far!Empty(Far!PeerIds)
    BY DEF NewBut, Far!NewLink
  <2>5. Far!Told(k.told, {}, {}) = Far!Empty(Far!PeerIds)
    BY <2>4, ToldNothing
  <2> HIDE DEF r, D
  <2>6. k = [x \in D |-> k[x]]
    BY <2>3 DEF NewBut, r
  <2>7. \A x \in D : x \in {"handshake_sent", "snapshot_sent", "last_data_send_ms", "send_jitter_ms"}
                     \/ k[x] = r[x]
    BY <2>3 DEF NewBut, r
  <2> HIDE DEF k
  <2>8. f = [k EXCEPT !.self_interval_secs = FarInterval, !.handshake_sent = TRUE,
                      !.told = Far!Empty(Far!PeerIds), !.snapshot_sent = TRUE,
                      !.last_data_send_ms = now + ahead, !.send_jitter_ms = jitter]
    BY <2>2, <2>5, Zenon DEF FarLinkedUp, k
  <2>9. g = [r EXCEPT !.handshake_sent = TRUE, !.snapshot_sent = TRUE,
                      !.last_data_send_ms = now + ahead, !.send_jitter_ms = jitter]
    BY DEF NewBut, r
  <2> HIDE DEF f, g
  <2>10. f = [x \in D |-> f[x]] /\ g = [x \in D |-> g[x]]
    BY <2>3, <2>6, <2>8, <2>9
  <2>11. \A x \in D : f[x] = g[x]
    BY <2>3, <2>6, <2>7, <2>8, <2>9
  <2>12. f = g
    BY <2>10, <2>11
  <2>13. FarLink' = f
    <3>1. r \in LinkState
      BY FarIds, NetworkAssumption
         DEF r, Far!NewLink, Far!Empty, LinkState, Option, RecvPhase
    <3>2. g \in LinkState
      <4>1. now + ahead \in Option(Nat) /\ jitter \in Nat
        BY <1>1 DEF Option
      <4> QED
        BY <2>9, <3>1, <4>1 DEF LinkState
    <3>3. f # None
      BY <2>12, <3>2, OptionAssumption
    <3> QED
      BY <3>3, <1>7 DEF FarLink, Far!Link, f
  <2>14. /\ now + ahead \in Option(Nat) /\ jitter \in Nat
         /\ NewBut(TRUE, TRUE, now + ahead, jitter)' = NewBut(TRUE, TRUE, now' + ahead', jitter)
    BY <1>1 DEF Option, NewBut, Far!NewLink
  <2> QED
    BY <1>1, <1>2, <2>12, <2>13, <2>14 DEF IsNew, g, vars
<1>9. FarBase'
  BY <1>2, <1>6, <1>7, <1>8 DEF FarBase
<1> QED
  BY <1>5, <1>9 DEF Base

LEMMA FarDownBase ==
  ASSUME Base, FarDown
  PROVE  Base'
<1>1. NearBase /\ FarBase
  BY DEF Base
<1>2. PICK n \in 0..Len(to_near) : to_near' = SubSeq(to_near, 1, n)
  BY DEF FarDown
<1>3. to_near' \in Seq(Frame) /\ (side = "Down" => to_near' = <<>>)
  BY <1>1, <1>2, CutFrames DEF NearBase
<1>4. /\ UNCHANGED <<vars, conn, side, ahead>> /\ far_side' = "Down" /\ to_far' = <<>>
      /\ Far!link_down(LocalPeerId)
  BY DEF FarDown
<1>5. NearBase'
  BY <1>1, <1>3, <1>4, NoFrame, NearRests DEF NearBase, HostStates
<1>6. /\ DOMAIN far_links' = {LocalPeerId} /\ far_links'[LocalPeerId] = None
      /\ far_cache' = far_cache
  BY <1>1, <1>4 DEF FarBase, Far!link_down, Far!Remove
<1> QED
  BY <1>1, <1>4, <1>5, <1>6 DEF Base, FarBase

LEMMA FarReadsBase ==
  ASSUME Base, FarReads
  PROVE  Base'
<1> DEFINE f == Head(to_far)
           m == f.body
<1>1. NearBase /\ FarBase /\ now \in Nat /\ to_far \in Seq(Frame)
  BY DEF Base, NearBase, Inv, TypeOK
<1>2. /\ to_far # <<>> /\ to_far' = Tail(to_far) /\ UNCHANGED hostVars
      /\ heard' = (heard \/ f.conn = conn)
  BY DEF FarReads
<1>3. f \in Frame /\ to_far' \in Seq(Frame)
  BY <1>1, <1>2
<1> HIDE DEF f
<1>4. heard'
  BY <1>2, <1>3 DEF Frame
<1>5. Far!on_message(LocalPeerId, m) \/ Far!record_violation(LocalPeerId, Oversized)
  BY DEF FarReads, FarDoes, f
<1>6. Answer(far_out') /\ far_cache' = far_cache /\ DOMAIN far_links' = DOMAIN far_links
  BY <1>5, FarAnswers DEF Oversized
<1>7. /\ UNCHANGED <<ahead, vars>>
      /\ to_near' = IF side = "Down" THEN to_near ELSE to_near \o Written(far_out')
  BY DEF FarReads, FarDoes
<1>8. NearBase'
  <2>1. Written(far_out') \in Seq(Frame)
    BY <1>1, <1>6, AnswerWrites
  <2>2. to_near' \in Seq(Frame) /\ (side = "Down" => to_near' = <<>>)
    BY <1>1, <1>7, <2>1, FarWrites
  <2>3. UNCHANGED <<vars, conn, side>> /\ ahead' \in Nat /\ far_side' \in HostStates
    BY <1>1, <1>2, <1>7 DEF NearBase, hostVars
  <2> QED
    BY <1>1, <1>3, <2>2, <2>3, NearRests
<1>9. far_side' # "Down"
  BY <1>1, <1>2 DEF FarBase, hostVars
<1>10. FarBase'
  BY <1>1, <1>4, <1>6, <1>9 DEF FarBase
<1> QED
  BY <1>8, <1>10 DEF Base

LEMMA TimePassesBase ==
  ASSUME Base, TimePasses
  PROVE  Base'
<1>1. PICK d \in ClockSteps : ClockMoves(d)
  BY DEF TimePasses
<1>2. NearBase /\ UNCHANGED <<ahead, farVars, hostVars, to_far, to_near, heard>>
  BY DEF Base, TimePasses
<1>3. Inv'
  BY <1>1, <1>2, ClockInv DEF NearBase
<1>4. UNCHANGED <<links, known, known_epoch, advertisable_cache>>
  BY <1>1 DEF ClockMoves
<1>5. CacheInv'
  BY <1>2, <1>4, RefreshedInv DEF NearBase, Inv
<1>6. Frame' = Frame
  BY <1>2, SameFrames DEF hostVars
<1>7. FarBase'
  BY <1>2, FarKept DEF Base, FarBase, hostVars
<1>8. NearBase'
  BY <1>2, <1>3, <1>4, <1>5, <1>6 DEF NearBase, hostVars, Keys
<1> QED
  BY <1>7, <1>8 DEF Base

LEMMA FarClockSetBase ==
  ASSUME Base, FarClockSet
  PROVE  Base'
<1>1. /\ NearBase /\ ahead' \in Nat
      /\ UNCHANGED <<vars, farVars, hostVars, to_far, to_near, heard>>
  BY NetworkAssumption DEF Base, FarClockSet
<1>2. NearBase'
  BY <1>1, NearRests DEF NearBase, hostVars
<1>3. FarBase'
  BY <1>1, FarKept DEF Base, FarBase, hostVars
<1> QED
  BY <1>2, <1>3 DEF Base

LEMMA StutterBase ==
  ASSUME Base, UNCHANGED netVars
  PROVE  Base'
<1>1. NearBase /\ UNCHANGED <<vars, ahead, farVars, hostVars, to_far, to_near, heard>>
  BY DEF Base, netVars
<1>2. NearBase'
  BY <1>1, NearRests DEF NearBase, hostVars
<1>3. FarBase'
  BY <1>1, FarKept DEF Base, FarBase, hostVars
<1> QED
  BY <1>2, <1>3 DEF Base

LEMMA BaseNext == Base /\ [NetNext]_netVars => Base'
BY ConnectBase, KnowsBase, TicksBase, NearUpBase, FarUpBase, NearDownBase, FarDownBase,
   NearReadsBase, FarReadsBase, TimePassesBase, FarClockSetBase, StutterBase DEF NetNext

(* SPEC 5.5: of the incoming direction, the partner holds nothing of an earlier
   connection when a new one gives it its first frame, whatever was cut off,
   lost or late before (engine.rs:237, 250). *)
THEOREM ConnectionsStartFresh == NetSpec => []StartsFresh
<1>1. NetSpec => []Base
  BY BaseInit, BaseNext, PTL DEF NetSpec
<1>2. Base => StartsFresh
  BY BaseFresh
<1> QED
  BY <1>1, <1>2, PTL

-----------------------------------------------------------------------------
(* What the partner's loop over the entries of a message leaves in its        *)
(* received map.                                                              *)

(* The map of a link of the partner's, and an accumulator that holds one. *)
FarMap(m) == m \in [PeerIds -> Option(Nat)] /\ Keys(m) \subseteq Peers \ {FarId}

FarAccumulator(a) == "received" \in DOMAIN a /\ FarMap(a.received)

Accepts(entry, t) == Far!validate(entry, LocalPeerId, t)

(* The set S is T, but for what an eviction took out of it. *)
ButEvicted(S, T) == S \subseteq T /\ (NoneEvicts => S = T)

LEMMA FarCardinality ==
  ASSUME NEW S
  PROVE  Far!Cardinality(S) = Cardinality(S)
BY Zenon DEF Far!Cardinality, Cardinality

LEMMA FarTurn ==
  ASSUME NEW a, FarAccumulator(a), NEW entry \in Entry, NEW t \in Nat
  PROVE  LET b == Far!IngestEntry(a, entry, LocalPeerId, t) IN
         /\ FarAccumulator(b)
         /\ ButEvicted(Keys(b.received),
                Keys(a.received) \cup (IF Accepts(entry, t) THEN {entry.peer_id} ELSE {}))
<1> DEFINE b == Far!IngestEntry(a, entry, LocalPeerId, t)
           e == Far!clamped(entry, t)
           r == a.received
           roomy == Far!MakeRoom(r, r, e.peer_id, PEX_MAX_RECEIVED_PER_LINK)
           put == [roomy EXCEPT ![e.peer_id] = e.last_seen]
<1>1. CASE ~Accepts(entry, t)
  <2>1. b = a
    BY <1>1, Zenon DEF Far!IngestEntry, Accepts
  <2> HIDE DEF b
  <2> QED
    BY <1>1, <2>1 DEF b, ButEvicted
<1>2. CASE Accepts(entry, t)
  <2>1. e.peer_id = entry.peer_id /\ e.last_seen \in Nat /\ e.last_seen # None
    BY NoneAssumption DEF Far!clamped, Far!Smaller, Entry
  <2>2. e.peer_id \in Peers \ {FarId}
    BY <1>2, <2>1 DEF Accepts, Far!validate, Entry, PeerIds
  <2>3. "received" \in DOMAIN b /\ b.received = put
    <3> HIDE DEF put
    <3>1. \/ b = [a EXCEPT !.received = put]
          \/ \E h, c : b = [received |-> put, hints |-> h, candidates |-> c]
      BY <1>2, Zenon DEF Far!IngestEntry, Accepts, put
    <3> HIDE DEF b
    <3> QED
      BY <3>1 DEF FarAccumulator
  <2> HIDE DEF b, e
  <2>4. r \in [PeerIds -> Option(Nat)] /\ Keys(r) \subseteq Peers \ {FarId}
    BY DEF FarAccumulator, FarMap
  <2>5. /\ roomy \in [PeerIds -> Option(Nat)] /\ Keys(roomy) \subseteq Keys(r)
        /\ NoneEvicts => roomy = r
    <3>1. CASE roomy = r
      BY <2>4, <3>1
    <3>2. CASE roomy # r
      <4>1. roomy = Far!Remove(r, {Far!Oldest(r)}) /\ r[e.peer_id] = None
            /\ Cardinality(Far!Keys(r)) >= PEX_MAX_RECEIVED_PER_LINK
        BY <3>2, FarCardinality, Zenon DEF Far!MakeRoom
      <4>2. roomy \in [PeerIds -> Option(Nat)] /\ Keys(roomy) \subseteq Keys(r)
        BY <2>4, <4>1 DEF Far!Remove, Option, Keys
      <4>3. ~NoneEvicts
        <5>1. Keys(r) = Far!Keys(r) /\ e.peer_id \notin Keys(r)
          BY <4>1 DEF Keys, Far!Keys
        <5>2. Keys(r) \subseteq Peers \ {e.peer_id}
          BY <2>4, <5>1
        <5>3. /\ IsFiniteSet(Peers \ {e.peer_id})
              /\ Cardinality(Peers \ {e.peer_id}) = Cardinality(Peers) - 1
              /\ Cardinality(Peers) \in Nat
          BY <2>2, EntryAssumption, FS_RemoveElement, FS_CardinalityType
        <5>4. Cardinality(Keys(r)) <= Cardinality(Peers \ {e.peer_id})
              /\ Cardinality(Keys(r)) \in Nat
          BY <5>2, <5>3, FS_Subset, FS_CardinalityType
        <5> QED
          BY <4>1, <5>1, <5>3, <5>4, StateAssumption DEF NoneEvicts
      <4> QED
        BY <4>2, <4>3
    <3> QED
      BY <3>1, <3>2
  <2> HIDE DEF roomy
  <2>6. put \in [PeerIds -> Option(Nat)] /\ Keys(put) = Keys(roomy) \cup {e.peer_id}
    BY <2>1, <2>2, <2>5 DEF Option, Keys, PeerIds
  <2> HIDE DEF put
  <2>7. FarAccumulator(b)
    BY <2>2, <2>3, <2>4, <2>5, <2>6 DEF FarAccumulator, FarMap
  <2> QED
    BY <1>2, <2>1, <2>3, <2>5, <2>6, <2>7 DEF b, ButEvicted
<1> QED
  BY <1>1, <1>2

FarUpTo(f, n, received, entries, t) ==
    f = [i \in 0..n |->
            IF i = 0
            THEN [received |-> received, hints |-> far_hints, candidates |-> <<>>]
            ELSE Far!IngestEntry(f[i - 1], entries[i], LocalPeerId, t)]

LEMMA FarLoopDefined ==
  ASSUME NEW received, NEW entries, NEW t, NEW n \in Nat
  PROVE  \E f : FarUpTo(f, n, received, entries, t)
<1> DEFINE Fails == {k \in Nat : ~ \E f : FarUpTo(f, k, received, entries, t)}
           start == [received |-> received, hints |-> far_hints, candidates |-> <<>>]
<1> SUFFICES ASSUME Fails # {} PROVE FALSE
  OBVIOUS
<1>1. PICK k \in Fails : \A m \in Fails : k <= m
  BY LeastNat
<1>2. CASE k = 0
  <2> DEFINE g == [i \in 0..0 |-> start]
  <2>1. FarUpTo(g, 0, received, entries, t)
    BY DEF FarUpTo
  <2> QED
    BY <2>1, <1>2
<1>3. CASE k # 0
  <2>1. k - 1 \in Nat /\ k - 1 \notin Fails
    BY <1>1, <1>3
  <2>2. PICK f : FarUpTo(f, k - 1, received, entries, t)
    BY <2>1
  <2> DEFINE turn(a, i) == Far!IngestEntry(a, entries[i], LocalPeerId, t)
             g == [i \in 0..k |-> IF i = k THEN turn(f[k - 1], k) ELSE f[i]]
  <2>3. ASSUME NEW i \in 0..k
        PROVE  g[i] = IF i = 0 THEN start ELSE turn(g[i - 1], i)
    <3>1. CASE i = k
      <4>1. g[i] = turn(f[k - 1], k)
        BY <3>1
      <4>2. g[k - 1] = f[k - 1]
        BY <2>1, <1>1
      <4> QED
        BY <4>1, <4>2, <3>1, <1>3
    <3>2. CASE i # k /\ i # 0
      <4>1. i \in 0..(k - 1) /\ i - 1 \in 0..k /\ i - 1 # k
        BY <3>2, <1>1
      <4>2. f[i] = turn(f[i - 1], i)
        BY <2>2, <4>1, <3>2 DEF FarUpTo
      <4>3. g[i] = f[i] /\ g[i - 1] = f[i - 1]
        BY <4>1, <3>2
      <4> QED
        BY <4>2, <4>3, <3>2
    <3>3. CASE i # k /\ i = 0
      <4>1. 0 \in 0..(k - 1) /\ g[i] = f[0]
        BY <3>3, <1>1, <2>1
      <4>2. f[0] = start
        BY <2>2, <4>1 DEF FarUpTo
      <4> QED
        BY <4>1, <4>2, <3>3
    <3> QED
      BY <3>1, <3>2, <3>3
  <2>4. FarUpTo(g, k, received, entries, t)
    BY <2>3, Zenon DEF FarUpTo
  <2> QED
    BY <2>4
<1> QED
  BY <1>2, <1>3

(* The ids of the first n entries that the partner accepts. *)
Accepted(entries, n, t) ==
    {entries[i].peer_id : i \in {j \in 1..n : Accepts(entries[j], t)}}

LEMMA FarLoop ==
  ASSUME NEW received, FarMap(received), NEW entries \in Seq(Entry), NEW t \in Nat
  PROVE  LET acc == Far!ingest_added(received, LocalPeerId, entries, t) IN
         /\ FarMap(acc.received)
         /\ ButEvicted(Keys(acc.received),
                       Keys(received) \cup Accepted(entries, Len(entries), t))
<1> DEFINE n == Len(entries)
           f == CHOOSE f : FarUpTo(f, n, received, entries, t)
           Good(i) == /\ FarAccumulator(f[i])
                      /\ ButEvicted(Keys(f[i].received), Keys(received) \cup Accepted(entries, i, t))
<1>1. n \in Nat
  OBVIOUS
<1>2. FarUpTo(f, n, received, entries, t)
  BY <1>1, FarLoopDefined, Zenon
<1>3. Far!ingest_added(received, LocalPeerId, entries, t) = f[n]
  BY DEF Far!ingest_added, FarUpTo
<1> HIDE DEF f
<1> DEFINE Fails == {i \in 0..n : ~Good(i)}
<1> HIDE DEF Good
<1>4. Fails = {}
  <2> SUFFICES ASSUME Fails # {} PROVE FALSE
    OBVIOUS
  <2> Fails \in SUBSET Nat
    BY <1>1
  <2>1. PICK k \in Fails : \A m \in Fails : k <= m
    BY LeastNat, Zenon
  <2>2. CASE k = 0
    <3>1. f[0] = [received |-> received, hints |-> far_hints, candidates |-> <<>>]
      BY <1>1, <1>2 DEF FarUpTo
    <3>2. f[0].received = received /\ "received" \in DOMAIN f[0]
      BY <3>1
    <3>3. Accepted(entries, 0, t) = {}
      BY DEF Accepted
    <3>4. Good(0)
      BY <3>2, <3>3 DEF FarAccumulator, ButEvicted, Good
    <3> QED
      BY <2>1, <2>2, <3>4
  <2>3. CASE k # 0
    <3>1. k \in 1..n /\ k - 1 \in 0..n /\ k - 1 \notin Fails
      BY <2>1, <2>3
    <3>2. f[k] = Far!IngestEntry(f[k - 1], entries[k], LocalPeerId, t)
      BY <3>1, <2>3, <1>2 DEF FarUpTo
    <3>3. Good(k - 1) /\ entries[k] \in Entry
      BY <3>1
    <3>4. /\ FarAccumulator(f[k])
          /\ ButEvicted(Keys(f[k].received), Keys(f[k - 1].received)
                 \cup (IF Accepts(entries[k], t) THEN {entries[k].peer_id} ELSE {}))
      <4> DEFINE a == f[k - 1]
                 e == entries[k]
                 b == Far!IngestEntry(a, e, LocalPeerId, t)
      <4>1. FarAccumulator(a) /\ e \in Entry
        BY <3>3 DEF Good
      <4> HIDE DEF a, e
      <4>2. /\ FarAccumulator(b)
            /\ ButEvicted(Keys(b.received),
                   Keys(a.received) \cup (IF Accepts(e, t) THEN {e.peer_id} ELSE {}))
        BY <4>1, FarTurn
      <4> HIDE DEF b
      <4>3. f[k] = b
        BY <3>2 DEF a, b, e
      <4> QED
        BY <4>2, <4>3 DEF a, e
    <3>5. Accepted(entries, k, t) = Accepted(entries, k - 1, t)
              \cup (IF Accepts(entries[k], t) THEN {entries[k].peer_id} ELSE {})
      <4>1. \A i \in 1..k : i = k \/ i \in 1..(k - 1)
        BY <3>1
      <4>2. \A i \in 1..(k - 1) : i \in 1..k
        BY <3>1
      <4>3. k \in 1..k
        BY <3>1
      <4> QED
        BY <4>1, <4>2, <4>3 DEF Accepted
    <3>6. Good(k)
      BY <3>3, <3>4, <3>5 DEF ButEvicted, Good
    <3> QED
      BY <2>1, <3>6
  <2> QED
    BY <2>2, <2>3
<1>5. Good(n)
  BY <1>1, <1>4
<1> QED
  BY <1>3, <1>5 DEF FarAccumulator, Good

-----------------------------------------------------------------------------
(* The frames under way to the partner.                                      *)

Pause == clamp_interval(Interval) * 1000
Grace == PEX_ARRIVAL_GRACE * 1000

(* How far the reader of a link has come: how many of the two first frames it
   was given. *)
Rank(l) ==
    IF l.phase = "AwaitingHandshake" THEN 0 ELSE IF l.phase = "AwaitingSnapshot" THEN 1 ELSE 2

NextRank(r) == IF r = 2 THEN 2 ELSE r + 1

NearHello == [type |-> "pex_handshake", version |-> PEX_VERSION, network_id |-> NetworkId,
          interval |-> Interval]

(* What the k-th frame of a connection has to be, to be taken in. *)
GoodBody(m, k) ==
    /\ FrameSize(m) <= PEX_MAX_FRAME
    /\ k = 1 => m = NearHello
    /\ k = 2 => m.type = "pex_snapshot" /\ Len(m.peers) <= PEX_MAX_SNAPSHOT
    /\ k >= 3 => m.type = "pex_delta" /\ ~OverCaps(m) /\ ~Overlapping(m)

InKind(q, r) == \A i \in DOMAIN q : GoodBody(q[i].body, r + i)

UnderWay(q, t) == \A i \in DOMAIN q : q[i].sent <= t /\ t <= q[i].sent + MaxDelay

(* When the data message before the i-th frame was sent: the one that was read
   last was sent at the instant before, or later. *)
Previous(q, i, before) == IF i = 1 THEN before ELSE q[i - 1].sent

Apart(q, r, before, gap) ==
    \A i \in DOMAIN q : r + i >= 3 => Previous(q, i, before) + gap <= q[i].sent

(* The frames of q are for a reader of rank r, and its deltas a gap apart. *)
Lane(q, r, before, t, gap) == InKind(q, r) /\ UnderWay(q, t) /\ Apart(q, r, before, gap)

Latest(q, before) == Previous(q, Len(q) + 1, before)

LEMMA PauseType ==
  /\ Pause \in Nat /\ Grace \in Nat /\ Grace < Pause
  /\ arrival_floor_ms(clamp_interval(Interval)) = Pause - Grace
BY StateAssumption, IntervalAssumption
   DEF Pause, Grace, arrival_floor_ms, clamp_interval, Larger, Smaller

LEMMA Pushed ==
  ASSUME NEW S, NEW q \in Seq(S), NEW f \in S
  PROVE  /\ q \o <<f>> \in Seq(S) /\ Len(q \o <<f>>) = Len(q) + 1 /\ Len(q) \in Nat
         /\ DOMAIN (q \o <<f>>) = 1..(Len(q) + 1) /\ DOMAIN q = 1..Len(q)
         /\ \A i \in 1..Len(q) : (q \o <<f>>)[i] = q[i]
         /\ (q \o <<f>>)[Len(q) + 1] = f
<1>1. <<f>> \in Seq(S) /\ Len(<<f>>) = 1 /\ <<f>>[1] = f
  OBVIOUS
<1> QED
  BY <1>1

LEMMA Popped ==
  ASSUME NEW S, NEW q \in Seq(S), q # <<>>
  PROVE  /\ Tail(q) \in Seq(S) /\ Len(q) \in Nat /\ Len(q) >= 1 /\ Len(Tail(q)) = Len(q) - 1
         /\ DOMAIN q = 1..Len(q) /\ DOMAIN Tail(q) = 1..(Len(q) - 1)
         /\ \A i \in 1..(Len(q) - 1) : Tail(q)[i] = q[i + 1] /\ i + 1 \in 1..Len(q)
         /\ Head(q) = q[1] /\ q[1] \in S
OBVIOUS

LEMMA Cut ==
  ASSUME NEW S, NEW q \in Seq(S), NEW n \in 0..Len(q)
  PROVE  /\ DOMAIN q = 1..Len(q) /\ Len(q) \in Nat
         /\ DOMAIN SubSeq(q, 1, n) = 1..n
         /\ \A i \in 1..n : SubSeq(q, 1, n)[i] = q[i] /\ i \in 1..Len(q)
OBVIOUS

LEMMA LatestType ==
  ASSUME NEW q \in Seq(Frame), NEW before, q = <<>> => before \in Int
  PROVE  Latest(q, before) \in Int
<1>1. CASE q = <<>>
  BY <1>1 DEF Latest, Previous
<1>2. CASE q # <<>>
  <2>1. Len(q) \in DOMAIN q /\ Len(q) + 1 # 1 /\ Len(q) + 1 - 1 = Len(q)
    BY <1>2
  <2>2. q[Len(q)] \in Frame
    BY <2>1
  <2> QED
    BY <2>1, <2>2 DEF Latest, Previous, Frame
<1> QED
  BY <1>1, <1>2

LEMMA LatestPushed ==
  ASSUME NEW q \in Seq(Frame), NEW f \in Frame, NEW before
  PROVE  Latest(q \o <<f>>, before) = f.sent
<1>1. /\ Len(q \o <<f>>) = Len(q) + 1 /\ Len(q) \in Nat
      /\ (q \o <<f>>)[Len(q) + 1] = f
  BY Pushed
<1>2. Len(q) + 1 + 1 # 1 /\ Len(q) + 1 + 1 - 1 = Len(q) + 1
  BY <1>1
<1> QED
  BY <1>1, <1>2 DEF Latest, Previous

LEMMA LanePush ==
  ASSUME NEW q \in Seq(Frame), NEW r \in 0..2, NEW before, NEW t \in Nat, NEW gap,
         Lane(q, r, before, t, gap), NEW f \in Frame, f.sent = t, GoodBody(f.body, r + Len(q) + 1),
         r + Len(q) + 1 >= 3 => Latest(q, before) + gap <= t
  PROVE  /\ q \o <<f>> \in Seq(Frame)
         /\ Lane(q \o <<f>>, r, before, t, gap)
         /\ Latest(q \o <<f>>, before) = t
<1> DEFINE p == q \o <<f>>
           n == Len(q)
<1>1. /\ p \in Seq(Frame) /\ Len(p) = n + 1 /\ n \in Nat
      /\ DOMAIN p = 1..(n + 1) /\ DOMAIN q = 1..n
      /\ \A i \in 1..n : p[i] = q[i]
      /\ p[n + 1] = f
  BY Pushed
<1> HIDE DEF p, n
<1>2. ASSUME NEW i \in 1..(n + 1)
      PROVE  i = n + 1 \/ (i \in 1..n /\ p[i] = q[i] /\ Previous(p, i, before) = Previous(q, i, before))
  <2>1. i = n + 1 \/ i \in 1..n
    BY <1>1
  <2>2. i \in 1..n => i = 1 \/ i - 1 \in 1..n
    BY <1>1
  <2> QED
    BY <1>1, <2>1, <2>2 DEF Previous
<1>3. MaxDelay \in Nat
  BY NetworkAssumption
<1>4. InKind(p, r) /\ UnderWay(p, t)
  <2>1. GoodBody(f.body, r + (n + 1))
    BY <1>1 DEF n
  <2>2. f.sent <= t /\ t <= f.sent + MaxDelay
    BY <1>3
  <2> QED
    BY <1>1, <1>2, <2>1, <2>2 DEF Lane, InKind, UnderWay
<1>5. Apart(p, r, before, gap)
  <2>1. Previous(p, n + 1, before) = Latest(q, before)
    <3>1. n + 1 # 1 => n \in 1..n
      BY <1>1
    <3>2. p[n + 1 - 1] = IF n \in 1..n THEN q[n + 1 - 1] ELSE p[n + 1 - 1]
      BY <1>1
    <3> QED
      BY <3>1, <3>2, <1>1 DEF Previous, Latest, n
  <2>2. r + (n + 1) >= 3 => Previous(p, n + 1, before) + gap <= f.sent
    BY <1>1, <2>1 DEF n
  <2> QED
    BY <1>1, <1>2, <2>2 DEF Lane, Apart
<1>6. Latest(p, before) = t
  BY <1>1 DEF Latest, Previous
<1> QED
  BY <1>1, <1>4, <1>5, <1>6 DEF Lane, p

LEMMA LanePop ==
  ASSUME NEW q \in Seq(Frame), q # <<>>, NEW r \in 0..2, NEW before, NEW t \in Nat,
         NEW gap \in Nat, Lane(q, r, before, t, gap),
         NEW lead \in Nat, NEW slack \in Nat, lead + MaxDelay <= slack,
         NEW after, NextRank(r) = 2 => after = t + lead - slack
  PROVE  /\ Lane(Tail(q), NextRank(r), after, t, gap)
         /\ NextRank(r) = 2 \/ Tail(q) # <<>> => Latest(Tail(q), after) <= Latest(q, before)
<1> DEFINE p == Tail(q)
           n == Len(q)
           s == NextRank(r)
<1>1. /\ p \in Seq(Frame) /\ n \in Nat /\ n >= 1 /\ Len(p) = n - 1
      /\ DOMAIN q = 1..n /\ DOMAIN p = 1..(n - 1)
      /\ \A i \in 1..(n - 1) : p[i] = q[i + 1] /\ i + 1 \in 1..n
      /\ q[1] \in Frame
  BY Popped
<1>2. \A i \in 1..n : q[i] \in Frame /\ q[i].sent \in Nat
  <2>1. \A i \in 1..n : q[i] \in Frame
    OBVIOUS
  <2>2. \A f \in Frame : f.sent \in Nat
    BY DEF Frame
  <2> QED
    BY <2>1, <2>2
<1>3. s \in 1..2 /\ (s = r + 1 \/ (s = 2 /\ r = 2))
  BY DEF NextRank
<1> HIDE DEF p, n, s
<1>4. MaxDelay \in Nat
  BY NetworkAssumption
<1>5. q[1].sent <= t /\ t <= q[1].sent + MaxDelay
  <2>1. 1 \in DOMAIN q
    BY <1>1
  <2>2. UnderWay(q, t)
    BY DEF Lane
  <2> QED
    BY <2>1, <2>2, Zenon DEF UnderWay
<1>6. s = 2 => after <= q[1].sent /\ after \in Int
  BY <1>2, <1>1, <1>4, <1>5 DEF s
<1>7. InKind(p, s)
  <2> SUFFICES ASSUME NEW i \in 1..(n - 1) PROVE GoodBody(p[i].body, s + i)
    BY <1>1 DEF InKind
  <2>1. GoodBody(q[i + 1].body, r + (i + 1)) /\ p[i] = q[i + 1]
    BY <1>1 DEF Lane, InKind
  <2>2. s + i = r + (i + 1) \/ (s + i >= 3 /\ r + (i + 1) >= 3)
    BY <1>1, <1>3
  <2>3. CASE s + i = r + (i + 1)
    BY <2>1, <2>3
  <2>4. CASE s + i >= 3 /\ r + (i + 1) >= 3
    <3>1. ~(s + i = 1) /\ ~(s + i = 2)
      BY <2>4, <1>1, <1>3
    <3> QED
      BY <2>1, <2>4, <3>1 DEF GoodBody
  <2> QED
    BY <2>2, <2>3, <2>4
<1>8. UnderWay(p, t)
  BY <1>1 DEF Lane, UnderWay
<1>9. ASSUME NEW i \in 1..(n - 1), s + i >= 3
      PROVE  Previous(p, i, after) <= Previous(q, i + 1, before) /\ Previous(p, i, after) \in Int
  <2>1. CASE i = 1
    <3>1. s = 2
      BY <1>3, <1>9, <2>1 DEF s
    <3>2. Previous(q, i + 1, before) = q[1].sent
      BY <2>1 DEF Previous
    <3> QED
      BY <2>1, <3>1, <3>2, <1>4, <1>6 DEF Previous
  <2>2. CASE i # 1
    <3>1. i - 1 \in 1..(n - 1) /\ i - 1 + 1 = i /\ i + 1 - 1 = i /\ i \in 1..n /\ i + 1 # 1
      BY <1>1, <2>2
    <3>2. p[i - 1] = q[i]
      BY <1>1, <3>1
    <3>3. Previous(p, i, after) = q[i].sent /\ Previous(q, i + 1, before) = q[i].sent
      BY <2>2, <3>1, <3>2 DEF Previous
    <3> QED
      BY <3>1, <3>3, <1>2
  <2> QED
    BY <2>1, <2>2
<1>10. Apart(p, s, after, gap)
  <2> SUFFICES ASSUME NEW i \in 1..(n - 1), s + i >= 3
               PROVE  Previous(p, i, after) + gap <= p[i].sent
    BY <1>1 DEF Apart
  <2>1. p[i] = q[i + 1] /\ i + 1 \in 1..n /\ r + (i + 1) >= 3
    BY <1>1, <1>3
  <2>2. Previous(q, i + 1, before) + gap <= q[i + 1].sent
    BY <1>1, <2>1 DEF Lane, Apart
  <2>3. Previous(p, i, after) <= Previous(q, i + 1, before) /\ Previous(p, i, after) \in Int
    BY <1>9
  <2>4. Previous(q, i + 1, before) \in Int
    <3>1. i + 1 # 1 /\ i + 1 - 1 \in 1..n
      BY <1>1
    <3> QED
      BY <3>1, <1>2 DEF Previous
  <2> QED
    BY <2>1, <2>2, <2>3, <2>4, <1>2, <1>4
<1>11. s = 2 \/ p # <<>> => Latest(p, after) <= Latest(q, before)
  <2>1. Latest(q, before) = q[n].sent
    BY <1>1 DEF Latest, Previous, n
  <2>2. CASE n = 1
    <3>1. Len(p) = 0 /\ p = <<>>
      BY <1>1, <2>2
    <3>2. Latest(p, after) = after
      BY <3>1 DEF Latest, Previous
    <3> QED
      BY <2>1, <2>2, <3>1, <3>2, <1>6
  <2>3. CASE n # 1
    <3>1. Len(p) + 1 # 1 /\ Len(p) \in 1..(n - 1) /\ Len(p) + 1 = n
      BY <1>1, <2>3
    <3>2. p[Len(p) + 1 - 1] = q[n]
      BY <1>1, <3>1
    <3> QED
      BY <2>1, <3>1, <3>2, <1>1, <1>2 DEF Latest, Previous
  <2> QED
    BY <2>2, <2>3
<1> QED
  BY <1>7, <1>8, <1>10, <1>11 DEF Lane, p, s

LEMMA LaneCut ==
  ASSUME NEW q \in Seq(Frame), NEW r, NEW before, NEW t, NEW gap, Lane(q, r, before, t, gap),
         NEW n \in 0..Len(q)
  PROVE  Lane(SubSeq(q, 1, n), r, before, t, gap)
<1> DEFINE p == SubSeq(q, 1, n)
<1>1. /\ DOMAIN q = 1..Len(q) /\ DOMAIN p = 1..n
      /\ \A i \in 1..n : p[i] = q[i] /\ i \in 1..Len(q)
  BY Cut
<1>2. \A i \in 1..n : Previous(p, i, before) = Previous(q, i, before)
  <2> SUFFICES ASSUME NEW i \in 1..n PROVE Previous(p, i, before) = Previous(q, i, before)
    OBVIOUS
  <2> HIDE DEF p
  <2>1. i = 1 \/ i - 1 \in 1..n
    OBVIOUS
  <2> QED
    BY <1>1, <2>1 DEF Previous
<1> HIDE DEF p
<1>3. Lane(p, r, before, t, gap)
  BY <1>1, <1>2 DEF Lane, InKind, UnderWay, Apart
<1> QED
  BY <1>3 DEF p

-----------------------------------------------------------------------------
(* What was told, what is held, and what is under way.                       *)

Ids(f) == {Entries(f.body)[i].peer_id : i \in DOMAIN Entries(f.body)}

Withdrawn(f) == IF f.body.type = "pex_delta" THEN ToSet(f.body.dropped) ELSE {}

(* No later frame of q than the i-th withdraws id. *)
Stands(q, i, id) == \A j \in DOMAIN q : j > i => id \notin Withdrawn(q[j])

(* The ids told, held and missed are accounted for by the frames of q: what is
   told arrives or arrived, when nothing is evicted, and what is held or arrives
   is told or withdrawn. *)
ToldArrives(told, held, skipped, q) ==
    \A id \in told :
        \/ \E i \in DOMAIN q : id \in Ids(q[i]) /\ Stands(q, i, id)
        \/ id \in held \cup skipped /\ Stands(q, 0, id)

HeldIsTold(told, held, q) ==
    \A id \in held : id \in told \/ ~Stands(q, 0, id)

ComingIsTold(told, q) ==
    \A i \in DOMAIN q : \A id \in Ids(q[i]) : id \in told \/ ~Stands(q, i, id)

Accounts(told, held, skipped, q) ==
    /\ NoneEvicts => ToldArrives(told, held, skipped, q)
    /\ HeldIsTold(told, held, q)
    /\ ComingIsTold(told, q)

LEMMA AccountsPush ==
  ASSUME NEW told, NEW held, NEW skipped, NEW S, NEW q \in Seq(S), NEW f \in S,
         Accounts(told, held, skipped, q), Ids(f) \cap Withdrawn(f) = {},
         NEW after, after = (told \cup Ids(f)) \ Withdrawn(f)
  PROVE  Accounts(after, held, skipped, q \o <<f>>)
<1> DEFINE p == q \o <<f>>
           n == Len(q)
<1>1. /\ n \in Nat /\ DOMAIN p = 1..(n + 1) /\ DOMAIN q = 1..n
      /\ \A i \in 1..n : p[i] = q[i]
      /\ p[n + 1] = f
  BY Pushed
<1> HIDE DEF p, n
<1>2. \A i \in 1..(n + 1) : i = n + 1 \/ i \in 1..n
  BY <1>1
<1>3. \A i \in 1..n : i \in 1..(n + 1) /\ n + 1 > i
  BY <1>1
<1>4. n + 1 > 0 /\ n + 1 \in 1..(n + 1)
  BY <1>1
<1>5. ASSUME NEW i, NEW id, i = 0 \/ i \in 1..n
      PROVE  Stands(p, i, id) <=> Stands(q, i, id) /\ id \notin Withdrawn(f)
  BY <1>1, <1>2, <1>3, <1>4, <1>5 DEF Stands
<1>6. \A id : Stands(p, n + 1, id)
  BY <1>1, <1>2 DEF Stands
<1>7. NoneEvicts => ToldArrives(after, held, skipped, p)
  <2> SUFFICES ASSUME NoneEvicts, NEW id \in after
               PROVE  \/ \E i \in DOMAIN p : id \in Ids(p[i]) /\ Stands(p, i, id)
                      \/ id \in held \cup skipped /\ Stands(p, 0, id)
    BY DEF ToldArrives
  <2>1. CASE id \in Ids(f)
    BY <1>1, <1>4, <1>6, <2>1
  <2>2. CASE id \notin Ids(f)
    <3>1. id \in told /\ id \notin Withdrawn(f)
      BY <2>2
    <3>2. CASE \E i \in DOMAIN q : id \in Ids(q[i]) /\ Stands(q, i, id)
      BY <1>1, <1>3, <1>5, <3>1, <3>2
    <3>3. CASE id \in held \cup skipped /\ Stands(q, 0, id)
      BY <1>5, <3>1, <3>3
    <3> QED
      BY <3>1, <3>2, <3>3 DEF Accounts, ToldArrives
  <2> QED
    BY <2>1, <2>2
<1>8. HeldIsTold(after, held, p)
  BY <1>5 DEF Accounts, HeldIsTold
<1>9. ComingIsTold(after, p)
  <2> SUFFICES ASSUME NEW i \in 1..(n + 1), NEW id \in Ids(p[i])
               PROVE  id \in after \/ ~Stands(p, i, id)
    BY <1>1 DEF ComingIsTold
  <2>1. CASE i = n + 1
    BY <1>1, <2>1
  <2>2. CASE i \in 1..n
    <3>1. id \in told \/ ~Stands(q, i, id)
      BY <1>1, <2>2 DEF Accounts, ComingIsTold
    <3> QED
      BY <1>5, <2>2, <3>1
  <2> QED
    BY <1>2, <2>1, <2>2
<1> QED
  BY <1>7, <1>8, <1>9 DEF Accounts, p

LEMMA AccountsPop ==
  ASSUME NEW told, NEW held, NEW skipped, NEW S, NEW q \in Seq(S), q # <<>>,
         Accounts(told, held, skipped, q),
         Ids(Head(q)) \cap Withdrawn(Head(q)) = {},
         NEW good, NEW bad, good \cup bad = Ids(Head(q)),
         NEW heldAfter, ButEvicted(heldAfter, (held \cup good) \ Withdrawn(Head(q))),
         NEW skippedAfter, skippedAfter = bad \cup (skipped \ Ids(Head(q)))
  PROVE  Accounts(told, heldAfter, skippedAfter, Tail(q))
<1> DEFINE p == Tail(q)
           n == Len(q)
           f == Head(q)
<1>1. /\ n \in Nat /\ n >= 1
      /\ DOMAIN q = 1..n /\ DOMAIN p = 1..(n - 1)
      /\ \A i \in 1..(n - 1) : p[i] = q[i + 1] /\ i + 1 \in 1..n
      /\ f = q[1]
  BY Popped
<1> HIDE DEF p, n, f
<1>2. 1 \in 1..n /\ 0 \in 0..(n - 1) /\ \A i \in 1..(n - 1) : i \in 0..(n - 1)
  BY <1>1
<1>3. ASSUME NEW i \in 0..(n - 1), NEW id
      PROVE  Stands(p, i, id) <=> Stands(q, i + 1, id)
  <2>1. ASSUME Stands(q, i + 1, id), NEW j \in 1..(n - 1), j > i PROVE id \notin Withdrawn(p[j])
    <3>1. j + 1 > i + 1 /\ j + 1 \in 1..n /\ p[j] = q[j + 1]
      BY <1>1, <2>1
    <3> QED
      BY <1>1, <2>1, <3>1 DEF Stands
  <2>2. ASSUME Stands(p, i, id), NEW j \in 1..n, j > i + 1 PROVE id \notin Withdrawn(q[j])
    <3>1. j - 1 > i /\ j - 1 \in 1..(n - 1) /\ j - 1 + 1 = j
      BY <1>1, <2>2
    <3>2. p[j - 1] = q[j]
      BY <1>1, <3>1
    <3> QED
      BY <1>1, <2>2, <3>1, <3>2 DEF Stands
  <2> QED
    BY <1>1, <2>1, <2>2 DEF Stands
<1>4. ASSUME NEW id
      PROVE  Stands(q, 0, id) <=> Stands(q, 1, id) /\ id \notin Withdrawn(f)
  <2>1. \A j \in 1..n : j > 0 /\ (j = 1 \/ j > 1)
    BY <1>1
  <2>2. ~(1 > 1)
    OBVIOUS
  <2>3. \A j \in 1..n : j > 1 => j > 0
    BY <2>1
  <2> QED
    BY <1>1, <1>2, <2>1, <2>2, <2>3 DEF Stands
<1>5. \A id : Stands(p, 0, id) <=> Stands(q, 1, id)
  <2>1. 0 + 1 = 1
    OBVIOUS
  <2> QED
    BY <1>2, <1>3, <2>1
<1>6. NoneEvicts => ToldArrives(told, heldAfter, skippedAfter, p)
  <2> SUFFICES ASSUME NoneEvicts, NEW id \in told
               PROVE  \/ \E i \in DOMAIN p : id \in Ids(p[i]) /\ Stands(p, i, id)
                      \/ id \in heldAfter \cup skippedAfter /\ Stands(p, 0, id)
    BY DEF ToldArrives
  <2> heldAfter = (held \cup good) \ Withdrawn(Head(q))
    BY DEF ButEvicted
  <2>1. CASE id \in held \cup skipped /\ Stands(q, 0, id)
    BY <1>4, <1>5, <2>1 DEF f
  <2>2. ASSUME NEW i \in 1..n, id \in Ids(q[i]), Stands(q, i, id)
        PROVE  \/ \E k \in DOMAIN p : id \in Ids(p[k]) /\ Stands(p, k, id)
               \/ id \in heldAfter \cup skippedAfter /\ Stands(p, 0, id)
    <3>1. CASE i = 1
      <4>1. id \in Ids(f) /\ Stands(p, 0, id)
        BY <1>1, <1>5, <2>2, <3>1
      <4>2. id \in good \cup bad /\ id \notin Withdrawn(f)
        BY <4>1 DEF f
      <4> QED
        BY <4>1, <4>2 DEF f
    <3>2. CASE i # 1
      <4>1. i - 1 \in 1..(n - 1) /\ i - 1 + 1 = i
        BY <1>1, <3>2
      <4>2. p[i - 1] = q[i]
        BY <1>1, <4>1
      <4>3. Stands(p, i - 1, id)
        BY <1>2, <1>3, <2>2, <4>1
      <4> QED
        BY <1>1, <2>2, <4>1, <4>2, <4>3
    <3> QED
      BY <3>1, <3>2
  <2> QED
    BY <1>1, <2>1, <2>2 DEF Accounts, ToldArrives
<1>7. HeldIsTold(told, heldAfter, p)
  <2> SUFFICES ASSUME NEW id \in heldAfter PROVE id \in told \/ ~Stands(p, 0, id)
    BY DEF HeldIsTold
  <2>1. id \notin Withdrawn(f) /\ id \in held \cup good
    BY DEF f, ButEvicted
  <2>2. CASE id \in held
    <3>1. id \in told \/ ~Stands(q, 0, id)
      BY <2>2 DEF Accounts, HeldIsTold
    <3> QED
      BY <1>4, <1>5, <2>1, <3>1
  <2>3. CASE id \in good
    <3>1. id \in Ids(q[1])
      BY <1>1, <2>3 DEF f
    <3>2. id \in told \/ ~Stands(q, 1, id)
      BY <1>1, <1>2, <3>1 DEF Accounts, ComingIsTold
    <3> QED
      BY <1>5, <3>2
  <2> QED
    BY <2>1, <2>2, <2>3
<1>8. ComingIsTold(told, p)
  <2> SUFFICES ASSUME NEW i \in 1..(n - 1), NEW id \in Ids(p[i])
               PROVE  id \in told \/ ~Stands(p, i, id)
    BY <1>1 DEF ComingIsTold
  <2>1. id \in told \/ ~Stands(q, i + 1, id)
    BY <1>1 DEF Accounts, ComingIsTold
  <2> QED
    BY <1>2, <1>3, <2>1
<1> QED
  BY <1>6, <1>7, <1>8 DEF Accounts, p

-----------------------------------------------------------------------------
(* Two engines that never strike each other.                                 *)

NearLink == Link(FarId)

(* Our engine, its clock and its first-hand set. *)
NearSound ==
    /\ ahead \in ClockLeads \cup {0}
    /\ \A id \in Keys(known) : known[id] \in FirstHand
    /\ PacedLinks
    /\ ~NearLink.muted /\ NearLink.strikes = 0

(* A link of the partner's that was given only what we send. *)
Reader(l) ==
    /\ l \in LinkState /\ FarMap(l.received)
    /\ ~l.muted
    /\ Rank(l) = 0 => Keys(l.received) = {}
    /\ Rank(l) >= 1 => l.remote_declared_secs = clamp_interval(Interval)
    /\ Rank(l) = 2 => l.last_arrival_ms \in Nat

(* Between the tick that tells and the frames that are read. *)
Linked ==
    /\ Rank(FarLink) + Len(to_far) >= 2
    /\ Latest(to_far, FarLink.last_arrival_ms - Grace) <= NearLink.last_data_send_ms
    /\ Accounts(Keys(NearLink.told), Keys(FarLink.received), missed, to_far)

ToPartner ==
    /\ Reader(FarLink) /\ FarLink.strikes = 0
    /\ Lane(to_far, Rank(FarLink), FarLink.last_arrival_ms - Grace, now, Pause)
    /\ side = "Up" => /\ to_far = <<>> /\ Rank(FarLink) = 0
                      /\ ~NearLink.snapshot_sent /\ Keys(NearLink.told) = {}
    /\ side = "Speaking" => links[FarId] # None /\ NearLink.last_data_send_ms \in Nat
    /\ side = "Speaking" /\ far_side # "Down" => Linked

(* The partner writes its two first frames and nothing else. *)
FromPartner ==
    /\ \A i \in DOMAIN to_near :
           /\ Rank(NearLink) + i <= 2
           /\ to_near[i].body = IF Rank(NearLink) + i = 1 THEN FarHello ELSE FarFirst
    /\ far_side = "Up" => to_near = <<>> /\ Rank(NearLink) = 0

Calm == Base /\ NearSound /\ ToPartner /\ FromPartner

LEMMA CalmFacts ==
  ASSUME Base
  PROVE  /\ Inv /\ CacheInv /\ TypeOK
         /\ links \in [Partners -> Option(LinkState)] /\ FarId \in Partners /\ FarId \in Peers
         /\ now \in Nat /\ ahead \in Nat
         /\ NearLink \in LinkState
         /\ DOMAIN far_links = {LocalPeerId}
         /\ to_far \in Seq(Frame) /\ to_near \in Seq(Frame)
<1>1. FarId \in Partners /\ FarId \in Peers
  BY NetworkAssumption, StateAssumption
<1>2. Inv /\ CacheInv /\ TypeOK
  BY DEF Base, NearBase, Inv
<1>3. NearLink \in LinkState
  BY <1>1, <1>2, LinkInState DEF NearLink
<1> QED
  BY <1>1, <1>2, <1>3 DEF Base, NearBase, FarBase, TypeOK

LEMMA NewIsReader ==
  /\ Reader(Far!NewLink) /\ Rank(Far!NewLink) = 0
  /\ Far!NewLink.last_arrival_ms = None /\ Far!NewLink.strikes = 0
<1> DEFINE l == Far!NewLink
<1>1. l \in LinkState
  BY FarIds, NetworkAssumption DEF Far!NewLink, Far!Empty, LinkState, Option, RecvPhase
<1>2. /\ l.phase = "AwaitingHandshake" /\ ~l.muted /\ l.strikes = 0
      /\ l.received = [k \in PeerIds |-> None] /\ l.last_arrival_ms = None
  BY FarIds DEF Far!NewLink, Far!Empty
<1> HIDE DEF l
<1>3. Keys(l.received) = {} /\ FarMap(l.received)
  BY <1>2 DEF Keys, FarMap, Option
<1> QED
  BY <1>1, <1>2, <1>3 DEF Reader, Rank, l

LEMMA NewNear ==
  /\ NewLink \in LinkState /\ Rank(NewLink) = 0 /\ ~NewLink.muted /\ NewLink.strikes = 0
  /\ ~NewLink.snapshot_sent /\ Keys(NewLink.told) = {}
BY NewLinkType DEF NewLink, Rank, Keys, Empty

LEMMA FarLinkSet ==
  ASSUME DOMAIN far_links = {LocalPeerId}, NEW l \in LinkState,
         far_links' = [far_links EXCEPT ![LocalPeerId] = l]
  PROVE  FarLink' = l
BY OptionAssumption DEF FarLink, Far!Link

LEMMA NearLinkSet ==
  ASSUME links \in [Partners -> Option(LinkState)], FarId \in Partners, NEW l \in LinkState,
         links' = [links EXCEPT ![FarId] = l]
  PROVE  NearLink' = l /\ links'[FarId] # None
BY OptionAssumption DEF NearLink, Link

(* What a body may carry together. *)
LEMMA GoodParts ==
  ASSUME NEW f, NEW k \in Nat, k >= 1, GoodBody(f.body, k)
  PROVE  Ids(f) \cap Withdrawn(f) = {}
<1>1. k = 1 \/ k = 2 \/ k >= 3
  OBVIOUS
<1>2. CASE k = 1 \/ k = 2
  <2>1. f.body.type # "pex_delta"
    BY <1>2 DEF GoodBody, NearHello
  <2> QED
    BY <2>1 DEF Withdrawn
<1>3. CASE k >= 3
  <2>1. f.body.type = "pex_delta" /\ ~Overlapping(f.body)
    BY <1>3 DEF GoodBody
  <2>2. Entries(f.body) = f.body.added
    BY <2>1 DEF Entries
  <2> QED
    BY <2>1, <2>2 DEF Overlapping, Ids, Withdrawn, ToSet, SeqExt!ToSet
<1> QED
  BY <1>1, <1>2, <1>3

LEMMA ToldKeys ==
  ASSUME NEW told \in [PeerIds -> Option({Fingerprint[c] : c \in Contents})],
         NEW S, OnePerPeer(S), NEW ids
  PROVE  Keys(Told(told, S, ids)) = (Keys(told) \cup {e.peer_id : e \in S}) \ ids
<1> DEFINE new == Told(told, S, ids)
           sent == {e.peer_id : e \in S}
<1>1. S \subseteq Entry
  BY DEF OnePerPeer
<1>2. ASSUME NEW id \in sent
      PROVE  fingerprint_hash(CHOOSE e \in S : e.peer_id = id) # None
  <2>1. (CHOOSE e \in S : e.peer_id = id) \in S
    BY <1>2
  <2> QED
    BY <2>1, <1>1, OptionAssumption DEF fingerprint_hash, Entry
<1>3. sent \subseteq PeerIds
  BY <1>1 DEF Entry
<1>4. \A id \in PeerIds : new[id] # None <=> id \notin ids /\ (id \in sent \/ told[id] # None)
  BY <1>2 DEF Told
<1>5. DOMAIN new = PeerIds
  BY DEF Told
<1> HIDE DEF new, sent
<1>6. Keys(new) = (Keys(told) \cup sent) \ ids
  BY <1>3, <1>4, <1>5 DEF Keys
<1> QED
  BY <1>6 DEF new, sent

-----------------------------------------------------------------------------
(* What our engine sends is good.                                            *)

LEMMA NoEntries ==
  ASSUME NEW m, Entries(m) = <<>>
  PROVE  FrameSize(m) <= PEX_MAX_FRAME
<1>1. SeqExt!ToSet(Entries(m)) = {}
  BY DEF SeqExt!ToSet
<1>2. EncodedBytes({}) = EnvelopeSize
  BY FS_EmptySet, SizeParts
<1> QED
  BY <1>1, <1>2, OutboundAssumption DEF FrameSize

LEMMA HelloIsGood ==
  ASSUME NearBase
  PROVE  GoodBody(OnWire(Handshake(FarId)), 1)
<1> DEFINE m == NearHello
<1>1. OnWire(Handshake(FarId)) = m
  BY FirstFrames DEF NearHello
<1>2. Entries(m) = <<>>
  BY DEF Entries, NearHello
<1> HIDE DEF m
<1>3. FrameSize(m) <= PEX_MAX_FRAME
  BY <1>2, NoEntries
<1> QED
  BY <1>1, <1>3 DEF GoodBody, m

LEMMA SnapshotIsGood ==
  ASSUME NearBase
  PROVE  /\ GoodBody(OnWire(FirstList), 2)
         /\ Entries(OnWire(FirstList)) = InOrder(Snapshot(FarId))
<1> DEFINE S == Snapshot(FarId)
           s == InOrder(S)
           m == OnWire(FirstList)
<1>1. m = [type |-> "pex_snapshot", peers |-> s] /\ Lists(s, S)
  BY FirstFrames
<1>2. Cardinality(S) <= PEX_MAX_SNAPSHOT /\ EncodedBytes(S) <= PEX_MAX_FRAME
  BY SnapshotCapped DEF NearBase
<1> HIDE DEF m, s, S
<1>3. m.type = "pex_snapshot" /\ m.peers = s /\ Entries(m) = s
  BY <1>1 DEF Entries
<1>4. FrameSize(m) <= PEX_MAX_FRAME
  BY <1>1, <1>2, <1>3, Zenon DEF FrameSize, Lists, ToSet
<1>5. Len(m.peers) <= PEX_MAX_SNAPSHOT
  BY <1>1, <1>2, <1>3 DEF Lists
<1> QED
  BY <1>3, <1>4, <1>5 DEF GoodBody, m, s, S

(* What a list lists. *)
LEMMA ListedIds ==
  ASSUME NEW S, NEW s, Lists(s, S)
  PROVE  {s[i].peer_id : i \in DOMAIN s} = {e.peer_id : e \in S}
BY DEF Lists, ToSet, SeqExt!ToSet

LEMMA DeltaIsGood ==
  ASSUME FramesFit, NearBase, NearSound, FarId \in Keys(links),
         NEW dropped \in DroppedPicks(Gone(FarId)), dropped \in SUBSET PeerIds,
         NEW k \in Nat, k >= 3
  PROVE  GoodBody(OnWire(Delta(dropped)), k)
<1> DEFINE S == Added(FarId)
           s == InOrder(S)
           d == SeqExt!SetToSeq(dropped)
           m == OnWire(Delta(dropped))
<1>1. m = [type |-> "pex_delta", added |-> s, dropped |-> d] /\ Lists(s, S) /\ Lists(d, dropped)
  BY DeltaFrame
<1>2. Cardinality(S) <= PEX_MAX_ADDED /\ Cardinality(dropped) <= PEX_MAX_DROPPED
  BY DeltaCapped DEF NearBase
<1>3. S \subseteq advertisable_for(FarId)
  BY DEF Added, Freshest, Changed
<1>4. S \in SUBSET FirstHand
  BY <1>3, AdvertisedIsKnown DEF NearBase, NearSound
<1>5. IsFiniteSet(S)
  BY <1>3, AdvertisedSet, SubsetOnePerPeer DEF NearBase
<1>6. \A e \in S : e.peer_id \notin dropped
  BY <1>3 DEF DroppedPicks, Gone
<1> HIDE DEF m, s, S, d
<1>7. m.type = "pex_delta" /\ m.added = s /\ m.dropped = d /\ Entries(m) = s
  BY <1>1 DEF Entries
<1>8. FrameSize(m) <= PEX_MAX_FRAME
  <2>1. FrameSize(m) = EncodedBytes(S)
    BY <1>1, <1>7, Zenon DEF FrameSize, Lists, ToSet
  <2> QED
    BY <1>2, <1>4, <1>5, <2>1, ZenonT(60) DEF FramesFit
<1>9. ~OverCaps(m)
  BY <1>1, <1>2, <1>7, InboundAssumption, SMT DEF OverCaps, Lists
<1>10. ~Overlapping(m)
  <2>1. \A i \in DOMAIN s : s[i] \in S
    BY <1>1 DEF Lists
  <2>2. \A i \in DOMAIN d : d[i] \in dropped
    BY <1>1 DEF Lists
  <2> QED
    BY <1>6, <1>7, <2>1, <2>2 DEF Overlapping
<1> QED
  BY <1>7, <1>8, <1>9, <1>10 DEF GoodBody, m

(* The ids that a delta, and the first list, add and withdraw. *)
LEMMA DeltaIds ==
  ASSUME NearBase, NEW dropped \in SUBSET PeerIds, NEW f, f.body = OnWire(Delta(dropped))
  PROVE  Ids(f) = {e.peer_id : e \in Added(FarId)} /\ Withdrawn(f) = dropped
<1> DEFINE S == Added(FarId)
           s == InOrder(S)
           d == SeqExt!SetToSeq(dropped)
<1>1. /\ f.body = [type |-> "pex_delta", added |-> s, dropped |-> d]
      /\ Lists(s, S) /\ Lists(d, dropped)
  BY DeltaFrame
<1> HIDE DEF s, S, d
<1>2. f.body.type = "pex_delta" /\ f.body.dropped = d /\ Entries(f.body) = s
  BY <1>1 DEF Entries
<1>3. Ids(f) = {e.peer_id : e \in S}
  BY <1>1, <1>2, ListedIds, Zenon DEF Ids
<1>4. Withdrawn(f) = dropped
  BY <1>1, <1>2 DEF Withdrawn, Lists
<1> QED
  BY <1>3, <1>4 DEF S

LEMMA FirstListIds ==
  ASSUME NearBase, NEW f, f.body = OnWire(FirstList)
  PROVE  Ids(f) = {e.peer_id : e \in Snapshot(FarId)} /\ Withdrawn(f) = {}
<1> DEFINE S == Snapshot(FarId)
           s == InOrder(S)
<1>1. f.body = [type |-> "pex_snapshot", peers |-> s] /\ Lists(s, S)
  BY FirstFrames
<1> HIDE DEF s, S
<1>2. f.body.type = "pex_snapshot" /\ Entries(f.body) = s
  BY <1>1 DEF Entries
<1> QED
  BY <1>1, <1>2, ListedIds, Zenon DEF Ids, Withdrawn, S

LEMMA HelloIds ==
  ASSUME NearBase, NEW f, f.body = OnWire(Handshake(FarId))
  PROVE  Ids(f) = {} /\ Withdrawn(f) = {}
<1>1. f.body.type = "pex_handshake"
  BY FirstFrames
<1>2. Entries(f.body) = <<>>
  BY <1>1 DEF Entries
<1> QED
  BY <1>1, <1>2 DEF Ids, Withdrawn

-----------------------------------------------------------------------------
(* What the partner makes of it.                                             *)

(* The ids of a frame that the partner accepts. *)
Taken(f) == Accepted(Entries(f.body), Len(Entries(f.body)), (now + ahead) \div 1000)

(* The partner takes in the frame f, and its link is l. *)
FarTakes(f, l) ==
    /\ Reader(l) /\ l.strikes = FarLink.strikes
    /\ far_links' = [far_links EXCEPT ![LocalPeerId] = l]
    /\ Rank(l) = NextRank(Rank(FarLink))
    /\ Rank(l) = 2 => l.last_arrival_ms = now + ahead
    /\ Written(far_out') = <<>>
    /\ ButEvicted(Keys(l.received), (Keys(FarLink.received) \cup Taken(f)) \ Withdrawn(f))

LEMMA FarSeconds ==
  ASSUME Base
  PROVE  (now + ahead) \div 1000 \in Nat /\ now + ahead \in Nat
BY CalmFacts

LEMMA FarTakesHello ==
  ASSUME Base, Reader(FarLink), Rank(FarLink) = 0, NEW f, f.body = NearHello,
         Far!on_message(LocalPeerId, f.body)
  PROVE  \E l : FarTakes(f, l)
<1> DEFINE k == FarLink
           m == f.body
           l == [k EXCEPT !.remote_declared_secs = clamp_interval(Interval),
                          !.phase = "AwaitingSnapshot"]
<1>1. /\ m.type = "pex_handshake" /\ m.version = PEX_VERSION /\ m.network_id = NetworkId
      /\ m.interval = Interval
  BY DEF NearHello
<1>2. k \in LinkState /\ ~k.muted /\ k.phase = "AwaitingHandshake"
      /\ FarMap(k.received) /\ Keys(k.received) = {}
  BY DEF Reader, Rank
<1>3. Far!on_handshake(LocalPeerId, m)
  BY <1>1, <1>2 DEF Far!on_message, Far!OnMuted, FarLink
<1>4. far_links' = [far_links EXCEPT ![LocalPeerId] = l] /\ far_out' = Far!Quiet
  BY <1>1, <1>2, <1>3 DEF Far!on_handshake, FarLink, clamp_interval, Far!clamp_interval,
     Smaller, Larger, Far!Smaller, Far!Larger
<1> HIDE DEF m, k
<1>5. l \in LinkState /\ l.muted = k.muted /\ l.strikes = k.strikes /\ l.received = k.received
      /\ l.remote_declared_secs = clamp_interval(Interval) /\ l.phase = "AwaitingSnapshot"
  <2>1. clamp_interval(Interval) \in Option(Nat)
    BY ClampType, StateAssumption DEF Option
  <2> QED
    BY <1>2, <2>1 DEF LinkState, RecvPhase
<1> HIDE DEF l
<1>6. Rank(l) = 1 /\ Reader(l)
  BY <1>2, <1>5 DEF Rank, Reader
<1>7. Written(far_out') = <<>>
  BY <1>4, WritesNothing DEF Far!Quiet
<1>8. Entries(m) = <<>> /\ Withdrawn(f) = {}
  BY <1>1 DEF Entries, Withdrawn, m
<1>9. Taken(f) = {}
  BY <1>8 DEF Taken, Accepted, m
<1>10. Rank(k) = 0
  BY DEF k
<1>11. NextRank(Rank(k)) = Rank(l) /\ Rank(l) # 2
  BY <1>6, <1>10 DEF NextRank
<1>12. ButEvicted(Keys(l.received), (Keys(k.received) \cup Taken(f)) \ Withdrawn(f))
  BY <1>5, <1>6, <1>8, <1>9 DEF ButEvicted
<1> QED
  BY <1>4, <1>5, <1>6, <1>7, <1>8, <1>9, <1>11, <1>12 DEF FarTakes, k

LEMMA FarTakesList ==
  ASSUME Base, Reader(FarLink), Rank(FarLink) = 1, NEW f \in Frame,
         f.body.type = "pex_snapshot", Len(f.body.peers) <= PEX_MAX_SNAPSHOT,
         Far!on_message(LocalPeerId, f.body)
  PROVE  \E l : FarTakes(f, l)
<1> DEFINE k == FarLink
           m == f.body
           t == (now + ahead) \div 1000
           acc == Far!ingest_added(k.received, LocalPeerId, m.peers, t)
           l == [k EXCEPT !.phase = "Streaming", !.last_arrival_ms = now + ahead,
                          !.received = acc.received]
<1>1. m.type = "pex_snapshot" /\ m.peers \in Seq(Entry) /\ Entries(m) = m.peers
  <2>1. f.body \in Message
    BY DEF Frame
  <2> QED
    BY <2>1 DEF Message, Entries
<1>2. /\ k \in LinkState /\ ~k.muted /\ k.phase = "AwaitingSnapshot"
      /\ FarMap(k.received) /\ k.remote_declared_secs = clamp_interval(Interval)
  BY DEF Reader, Rank, LinkState, RecvPhase
<1>3. Far!on_snapshot(LocalPeerId, m)
  BY <1>1, <1>2 DEF Far!on_message, Far!OnMuted, FarLink
<1>4. /\ far_links' = [far_links EXCEPT ![LocalPeerId] = l]
      /\ far_out'.sent = {} /\ far_out'.reply = None
  <2>1. /\ Far!Link(LocalPeerId).phase = "AwaitingSnapshot"
        /\ ~(Len(m.peers) > PEX_MAX_SNAPSHOT)
    BY <1>1, <1>2, InboundAssumption DEF FarLink
  <2>2. /\ far_links' = [far_links EXCEPT ![LocalPeerId] = l]
        /\ far_out' = [Far!Quiet EXCEPT !.peer = LocalPeerId, !.candidates = acc.candidates]
    BY <1>3, <2>1 DEF Far!on_snapshot, FarLink, Far!NowSecs
  <2> QED
    BY <2>2 DEF Far!Quiet
<1>5. /\ FarMap(acc.received)
      /\ ButEvicted(Keys(acc.received), Keys(k.received) \cup Taken(f))
  <2>1. t \in Nat
    BY FarSeconds
  <2> HIDE DEF t, k
  <2>2. /\ FarMap(acc.received)
        /\ ButEvicted(Keys(acc.received), Keys(k.received) \cup Accepted(m.peers, Len(m.peers), t))
    BY <1>1, <1>2, <2>1, FarLoop
  <2>3. Taken(f) = Accepted(m.peers, Len(m.peers), t)
    BY <1>1, ZenonT(40) DEF Taken, t
  <2> QED
    BY <2>2, <2>3
<1> HIDE DEF k, m, acc, t
<1>6. /\ l \in LinkState /\ l.muted = k.muted /\ l.strikes = k.strikes /\ l.received = acc.received
      /\ l.remote_declared_secs = clamp_interval(Interval) /\ l.phase = "Streaming"
      /\ l.last_arrival_ms = now + ahead /\ now + ahead \in Nat
  <2>1. now + ahead \in Nat /\ now + ahead \in Option(Nat)
    BY FarSeconds DEF Option
  <2>2. acc.received \in [PeerIds -> Option(Nat)]
    BY <1>5 DEF FarMap
  <2> QED
    BY <1>2, <2>1, <2>2 DEF LinkState, RecvPhase
<1> HIDE DEF l
<1>7. Rank(l) = 2 /\ Reader(l)
  BY <1>2, <1>5, <1>6 DEF Rank, Reader
<1>8. Written(far_out') = <<>>
  BY <1>4, WritesNothing
<1>9. Withdrawn(f) = {}
  BY <1>1 DEF Withdrawn, m
<1>10. Rank(k) = 1
  BY DEF k
<1>11. NextRank(Rank(k)) = Rank(l)
  BY <1>7, <1>10 DEF NextRank
<1>12. ButEvicted(Keys(l.received), (Keys(k.received) \cup Taken(f)) \ Withdrawn(f))
  BY <1>5, <1>6, <1>8, <1>9 DEF ButEvicted
<1> QED
  BY <1>4, <1>5, <1>6, <1>7, <1>8, <1>9, <1>11, <1>12 DEF FarTakes, k

(* A delta that is too early came less than the floor after the last one. *)
LEMMA FarSoon ==
  ASSUME Base, Reader(FarLink), Rank(FarLink) = 2
  PROVE  Far!TooSoon(FarLink) => now + ahead < FarLink.last_arrival_ms + Pause - Grace
<1> DEFINE k == FarLink
           secs == clamp_interval(Interval)
<1>1. k.remote_declared_secs = secs /\ k.last_arrival_ms \in Nat
  BY DEF Reader
<1>2. /\ Far!arrival_floor_ms(secs) = arrival_floor_ms(secs)
      /\ secs \in Nat /\ secs # None
  BY ClampType, StateAssumption, NoneAssumption
     DEF Far!arrival_floor_ms, arrival_floor_ms, clamp_interval, Far!clamp_interval,
         Smaller, Larger, Far!Smaller, Far!Larger
<1>3. arrival_floor_ms(secs) = Pause - Grace /\ Pause \in Nat /\ Grace \in Nat /\ Grace < Pause
  BY PauseType
<1>4. now \in Nat /\ ahead \in Nat
  BY CalmFacts
<1> HIDE DEF secs, k
<1> SUFFICES ASSUME Far!TooSoon(k) PROVE now + ahead < k.last_arrival_ms + Pause - Grace
  BY DEF k
<1>5. Far!saturating_sub(now + ahead, k.last_arrival_ms) < Pause - Grace
  BY <1>1, <1>2, <1>3 DEF Far!TooSoon
<1> QED
  BY <1>1, <1>3, <1>4, <1>5 DEF Far!saturating_sub

LEMMA FarTakesDelta ==
  ASSUME Base, Reader(FarLink), Rank(FarLink) = 2, NEW f \in Frame,
         f.body.type = "pex_delta", ~OverCaps(f.body), ~Overlapping(f.body),
         ~Far!TooSoon(FarLink),
         Far!on_message(LocalPeerId, f.body)
  PROVE  \E l : FarTakes(f, l)
<1> DEFINE k == FarLink
           m == f.body
           t == (now + ahead) \div 1000
           acc == Far!ingest_added(k.received, LocalPeerId, m.added, t)
           ids == Far!Attributed(acc.received, m.dropped)
           l == [k EXCEPT !.last_arrival_ms = now + ahead,
                          !.received = Far!Remove(acc.received, ids)]
<1>1. /\ m.type = "pex_delta" /\ m.added \in Seq(Entry) /\ Entries(m) = m.added
      /\ m.dropped \in Seq(PeerIds)
  <2>1. f.body \in Message
    BY DEF Frame
  <2> QED
    BY <2>1 DEF Message, Entries
<1>2. /\ k \in LinkState /\ ~k.muted /\ k.phase = "Streaming"
      /\ FarMap(k.received) /\ k.remote_declared_secs = clamp_interval(Interval)
      /\ k.last_arrival_ms \in Nat
  BY DEF Reader, Rank, LinkState, RecvPhase
<1>3. Far!on_delta(LocalPeerId, m)
  BY <1>1, <1>2 DEF Far!on_message, Far!OnMuted, FarLink
<1>4. ~Far!TooSoon(k)
  OBVIOUS
<1>5. ~Far!OverCaps(m) /\ ~Far!Overlapping(m)
  BY DEF Far!OverCaps, Far!Overlapping, OverCaps, Overlapping
<1>6. /\ far_links' = [far_links EXCEPT ![LocalPeerId] = l]
      /\ far_out'.sent = {} /\ far_out'.reply = None
  <2>1. /\ Far!Link(LocalPeerId).phase = "Streaming" /\ ~Far!TooSoon(Far!Link(LocalPeerId))
    BY <1>2, <1>4 DEF FarLink
  <2>2. /\ far_links' = [far_links EXCEPT ![LocalPeerId] = l]
        /\ far_out' = [Far!Quiet EXCEPT !.peer = LocalPeerId, !.candidates = acc.candidates,
                                        !.attributed = ids]
    BY <1>3, <1>5, <2>1 DEF Far!on_delta, FarLink, Far!NowSecs
  <2> QED
    BY <2>2 DEF Far!Quiet
<1>7. /\ FarMap(acc.received)
      /\ ButEvicted(Keys(acc.received), Keys(k.received) \cup Taken(f))
  <2>1. t \in Nat
    BY FarSeconds
  <2> HIDE DEF t, k
  <2>2. /\ FarMap(acc.received)
        /\ ButEvicted(Keys(acc.received), Keys(k.received) \cup Accepted(m.added, Len(m.added), t))
    BY <1>1, <1>2, <2>1, FarLoop
  <2>3. Taken(f) = Accepted(m.added, Len(m.added), t)
    BY <1>1, ZenonT(40) DEF Taken, t
  <2> QED
    BY <2>2, <2>3
<1> HIDE DEF k, acc, t
<1> DEFINE held == Far!Remove(acc.received, ids)
<1>8. /\ FarMap(held) /\ Keys(held) = Keys(acc.received) \ Withdrawn(f)
  <2> DEFINE a == acc.received
  <2>1. ids = Keys(a) \cap Withdrawn(f)
    BY <1>1 DEF Far!Attributed, Far!Keys, Keys, Withdrawn, ToSet, SeqExt!ToSet
  <2> HIDE DEF a, ids, m
  <2>2. DOMAIN a = PeerIds /\ FarMap(a)
    BY <1>7 DEF FarMap, a
  <2>3. held = [x \in PeerIds |-> IF x \in ids THEN None ELSE a[x]]
    BY <2>2, Zenon DEF Far!Remove, a
  <2> HIDE DEF held
  <2>4. Keys(held) = Keys(a) \ Withdrawn(f)
    BY <2>1, <2>2, <2>3 DEF Keys
  <2>5. FarMap(held)
    BY <2>2, <2>3, <2>4 DEF FarMap, Option
  <2> QED
    BY <2>4, <2>5 DEF a
<1> HIDE DEF m, ids
<1>9. /\ l \in LinkState /\ l.muted = k.muted /\ l.strikes = k.strikes /\ l.received = held
      /\ l.remote_declared_secs = clamp_interval(Interval) /\ l.phase = "Streaming"
      /\ l.last_arrival_ms = now + ahead /\ now + ahead \in Nat
  <2>1. now + ahead \in Nat /\ now + ahead \in Option(Nat)
    BY FarSeconds DEF Option
  <2>2. held \in [PeerIds -> Option(Nat)]
    BY <1>8 DEF FarMap
  <2> HIDE DEF held
  <2>3. l = [k EXCEPT !.last_arrival_ms = now + ahead, !.received = held]
    BY DEF held
  <2> HIDE DEF l
  <2> QED
    BY <1>2, <2>1, <2>2, <2>3 DEF LinkState, RecvPhase
<1> HIDE DEF l, held
<1>10. Rank(l) = 2 /\ Reader(l)
  BY <1>2, <1>8, <1>9 DEF Rank, Reader
<1>11. Written(far_out') = <<>>
  BY <1>6, WritesNothing
<1>12. NextRank(Rank(k)) = Rank(l)
  BY <1>10 DEF NextRank, k
<1>13. ButEvicted(Keys(l.received), (Keys(k.received) \cup Taken(f)) \ Withdrawn(f))
  BY <1>7, <1>8, <1>9 DEF ButEvicted
<1> QED
  BY <1>6, <1>9, <1>10, <1>11, <1>12, <1>13 DEF FarTakes, k

LEMMA FarReadsTakes ==
  ASSUME Base, Reader(FarLink), FarReads,
         GoodBody(Head(to_far).body, Rank(FarLink) + 1),
         Rank(FarLink) = 2 => ~Far!TooSoon(FarLink)
  PROVE  \E l : FarTakes(Head(to_far), l)
<1> DEFINE f == Head(to_far)
           m == f.body
           r == Rank(FarLink)
<1>1. f \in Frame
  BY CalmFacts, Popped DEF FarReads
<1>2. FrameSize(m) <= PEX_MAX_FRAME
  BY DEF GoodBody
<1>3. Far!on_message(LocalPeerId, m)
  BY <1>2 DEF FarReads, FarDoes
<1>4. r \in 0..2
  BY DEF Rank
<1>5. CASE r = 0
  <2>1. m = NearHello
    BY <1>5 DEF GoodBody
  <2> QED
    BY <1>3, <1>5, <2>1, FarTakesHello
<1>6. CASE r = 1
  <2>1. m.type = "pex_snapshot" /\ Len(m.peers) <= PEX_MAX_SNAPSHOT
    BY <1>6 DEF GoodBody
  <2> QED
    BY <1>1, <1>3, <1>6, <2>1, FarTakesList
<1>7. CASE r = 2
  <2>1. m.type = "pex_delta" /\ ~OverCaps(m) /\ ~Overlapping(m)
    BY <1>7 DEF GoodBody
  <2> QED
    BY <1>1, <1>3, <1>7, <2>1, FarTakesDelta
<1> QED
  BY <1>4, <1>5, <1>6, <1>7

(* The two links are equally far backed off. *)
SamePace(l, k) ==
    /\ l.self_interval_secs = k.self_interval_secs
    /\ l.last_backoff_applied_ms = k.last_backoff_applied_ms

(* Our engine takes in a frame of the partner's, and its link is l. *)
NearTakes(l) ==
    /\ l \in LinkState
    /\ links' = [links EXCEPT ![FarId] = l]
    /\ Rank(l) = Rank(NearLink) + 1
    /\ l.told = NearLink.told /\ l.snapshot_sent = NearLink.snapshot_sent
    /\ l.last_data_send_ms = NearLink.last_data_send_ms
    /\ l.muted = NearLink.muted /\ l.strikes = NearLink.strikes
    /\ SamePace(l, NearLink)
    /\ Written(out') = <<>>

LEMMA NearTakesHello ==
  ASSUME Base, NearSound, Rank(NearLink) = 0, on_message(FarId, FarHello)
  PROVE  \E l : NearTakes(l)
<1> DEFINE k == NearLink
           m == FarHello
           l == [k EXCEPT !.remote_declared_secs = clamp_interval(FarInterval),
                          !.phase = "AwaitingSnapshot"]
<1>1. /\ m.type = "pex_handshake" /\ m.version = PEX_VERSION /\ m.network_id = NetworkId
      /\ m.interval = FarInterval
  BY DEF FarHello
<1>2. k \in LinkState /\ ~k.muted /\ k.phase = "AwaitingHandshake"
  BY CalmFacts DEF NearSound, Rank
<1>3. on_handshake(FarId, m)
  BY <1>1, <1>2 DEF on_message, OnMuted, NearLink
<1>4. links' = [links EXCEPT ![FarId] = l] /\ out' = Quiet
  BY <1>1, <1>2, <1>3 DEF on_handshake, NearLink
<1> HIDE DEF m, k
<1>5. l \in LinkState /\ l.phase = "AwaitingSnapshot"
      /\ l.told = k.told /\ l.snapshot_sent = k.snapshot_sent
      /\ l.last_data_send_ms = k.last_data_send_ms /\ l.muted = k.muted /\ l.strikes = k.strikes
      /\ SamePace(l, k)
  <2>1. clamp_interval(FarInterval) \in Option(Nat)
    BY ClampType, NetworkAssumption DEF Option
  <2> QED
    BY <1>2, <2>1 DEF LinkState, RecvPhase, SamePace
<1> HIDE DEF l
<1>6. Rank(l) = Rank(k) + 1
  BY <1>2, <1>5 DEF Rank
<1>7. Written(out') = <<>>
  BY <1>4, WritesNothing DEF Quiet
<1> QED
  BY <1>4, <1>5, <1>6, <1>7 DEF NearTakes, k

LEMMA NearTakesFirst ==
  ASSUME Base, NearSound, Rank(NearLink) = 1, on_message(FarId, FarFirst)
  PROVE  \E l : NearTakes(l)
<1> DEFINE k == NearLink
           m == FarFirst
           acc == ingest_added(k.received, FarId, m.peers, NowSecs)
           l == [k EXCEPT !.phase = "Streaming", !.last_arrival_ms = now,
                          !.received = acc.received]
<1>1. m.type = "pex_snapshot" /\ m.peers = <<>> /\ m.peers \in Seq(Entry) /\ Len(m.peers) = 0
  BY DEF FarFirst
<1>2. k \in LinkState /\ ~k.muted /\ k.phase = "AwaitingSnapshot"
  BY CalmFacts DEF NearSound, Rank, LinkState, RecvPhase
<1>3. on_snapshot(FarId, m)
  BY <1>1, <1>2 DEF on_message, OnMuted, NearLink
<1>4. /\ links' = [links EXCEPT ![FarId] = l]
      /\ out'.sent = {} /\ out'.reply = None
  <2>1. Link(FarId).phase = "AwaitingSnapshot" /\ ~(Len(m.peers) > PEX_MAX_SNAPSHOT)
    BY <1>1, <1>2, InboundAssumption DEF NearLink
  <2>2. /\ links' = [links EXCEPT ![FarId] = l]
        /\ out' = [Quiet EXCEPT !.peer = FarId, !.candidates = acc.candidates]
    BY <1>3, <2>1 DEF on_snapshot, NearLink
  <2> QED
    BY <2>2 DEF Quiet
<1>5. acc.received \in [PeerIds -> Option(Nat)]
  <2>1. Inv /\ FarId \in Partners
    BY CalmFacts
  <2>2. acc \in FedBy(FarId)
    BY <1>1, <2>1, FedType DEF Held, NearLink
  <2> QED
    BY <2>2 DEF FedBy, Accumulators
<1> HIDE DEF m, k, acc
<1>6. l \in LinkState /\ l.phase = "Streaming"
      /\ l.told = k.told /\ l.snapshot_sent = k.snapshot_sent
      /\ l.last_data_send_ms = k.last_data_send_ms /\ l.muted = k.muted /\ l.strikes = k.strikes
      /\ SamePace(l, k)
  <2>1. now \in Option(Nat)
    BY CalmFacts DEF Option
  <2> QED
    BY <1>2, <1>5, <2>1 DEF LinkState, RecvPhase, SamePace
<1> HIDE DEF l
<1>7. Rank(l) = Rank(k) + 1
  BY <1>2, <1>6 DEF Rank
<1>8. Written(out') = <<>>
  BY <1>4, WritesNothing
<1> QED
  BY <1>4, <1>6, <1>7, <1>8 DEF NearTakes, k

LEMMA NearReadsTakes ==
  ASSUME Base, NearSound, NearReads,
         \/ Rank(NearLink) = 0 /\ Head(to_near).body = FarHello
         \/ Rank(NearLink) = 1 /\ Head(to_near).body = FarFirst
  PROVE  \E l : NearTakes(l)
<1> DEFINE m == Head(to_near).body
<1>1. Entries(FarHello) = <<>> /\ Entries(FarFirst) = <<>>
  BY DEF Entries, FarHello, FarFirst
<1>2. FrameSize(m) <= PEX_MAX_FRAME
  BY <1>1, NoEntries
<1>3. on_message(FarId, m)
  BY <1>2 DEF NearReads, Near
<1> QED
  BY <1>3, NearTakesHello, NearTakesFirst

-----------------------------------------------------------------------------
(* Every step keeps two orderly engines calm.                                *)

LEMMA SameFarLink ==
  ASSUME far_links' = far_links
  PROVE  FarLink' = FarLink
BY DEF FarLink, Far!Link, Far!NewLink

LEMMA SameNearLink ==
  ASSUME links' = links
  PROVE  NearLink' = NearLink
BY DEF NearLink, Link, NewLink

LEMMA SameNearSound ==
  ASSUME NearSound, UNCHANGED <<links, known>>, ahead' \in ClockLeads \cup {0}
  PROVE  NearSound'
<1>1. NearLink' = NearLink
  BY SameNearLink
<1>2. PacedLinks'
  BY DEF NearSound, PacedLinks, Keys
<1>3. \A id \in Keys(known)' : known'[id] \in FirstHand
  BY DEF NearSound, Keys
<1> QED
  BY <1>1, <1>2, <1>3 DEF NearSound

LEMMA SameToPartner ==
  ASSUME ToPartner, UNCHANGED <<now, links, far_links, side, far_side, missed, to_far>>
  PROVE  ToPartner'
<1>1. FarLink' = FarLink /\ NearLink' = NearLink
  BY SameFarLink, SameNearLink
<1>2. Linked' <=> Linked
  BY <1>1 DEF Linked
<1> QED
  BY <1>1, <1>2 DEF ToPartner

LEMMA SameFromPartner ==
  ASSUME FromPartner, UNCHANGED <<links, far_side, to_near>>
  PROVE  FromPartner'
<1>1. NearLink' = NearLink
  BY SameNearLink
<1> QED
  BY <1>1 DEF FromPartner, FarHello, FarFirst

LEMMA NothingWritten ==
  ASSUME NEW S, NEW q \in Seq(S), NEW shut, NEW w, w = <<>>,
         NEW after, after = IF shut THEN q ELSE q \o w
  PROVE  after = q
BY EmptyEnds

(* A link that does not exist yet. *)
LEMMA FarLinkNone ==
  ASSUME far_links[LocalPeerId] = None
  PROVE  FarLink = Far!NewLink
BY DEF FarLink, Far!Link

LEMMA NearLinkNone ==
  ASSUME links[FarId] = None
  PROVE  NearLink = NewLink
BY DEF NearLink, Link

LEMMA EmptyLane ==
  ASSUME NEW r, NEW before, NEW t, NEW gap
  PROVE  Lane(<<>>, r, before, t, gap)
BY DEF Lane, InKind, UnderWay, Apart

(* No link on either side, and nothing under way. *)
LEMMA NoLinks ==
  ASSUME links[FarId] = None, far_links[LocalPeerId] = None, to_far = <<>>, to_near = <<>>,
         side # "Speaking"
  PROVE  ToPartner /\ FromPartner
<1>1. FarLink = Far!NewLink /\ NearLink = NewLink
  BY FarLinkNone, NearLinkNone
<1>2. ToPartner
  BY <1>1, NewIsReader, NewNear, EmptyLane DEF ToPartner
<1>3. FromPartner
  BY <1>1, NewNear DEF FromPartner
<1> QED
  BY <1>2, <1>3

LEMMA CalmInit == NetInit => Calm
<1> SUFFICES ASSUME NetInit PROVE Calm
  OBVIOUS
<1>1. Base
  BY BaseInit
<1>2. Keys(links) = {} /\ links[FarId] = None /\ Keys(known) = {} /\ far_links[LocalPeerId] = None
  BY NetworkAssumption DEF NetInit, Init, Keys, Empty, Far!Init, Far!Empty
<1>3. ToPartner /\ FromPartner
  BY <1>2, NoLinks DEF NetInit
<1>4. NearSound
  BY <1>2, NearLinkNone, NewNear DEF NearSound, NetInit, PacedLinks
<1> QED
  BY <1>1, <1>3, <1>4 DEF Calm

LEMMA ConnectCalm ==
  ASSUME Calm, Connect
  PROVE  Calm'
<1>1. Base /\ Base' /\ NearSound
  BY ConnectBase DEF Calm
<1>2. /\ side = "Down" /\ far_side = "Down" /\ side' = "Up"
      /\ UNCHANGED <<links, known, ahead, far_links, to_far, to_near>>
  BY DEF Connect, vars, farVars
<1>3. NearSound'
  BY <1>1, <1>2, SameNearSound DEF NearSound
<1>4. links[FarId] = None /\ far_links[LocalPeerId] = None /\ to_far = <<>> /\ to_near = <<>>
  BY <1>1, <1>2 DEF Base, NearBase, FarBase
<1>5. ToPartner' /\ FromPartner'
  <2>1. FarLink' = Far!NewLink /\ NearLink' = NewLink
    BY <1>2, <1>4, FarLinkNone, NearLinkNone, SameFarLink, SameNearLink
  <2>2. ToPartner'
    BY <1>2, <1>4, <2>1, NewIsReader, NewNear, EmptyLane DEF ToPartner
  <2>3. FromPartner'
    BY <1>2, <1>4, <2>1, NewNear DEF FromPartner
  <2> QED
    BY <2>2, <2>3
<1> QED
  BY <1>1, <1>3, <1>5 DEF Calm

(* Our own calls keep the pace of our links and a first-hand set. *)
LEMMA OursIsSound ==
  ASSUME Base, Base', NearSound, Knows \/ Ticks \/ NearUp \/ NearDown \/ NearReads
  PROVE  /\ PacedLinks' /\ \A id \in Keys(known)' : known'[id] \in FirstHand
         /\ ahead' \in ClockLeads \cup {0}
<1>1. /\ Inv /\ Inv' /\ FarId \in Partners /\ known \in [PeerIds -> Option(Entry)]
      /\ links \in [Partners -> Option(LinkState)]
  BY CalmFacts DEF Base, NearBase, TypeOK
<1>2. ahead' \in ClockLeads \cup {0}
  BY DEF NearSound, Knows, Ticks, NearUp, NearDown, NearReads, Near
<1>3. CASE Knows
  <2>1. PICK e \in FirstHand : upsert_known(e) \/ remove_known(e.peer_id)
    BY <1>3 DEF Knows, Near
  <2>2. PacedLinks'
    BY <2>1 DEF NearSound, PacedLinks, Keys, upsert_known, remove_known, InboundUnchanged
  <2>3. CASE known' = known
    BY <1>2, <2>2, <2>3 DEF NearSound, Keys
  <2>4. CASE known' = [known EXCEPT ![e.peer_id] = e]
    BY <1>1, <1>2, <2>2, <2>4 DEF NearSound, Keys
  <2>5. CASE known' = Remove(known, {e.peer_id})
    BY <1>1, <1>2, <2>2, <2>5 DEF NearSound, Keys, Remove
  <2> QED
    BY <2>1, <2>3, <2>4, <2>5 DEF upsert_known, remove_known
<1>4. CASE Ticks \/ NearUp
  <2>1. tick \/ link_up(FarId)
    BY <1>4 DEF Ticks, NearUp, Near
  <2>2. PacedLinks'
    BY <1>1, <2>1, TickSteps, LinkUpSteps, PacedSteps DEF NearSound
  <2>3. known' = known
    BY <2>1 DEF tick, link_up, InboundUnchanged
  <2> QED
    BY <1>2, <2>2, <2>3 DEF NearSound, Keys
<1>5. CASE NearDown
  <2>1. link_down(FarId)
    BY <1>5 DEF NearDown
  <2>2. known' = known /\ links' = Remove(links, {FarId})
    BY <2>1 DEF link_down
  <2>3. PacedLinks'
    BY <1>1, <2>2 DEF NearSound, PacedLinks, Keys, Remove
  <2> QED
    BY <1>2, <2>2, <2>3 DEF NearSound, Keys
<1>6. CASE NearReads
  <2>1. on_message(FarId, Head(to_near).body) \/ record_violation(FarId, Oversized)
    BY <1>6 DEF NearReads, Near
  <2>2. SenderSteps
    <3>1. CASE on_message(FarId, Head(to_near).body)
      BY <1>1, <3>1, MessageSteps, QuietIsStep
    <3>2. CASE record_violation(FarId, Oversized)
      BY <1>1, <3>2, StrikeSteps, QuietIsStep DEF record_violation
    <3> QED
      BY <2>1, <3>1, <3>2
  <2>3. PacedLinks'
    BY <1>1, <2>2, PacedSteps DEF NearSound
  <2>4. known' = known
    BY <2>1 DEF on_message, record_violation, OutboundUnchanged
  <2> QED
    BY <1>2, <2>3, <2>4 DEF NearSound, Keys
<1> QED
  BY <1>3, <1>4, <1>5, <1>6

LEMMA KnowsCalm ==
  ASSUME Calm, Knows
  PROVE  Calm'
<1>1. Base /\ Base' /\ NearSound /\ ToPartner /\ FromPartner
  BY KnowsBase DEF Calm
<1>2. PICK e \in FirstHand : Near(upsert_known(e)) \/ Near(remove_known(e.peer_id))
  BY DEF Knows
<1>3. upsert_known(e) \/ remove_known(e.peer_id)
  BY <1>2 DEF Near
<1>4. out' = Quiet /\ UNCHANGED <<now, links>>
  BY <1>3 DEF upsert_known, remove_known, InboundUnchanged
<1>5. /\ to_far' = IF far_side = "Down" THEN to_far ELSE to_far \o Written(out')
      /\ UNCHANGED <<ahead, far_links, side, far_side, missed, to_near>>
  BY <1>2 DEF Near, farVars, Knows, hostVars
<1>6. to_far' = to_far
  <2>1. Written(out') = <<>>
    BY <1>4, WritesNothing DEF Quiet
  <2>2. to_far \in Seq(Frame)
    BY <1>1, CalmFacts
  <2> QED
    BY <1>5, <2>1, <2>2, NothingWritten, Zenon
<1>7. NearSound'
  <2>1. NearLink' = NearLink
    BY <1>4, SameNearLink
  <2> QED
    BY <1>1, <2>1, OursIsSound DEF NearSound
<1> QED
  BY <1>1, <1>4, <1>5, <1>6, <1>7, SameToPartner, SameFromPartner DEF Calm

LEMMA FarClockSetCalm ==
  ASSUME Calm, FarClockSet
  PROVE  Calm'
<1>1. Base' /\ NearSound /\ ToPartner /\ FromPartner
  BY FarClockSetBase DEF Calm
<1>2. /\ ahead' \in ClockLeads \cup {0}
      /\ UNCHANGED <<now, links, known, far_links, side, far_side, missed, to_far, to_near>>
  BY DEF FarClockSet, vars, farVars, hostVars
<1> QED
  BY <1>1, <1>2, SameNearSound, SameToPartner, SameFromPartner DEF Calm

LEMMA StutterCalm ==
  ASSUME Calm, UNCHANGED netVars
  PROVE  Calm'
<1>1. Base' /\ NearSound /\ ToPartner /\ FromPartner
  BY StutterBase DEF Calm
<1>2. /\ ahead' \in ClockLeads \cup {0}
      /\ UNCHANGED <<now, links, known, far_links, side, far_side, missed, to_far, to_near>>
  BY <1>1 DEF netVars, vars, farVars, hostVars, NearSound
<1> QED
  BY <1>1, <1>2, SameNearSound, SameToPartner, SameFromPartner DEF Calm

(* Frames are under way for no longer than MaxDelay. *)
LEMMA StaysUnderWay ==
  ASSUME NEW d \in Nat, now \in Nat, NEW q \in Seq(Frame), UnderWay(q, now),
         \A f \in SeqExt!ToSet(q) : now + d - f.sent <= MaxDelay
  PROVE  UnderWay(q, now + d)
<1> SUFFICES ASSUME NEW i \in DOMAIN q
             PROVE  q[i].sent <= now + d /\ now + d <= q[i].sent + MaxDelay
  BY DEF UnderWay
<1>1. q[i].sent \in Nat /\ q[i].sent <= now
  <2>1. q[i] \in Frame
    OBVIOUS
  <2> QED
    BY <2>1 DEF UnderWay, Frame
<1>2. q[i] \in SeqExt!ToSet(q)
  BY Zenon DEF SeqExt!ToSet
<1>3. now + d - q[i].sent <= MaxDelay
  BY <1>2
<1> QED
  BY <1>1, <1>3, NetworkAssumption

LEMMA TimeMoves ==
  ASSUME ClockSteps \subseteq Nat, Base, TimePasses
  PROVE  /\ now' \in Nat /\ now <= now'
         /\ UNCHANGED <<ahead, links, known, far_links, side, far_side, missed, to_far, to_near>>
         /\ UnderWay(to_far, now) => UnderWay(to_far, now')
         /\ UnderWay(to_near, now) => UnderWay(to_near, now')
<1>1. PICK d \in ClockSteps :
         /\ ClockMoves(d)
         /\ \A f \in SeqExt!ToSet(to_far \o to_near) : now + d - f.sent <= MaxDelay
  BY DEF TimePasses
<1>2. /\ now' = now + d /\ d \in Nat
      /\ UNCHANGED <<ahead, links, known, far_links, side, far_side, missed, to_far, to_near>>
  BY <1>1 DEF ClockMoves, TimePasses, farVars, hostVars
<1>3. to_far \in Seq(Frame) /\ to_near \in Seq(Frame) /\ now \in Nat
  BY CalmFacts
<1>4. ASSUME NEW q \in Seq(Frame), q = to_far \/ q = to_near, NEW f \in SeqExt!ToSet(q)
      PROVE  now + d - f.sent <= MaxDelay
  <2>1. PICK i \in DOMAIN q : f = q[i]
    BY <1>4 DEF SeqExt!ToSet
  <2>2. CASE q = to_far
    <3>1. i \in DOMAIN (to_far \o to_near) /\ (to_far \o to_near)[i] = f
      BY <1>3, <2>1, <2>2
    <3> QED
      BY <1>1, <3>1, Zenon DEF SeqExt!ToSet
  <2>3. CASE q = to_near
    <3>1. /\ Len(to_far) + i \in DOMAIN (to_far \o to_near)
          /\ (to_far \o to_near)[Len(to_far) + i] = f
      BY <1>3, <2>1, <2>3
    <3> QED
      BY <1>1, <3>1, Zenon DEF SeqExt!ToSet
  <2> QED
    BY <1>4, <2>2, <2>3
<1>5. \A q \in {to_far, to_near} : UnderWay(q, now) => UnderWay(q, now')
  BY <1>2, <1>3, <1>4, StaysUnderWay
<1> QED
  BY <1>2, <1>3, <1>5

LEMMA TimePassesCalm ==
  ASSUME OrderlyHosts, Calm, TimePasses
  PROVE  Calm'
<1>1. Base /\ Base' /\ NearSound /\ ToPartner /\ FromPartner
  BY TimePassesBase DEF Calm
<1>2. /\ UNCHANGED <<ahead, links, known, far_links, side, far_side, missed, to_far, to_near>>
      /\ UnderWay(to_far, now) => UnderWay(to_far, now')
  BY <1>1, TimeMoves DEF OrderlyHosts
<1>3. FarLink' = FarLink /\ NearLink' = NearLink
  BY <1>2, SameFarLink, SameNearLink
<1>4. ToPartner'
  <2>1. Linked' <=> Linked
    BY <1>2, <1>3 DEF Linked
  <2>2. Lane(to_far, Rank(FarLink), FarLink.last_arrival_ms - Grace, now', Pause)
    BY <1>1, <1>2 DEF ToPartner, Lane
  <2> QED
    BY <1>1, <1>2, <1>3, <2>1, <2>2 DEF ToPartner
<1>5. NearSound' /\ FromPartner'
  BY <1>1, <1>2, SameNearSound, SameFromPartner DEF NearSound
<1> QED
  BY <1>1, <1>4, <1>5 DEF Calm

(* The link after a delta. *)
LEMMA DeltaLink ==
  ASSUME Base, NEW dropped \in SUBSET PeerIds, NEW jitter \in Nat, FarId \in Keys(links),
         NEW l, l = AfterDelta(FarId, dropped, jitter)
  PROVE  /\ l \in LinkState /\ l.phase = NearLink.phase
         /\ l.muted = NearLink.muted /\ l.strikes = NearLink.strikes
         /\ l.snapshot_sent = NearLink.snapshot_sent /\ l.last_data_send_ms = now
         /\ SamePace(l, NearLink)
         /\ Keys(l.told) = (Keys(NearLink.told) \cup {e.peer_id : e \in Added(FarId)}) \ dropped
<1> DEFINE k == NearLink
           S == Added(FarId)
           was == k.told
           told == Told(was, S, dropped)
<1>1. k = links[FarId] /\ k \in LinkState /\ NearBase
  BY CalmFacts DEF NearLink, Link, Keys, Base
<1>2. l = [k EXCEPT !.told = told, !.last_data_send_ms = now, !.send_jitter_ms = jitter]
  BY <1>1 DEF AfterDelta, LinkState
<1>3. l \in LinkState
  BY AfterDeltaSound DEF SoundLink, Base, NearBase
<1>4. OnePerPeer(Added(FarId))
  <2>1. Added(FarId) \in SUBSET advertisable_for(FarId)
    BY DEF Added, Freshest, Changed
  <2> QED
    BY <1>1, <2>1, AdvertisedSet, SubsetOnePerPeer DEF NearBase
<1>5. was \in [PeerIds -> Option({Fingerprint[c] : c \in Contents})]
  BY <1>1 DEF LinkState
<1> HIDE DEF k, was, S
<1>6. Keys(told) = (Keys(was) \cup {e.peer_id : e \in S}) \ dropped
  BY <1>4, <1>5, ToldKeys DEF S
<1> HIDE DEF told
<1>7. /\ l.phase = k.phase /\ l.muted = k.muted /\ l.strikes = k.strikes
      /\ l.snapshot_sent = k.snapshot_sent /\ l.last_data_send_ms = now /\ l.told = told
      /\ SamePace(l, k)
  BY <1>1, <1>2 DEF LinkState, SamePace
<1> QED
  BY <1>3, <1>6, <1>7 DEF k, was, S

(* Only a link that is up sends deltas, and then a pause after the last. *)
LEMMA DeltaInTime ==
  ASSUME Base, NearSound, FarId \in Sending,
         side = "Up" => ~NearLink.snapshot_sent,
         side = "Speaking" => NearLink.last_data_send_ms \in Nat
  PROVE  /\ FarId \in Keys(links) /\ side = "Speaking"
         /\ NearLink.last_data_send_ms \in Nat /\ NearLink.last_data_send_ms + Pause <= now
<1> DEFINE k == NearLink
           wait == effective_interval_secs(Interval, k.remote_declared_secs)
<1>1. FarId \in Keys(links) /\ links[FarId] = k /\ Eligible(k) /\ links[FarId] # None
  BY DEF Sending, Due, NearLink, Link, Keys
<1>2. side = "Speaking"
  BY <1>1 DEF Base, NearBase, HostStates, Eligible
<1>3. k.last_data_send_ms \in Nat /\ k \in LinkState /\ now \in Nat
  BY <1>2, CalmFacts
<1>4. now - k.last_data_send_ms >= wait * 1000
  BY <1>1, <1>3, EligibleMeansSpaced DEF NearSound, PacedLinks
<1>5. wait \in Nat /\ wait >= clamp_interval(Interval) /\ clamp_interval(Interval) \in Nat
  <2>1. k.remote_declared_secs \in Option(Nat)
    BY <1>3 DEF LinkState
  <2>2. \A n \in Nat : clamp_interval(n) \in Nat
    BY ClampType
  <2> DEFINE far == IF k.remote_declared_secs = None THEN 0
                    ELSE clamp_interval(k.remote_declared_secs)
  <2>3. far \in Nat
    BY <2>1, <2>2 DEF Option
  <2>4. wait = Larger(Larger(clamp_interval(Interval), far), PEX_MIN_INTERVAL)
    BY DEF effective_interval_secs
  <2> HIDE DEF far, wait
  <2> QED
    BY <2>2, <2>3, <2>4, StateAssumption, IntervalAssumption DEF Larger
<1> HIDE DEF wait, k
<1>6. k.last_data_send_ms + Pause <= now
  BY <1>3, <1>4, <1>5 DEF Pause
<1> QED
  BY <1>1, <1>2, <1>3, <1>6 DEF k

LEMMA TicksCalm ==
  ASSUME OrderlyHosts, Calm, Ticks
  PROVE  Calm'
<1>1. Base /\ Base' /\ NearSound /\ ToPartner /\ FromPartner
  BY TicksBase DEF Calm
<1>2. /\ tick
      /\ to_far' = IF far_side = "Down" THEN to_far ELSE to_far \o Written(out')
      /\ UNCHANGED <<ahead, far_links, side, far_side, missed, to_near>>
  BY DEF Ticks, Near, farVars, hostVars
<1>3. UNCHANGED <<now, known>>
  BY <1>2 DEF tick, InboundUnchanged
<1>4. /\ NearBase /\ Inv /\ Inv' /\ to_far \in Seq(Frame) /\ NearLink \in LinkState
      /\ links \in [Partners -> Option(LinkState)] /\ FarId \in Partners /\ now \in Nat
  BY <1>1, CalmFacts DEF Base, NearBase
<1>5. CASE TickQuiet
  <2>1. to_far' = to_far
    BY <1>2, <1>4, <1>5, NothingWritten, Zenon DEF TickQuiet
  <2> QED
    BY <1>1, <1>2, <1>3, <1>5, <2>1, SameNearSound, SameToPartner, SameFromPartner
       DEF Calm, TickQuiet, NearSound
<1>6. ASSUME NEW dropped \in SUBSET PeerIds, NEW jitter \in Nat, TickTells(dropped, jitter)
      PROVE  Calm'
  <2> DEFINE k == NearLink
             l == AfterDelta(FarId, dropped, jitter)
             f == Framed(OnWire(Delta(dropped)))
             before == FarLink.last_arrival_ms - Grace
             r == Rank(FarLink)
             held == Keys(FarLink.received)
  <2>1. /\ FarId \in Sending /\ dropped \in DroppedPicks(Gone(FarId))
        /\ links' = [links EXCEPT ![FarId] = l] /\ Written(out') = <<f>>
    BY <1>6 DEF TickTells
  <2>2. /\ FarId \in Keys(links) /\ side = "Speaking"
        /\ k.last_data_send_ms \in Nat /\ k.last_data_send_ms + Pause <= now
    BY <1>1, <2>1, DeltaInTime DEF ToPartner
  <2>3. /\ l \in LinkState /\ l.phase = k.phase /\ l.muted = k.muted /\ l.strikes = k.strikes
        /\ l.snapshot_sent = k.snapshot_sent /\ l.last_data_send_ms = now
        /\ Keys(l.told) = (Keys(k.told) \cup {e.peer_id : e \in Added(FarId)}) \ dropped
    BY <1>1, <2>2, DeltaLink
  <2>4. f \in Frame /\ f.sent = now /\ f.body = OnWire(Delta(dropped))
    BY <1>4, DeltaFrame, FrameType DEF Framed
  <2>5. Ids(f) = {e.peer_id : e \in Added(FarId)} /\ Withdrawn(f) = dropped
    BY <1>4, <2>4, DeltaIds
  <2> HIDE DEF l, f
  <2>6. NearLink' = l /\ links'[FarId] # None
    BY <1>4, <2>1, <2>3, NearLinkSet
  <2>7. FarLink' = FarLink
    BY <1>2, SameFarLink
  <2>8. NearSound'
    BY <1>1, <2>3, <2>6, OursIsSound DEF NearSound
  <2>9. FromPartner'
    BY <1>1, <1>2, <2>3, <2>6 DEF FromPartner, Rank, FarHello, FarFirst
  <2>10. CASE far_side = "Down"
    <3>1. to_far' = to_far
      BY <1>2, <2>10
    <3>2. ToPartner'
      BY <1>1, <1>2, <1>3, <1>4, <2>2, <2>3, <2>6, <2>7, <2>10, <3>1 DEF ToPartner
    <3> QED
      BY <1>1, <2>8, <2>9, <3>2 DEF Calm
  <2>11. CASE far_side # "Down"
    <3>1. to_far' = to_far \o <<f>>
      BY <1>2, <2>1, <2>11
    <3>2. /\ Linked /\ Reader(FarLink) /\ Lane(to_far, r, before, now, Pause)
      BY <1>1, <2>2, <2>11 DEF ToPartner
    <3>3. r \in 0..2 /\ Len(to_far) \in Nat /\ r + Len(to_far) >= 2
      BY <1>4, <3>2 DEF Linked, Rank
    <3>4. GoodBody(f.body, r + Len(to_far) + 1)
      <4> HIDE DEF r
      <4>1. r + Len(to_far) + 1 \in Nat /\ r + Len(to_far) + 1 >= 3
        BY <3>3
      <4> QED
        BY <1>1, <1>4, <2>1, <2>2, <2>4, <4>1, DeltaIsGood DEF OrderlyHosts
    <3>5. Latest(to_far, before) + Pause <= now
      <4>1. Latest(to_far, before) <= k.last_data_send_ms
        BY <3>2 DEF Linked
      <4>2. Latest(to_far, before) \in Int
        <5>1. to_far = <<>> => before \in Int
          <6>1. to_far = <<>> => Len(to_far) = 0
            OBVIOUS
          <6> QED
            BY <3>2, <3>3, <6>1, PauseType DEF Reader
        <5> HIDE DEF before
        <5> QED
          BY <1>4, <5>1, LatestType
      <4> HIDE DEF k
      <4> QED
        BY <1>4, <2>2, <4>1, <4>2, PauseType
    <3> HIDE DEF before, r
    <3>6. Lane(to_far', r, before, now, Pause) /\ Latest(to_far', before) = now
      BY <1>4, <2>4, <3>1, <3>2, <3>3, <3>4, <3>5, LanePush
    <3>7. Accounts(Keys(l.told), held, missed, to_far')
      <4>1. Accounts(Keys(k.told), held, missed, to_far)
        BY <3>2 DEF Linked
      <4>2. Ids(f) \cap Withdrawn(f) = {}
        BY <3>3, <3>4, GoodParts
      <4>3. Keys(l.told) = (Keys(k.told) \cup Ids(f)) \ Withdrawn(f)
        BY <2>3, <2>5
      <4> HIDE DEF held, k
      <4> QED
        BY <1>4, <2>4, <3>1, <4>1, <4>2, <4>3, AccountsPush
    <3>8. r + Len(to_far') >= 2
      BY <1>4, <2>4, <3>1, <3>3, Pushed
    <3>9. Linked'
      <4>1. r' = r /\ before' = before /\ held' = held
        BY <2>7, Zenon DEF r, before, held
      <4>2. /\ Rank(FarLink)' + Len(to_far') >= 2
            /\ Latest(to_far', FarLink.last_arrival_ms' - Grace) <= now
        BY <1>4, <3>6, <3>8, <4>1 DEF r, before
      <4>3. Accounts(Keys(l.told), Keys(FarLink.received)', missed', to_far')
        BY <1>2, <3>7, <4>1 DEF held
      <4> QED
        BY <2>3, <2>6, <4>2, <4>3 DEF Linked
    <3>10. ToPartner'
      BY <1>1, <1>2, <1>3, <1>4, <2>2, <2>3, <2>6, <2>7, <3>2, <3>6, <3>9 DEF ToPartner, r, before
    <3> QED
      BY <1>1, <2>8, <2>9, <3>10 DEF Calm
  <2> QED
    BY <2>10, <2>11
<1> QED
  BY <1>2, <1>4, <1>5, <1>6, TickWrites

LEMMA NearDownCalm ==
  ASSUME Calm, NearDown
  PROVE  Calm'
<1>1. Base /\ Base' /\ NearSound /\ ToPartner /\ FromPartner
  BY NearDownBase DEF Calm
<1>2. /\ link_down(FarId) /\ side' = "Down" /\ to_near' = <<>>
      /\ UNCHANGED <<ahead, far_links, far_side, missed>>
  BY DEF NearDown, farVars
<1>3. PICK n \in 0..Len(to_far) : to_far' = SubSeq(to_far, 1, n)
  BY DEF NearDown
<1>4. UNCHANGED <<now, known>> /\ links' = Remove(links, {FarId})
  BY <1>2 DEF link_down
<1>5. links \in [Partners -> Option(LinkState)] /\ FarId \in Partners /\ to_far \in Seq(Frame)
  BY <1>1, CalmFacts
<1>6. links'[FarId] = None /\ NearLink' = NewLink
  <2>1. links'[FarId] = None
    BY <1>4, <1>5 DEF Remove
  <2> QED
    BY <2>1 DEF NearLink, Link, NewLink
<1>7. NearSound'
  BY <1>1, <1>6, NewNear, OursIsSound DEF NearSound
<1>8. FarLink' = FarLink
  BY <1>2, SameFarLink
<1>9. ToPartner'
  <2> DEFINE r == Rank(FarLink)
             before == FarLink.last_arrival_ms - Grace
  <2>1. Lane(to_far, r, before, now, Pause)
    BY <1>1 DEF ToPartner
  <2> HIDE DEF r, before
  <2>2. Lane(to_far', r, before, now, Pause)
    BY <1>3, <1>5, <2>1, LaneCut
  <2> QED
    BY <1>1, <1>2, <1>4, <1>8, <2>2 DEF ToPartner, r, before
<1>10. FromPartner'
  BY <1>2, <1>6, NewNear DEF FromPartner
<1> QED
  BY <1>1, <1>7, <1>9, <1>10 DEF Calm

LEMMA FarDownCalm ==
  ASSUME Calm, FarDown
  PROVE  Calm'
<1>1. Base /\ Base' /\ NearSound /\ ToPartner /\ FromPartner
  BY FarDownBase DEF Calm
<1>2. /\ far_side' = "Down" /\ to_far' = <<>> /\ Far!link_down(LocalPeerId)
      /\ UNCHANGED <<now, links, known, ahead, side, missed>>
  BY DEF FarDown, vars
<1>3. PICK n \in 0..Len(to_near) : to_near' = SubSeq(to_near, 1, n)
  BY DEF FarDown
<1>4. far_links'[LocalPeerId] = None /\ FarLink' = Far!NewLink
  <2>1. far_links'[LocalPeerId] = None
    BY <1>1, <1>2 DEF Base, FarBase, Far!link_down, Far!Remove
  <2> QED
    BY <2>1 DEF FarLink, Far!Link, Far!NewLink
<1>5. NearLink' = NearLink /\ NearSound'
  BY <1>1, <1>2, SameNearLink, SameNearSound DEF NearSound
<1>6. ToPartner'
  BY <1>1, <1>2, <1>4, <1>5, NewIsReader, EmptyLane DEF ToPartner
<1>7. FromPartner'
  <2>1. to_near \in Seq(Frame)
    BY <1>1, CalmFacts
  <2>2. \A i \in DOMAIN to_near' : i \in DOMAIN to_near /\ to_near'[i] = to_near[i]
    BY <1>3, <2>1, Cut
  <2> QED
    BY <1>1, <1>2, <1>5, <2>2 DEF FromPartner, FarHello, FarFirst
<1> QED
  BY <1>1, <1>5, <1>6, <1>7 DEF Calm

LEMMA NearReadsCalm ==
  ASSUME Calm, NearReads
  PROVE  Calm'
<1>1. Base /\ Base' /\ NearSound /\ ToPartner /\ FromPartner
  BY NearReadsBase DEF Calm
<1>2. PICK l : NearTakes(l)
  <2>1. to_near # <<>> /\ to_near \in Seq(Frame)
    BY <1>1, CalmFacts DEF NearReads
  <2>2. Head(to_near) = to_near[1] /\ 1 \in DOMAIN to_near
    BY <2>1, Popped
  <2>3. /\ Rank(NearLink) + 1 <= 2
        /\ Head(to_near).body = IF Rank(NearLink) + 1 = 1 THEN FarHello ELSE FarFirst
    BY <1>1, <2>2 DEF FromPartner
  <2> QED
    BY <1>1, <2>3, NearReadsTakes DEF Rank
<1>3. /\ to_near # <<>> /\ to_near' = Tail(to_near)
      /\ to_far' = IF far_side = "Down" THEN to_far ELSE to_far \o Written(out')
      /\ UNCHANGED <<ahead, far_links, side, far_side, missed>>
  BY DEF NearReads, Near, farVars, hostVars
<1>4. /\ Inv /\ Inv' /\ to_far \in Seq(Frame) /\ to_near \in Seq(Frame)
      /\ links \in [Partners -> Option(LinkState)] /\ FarId \in Partners
  BY <1>1, CalmFacts DEF Base, NearBase
<1>5. on_message(FarId, Head(to_near).body) \/ record_violation(FarId, Oversized)
  BY DEF NearReads, Near
<1>6. UNCHANGED <<now, known>>
  BY <1>5 DEF on_message, record_violation, OutboundUnchanged
<1>7. NearLink' = l /\ links'[FarId] # None
  BY <1>2, <1>4, NearLinkSet DEF NearTakes
<1>8. NearSound'
  BY <1>1, <1>2, <1>7, OursIsSound DEF NearSound, NearTakes
<1>9. to_far' = to_far
  <2>1. Written(out') = <<>>
    BY <1>2 DEF NearTakes
  <2> QED
    BY <1>3, <1>4, <2>1, NothingWritten, Zenon
<1>10. FarLink' = FarLink
  BY <1>3, SameFarLink
<1>11. ToPartner'
  <2>1. Linked' <=> Linked
    BY <1>2, <1>3, <1>7, <1>9, <1>10 DEF Linked, NearTakes
  <2> QED
    BY <1>1, <1>2, <1>3, <1>6, <1>7, <1>9, <1>10, <2>1 DEF ToPartner, NearTakes
<1>12. FromPartner'
  <2> DEFINE r == Rank(NearLink)
  <2>1. \A i \in DOMAIN to_near : r + i <= 2 /\ to_near[i].body = IF r + i = 1 THEN FarHello ELSE FarFirst
    BY <1>1 DEF FromPartner
  <2>2. Rank(l) = r + 1 /\ r \in 0..2
    BY <1>2 DEF NearTakes, Rank
  <2> HIDE DEF r
  <2>3. ASSUME NEW i \in DOMAIN to_near'
        PROVE  /\ Rank(l) + i <= 2
               /\ to_near'[i].body = IF Rank(l) + i = 1 THEN FarHello ELSE FarFirst
    <3>1. /\ i \in 1..(Len(to_near) - 1) /\ i + 1 \in DOMAIN to_near
          /\ to_near'[i] = to_near[i + 1]
      BY <1>3, <1>4, Popped
    <3>2. Rank(l) + i = r + (i + 1)
      BY <2>2, <3>1
    <3> QED
      BY <2>1, <3>1, <3>2
  <2>4. far_side' # "Up"
    BY <1>1, <1>3 DEF FromPartner
  <2>5. FarHello' = FarHello /\ FarFirst' = FarFirst
    BY DEF FarHello, FarFirst
  <2> QED
    BY <1>7, <2>3, <2>4, <2>5 DEF FromPartner
<1> QED
  BY <1>1, <1>8, <1>11, <1>12 DEF Calm

(* Our link after link_up. *)
LEMMA FirstLink ==
  ASSUME Base, NEW jitter \in Nat, NEW l, l = LinkedUp(jitter)
  PROVE  /\ l \in LinkState /\ l.phase = NearLink.phase
         /\ l.muted = NearLink.muted /\ l.strikes = NearLink.strikes
         /\ l.last_data_send_ms = now /\ l.self_interval_secs = Interval
         /\ l.last_backoff_applied_ms = NearLink.last_backoff_applied_ms
         /\ Keys(l.told) = Keys(NearLink.told) \cup {e.peer_id : e \in Snapshot(FarId)}
<1> DEFINE k == NearLink
           S == Snapshot(FarId)
           was == k.told
           told == Told(was, S, {})
<1>1. k \in LinkState /\ NearBase /\ now \in Option(Nat) /\ TypeOK
  BY CalmFacts DEF Base, Option
<1>2. l = [k EXCEPT !.self_interval_secs = Interval, !.handshake_sent = TRUE, !.told = told,
                    !.snapshot_sent = TRUE, !.last_data_send_ms = now, !.send_jitter_ms = jitter]
  BY <1>1 DEF LinkedUp, NearLink, LinkState
<1>3. OnePerPeer(S)
  <2>1. S \in SUBSET advertisable_for(FarId)
    BY DEF Snapshot, trim_to_frame_budget, Freshest
  <2> QED
    BY <1>1, <2>1, AdvertisedSet, SubsetOnePerPeer DEF NearBase
<1>4. was \in [PeerIds -> Option({Fingerprint[c] : c \in Contents})]
  BY <1>1 DEF LinkState
<1>5. told \in [PeerIds -> Option({Fingerprint[c] : c \in Contents})]
  BY <1>1, <1>4, SnapshotType, ToldType
<1> HIDE DEF k, was, S
<1>6. Keys(told) = Keys(was) \cup {e.peer_id : e \in S}
  BY <1>3, <1>4, ToldKeys
<1> HIDE DEF told
<1>7. /\ l \in LinkState
      /\ l.phase = k.phase /\ l.muted = k.muted /\ l.strikes = k.strikes
      /\ l.last_data_send_ms = now /\ l.told = told /\ l.self_interval_secs = Interval
      /\ l.last_backoff_applied_ms = k.last_backoff_applied_ms
  <2>1. Interval \in Nat /\ k \in LinkState /\ now \in Option(Nat)
    BY <1>1, StateAssumption
  <2> DEFINE n == [k EXCEPT !.self_interval_secs = Interval, !.handshake_sent = TRUE,
                            !.told = told, !.snapshot_sent = TRUE,
                            !.last_data_send_ms = now, !.send_jitter_ms = jitter]
  <2>2. n \in LinkState
    BY <1>5, <2>1, Zenon DEF LinkState
  <2>3. /\ n.phase = k.phase /\ n.muted = k.muted /\ n.strikes = k.strikes
        /\ n.last_data_send_ms = now /\ n.told = told /\ n.self_interval_secs = Interval
        /\ n.last_backoff_applied_ms = k.last_backoff_applied_ms
    BY <2>1 DEF LinkState
  <2> QED
    BY <1>2, <2>2, <2>3
<1> QED
  BY <1>6, <1>7 DEF k, was, S

(* What link_up writes, on an empty lane. *)
LEMMA FirstLane ==
  ASSUME NearBase, now \in Nat, NEW before, NEW gap,
         NEW hello, hello = Framed(OnWire(Handshake(FarId))),
         NEW first, first = Framed(OnWire(FirstList))
  PROVE  /\ (<<>> \o <<hello>>) \o <<first>> = <<hello, first>>
         /\ Lane(<<hello, first>>, 0, before, now, gap)
         /\ Latest(<<hello, first>>, before) = now
         /\ <<hello, first>> \in Seq(Frame)
<1>1. /\ hello \in Frame /\ hello.sent = now /\ hello.body = OnWire(Handshake(FarId))
      /\ first \in Frame /\ first.sent = now /\ first.body = OnWire(FirstList)
  BY FirstFrames, FrameType DEF Framed
<1>2. GoodBody(hello.body, 1) /\ GoodBody(first.body, 2)
  BY <1>1, HelloIsGood, SnapshotIsGood
<1> DEFINE none == <<>>
           one == none \o <<hello>>
           two == one \o <<first>>
<1>3. none \in Seq(Frame) /\ Len(none) = 0 /\ 0 \in 0..2 /\ Lane(none, 0, before, now, gap)
  BY EmptyLane
<1>4. one \in Seq(Frame) /\ Len(one) = 1
  BY <1>1
<1>5. two = <<hello, first>>
  BY <1>1, <1>4, EmptyEnds, Concatenations
<1> HIDE DEF none
<1>6. Lane(one, 0, before, now, gap)
  <2>1. /\ GoodBody(hello.body, 0 + Len(none) + 1)
        /\ 0 + Len(none) + 1 >= 3 => Latest(none, before) + gap <= now
    BY <1>2, <1>3
  <2> QED
    BY <1>1, <1>3, <2>1, LanePush
<1> HIDE DEF one, two
<1>7. Lane(two, 0, before, now, gap) /\ Latest(two, before) = now
  <2>1. /\ GoodBody(first.body, 0 + Len(one) + 1)
        /\ 0 + Len(one) + 1 >= 3 => Latest(one, before) + gap <= now
    BY <1>2, <1>4
  <2>2. one \in Seq(Frame) /\ 0 \in 0..2 /\ first \in Frame /\ first.sent = now
    BY <1>1, <1>3, <1>4
  <2>3. Lane(one \o <<first>>, 0, before, now, gap)
    BY <1>6, <2>1, <2>2, LanePush
  <2>4. Latest(one \o <<first>>, before) = now
    BY <1>6, <2>1, <2>2, LatestPushed
  <2> QED
    BY <2>3, <2>4 DEF two
<1>8. <<hello, first>> \in Seq(Frame)
  BY <1>1
<1> QED
  BY <1>5, <1>7, <1>8 DEF two, one, none

LEMMA NearUpCalm ==
  ASSUME Calm, NearUp
  PROVE  Calm'
<1>1. Base /\ Base' /\ NearSound /\ ToPartner /\ FromPartner
  BY NearUpBase DEF Calm
<1>2. /\ side = "Up" /\ side' = "Speaking" /\ link_up(FarId)
      /\ to_far' = IF far_side = "Down" THEN to_far ELSE to_far \o Written(out')
      /\ UNCHANGED <<ahead, far_links, far_side, missed, to_near>>
  BY DEF NearUp, Near, farVars
<1>3. UNCHANGED <<now, known>>
  BY <1>2 DEF link_up, InboundUnchanged
<1>4. /\ NearBase /\ Inv /\ Inv' /\ to_far \in Seq(Frame) /\ NearLink \in LinkState
      /\ links \in [Partners -> Option(LinkState)] /\ FarId \in Partners /\ now \in Nat
  BY <1>1, CalmFacts DEF Base, NearBase
<1> DEFINE k == NearLink
           hello == Framed(OnWire(Handshake(FarId)))
           first == Framed(OnWire(FirstList))
           before == FarLink.last_arrival_ms - Grace
           held == Keys(FarLink.received)
           S == {e.peer_id : e \in Snapshot(FarId)}
<1>5. PICK jitter \in Nat : links' = [links EXCEPT ![FarId] = LinkedUp(jitter)]
  BY <1>2, <1>4, LinkUpWrites
<1>6. Written(out') = <<hello, first>>
  BY <1>2, <1>4, LinkUpWrites
<1> DEFINE l == LinkedUp(jitter)
<1>7. to_far = <<>> /\ Rank(FarLink) = 0 /\ Keys(k.told) = {} /\ held = {} /\ Reader(FarLink)
  BY <1>1, <1>2 DEF ToPartner, Reader
<1>8. /\ l \in LinkState /\ l.phase = k.phase /\ l.muted = k.muted /\ l.strikes = k.strikes
      /\ l.last_data_send_ms = now /\ Keys(l.told) = S
  BY <1>1, <1>7, FirstLink
<1> HIDE DEF l
<1>9. NearLink' = l /\ links'[FarId] # None
  BY <1>4, <1>5, <1>8, NearLinkSet DEF l
<1>10. FarLink' = FarLink
  BY <1>2, SameFarLink
<1>11. NearSound'
  BY <1>1, <1>8, <1>9, OursIsSound DEF NearSound
<1>12. FromPartner'
  BY <1>1, <1>2, <1>8, <1>9 DEF FromPartner, Rank, FarHello, FarFirst
<1>13. CASE far_side = "Down"
  <2>1. to_far' = to_far
    BY <1>2, <1>13
  <2>2. ToPartner'
    BY <1>1, <1>2, <1>3, <1>4, <1>8, <1>9, <1>10, <1>13, <2>1 DEF ToPartner
  <2> QED
    BY <1>1, <1>11, <1>12, <2>2 DEF Calm
<1>14. CASE far_side # "Down"
  <2>1. /\ hello \in Frame /\ hello.body = OnWire(Handshake(FarId))
        /\ first \in Frame /\ first.body = OnWire(FirstList)
    BY <1>4, FirstFrames, FrameType DEF Framed
  <2>3. Ids(hello) = {} /\ Withdrawn(hello) = {} /\ Ids(first) = S /\ Withdrawn(first) = {}
    BY <1>4, <2>1, HelloIds, FirstListIds
  <2> DEFINE none == <<>>
             one == none \o <<hello>>
             two == one \o <<first>>
  <2>4. none \in Seq(Frame) /\ one \in Seq(Frame)
    BY <2>1
  <2>5. two = <<hello, first>> /\ Lane(two, 0, before, now, Pause) /\ Latest(two, before) = now
    <3> HIDE DEF before
    <3> QED
      BY <1>4, FirstLane
  <2>6. to_far' = two /\ Len(two) = 2
    <3>1. to_far' = <<>> \o <<hello, first>>
      BY <1>2, <1>6, <1>7, <1>14
    <3>2. <<hello, first>> \in Seq(Frame)
      BY <2>1
    <3>3. <<>> \o <<hello, first>> = <<hello, first>> /\ Len(<<hello, first>>) = 2
      BY <3>2, EmptyEnds
    <3> QED
      BY <2>5, <3>1, <3>3, Zenon
  <2> HIDE DEF hello, first, S, none, one
  <2>9. Accounts(S, held, missed, two)
    <3>1. Accounts({}, held, missed, none)
      BY <1>7, <2>4 DEF Accounts, ToldArrives, HeldIsTold, ComingIsTold, none
    <3>2. Accounts({}, held, missed, one)
      <4>1. {} = ({} \cup Ids(hello)) \ Withdrawn(hello) /\ Ids(hello) \cap Withdrawn(hello) = {}
        BY <2>3
      <4> QED
        BY <2>1, <2>4, <3>1, <4>1, AccountsPush DEF one
    <3>3. S = ({} \cup Ids(first)) \ Withdrawn(first) /\ Ids(first) \cap Withdrawn(first) = {}
      BY <2>3
    <3> QED
      BY <2>1, <2>4, <3>2, <3>3, AccountsPush
  <2> HIDE DEF two
  <2>10. Linked'
    <3>1. before' = before /\ held' = held
      BY <1>10, Zenon DEF before, held
    <3>2. Latest(to_far', FarLink.last_arrival_ms' - Grace) <= now /\ Rank(FarLink)' + Len(to_far') >= 2
      <4>1. Latest(to_far', FarLink.last_arrival_ms' - Grace) = now
        BY <1>4, <2>5, <2>6, <3>1, Zenon DEF before
      <4>2. Rank(FarLink)' = 0 /\ Len(to_far') = 2
        BY <1>7, <1>10, <2>6, Zenon
      <4> QED
        BY <1>4, <4>1, <4>2
    <3>3. Accounts(Keys(l.told), Keys(FarLink.received)', missed', to_far')
      BY <1>2, <1>8, <2>6, <2>9, <3>1 DEF held
    <3> QED
      BY <1>8, <1>9, <3>2, <3>3 DEF Linked
  <2>11. ToPartner'
    BY <1>1, <1>2, <1>3, <1>4, <1>7, <1>8, <1>9, <1>10, <2>5, <2>6, <2>10 DEF ToPartner, before
  <2> QED
    BY <1>1, <1>11, <1>12, <2>11 DEF Calm
<1> QED
  BY <1>13, <1>14

(* The partner's link after its link_up: as a reader it is the same. *)
LEMMA FarFirstLink ==
  ASSUME Base, Reader(FarLink), NEW jitter \in Nat, NEW l, l = FarLinkedUp(jitter)
  PROVE  /\ Reader(l) /\ l.phase = FarLink.phase
         /\ l.received = FarLink.received /\ l.last_arrival_ms = FarLink.last_arrival_ms
         /\ l.strikes = FarLink.strikes
<1> DEFINE k == FarLink
           told == Far!Told(k.told, {}, {})
<1>1. k \in LinkState /\ now + ahead \in Option(Nat) /\ FarInterval \in Nat
  BY CalmFacts, NetworkAssumption DEF Reader, Option
<1>2. l = [k EXCEPT !.self_interval_secs = FarInterval, !.handshake_sent = TRUE, !.told = told,
                    !.snapshot_sent = TRUE, !.last_data_send_ms = now + ahead,
                    !.send_jitter_ms = jitter]
  BY <1>1 DEF FarLinkedUp, LinkState
<1>3. told \in [PeerIds -> Option({Fingerprint[c] : c \in Contents})]
  <2>1. k.told \in [PeerIds -> Option({Fingerprint[c] : c \in Contents})]
    BY <1>1 DEF LinkState
  <2> HIDE DEF k
  <2> QED
    BY <2>1, FarIds DEF Far!Told
<1> HIDE DEF k, told
<1>4. /\ l \in LinkState /\ l.phase = k.phase /\ l.received = k.received
      /\ l.muted = k.muted /\ l.strikes = k.strikes /\ l.last_arrival_ms = k.last_arrival_ms
      /\ l.remote_declared_secs = k.remote_declared_secs
  <2> DEFINE n == [k EXCEPT !.self_interval_secs = FarInterval, !.handshake_sent = TRUE,
                            !.told = told, !.snapshot_sent = TRUE,
                            !.last_data_send_ms = now + ahead, !.send_jitter_ms = jitter]
  <2>1. n \in LinkState
    BY <1>1, <1>3, Zenon DEF LinkState
  <2>2. /\ n.phase = k.phase /\ n.received = k.received
        /\ n.muted = k.muted /\ n.strikes = k.strikes /\ n.last_arrival_ms = k.last_arrival_ms
        /\ n.remote_declared_secs = k.remote_declared_secs
    BY <1>1 DEF LinkState
  <2> QED
    BY <1>2, <2>1, <2>2
<1>5. Reader(k)
  BY DEF k
<1>6. Rank(l) = Rank(k)
  BY <1>4 DEF Rank
<1>7. Reader(l)
  BY <1>4, <1>5, <1>6 DEF Reader
<1> QED
  BY <1>4, <1>7 DEF k

LEMMA FarUpCalm ==
  ASSUME Calm, FarUp
  PROVE  Calm'
<1>1. Base /\ Base' /\ NearSound /\ ToPartner /\ FromPartner
  BY FarUpBase DEF Calm
<1>2. /\ far_side = "Up" /\ far_side' = "Speaking" /\ Far!link_up(LocalPeerId)
      /\ to_near' = IF side = "Down" THEN to_near ELSE to_near \o Written(far_out')
      /\ UNCHANGED <<now, links, known, ahead, side, to_far, missed>>
  BY DEF FarUp, FarDoes, vars
<1>3. /\ DOMAIN far_links = {LocalPeerId} /\ (far_cache # None => far_cache.list = {})
      /\ now \in Nat
  BY <1>1, CalmFacts DEF Base, FarBase
<1>4. PICK jitter \in Nat : far_links' = [far_links EXCEPT ![LocalPeerId] = FarLinkedUp(jitter)]
  BY <1>2, <1>3, FarUpWrites
<1> DEFINE l == FarLinkedUp(jitter)
<1>5. /\ Reader(l) /\ l.phase = FarLink.phase
      /\ l.received = FarLink.received /\ l.last_arrival_ms = FarLink.last_arrival_ms
      /\ l.strikes = 0
  BY <1>1, FarFirstLink DEF ToPartner
<1> HIDE DEF l
<1>6. FarLink' = l
  BY <1>3, <1>4, <1>5, FarLinkSet DEF l, Reader
<1>7. NearLink' = NearLink /\ NearSound'
  BY <1>1, <1>2, SameNearLink, SameNearSound DEF NearSound
<1>8. Rank(l) = Rank(FarLink)
  BY <1>5 DEF Rank
<1>9. ToPartner'
  <2>1. Linked' <=> Linked
    BY <1>2, <1>5, <1>6, <1>7, <1>8 DEF Linked
  <2> QED
    BY <1>1, <1>2, <1>5, <1>6, <1>7, <1>8, <2>1 DEF ToPartner
<1>10. FromPartner'
  <2>1. to_near = <<>> /\ Rank(NearLink) = 0
    BY <1>1, <1>2 DEF FromPartner
  <2>2. CASE side = "Down"
    BY <1>2, <1>7, <2>1, <2>2 DEF FromPartner
  <2>3. CASE side # "Down"
    <3> DEFINE h == Framed(FarHello)
               s == Framed(FarFirst)
    <3>1. Written(far_out') = <<h, s>>
      BY <1>2, <1>3, FarUpWrites
    <3>2. h.body = FarHello /\ s.body = FarFirst
      BY DEF Framed
    <3> HIDE DEF h, s
    <3>3. to_near' = <<h, s>>
      <4>1. to_near' = <<>> \o <<h, s>>
        BY <1>2, <2>1, <2>3, <3>1
      <4>2. <<h, s>> \in Seq({h, s})
        OBVIOUS
      <4>3. <<>> \o <<h, s>> = <<h, s>>
        BY <4>2, EmptyEnds
      <4> QED
        BY <4>1, <4>3, Zenon
    <3>4. DOMAIN to_near' = 1..2 /\ to_near'[1] = h /\ to_near'[2] = s
      BY <3>3
    <3>5. \A i \in 1..2 : i = 1 \/ i = 2
      OBVIOUS
    <3>6. ASSUME NEW i \in DOMAIN to_near'
          PROVE  0 + i <= 2 /\ to_near'[i].body = IF 0 + i = 1 THEN FarHello ELSE FarFirst
      BY <3>2, <3>4, <3>5
    <3> QED
      BY <1>2, <1>7, <2>1, <3>6 DEF FromPartner, FarHello, FarFirst
  <2> QED
    BY <2>2, <2>3
<1> QED
  BY <1>1, <1>7, <1>9, <1>10 DEF Calm

(* The ids of a frame that the partner skips. *)
Skipped(f) ==
    {Entries(f.body)[i].peer_id : i \in {j \in DOMAIN Entries(f.body) :
         ~Far!validate(Entries(f.body)[j], LocalPeerId, (now + ahead) \div 1000)}}

LEMMA TakenOrSkipped ==
  ASSUME NEW f \in Frame
  PROVE  Taken(f) \cup Skipped(f) = Ids(f)
<1> DEFINE s == Entries(f.body)
           t == (now + ahead) \div 1000
<1>1. DOMAIN s = 1..Len(s)
  <2>1. f.body \in Message
    BY DEF Frame
  <2>2. s \in Seq(Entry)
    BY <2>1 DEF Message, Entries
  <2> HIDE DEF s
  <2> QED
    BY <2>2
<1>2. Taken(f) = {s[i].peer_id : i \in {j \in DOMAIN s : Accepts(s[j], t)}}
  BY <1>1 DEF Taken, Accepted
<1>3. Ids(f) = {s[i].peer_id : i \in DOMAIN s}
  BY DEF Ids
<1>4. Skipped(f) = {s[i].peer_id : i \in {j \in DOMAIN s : ~Accepts(s[j], t)}}
  BY DEF Accepts, Skipped
<1> HIDE DEF s, t
<1> QED
  BY <1>2, <1>3, <1>4

LEMMA FarReadsCalm ==
  ASSUME OrderlyHosts, Calm, FarReads
  PROVE  Calm'
<1>1. Base /\ Base' /\ NearSound /\ ToPartner /\ FromPartner
  BY FarReadsBase DEF Calm
<1> DEFINE f == Head(to_far)
           r == Rank(FarLink)
           q == to_far
           before == FarLink.last_arrival_ms - Grace
           held == Keys(FarLink.received)
           told == Keys(NearLink.told)
<1>2. PICK l : FarTakes(f, l)
  <2>1. /\ Reader(FarLink) /\ Lane(q, r, before, now, Pause)
        /\ f \in Frame /\ f = q[1] /\ 1 \in DOMAIN q /\ now \in Nat /\ ahead \in Nat
    BY <1>1, CalmFacts, Popped DEF ToPartner, FarReads
  <2>2. GoodBody(f.body, r + 1) /\ f.sent <= now
        /\ (r + 1 >= 3 => before + Pause <= f.sent)
    BY <2>1 DEF Lane, InKind, UnderWay, Apart, Previous
  <2>3. r = 2 => ~Far!TooSoon(FarLink)
    <3> SUFFICES ASSUME r = 2, now + ahead < FarLink.last_arrival_ms + Pause - Grace PROVE FALSE
      BY <1>1, <2>1, FarSoon
    <3>1. FarLink.last_arrival_ms \in Nat /\ f.sent \in Nat
      BY <2>1 DEF Reader, Frame
    <3>2. FarLink.last_arrival_ms - Grace + Pause <= f.sent
      BY <2>2
    <3> HIDE DEF f
    <3> QED
      BY <2>1, <2>2, <3>1, <3>2, PauseType
  <2> QED
    BY <1>1, <2>1, <2>2, <2>3, FarReadsTakes
<1> DEFINE after == l.last_arrival_ms - Grace
           bad == Skipped(f)
<1>3. /\ q # <<>> /\ to_far' = Tail(q)
      /\ missed' = bad \cup (missed \ Ids(f))
      /\ to_near' = IF side = "Down" THEN to_near ELSE to_near \o Written(far_out')
      /\ UNCHANGED <<now, links, known, ahead, side, far_side>>
  BY DEF FarReads, FarDoes, Ids, Skipped, vars, hostVars
<1>4. /\ DOMAIN far_links = {LocalPeerId} /\ q \in Seq(Frame) /\ to_near \in Seq(Frame)
      /\ now \in Nat /\ ahead \in Nat
  BY <1>1, CalmFacts
<1>5. /\ Reader(l) /\ Rank(l) = NextRank(r) /\ l.strikes = FarLink.strikes
      /\ (Rank(l) = 2 => l.last_arrival_ms = now + ahead)
      /\ ButEvicted(Keys(l.received), (held \cup Taken(f)) \ Withdrawn(f))
  BY <1>2 DEF FarTakes
<1>6. FarLink' = l
  BY <1>2, <1>4, <1>5, FarLinkSet DEF FarTakes, Reader
<1>7. NearLink' = NearLink /\ NearSound'
  BY <1>1, <1>3, SameNearLink, SameNearSound DEF NearSound
<1>8. to_near' = to_near
  <2>1. Written(far_out') = <<>>
    BY <1>2 DEF FarTakes
  <2> QED
    BY <1>3, <1>4, <2>1, NothingWritten, Zenon
<1>9. FromPartner'
  BY <1>1, <1>3, <1>8, SameFromPartner
<1>10. r \in 0..2 /\ NextRank(r) \in 1..2 /\ Lane(q, r, before, now, Pause)
  BY <1>1 DEF Rank, NextRank, ToPartner
<1>11. /\ Lane(Tail(q), NextRank(r), after, now, Pause)
       /\ NextRank(r) = 2 \/ Tail(q) # <<>> => Latest(Tail(q), after) <= Latest(q, before)
  <2>1. ahead + MaxDelay <= Grace /\ Pause \in Nat /\ Grace \in Nat
    BY <1>1, PauseType DEF OrderlyHosts, NearSound, Grace
  <2>2. NextRank(r) = 2 => after = now + ahead - Grace
    <3>1. NextRank(r) = 2 => l.last_arrival_ms = now + ahead
      BY <1>5
    <3>2. now \in Nat /\ ahead \in Nat /\ Grace \in Nat
      BY <1>4, PauseType
    <3> HIDE DEF r
    <3> QED
      BY <3>1, <3>2
  <2> HIDE DEF q, r, before, after
  <2> QED
    BY <1>3, <1>4, <1>10, <2>1, <2>2, LanePop
<1>12. f \in Frame /\ Tail(q) \in Seq(Frame) /\ Len(q) \in Nat /\ Len(q) >= 1
       /\ Len(Tail(q)) = Len(q) - 1 /\ f = q[1] /\ 1 \in DOMAIN q
  BY <1>3, <1>4, Popped
<1>13. ASSUME Linked, side = "Speaking"
      PROVE  Linked'
  <2>1. r + Len(q) >= 2 /\ Latest(q, before) <= NearLink.last_data_send_ms
        /\ Accounts(told, held, missed, q)
    BY <1>13 DEF Linked
  <2>2. NextRank(r) + Len(Tail(q)) >= 2
    <3> HIDE DEF r, q
    <3> QED
      BY <1>10, <1>12, <2>1 DEF NextRank
  <2>3. NextRank(r) = 2 \/ Tail(q) # <<>>
    <3>1. Tail(q) = <<>> => Len(Tail(q)) = 0
      <4> HIDE DEF q
      <4> QED
        BY <1>12
    <3> HIDE DEF r, q
    <3> QED
      BY <1>10, <1>12, <2>2, <3>1
  <2>4. Latest(Tail(q), after) <= NearLink.last_data_send_ms
    <3>1. Latest(Tail(q), after) \in Int
      <4>1. Tail(q) = <<>> => after \in Int
        BY <1>5, <2>3, PauseType DEF Reader
      <4> HIDE DEF q, after
      <4> QED
        BY <1>12, <4>1, LatestType
    <3>2. Latest(q, before) \in Int
      BY <1>3, <1>4, LatestType
    <3>3. Latest(Tail(q), after) <= Latest(q, before)
      BY <1>11, <2>3
    <3>4. NearLink.last_data_send_ms \in Nat
      BY <1>1, <1>13 DEF ToPartner
    <3> DEFINE x == Latest(Tail(q), after)
               y == Latest(q, before)
               z == NearLink.last_data_send_ms
    <3>5. x \in Int /\ y \in Int /\ z \in Nat /\ x <= y /\ y <= z
      BY <2>1, <3>1, <3>2, <3>3, <3>4
    <3> HIDE DEF x, y, z
    <3>6. x <= z
      BY <3>5
    <3> QED
      BY <3>6 DEF x, z
  <2>5. Accounts(told, Keys(l.received), missed', Tail(q))
    <3>1. Taken(f) \cup bad = Ids(f)
      BY <1>12, TakenOrSkipped, Zenon
    <3>2. Ids(f) \cap Withdrawn(f) = {}
      <4>1. GoodBody(f.body, r + 1)
        BY <1>10, <1>12 DEF Lane, InKind
      <4>2. r + 1 \in Nat /\ r + 1 >= 1
        BY <1>10
      <4> HIDE DEF f, r
      <4> QED
        BY <4>1, <4>2, GoodParts
    <3>3. /\ Accounts(told, held, missed, q)
          /\ ButEvicted(Keys(l.received), (held \cup Taken(f)) \ Withdrawn(f))
      BY <1>5, <2>1
    <3> DEFINE good == Taken(f)
               heldAfter == Keys(l.received)
    <3> HIDE DEF told, held, bad, good, heldAfter, q
    <3>4. Head(q) = f
      BY DEF q
    <3> HIDE DEF f
    <3> QED
      BY <1>3, <1>4, <3>1, <3>2, <3>3, <3>4, AccountsPop DEF good, heldAfter
  <2>6. Latest(to_far', FarLink.last_arrival_ms' - Grace) <= NearLink'.last_data_send_ms
        /\ Rank(FarLink)' + Len(to_far') >= 2
    BY <1>3, <1>5, <1>6, <1>7, <2>2, <2>4
  <2>7. Accounts(Keys(NearLink.told)', Keys(FarLink.received)', missed', to_far')
    BY <1>3, <1>6, <1>7, <2>5
  <2> QED
    BY <1>7, <2>6, <2>7 DEF Linked
<1>14. ToPartner'
  <2>1. Lane(to_far', Rank(FarLink)', FarLink.last_arrival_ms' - Grace, now', Pause)
    BY <1>3, <1>5, <1>6, <1>11
  <2> QED
    BY <1>1, <1>3, <1>5, <1>6, <1>7, <1>13, <2>1 DEF ToPartner
<1> QED
  BY <1>1, <1>7, <1>9, <1>14 DEF Calm

LEMMA CalmNext == OrderlyHosts /\ Calm /\ [NetNext]_netVars => Calm'
<1> SUFFICES ASSUME OrderlyHosts, Calm, [NetNext]_netVars PROVE Calm'
  OBVIOUS
<1>1. CASE Connect
  BY <1>1, ConnectCalm
<1>2. CASE Knows
  BY <1>2, KnowsCalm
<1>3. CASE Ticks
  BY <1>3, TicksCalm
<1>4. CASE NearUp
  BY <1>4, NearUpCalm
<1>5. CASE FarUp
  BY <1>5, FarUpCalm
<1>6. CASE NearDown
  BY <1>6, NearDownCalm
<1>7. CASE FarDown
  BY <1>7, FarDownCalm
<1>8. CASE NearReads
  BY <1>8, NearReadsCalm
<1>9. CASE FarReads
  BY <1>9, FarReadsCalm
<1>10. CASE TimePasses
  BY <1>10, TimePassesCalm
<1>11. CASE FarClockSet
  BY <1>11, FarClockSetCalm
<1>12. CASE UNCHANGED netVars
  BY <1>12, StutterCalm
<1> QED
  BY <1>1, <1>2, <1>3, <1>4, <1>5, <1>6, <1>7, <1>8, <1>9, <1>10, <1>11, <1>12 DEF NetNext

(* What calm engines have in common: neither was struck, and the told-state and
   what the partner holds are the same but for what is under way. *)
LEMMA CalmIsSound ==
  ASSUME Calm
  PROVE  /\ NeverStruck
         /\ HeardIsTold
         /\ NoneEvicts => ToldIsHeard
<1>1. NeverStruck
  BY DEF Calm, NearSound, ToPartner, Reader, NeverStruck, NearLink
<1>2. ASSUME Joined
      PROVE  /\ links[FarId] = NearLink
             /\ Accounts(Keys(links[FarId].told), Keys(FarLink.received), missed, to_far)
  <2>1. side = "Speaking" /\ far_side # "Down"
    BY <1>2 DEF Joined
  <2>2. Linked /\ links[FarId] # None
    BY <2>1 DEF Calm, ToPartner
  <2>3. links[FarId] = NearLink
    BY <2>2 DEF NearLink, Link
  <2> QED
    BY <1>2, <2>2, <2>3 DEF Linked
<1>3. NoneEvicts => ToldIsHeard
  <2> SUFFICES ASSUME NoneEvicts, Joined, to_far = <<>>
               PROVE  Keys(links[FarId].told) \ Keys(FarLink.received) \subseteq missed
    BY DEF ToldIsHeard
  <2>1. ToldArrives(Keys(links[FarId].told), Keys(FarLink.received), missed, to_far)
    BY <1>2 DEF Accounts
  <2>2. DOMAIN to_far = {}
    OBVIOUS
  <2> QED
    BY <2>1, <2>2 DEF ToldArrives
<1>4. HeardIsTold
  <2> SUFFICES ASSUME Joined, NEW id \in Keys(FarLink.received),
                      id \notin Keys(links[FarId].told)
               PROVE  \E i \in DOMAIN to_far :
                          /\ to_far[i].body.type = "pex_delta"
                          /\ id \in SeqExt!ToSet(to_far[i].body.dropped)
    BY DEF HeardIsTold
  <2>1. HeldIsTold(Keys(links[FarId].told), Keys(FarLink.received), to_far)
    BY <1>2 DEF Accounts
  <2>2. ~Stands(to_far, 0, id)
    BY <2>1 DEF HeldIsTold
  <2>3. PICK i \in DOMAIN to_far : id \in Withdrawn(to_far[i])
    BY <2>2 DEF Stands
  <2>4. to_far[i].body.type = "pex_delta" /\ id \in ToSet(to_far[i].body.dropped)
    BY <2>3 DEF Withdrawn
  <2> QED
    BY <2>4 DEF ToSet
<1> QED
  BY <1>1, <1>3, <1>4

(* Two engines that run this code never strike or mute each other, as long as
   their hosts are orderly: one side's spacing, caps, order and exclusions
   (engine.rs:201, 301) satisfy the other side's checks (engine.rs:446, 470,
   486), whatever the two intervals, the entries and the calls. *)
THEOREM PartnersNeverStruck ==
  ASSUME OrderlyHosts
  PROVE  NetSpec => []NeverStruck
<1>1. Calm /\ [NetNext]_netVars => Calm'
  BY CalmNext
<1>2. Calm => NeverStruck
  BY CalmIsSound
<1> QED
  BY <1>1, <1>2, CalmInit, PTL DEF NetSpec

(* The told-state is right about the partner (SPEC 9.1): told ids are heard or
   were skipped, once no frame is under way; it is committed before the write
   (engine.rs:327).  Without NoneEvicts it is not: the partner may have evicted
   the id, and we are not told. *)
THEOREM ToldIdsAreHeard ==
  ASSUME OrderlyHosts, NoneEvicts
  PROVE  NetSpec => []ToldIsHeard
<1>1. Calm /\ [NetNext]_netVars => Calm'
  BY CalmNext
<1>2. Calm => ToldIsHeard
  BY CalmIsSound
<1> QED
  BY <1>1, <1>2, CalmInit, PTL DEF NetSpec

(* No withdrawal is lost: what the partner holds from us is told, or a delta
   that drops it is under way (engine.rs:332, 605). *)
THEOREM HeardIdsAreTold ==
  ASSUME OrderlyHosts
  PROVE  NetSpec => []HeardIsTold
<1>1. Calm /\ [NetNext]_netVars => Calm'
  BY CalmNext
<1>2. Calm => HeardIsTold
  BY CalmIsSound
<1> QED
  BY <1>1, <1>2, CalmInit, PTL DEF NetSpec

-----------------------------------------------------------------------------
(* Two engines whose delays break the floor: one strike, and no more.         *)

SlowPause == Slowed * 1000

(* How much longer than the pause two deltas may be apart at their writing than
   at their reading. *)
Slack == Smaller(Grace + SlowPause - Pause, Pause - MaxDelay)

(* How far apart our deltas are written: from the strike on, as far as the
   doubled interval asks. *)
Gap(strikes) == IF strikes = 0 THEN Pause ELSE SlowPause

TooEarly == [type |-> "pex_error", code |-> RateViolation]

Errors(q) == \A i \in DOMAIN q : q[i].body = TooEarly
NoError(q) == \A i \in DOMAIN q : q[i].body # TooEarly
OneError(q, i) == q[i].body = TooEarly /\ \A j \in DOMAIN q : q[j].body = TooEarly => j = i

(* Our interval before the first back-off. *)
Undoubled == NearLink.self_interval_secs = Interval /\ NearLink.last_backoff_applied_ms = None

(* The error is under way, will count when it is read, and before that no delta
   is due. *)
Warned ==
    /\ Undoubled /\ to_far = <<>>
    /\ \E i \in DOMAIN to_near :
           OneError(to_near, i) /\ to_near[i].sent < NearLink.last_data_send_ms + Slack - Grace

Eased == NearLink.self_interval_secs = Slowed /\ NoError(to_near)

SlowLinked ==
    /\ Rank(FarLink) + Len(to_far) >= 2
    /\ Latest(to_far, FarLink.last_arrival_ms - Slack) <= NearLink.last_data_send_ms
    /\ IF FarLink.strikes = 0 THEN Undoubled /\ NoError(to_near) ELSE Warned \/ Eased

SlowToPartner ==
    /\ Reader(FarLink) /\ (FarLink.strikes = 0 \/ (FarLink.strikes = 1 /\ Rank(FarLink) = 2))
    /\ Lane(to_far, Rank(FarLink), FarLink.last_arrival_ms - Slack, now, Gap(FarLink.strikes))
    /\ side = "Up" => /\ to_far = <<>> /\ Rank(FarLink) = 0 /\ ~NearLink.snapshot_sent
                      /\ Undoubled /\ NoError(to_near)
    /\ side = "Speaking" => links[FarId] # None /\ NearLink.last_data_send_ms \in Nat
    /\ side = "Speaking" /\ far_side # "Down" => SlowLinked

(* To a reader of rank r come the first frames it has not read, in their order,
   and errors. *)
Comes(q, r) ==
    \A i \in DOMAIN q :
        \/ q[i].body = TooEarly
        \/ q[i].body = FarHello /\ r = 0 /\ \A j \in DOMAIN q : j < i => q[j].body = TooEarly
        \/ /\ q[i].body = FarFirst /\ r \in 0..1
           /\ \A j \in DOMAIN q : j < i => q[j].body \in {TooEarly, FarHello}
           /\ r = 0 => \E j \in DOMAIN q : j < i /\ q[j].body = FarHello

SlowFromPartner ==
    /\ Comes(to_near, Rank(NearLink)) /\ UnderWay(to_near, now)
    /\ far_side = "Up" => Rank(NearLink) = 0 /\ Errors(to_near)

SlowCalm == Base /\ NearSound /\ SlowToPartner /\ SlowFromPartner

(* What the bounds of SlowHosts say of the pauses. *)
LEMMA SlowType ==
  ASSUME SlowHosts
  PROVE  /\ Slowed \in Nat /\ SlowPause \in Nat /\ Slack \in Nat /\ Pause <= SlowPause
         /\ Slack <= Grace + SlowPause - Pause /\ Slack + MaxDelay <= Pause
         /\ MaxDelay \in Nat /\ MaxDelay < Pause
         /\ \A lead \in ClockLeads \cup {0} : lead \in Nat /\ lead + MaxDelay <= Slack
         /\ Pause \in Nat /\ Grace \in Nat /\ Grace < Pause
         /\ arrival_floor_ms(Interval) = Pause - Grace
         /\ clamp_interval(Slowed) = Slowed
<1>1. /\ clamp_interval(Interval) \in Nat /\ Slowed \in Nat /\ clamp_interval(Interval) <= Slowed
      /\ clamp_interval(Interval) > 0 /\ clamp_interval(Slowed) = Slowed
  BY StateAssumption, IntervalAssumption DEF Slowed, clamp_interval, Larger, Smaller
<1>2. arrival_floor_ms(Interval) = Pause - Grace
  BY StateAssumption, IntervalAssumption
     DEF Pause, Grace, arrival_floor_ms, clamp_interval, Larger, Smaller
<1>3. Pause \in Nat /\ Grace \in Nat /\ Grace < Pause
  BY PauseType
<1>4. SlowPause \in Nat /\ Pause <= SlowPause
  BY <1>1 DEF SlowPause, Pause
<1>5. MaxDelay \in Nat /\ \A lead \in ClockLeads \cup {0} : lead \in Nat
  BY NetworkAssumption
<1>6. \A lead \in ClockLeads \cup {0} :
         lead + 2 * MaxDelay <= Pause /\ lead + MaxDelay <= Grace + SlowPause - Pause
  <2> SUFFICES ASSUME NEW lead \in ClockLeads \cup {0}
               PROVE  lead + 2 * MaxDelay <= Pause /\ lead + MaxDelay <= Grace + SlowPause - Pause
    OBVIOUS
  <2>1. /\ lead + 2 * MaxDelay <= clamp_interval(Interval) * 1000
        /\ lead + MaxDelay <= (PEX_ARRIVAL_GRACE + Slowed - clamp_interval(Interval)) * 1000
    BY DEF SlowHosts
  <2> QED
    BY <1>1, <1>5, <2>1, IntervalAssumption DEF Pause, Grace, SlowPause
<1>7. \A lead \in ClockLeads \cup {0} : lead + MaxDelay <= Slack
  BY <1>3, <1>4, <1>5, <1>6 DEF Slack, Smaller
<1>8. Slack \in Int /\ Slack <= Grace + SlowPause - Pause /\ Slack + MaxDelay <= Pause
  BY <1>3, <1>4, <1>5 DEF Slack, Smaller
<1>9. 0 + MaxDelay <= Slack /\ 0 + 2 * MaxDelay <= Pause
  BY <1>6, <1>7
<1> QED
  BY <1>1, <1>2, <1>3, <1>4, <1>5, <1>7, <1>8, <1>9

-----------------------------------------------------------------------------
(* The frames that come from the partner.                                     *)

LEMMA OtherFrames ==
  /\ FarHello # TooEarly /\ FarFirst # TooEarly /\ FarHello # FarFirst
  /\ FarHello' = FarHello /\ FarFirst' = FarFirst
<1>1. FarHello.type = "pex_handshake" /\ FarFirst.type = "pex_snapshot" /\ TooEarly.type = "pex_error"
  BY DEF FarHello, FarFirst, TooEarly
<1>2. FarHello' = FarHello /\ FarFirst' = FarFirst
  BY DEF FarHello, FarFirst
<1> QED
  BY <1>1, <1>2

LEMMA ComesPush ==
  ASSUME NEW S, NEW q \in Seq(S), NEW f \in S, f.body = TooEarly, NEW r, Comes(q, r)
  PROVE  /\ Comes(q \o <<f>>, r)
         /\ Errors(q) => Errors(q \o <<f>>)
         /\ NoError(q) => OneError(q \o <<f>>, Len(q) + 1)
<1> DEFINE p == q \o <<f>>
           n == Len(q)
<1>1. /\ n \in Nat /\ DOMAIN p = 1..(n + 1) /\ DOMAIN q = 1..n
      /\ \A i \in 1..n : p[i] = q[i]
      /\ p[n + 1] = f
  BY Pushed
<1> HIDE DEF p, n
<1>2. \A i \in 1..(n + 1) : i = n + 1 \/ i \in 1..n
  BY <1>1
<1>3. \A i \in 1..n, j \in 1..(n + 1) : j < i => j \in 1..n
  BY <1>1
<1>4. \A j \in 1..n : j \in 1..(n + 1)
  BY <1>1
<1>5. Comes(p, r)
  <2> SUFFICES ASSUME NEW i \in 1..(n + 1), p[i].body # TooEarly
               PROVE  \/ p[i].body = FarHello /\ r = 0
                         /\ \A j \in 1..(n + 1) : j < i => p[j].body = TooEarly
                      \/ /\ p[i].body = FarFirst /\ r \in 0..1
                         /\ \A j \in 1..(n + 1) : j < i => p[j].body \in {TooEarly, FarHello}
                         /\ r = 0 => \E j \in 1..(n + 1) : j < i /\ p[j].body = FarHello
    BY <1>1 DEF Comes
  <2>1. i \in 1..n /\ p[i] = q[i] /\ q[i].body # TooEarly
    BY <1>1, <1>2
  <2>2. CASE q[i].body = FarHello /\ r = 0 /\ \A j \in 1..n : j < i => q[j].body = TooEarly
    BY <1>1, <1>3, <2>1, <2>2
  <2>3. CASE /\ q[i].body = FarFirst /\ r \in 0..1
             /\ \A j \in 1..n : j < i => q[j].body \in {TooEarly, FarHello}
             /\ r = 0 => \E j \in 1..n : j < i /\ q[j].body = FarHello
    BY <1>1, <1>3, <1>4, <2>1, <2>3
  <2> QED
    BY <1>1, <2>1, <2>2, <2>3 DEF Comes
<1>6. Errors(q) => Errors(p)
  BY <1>1, <1>2 DEF Errors
<1>7. NoError(q) => OneError(p, n + 1)
  BY <1>1, <1>2 DEF NoError, OneError
<1> QED
  BY <1>5, <1>6, <1>7 DEF p, n

(* The partner's first frames, behind the errors it wrote before. *)
LEMMA ComesFirst ==
  ASSUME NEW S, NEW q \in Seq(S), Errors(q), NEW h \in S, h.body = FarHello,
         NEW s \in S, s.body = FarFirst, NEW p, p = q \o <<h, s>>
  PROVE  /\ Comes(p, 0)
         /\ NoError(q) => NoError(p)
         /\ \A i \in DOMAIN q : /\ i \in DOMAIN p /\ p[i] = q[i]
                                /\ OneError(q, i) => OneError(p, i)
<1> DEFINE n == Len(q)
<1>1. /\ n \in Nat /\ DOMAIN p = 1..(n + 2) /\ DOMAIN q = 1..n
      /\ \A i \in 1..n : p[i] = q[i]
      /\ p[n + 1] = h /\ p[n + 2] = s
  OBVIOUS
<1> HIDE DEF n
<1>2. \A i \in 1..(n + 2) : i \in 1..n \/ i = n + 1 \/ i = n + 2
  BY <1>1
<1>3. /\ \A j \in 1..(n + 2) : j < n + 1 => j \in 1..n
      /\ \A j \in 1..(n + 2) : j < n + 2 => j \in 1..n \/ j = n + 1
      /\ n + 1 \in 1..(n + 2) /\ n + 1 < n + 2
      /\ \A i \in 1..n : i \in 1..(n + 2)
  BY <1>1
<1>4. \A j \in 1..n : p[j].body = TooEarly
  BY <1>1 DEF Errors
<1>5. Comes(p, 0)
  <2> SUFFICES ASSUME NEW i \in 1..(n + 2), i \notin 1..n
               PROVE  \/ p[i].body = FarHello
                         /\ \A j \in 1..(n + 2) : j < i => p[j].body = TooEarly
                      \/ /\ p[i].body = FarFirst
                         /\ \A j \in 1..(n + 2) : j < i => p[j].body \in {TooEarly, FarHello}
                         /\ \E j \in 1..(n + 2) : j < i /\ p[j].body = FarHello
    <3>1. 0 \in 0..1 /\ DOMAIN p = 1..(n + 2)
      BY <1>1
    <3> QED
      BY <1>4, <3>1, Zenon DEF Comes
  <2>1. CASE i = n + 1
    BY <1>1, <1>3, <1>4, <2>1
  <2>2. CASE i = n + 2
    BY <1>1, <1>3, <1>4, <2>2
  <2> QED
    BY <1>2, <2>1, <2>2
<1>6. NoError(q) => NoError(p)
  BY <1>1, <1>2, OtherFrames DEF NoError
<1>7. ASSUME NEW i \in 1..n PROVE OneError(q, i) => OneError(p, i)
  BY <1>1, <1>2, OtherFrames DEF OneError
<1> QED
  BY <1>1, <1>3, <1>5, <1>6, <1>7

LEMMA ComesCut ==
  ASSUME NEW S, NEW q \in Seq(S), NEW n \in 0..Len(q), NEW r, NEW t
  PROVE  /\ Comes(q, r) => Comes(SubSeq(q, 1, n), r)
         /\ Errors(q) => Errors(SubSeq(q, 1, n))
         /\ NoError(q) => NoError(SubSeq(q, 1, n))
         /\ UnderWay(q, t) => UnderWay(SubSeq(q, 1, n), t)
<1> DEFINE p == SubSeq(q, 1, n)
<1>1. /\ DOMAIN q = 1..Len(q) /\ Len(q) \in Nat /\ DOMAIN p = 1..n
      /\ \A i \in 1..n : p[i] = q[i] /\ i \in 1..Len(q)
  BY Cut
<1> HIDE DEF p
<1>2. \A i \in 1..n, j \in 1..Len(q) : j < i => j \in 1..n
  BY <1>1
<1>3. Comes(q, r) => Comes(p, r)
  <2> SUFFICES ASSUME Comes(q, r), NEW i \in 1..n, p[i].body # TooEarly
               PROVE  \/ p[i].body = FarHello /\ r = 0
                         /\ \A j \in 1..n : j < i => p[j].body = TooEarly
                      \/ /\ p[i].body = FarFirst /\ r \in 0..1
                         /\ \A j \in 1..n : j < i => p[j].body \in {TooEarly, FarHello}
                         /\ r = 0 => \E j \in 1..n : j < i /\ p[j].body = FarHello
    BY <1>1 DEF Comes
  <2>1. \/ q[i].body = FarHello /\ r = 0
           /\ \A j \in 1..Len(q) : j < i => q[j].body = TooEarly
        \/ /\ q[i].body = FarFirst /\ r \in 0..1
           /\ \A j \in 1..Len(q) : j < i => q[j].body \in {TooEarly, FarHello}
           /\ r = 0 => \E j \in 1..Len(q) : j < i /\ q[j].body = FarHello
    BY <1>1 DEF Comes
  <2> QED
    BY <1>1, <1>2, <2>1
<1>4. (Errors(q) => Errors(p)) /\ (NoError(q) => NoError(p)) /\ (UnderWay(q, t) => UnderWay(p, t))
  BY <1>1 DEF Errors, NoError, UnderWay
<1> QED
  BY <1>3, <1>4 DEF p

LEMMA ComesPop ==
  ASSUME NEW S, NEW q \in Seq(S), q # <<>>, NEW r \in 0..2, Comes(q, r), NEW t
  PROVE  /\ \/ Head(q).body = TooEarly /\ Comes(Tail(q), r)
            \/ Head(q).body = FarHello /\ r = 0 /\ Comes(Tail(q), 1)
            \/ Head(q).body = FarFirst /\ r = 1 /\ Comes(Tail(q), 2)
         /\ Errors(q) => Head(q).body = TooEarly /\ Errors(Tail(q))
         /\ NoError(q) => Head(q).body # TooEarly /\ NoError(Tail(q))
         /\ \A i \in DOMAIN q : OneError(q, i) =>
                \/ Head(q).body = TooEarly /\ Head(q) = q[i] /\ NoError(Tail(q))
                \/ /\ Head(q).body # TooEarly /\ i - 1 \in DOMAIN Tail(q)
                   /\ Tail(q)[i - 1] = q[i] /\ OneError(Tail(q), i - 1)
         /\ UnderWay(q, t) => UnderWay(Tail(q), t)
<1> DEFINE p == Tail(q)
           n == Len(q)
           f == Head(q)
<1>1. /\ n \in Nat /\ n >= 1 /\ DOMAIN q = 1..n /\ DOMAIN p = 1..(n - 1)
      /\ \A i \in 1..(n - 1) : p[i] = q[i + 1] /\ i + 1 \in 1..n
      /\ f = q[1]
  BY Popped
<1> HIDE DEF p, n, f
<1>2. /\ 1 \in 1..n /\ \A j \in 1..n : ~(j < 1)
      /\ \A j \in 1..n : j = 1 \/ (j - 1 \in 1..(n - 1) /\ p[j - 1] = q[j])
      /\ \A i \in 1..(n - 1) : 1 < i + 1
      /\ \A i, j \in 1..(n - 1) : j < i => j + 1 < i + 1
      /\ \A i \in 1..(n - 1), j \in 1..n : j < i + 1 /\ j # 1 => j - 1 < i
  <2> SUFFICES ASSUME NEW j \in 1..n, j # 1
               PROVE  j - 1 \in 1..(n - 1) /\ p[j - 1] = q[j]
    BY <1>1
  <2>1. j - 1 \in 1..(n - 1) /\ j - 1 + 1 = j
    BY <1>1
  <2> QED
    BY <1>1, <2>1
<1>3. ASSUME NEW i \in 1..(n - 1), q[i + 1].body # TooEarly
      PROVE  \/ q[i + 1].body = FarHello /\ r = 0
                /\ \A j \in 1..n : j < i + 1 => q[j].body = TooEarly
             \/ /\ q[i + 1].body = FarFirst /\ r \in 0..1
                /\ \A j \in 1..n : j < i + 1 => q[j].body \in {TooEarly, FarHello}
                /\ r = 0 => \E j \in 1..n : j < i + 1 /\ q[j].body = FarHello
  BY <1>1, <1>3 DEF Comes
<1>4. ASSUME f.body = TooEarly PROVE Comes(p, r)
  <2> SUFFICES ASSUME NEW i \in 1..(n - 1), p[i].body # TooEarly
               PROVE  \/ p[i].body = FarHello /\ r = 0
                         /\ \A j \in 1..(n - 1) : j < i => p[j].body = TooEarly
                      \/ /\ p[i].body = FarFirst /\ r \in 0..1
                         /\ \A j \in 1..(n - 1) : j < i => p[j].body \in {TooEarly, FarHello}
                         /\ r = 0 => \E j \in 1..(n - 1) : j < i /\ p[j].body = FarHello
    BY <1>1 DEF Comes
  <2>1. p[i] = q[i + 1] /\ q[i + 1].body # TooEarly
    BY <1>1
  <2>2. CASE q[i + 1].body = FarHello
    BY <1>1, <1>2, <1>3, <2>1, <2>2, OtherFrames
  <2>3. CASE q[i + 1].body = FarFirst
    <3>1. /\ r \in 0..1 /\ \A j \in 1..n : j < i + 1 => q[j].body \in {TooEarly, FarHello}
          /\ r = 0 => \E j \in 1..n : j < i + 1 /\ q[j].body = FarHello
      BY <1>3, <2>1, <2>3, OtherFrames
    <3>2. \A j \in 1..(n - 1) : j < i => p[j].body \in {TooEarly, FarHello}
      BY <1>1, <1>2, <3>1
    <3>3. ASSUME r = 0 PROVE \E j \in 1..(n - 1) : j < i /\ p[j].body = FarHello
      <4>1. PICK j \in 1..n : j < i + 1 /\ q[j].body = FarHello
        BY <3>1, <3>3
      <4>2. j # 1
        BY <1>1, <1>4, <4>1, OtherFrames
      <4>3. j - 1 \in 1..(n - 1) /\ p[j - 1] = q[j] /\ j - 1 < i
        BY <1>2, <4>1, <4>2
      <4> QED
        BY <4>1, <4>3
    <3> QED
      BY <2>1, <2>3, <3>1, <3>2, <3>3
  <2> QED
    BY <1>3, <2>1, <2>2, <2>3
<1>5. ASSUME f.body = FarHello PROVE r = 0 /\ Comes(p, 1)
  <2>1. r = 0
    BY <1>1, <1>2, <1>5, OtherFrames DEF Comes
  <2>2. Comes(p, 1)
    <3> SUFFICES ASSUME NEW i \in 1..(n - 1), p[i].body # TooEarly
                 PROVE  /\ p[i].body = FarFirst
                        /\ \A j \in 1..(n - 1) : j < i => p[j].body \in {TooEarly, FarHello}
      BY <1>1 DEF Comes
    <3>1. p[i] = q[i + 1] /\ q[i + 1].body # TooEarly
      BY <1>1
    <3>2. /\ q[i + 1].body = FarFirst
          /\ \A j \in 1..n : j < i + 1 => q[j].body \in {TooEarly, FarHello}
      BY <1>1, <1>2, <1>3, <1>5, <3>1, OtherFrames
    <3> QED
      BY <1>1, <1>2, <3>1, <3>2
  <2> QED
    BY <2>1, <2>2
<1>6. ASSUME f.body = FarFirst PROVE r = 1 /\ Comes(p, 2)
  <2>1. r = 1
    BY <1>1, <1>2, <1>6, OtherFrames DEF Comes
  <2>2. Comes(p, 2)
    <3>1. ASSUME NEW i \in 1..(n - 1) PROVE p[i].body = TooEarly
      BY <1>1, <1>2, <1>3, <1>6, OtherFrames
    <3> QED
      BY <1>1, <3>1 DEF Comes
  <2> QED
    BY <2>1, <2>2
<1>7. f.body = TooEarly \/ f.body = FarHello \/ f.body = FarFirst
  BY <1>1, <1>2 DEF Comes
<1>8. /\ Errors(q) => f.body = TooEarly /\ Errors(p)
      /\ NoError(q) => f.body # TooEarly /\ NoError(p)
  BY <1>1, <1>2 DEF Errors, NoError
<1>9. ASSUME NEW i \in 1..n, OneError(q, i)
      PROVE  \/ f.body = TooEarly /\ f = q[i] /\ NoError(p)
             \/ /\ f.body # TooEarly /\ i - 1 \in 1..(n - 1)
                /\ p[i - 1] = q[i] /\ OneError(p, i - 1)
  <2>1. CASE i = 1
    <3>1. \A j \in 1..(n - 1) : j + 1 # 1
      BY <1>1
    <3> QED
      BY <1>1, <1>9, <2>1, <3>1 DEF OneError, NoError
  <2>2. CASE i # 1
    <3>1. i - 1 \in 1..(n - 1) /\ p[i - 1] = q[i]
      BY <1>2, <2>2
    <3>2. f.body # TooEarly
      BY <1>1, <1>2, <1>9, <2>2 DEF OneError
    <3>3. ASSUME NEW j \in 1..(n - 1), p[j].body = TooEarly PROVE j = i - 1
      <4>1. j + 1 = i
        BY <1>1, <1>9, <3>3 DEF OneError
      <4> QED
        BY <1>1, <4>1
    <3>4. q[i].body = TooEarly
      BY <1>9 DEF OneError
    <3> QED
      BY <1>1, <3>1, <3>2, <3>3, <3>4 DEF OneError
  <2> QED
    BY <2>1, <2>2
<1>10. UnderWay(q, t) => UnderWay(p, t)
  BY <1>1 DEF UnderWay
<1> QED
  BY <1>1, <1>4, <1>5, <1>6, <1>7, <1>8, <1>9, <1>10 DEF p, f

-----------------------------------------------------------------------------
(* The strike, and what our engine makes of the error.                        *)

(* The partner strikes for a delta that is too early, and its link is l. *)
FarStrikes(l) ==
    /\ Reader(l) /\ Rank(l) = 2 /\ l.strikes = 1
    /\ l.last_arrival_ms = FarLink.last_arrival_ms
    /\ far_links' = [far_links EXCEPT ![LocalPeerId] = l]
    /\ Written(far_out') = <<Framed(TooEarly)>>

LEMMA FarReadsStrikes ==
  ASSUME Base, Reader(FarLink), Rank(FarLink) = 2, FarLink.strikes = 0,
         PEX_VIOLATION_LIMIT > 1, FarReads, GoodBody(Head(to_far).body, 3), Far!TooSoon(FarLink)
  PROVE  \E l : FarStrikes(l)
<1> DEFINE k == FarLink
           m == Head(to_far).body
           l == Far!struck(k)
<1>1. m.type = "pex_delta" /\ FrameSize(m) <= PEX_MAX_FRAME
  BY DEF GoodBody
<1>2. Far!on_message(LocalPeerId, m)
  BY <1>1 DEF FarReads, FarDoes
<1>3. k \in LinkState /\ ~k.muted /\ k.phase = "Streaming" /\ k.strikes = 0
  BY DEF Reader, Rank, LinkState, RecvPhase
<1>4. Far!on_delta(LocalPeerId, m)
  BY <1>1, <1>2, <1>3 DEF Far!on_message, Far!OnMuted, FarLink
<1>5. Far!strike(LocalPeerId, Far!RateViolation)
  BY <1>3, <1>4 DEF Far!on_delta, FarLink
<1>6. Far!RateViolation = RateViolation /\ RateViolation # None
  BY NoneAssumption DEF Far!RateViolation, RateViolation
<1>7. /\ far_links' = [far_links EXCEPT ![LocalPeerId] = l]
      /\ far_out'.sent = {} /\ far_out'.reply = RateViolation
  BY <1>5, <1>6 DEF Far!strike, Far!Quiet, FarLink
<1>8. ~Far!StrikeMutes(k)
  BY <1>3, StateAssumption DEF Far!StrikeMutes
<1> HIDE DEF k
<1>9. l = [k EXCEPT !.strikes = 1, !.muted = FALSE, !.received = k.received]
  <2>1. (k.muted \/ Far!StrikeMutes(k)) = FALSE /\ k.strikes + 1 = 1
    BY <1>3, <1>8
  <2> QED
    BY <1>8, <2>1, Zenon DEF Far!struck
<1> HIDE DEF l
<1>10. /\ l \in LinkState /\ l.strikes = 1 /\ ~l.muted /\ l.received = k.received
       /\ l.phase = k.phase /\ l.remote_declared_secs = k.remote_declared_secs
       /\ l.last_arrival_ms = k.last_arrival_ms
  BY <1>3, <1>9 DEF LinkState
<1>11. Reader(l) /\ Rank(l) = 2
  <2>1. Reader(k) /\ Rank(k) = 2
    BY DEF k
  <2> QED
    BY <1>10, <2>1 DEF Reader, Rank
<1>12. Written(far_out') = <<Framed(TooEarly)>>
  BY <1>6, <1>7, WritesError DEF TooEarly
<1> QED
  BY <1>7, <1>10, <1>11, <1>12 DEF FarStrikes, k

(* Our engine reads the error, and its link is l. *)
NearMinds(l) ==
    /\ l \in LinkState
    /\ links' = [links EXCEPT ![FarId] = l]
    /\ l.phase = NearLink.phase /\ l.snapshot_sent = NearLink.snapshot_sent
    /\ l.last_data_send_ms = NearLink.last_data_send_ms
    /\ l.muted = NearLink.muted /\ l.strikes = NearLink.strikes
    /\ NearLink.self_interval_secs = Interval /\ Honored(NearLink, RateViolation)
           => l.self_interval_secs = Slowed
    /\ Written(out') = <<>>

LEMMA NearReadsMinds ==
  ASSUME Base, NearSound, NearReads, Head(to_near).body = TooEarly
  PROVE  \E l : NearMinds(l)
<1> DEFINE k == NearLink
           m == TooEarly
           l == IF Honored(k, RateViolation) THEN BackedOff(k) ELSE k
<1>1. m.type = "pex_error" /\ m.code = RateViolation /\ Entries(m) = <<>>
  BY DEF TooEarly, Entries
<1>2. k \in LinkState /\ ~k.muted /\ now \in Nat
  BY CalmFacts DEF NearSound
<1>3. FrameSize(m) <= PEX_MAX_FRAME
  BY <1>1, NoEntries
<1>4. on_message(FarId, m)
  BY <1>3 DEF NearReads, Near
<1>5. on_pex_error(FarId, m)
  BY <1>1, <1>2, <1>4 DEF on_message, OnMuted, NearLink
<1>6. links' = [links EXCEPT ![FarId] = l] /\ out' = Quiet
  BY <1>1, <1>5 DEF on_pex_error, NearLink
<1> HIDE DEF m, k
<1> DEFINE b == BackedOff(k)
<1>7. /\ b \in LinkState /\ b.phase = k.phase /\ b.snapshot_sent = k.snapshot_sent
      /\ b.last_data_send_ms = k.last_data_send_ms
      /\ b.muted = k.muted /\ b.strikes = k.strikes
      /\ b.self_interval_secs = clamp_interval(Smaller(2 * k.self_interval_secs, PEX_MAX_INTERVAL))
  <2> DEFINE s == clamp_interval(Smaller(2 * k.self_interval_secs, PEX_MAX_INTERVAL))
  <2>1. s \in Nat /\ now \in Option(Nat)
    BY <1>2, ClampType, IntervalAssumption DEF LinkState, Smaller, Option
  <2>2. b = [k EXCEPT !.self_interval_secs = s, !.last_backoff_applied_ms = now]
    BY <1>2 DEF BackedOff, LinkState
  <2> HIDE DEF s, b
  <2>3. b \in LinkState
    BY <1>2, <2>1, <2>2, Zenon DEF LinkState
  <2>4. /\ b.phase = k.phase /\ b.snapshot_sent = k.snapshot_sent
        /\ b.last_data_send_ms = k.last_data_send_ms
        /\ b.muted = k.muted /\ b.strikes = k.strikes /\ b.self_interval_secs = s
    BY <1>2, <2>2 DEF LinkState
  <2> QED
    BY <2>3, <2>4 DEF s
<1> HIDE DEF b
<1>8. /\ l \in LinkState /\ l.phase = k.phase /\ l.snapshot_sent = k.snapshot_sent
      /\ l.last_data_send_ms = k.last_data_send_ms
      /\ l.muted = k.muted /\ l.strikes = k.strikes
      /\ k.self_interval_secs = Interval /\ Honored(k, RateViolation)
             => l.self_interval_secs = Slowed
  BY <1>2, <1>7 DEF b, Slowed
<1>9. Written(out') = <<>>
  BY <1>6, WritesNothing DEF Quiet
<1> HIDE DEF l
<1> QED
  BY <1>6, <1>8, <1>9 DEF NearMinds, k

(* Before it is read the error keeps us from sending, and when it is read it
   counts. *)
LEMMA WarnedWaits ==
  ASSUME SlowHosts, Base, NearLink.last_data_send_ms \in Nat, Warned, UnderWay(to_near, now)
  PROVE  now < NearLink.last_data_send_ms + Pause - Grace
<1> DEFINE last == NearLink.last_data_send_ms
<1>1. PICK i \in DOMAIN to_near : to_near[i].sent < last + Slack - Grace
  BY DEF Warned
<1>2. to_near \in Seq(Frame) /\ now \in Nat
  BY CalmFacts
<1>3. to_near[i].sent \in Nat /\ now <= to_near[i].sent + MaxDelay
  <2>1. to_near[i] \in Frame
    BY <1>2
  <2> QED
    BY <2>1 DEF Frame, UnderWay
<1>4. Slack \in Nat /\ Slack + MaxDelay <= Pause /\ MaxDelay \in Nat /\ Pause \in Nat /\ Grace \in Nat
  BY SlowType
<1> DEFINE s == to_near[i].sent
<1>5. s \in Nat /\ last \in Nat /\ s < last + Slack - Grace /\ now <= s + MaxDelay /\ now \in Nat
  BY <1>1, <1>2, <1>3
<1> HIDE DEF s, last
<1>6. now < last + Pause - Grace
  BY <1>4, <1>5
<1> QED
  BY <1>6 DEF last

LEMMA ErrorCounts ==
  ASSUME SlowHosts, Base, Undoubled, NearLink.last_data_send_ms \in Nat,
         now < NearLink.last_data_send_ms + Pause - Grace
  PROVE  Honored(NearLink, RateViolation)
<1> DEFINE k == NearLink
<1>1. k.self_interval_secs = Interval /\ k.last_backoff_applied_ms = None
      /\ k.last_data_send_ms \in Nat /\ k.last_data_send_ms # None
  BY NoneAssumption DEF Undoubled
<1>2. now \in Nat /\ now < k.last_data_send_ms + Pause - Grace
  BY CalmFacts
<1> HIDE DEF k
<1>3. Pause \in Nat /\ Grace \in Nat /\ Grace < Pause /\ arrival_floor_ms(Interval) = Pause - Grace
  BY SlowType
<1>4. saturating_sub(now, k.last_data_send_ms) < arrival_floor_ms(k.self_interval_secs)
  BY <1>1, <1>2, <1>3 DEF saturating_sub
<1>5. Plausible(k) /\ ~RateLimited(k)
  BY <1>1, <1>4 DEF Plausible, RateLimited
<1> QED
  BY <1>5 DEF Honored, k

(* Once it was read we send no sooner than the doubled interval. *)
LEMMA EasedWaits ==
  ASSUME SlowHosts, Base, FarId \in Sending, NearLink.self_interval_secs = Slowed,
         NearLink.last_data_send_ms \in Nat
  PROVE  NearLink.last_data_send_ms + SlowPause <= now
<1> DEFINE k == NearLink
           remote == IF k.remote_declared_secs = None THEN 0
                     ELSE clamp_interval(k.remote_declared_secs)
<1>1. Eligible(k)
  BY DEF Sending, Due, NearLink, Link, Keys
<1>2. /\ k \in LinkState /\ now \in Nat /\ k.last_data_send_ms \in Nat
      /\ k.last_data_send_ms # None /\ k.self_interval_secs = Slowed /\ k.send_jitter_ms \in Nat
  BY CalmFacts, NoneAssumption DEF LinkState
<1>3. remote \in Nat
  <2>1. k.remote_declared_secs \in Option(Nat)
    BY <1>2 DEF LinkState
  <2> QED
    BY <2>1, ClampType DEF Option
<1> HIDE DEF k
<1>4. Effective(k) = Larger(Larger(Slowed, remote), PEX_MIN_INTERVAL)
  BY <1>2, SlowType DEF Effective, effective_interval_secs
<1>5. now >= k.last_data_send_ms + Effective(k) * 1000 + k.send_jitter_ms
  BY <1>1, <1>2 DEF Eligible
<1> HIDE DEF remote
<1>6. Effective(k) \in Nat /\ Effective(k) >= Slowed /\ Slowed \in Nat
  BY <1>3, <1>4, SlowType, IntervalAssumption DEF Larger
<1>7. k.last_data_send_ms + SlowPause <= now
  <2> DEFINE e == Effective(k)
  <2> HIDE DEF e
  <2>1. e \in Nat /\ e >= Slowed /\ now >= k.last_data_send_ms + e * 1000 + k.send_jitter_ms
    BY <1>5, <1>6 DEF e
  <2> QED
    BY <1>2, <1>6, <2>1 DEF SlowPause
<1> QED
  BY <1>7 DEF k

-----------------------------------------------------------------------------
(* Every step keeps two slow engines to one strike.                           *)

LEMMA NothingComes ==
  ASSUME NEW r, NEW t
  PROVE  Comes(<<>>, r) /\ UnderWay(<<>>, t) /\ Errors(<<>>) /\ NoError(<<>>)
BY DEF Comes, UnderWay, Errors, NoError

LEMMA NewPace == NewLink.self_interval_secs = Interval /\ NewLink.last_backoff_applied_ms = None
BY DEF NewLink

LEMMA SameSlowToPartner ==
  ASSUME SlowToPartner, UNCHANGED <<now, links, far_links, side, far_side, to_far, to_near>>
  PROVE  SlowToPartner'
<1>1. FarLink' = FarLink /\ NearLink' = NearLink
  BY SameFarLink, SameNearLink
<1>2. Undoubled' <=> Undoubled
  BY <1>1 DEF Undoubled
<1>3. (Warned' <=> Warned) /\ (Eased' <=> Eased)
  BY <1>1, <1>2 DEF Warned, Eased
<1>4. SlowLinked' <=> SlowLinked
  BY <1>1, <1>2, <1>3 DEF SlowLinked
<1> QED
  BY <1>1, <1>2, <1>4 DEF SlowToPartner

LEMMA SameSlowFromPartner ==
  ASSUME SlowFromPartner, UNCHANGED <<now, links, far_side, to_near>>
  PROVE  SlowFromPartner'
<1>1. NearLink' = NearLink
  BY SameNearLink
<1> QED
  BY <1>1 DEF SlowFromPartner

LEMMA SlowInit == NetInit => SlowCalm
<1> SUFFICES ASSUME NetInit PROVE SlowCalm
  OBVIOUS
<1>1. Base
  BY BaseInit
<1>2. Keys(links) = {} /\ links[FarId] = None /\ Keys(known) = {} /\ far_links[LocalPeerId] = None
  BY NetworkAssumption DEF NetInit, Init, Keys, Empty, Far!Init, Far!Empty
<1>3. FarLink = Far!NewLink /\ NearLink = NewLink
  BY <1>2, FarLinkNone, NearLinkNone
<1>4. SlowToPartner
  BY <1>3, NewIsReader, EmptyLane DEF SlowToPartner, NetInit
<1>5. SlowFromPartner
  BY <1>3, NothingComes DEF SlowFromPartner, NetInit
<1>6. NearSound
  BY <1>2, NearLinkNone, NewNear DEF NearSound, NetInit, PacedLinks
<1> QED
  BY <1>1, <1>4, <1>5, <1>6 DEF SlowCalm

LEMMA ConnectSlow ==
  ASSUME SlowCalm, Connect
  PROVE  SlowCalm'
<1>1. Base /\ Base' /\ NearSound
  BY ConnectBase DEF SlowCalm
<1>2. /\ side = "Down" /\ far_side = "Down" /\ side' = "Up"
      /\ UNCHANGED <<links, known, ahead, far_links, to_far, to_near>>
  BY DEF Connect, vars, farVars
<1>3. NearSound'
  BY <1>1, <1>2, SameNearSound DEF NearSound
<1>4. links[FarId] = None /\ far_links[LocalPeerId] = None /\ to_far = <<>> /\ to_near = <<>>
  BY <1>1, <1>2 DEF Base, NearBase, FarBase
<1>5. FarLink' = Far!NewLink /\ NearLink' = NewLink
  BY <1>2, <1>4, FarLinkNone, NearLinkNone, SameFarLink, SameNearLink
<1>6. SlowToPartner'
  BY <1>2, <1>4, <1>5, NewIsReader, NewNear, NewPace, EmptyLane, NothingComes
     DEF SlowToPartner, Undoubled
<1>7. SlowFromPartner'
  BY <1>2, <1>4, <1>5, NewNear, NothingComes DEF SlowFromPartner
<1> QED
  BY <1>1, <1>3, <1>6, <1>7 DEF SlowCalm

LEMMA KnowsSlow ==
  ASSUME SlowCalm, Knows
  PROVE  SlowCalm'
<1>1. Base /\ Base' /\ NearSound /\ SlowToPartner /\ SlowFromPartner
  BY KnowsBase DEF SlowCalm
<1>2. PICK e \in FirstHand : Near(upsert_known(e)) \/ Near(remove_known(e.peer_id))
  BY DEF Knows
<1>3. upsert_known(e) \/ remove_known(e.peer_id)
  BY <1>2 DEF Near
<1>4. out' = Quiet /\ UNCHANGED <<now, links>>
  BY <1>3 DEF upsert_known, remove_known, InboundUnchanged
<1>5. /\ to_far' = IF far_side = "Down" THEN to_far ELSE to_far \o Written(out')
      /\ UNCHANGED <<ahead, far_links, side, far_side, to_near>>
  BY <1>2 DEF Near, farVars, Knows, hostVars
<1>6. to_far' = to_far
  <2>1. Written(out') = <<>>
    BY <1>4, WritesNothing DEF Quiet
  <2>2. to_far \in Seq(Frame)
    BY <1>1, CalmFacts
  <2> QED
    BY <1>5, <2>1, <2>2, NothingWritten, Zenon
<1>7. NearSound'
  <2>1. NearLink' = NearLink
    BY <1>4, SameNearLink
  <2> QED
    BY <1>1, <2>1, OursIsSound DEF NearSound
<1> QED
  BY <1>1, <1>4, <1>5, <1>6, <1>7, SameSlowToPartner, SameSlowFromPartner DEF SlowCalm

LEMMA FarClockSetSlow ==
  ASSUME SlowCalm, FarClockSet
  PROVE  SlowCalm'
<1>1. Base' /\ NearSound /\ SlowToPartner /\ SlowFromPartner
  BY FarClockSetBase DEF SlowCalm
<1>2. /\ ahead' \in ClockLeads \cup {0}
      /\ UNCHANGED <<now, links, known, far_links, side, far_side, to_far, to_near>>
  BY DEF FarClockSet, vars, farVars, hostVars
<1> QED
  BY <1>1, <1>2, SameNearSound, SameSlowToPartner, SameSlowFromPartner DEF SlowCalm

LEMMA StutterSlow ==
  ASSUME SlowCalm, UNCHANGED netVars
  PROVE  SlowCalm'
<1>1. Base' /\ NearSound /\ SlowToPartner /\ SlowFromPartner
  BY StutterBase DEF SlowCalm
<1>2. /\ ahead' \in ClockLeads \cup {0}
      /\ UNCHANGED <<now, links, known, far_links, side, far_side, to_far, to_near>>
  BY <1>1 DEF netVars, vars, farVars, hostVars, NearSound
<1> QED
  BY <1>1, <1>2, SameNearSound, SameSlowToPartner, SameSlowFromPartner DEF SlowCalm

LEMMA TimePassesSlow ==
  ASSUME SlowHosts, SlowCalm, TimePasses
  PROVE  SlowCalm'
<1>1. Base /\ Base' /\ NearSound /\ SlowToPartner /\ SlowFromPartner
  BY TimePassesBase DEF SlowCalm
<1>2. /\ UNCHANGED <<ahead, links, known, far_links, side, far_side, to_far, to_near>>
      /\ UnderWay(to_far, now) => UnderWay(to_far, now')
      /\ UnderWay(to_near, now) => UnderWay(to_near, now')
  BY <1>1, TimeMoves DEF SlowHosts
<1>3. FarLink' = FarLink /\ NearLink' = NearLink
  BY <1>2, SameFarLink, SameNearLink
<1>4. SlowToPartner'
  <2>1. Undoubled' <=> Undoubled
    BY <1>3 DEF Undoubled
  <2>2. (Warned' <=> Warned) /\ (Eased' <=> Eased)
    BY <1>2, <1>3, <2>1 DEF Warned, Eased
  <2>3. SlowLinked' <=> SlowLinked
    BY <1>2, <1>3, <2>1, <2>2 DEF SlowLinked
  <2>4. Lane(to_far, Rank(FarLink), FarLink.last_arrival_ms - Slack, now', Gap(FarLink.strikes))
    BY <1>1, <1>2 DEF SlowToPartner, Lane
  <2> QED
    BY <1>1, <1>2, <1>3, <2>1, <2>3, <2>4 DEF SlowToPartner
<1>5. NearSound' /\ SlowFromPartner'
  BY <1>1, <1>2, <1>3, SameNearSound DEF NearSound, SlowFromPartner
<1> QED
  BY <1>1, <1>4, <1>5 DEF SlowCalm

LEMMA TicksSlow ==
  ASSUME SlowHosts, SlowCalm, Ticks
  PROVE  SlowCalm'
<1>1. Base /\ Base' /\ NearSound /\ SlowToPartner /\ SlowFromPartner
  BY TicksBase DEF SlowCalm
<1>2. /\ tick
      /\ to_far' = IF far_side = "Down" THEN to_far ELSE to_far \o Written(out')
      /\ UNCHANGED <<ahead, far_links, side, far_side, to_near>>
  BY DEF Ticks, Near, farVars, hostVars
<1>3. UNCHANGED <<now, known>>
  BY <1>2 DEF tick, InboundUnchanged
<1>4. /\ NearBase /\ to_far \in Seq(Frame) /\ NearLink \in LinkState
      /\ links \in [Partners -> Option(LinkState)] /\ FarId \in Partners /\ now \in Nat
  BY <1>1, CalmFacts DEF Base, NearBase
<1>5. CASE TickQuiet
  <2>1. to_far' = to_far
    BY <1>2, <1>4, <1>5, NothingWritten, Zenon DEF TickQuiet
  <2> QED
    BY <1>1, <1>2, <1>3, <1>5, <2>1, SameNearSound, SameSlowToPartner, SameSlowFromPartner
       DEF SlowCalm, TickQuiet, NearSound
<1>6. ASSUME NEW dropped \in SUBSET PeerIds, NEW jitter \in Nat, TickTells(dropped, jitter)
      PROVE  SlowCalm'
  <2> DEFINE k == NearLink
             l == AfterDelta(FarId, dropped, jitter)
             f == Framed(OnWire(Delta(dropped)))
             before == FarLink.last_arrival_ms - Slack
             gap == Gap(FarLink.strikes)
             r == Rank(FarLink)
  <2>1. /\ FarId \in Sending /\ dropped \in DroppedPicks(Gone(FarId))
        /\ links' = [links EXCEPT ![FarId] = l] /\ Written(out') = <<f>>
    BY <1>6 DEF TickTells
  <2>2. /\ FarId \in Keys(links) /\ side = "Speaking"
        /\ k.last_data_send_ms \in Nat /\ k.last_data_send_ms + Pause <= now
    BY <1>1, <2>1, DeltaInTime DEF SlowToPartner
  <2>3. /\ l \in LinkState /\ l.phase = k.phase /\ l.muted = k.muted /\ l.strikes = k.strikes
        /\ l.last_data_send_ms = now /\ SamePace(l, k)
    BY <1>1, <2>2, DeltaLink
  <2>4. f \in Frame /\ f.sent = now /\ f.body = OnWire(Delta(dropped))
    BY <1>4, DeltaFrame, FrameType DEF Framed
  <2> HIDE DEF l, f
  <2>5. NearLink' = l /\ links'[FarId] # None
    BY <1>4, <2>1, <2>3, NearLinkSet
  <2>6. FarLink' = FarLink
    BY <1>2, SameFarLink
  <2>7. NearSound'
    BY <1>1, <2>3, <2>5, OursIsSound DEF NearSound
  <2>8. SlowFromPartner'
    BY <1>1, <1>2, <1>3, <2>3, <2>5 DEF SlowFromPartner, Rank
  <2>9. CASE far_side = "Down"
    <3>1. to_far' = to_far
      BY <1>2, <2>9
    <3>2. SlowToPartner'
      BY <1>1, <1>2, <1>3, <1>4, <2>2, <2>3, <2>5, <2>6, <2>9, <3>1 DEF SlowToPartner
    <3> QED
      BY <1>1, <2>7, <2>8, <3>2 DEF SlowCalm
  <2>10. CASE far_side # "Down"
    <3>1. to_far' = to_far \o <<f>>
      BY <1>2, <2>1, <2>10
    <3>2. /\ SlowLinked /\ Reader(FarLink) /\ Lane(to_far, r, before, now, gap)
          /\ FarLink.strikes \in 0..1 /\ UnderWay(to_near, now)
      BY <1>1, <2>2, <2>10 DEF SlowToPartner, SlowFromPartner
    <3>3. r \in 0..2 /\ Len(to_far) \in Nat /\ r + Len(to_far) >= 2
      BY <1>4, <3>2 DEF SlowLinked, Rank
    <3>4. GoodBody(f.body, r + Len(to_far) + 1)
      <4> HIDE DEF r
      <4>1. r + Len(to_far) + 1 \in Nat /\ r + Len(to_far) + 1 >= 3
        BY <3>3
      <4> QED
        BY <1>1, <1>4, <2>1, <2>2, <2>4, <4>1, DeltaIsGood DEF SlowHosts
    <3>5. IF FarLink.strikes = 0 THEN Undoubled /\ NoError(to_near) ELSE Eased
      <4>1. ASSUME Warned PROVE FALSE
        <5>1. now < k.last_data_send_ms + Pause - Grace
          BY <1>1, <2>2, <3>2, <4>1, WarnedWaits
        <5> DEFINE last == k.last_data_send_ms
        <5>2. now < last + Pause - Grace /\ last \in Nat /\ last + Pause <= now
          BY <2>2, <5>1
        <5> HIDE DEF last
        <5> QED
          BY <1>4, <5>2, PauseType
      <4> QED
        BY <3>2, <4>1 DEF SlowLinked
    <3>6. k.last_data_send_ms + gap <= now
      <4>1. CASE FarLink.strikes = 0
        BY <2>2, <4>1 DEF Gap
      <4>2. CASE FarLink.strikes # 0
        BY <1>1, <2>1, <2>2, <3>5, <4>2, EasedWaits DEF Eased, Gap
      <4> QED
        BY <4>1, <4>2
    <3>7. Latest(to_far, before) + gap <= now
      <4>1. Latest(to_far, before) <= k.last_data_send_ms
        BY <3>2 DEF SlowLinked
      <4>2. Latest(to_far, before) \in Int
        <5>1. to_far = <<>> => before \in Int
          <6>1. to_far = <<>> => Len(to_far) = 0
            OBVIOUS
          <6>2. Slack \in Nat
            BY SlowType
          <6> QED
            BY <3>2, <3>3, <6>1, <6>2 DEF Reader
        <5> HIDE DEF before
        <5> QED
          BY <1>4, <5>1, LatestType
      <4>3. gap \in Nat
        BY SlowType DEF Gap
      <4> DEFINE x == Latest(to_far, before)
                 last == k.last_data_send_ms
      <4>4. x \in Int /\ last \in Nat /\ gap \in Nat /\ x <= last /\ last + gap <= now
        BY <2>2, <3>6, <4>1, <4>2, <4>3
      <4> HIDE DEF x, last, gap
      <4>5. x + gap <= now
        BY <1>4, <4>4
      <4> QED
        BY <4>5 DEF x
    <3> HIDE DEF before, r, gap
    <3>8. Lane(to_far', r, before, now, gap) /\ Latest(to_far', before) = now
      BY <1>4, <2>4, <3>1, <3>2, <3>3, <3>4, <3>7, LanePush
    <3>9. r + Len(to_far') >= 2
      BY <1>4, <2>4, <3>1, <3>3, Pushed
    <3>10. SlowLinked'
      <4>1. r' = r /\ before' = before
        BY <2>6, Zenon DEF r, before
      <4>2. /\ Rank(FarLink)' + Len(to_far') >= 2
            /\ Latest(to_far', FarLink.last_arrival_ms' - Slack) <= now
        BY <1>4, <3>8, <3>9, <4>1 DEF r, before
      <4>3. /\ Undoubled => Undoubled'
            /\ Eased => Eased'
        BY <1>2, <2>3, <2>5 DEF Undoubled, Eased, SamePace
      <4> QED
        BY <1>2, <2>3, <2>5, <2>6, <3>5, <4>2, <4>3 DEF SlowLinked
    <3>11. SlowToPartner'
      BY <1>1, <1>2, <1>3, <1>4, <2>2, <2>3, <2>5, <2>6, <3>2, <3>8, <3>10
         DEF SlowToPartner, r, before, gap
    <3> QED
      BY <1>1, <2>7, <2>8, <3>11 DEF SlowCalm
  <2> QED
    BY <2>9, <2>10
<1> QED
  BY <1>2, <1>4, <1>5, <1>6, TickWrites

LEMMA NearUpSlow ==
  ASSUME SlowCalm, NearUp
  PROVE  SlowCalm'
<1>1. Base /\ Base' /\ NearSound /\ SlowToPartner /\ SlowFromPartner
  BY NearUpBase DEF SlowCalm
<1>2. /\ side = "Up" /\ side' = "Speaking" /\ link_up(FarId)
      /\ to_far' = IF far_side = "Down" THEN to_far ELSE to_far \o Written(out')
      /\ UNCHANGED <<ahead, far_links, far_side, to_near>>
  BY DEF NearUp, Near, farVars
<1>3. UNCHANGED <<now, known>>
  BY <1>2 DEF link_up, InboundUnchanged
<1>4. /\ NearBase /\ to_far \in Seq(Frame) /\ NearLink \in LinkState
      /\ links \in [Partners -> Option(LinkState)] /\ FarId \in Partners /\ now \in Nat
  BY <1>1, CalmFacts DEF Base, NearBase
<1> DEFINE k == NearLink
           hello == Framed(OnWire(Handshake(FarId)))
           first == Framed(OnWire(FirstList))
           two == <<hello, first>>
           before == FarLink.last_arrival_ms - Slack
           gap == Gap(FarLink.strikes)
<1>5. PICK jitter \in Nat : links' = [links EXCEPT ![FarId] = LinkedUp(jitter)]
  BY <1>2, <1>4, LinkUpWrites
<1>6. Written(out') = two
  BY <1>2, <1>4, LinkUpWrites
<1> DEFINE l == LinkedUp(jitter)
<1>7. /\ to_far = <<>> /\ Rank(FarLink) = 0 /\ FarLink.strikes = 0 /\ Reader(FarLink)
      /\ Undoubled /\ NoError(to_near)
  BY <1>1, <1>2 DEF SlowToPartner
<1>8. /\ l \in LinkState /\ l.phase = k.phase /\ l.muted = k.muted /\ l.strikes = k.strikes
      /\ l.last_data_send_ms = now /\ l.self_interval_secs = Interval
      /\ l.last_backoff_applied_ms = None
  BY <1>1, <1>7, FirstLink DEF Undoubled
<1> HIDE DEF l
<1>9. NearLink' = l /\ links'[FarId] # None
  BY <1>4, <1>5, <1>8, NearLinkSet DEF l
<1>10. FarLink' = FarLink
  BY <1>2, SameFarLink
<1>11. NearSound'
  BY <1>1, <1>8, <1>9, OursIsSound DEF NearSound
<1>12. SlowFromPartner'
  BY <1>1, <1>2, <1>3, <1>8, <1>9 DEF SlowFromPartner, Rank
<1>13. CASE far_side = "Down"
  <2>1. to_far' = to_far
    BY <1>2, <1>13
  <2>2. SlowToPartner'
    BY <1>1, <1>2, <1>3, <1>4, <1>8, <1>9, <1>10, <1>13, <2>1 DEF SlowToPartner
  <2> QED
    BY <1>1, <1>11, <1>12, <2>2 DEF SlowCalm
<1>14. CASE far_side # "Down"
  <2>1. /\ <<>> \o two = two /\ Len(two) = 2
        /\ Lane(two, 0, before, now, gap) /\ Latest(two, before) = now
    <3> HIDE DEF before, gap, hello, first
    <3>1. /\ Lane(two, 0, before, now, gap) /\ Latest(two, before) = now /\ two \in Seq(Frame)
      BY <1>4, FirstLane DEF hello, first
    <3> QED
      BY <3>1, EmptyEnds
  <2>2. to_far' = two
    BY <1>2, <1>6, <1>7, <1>14, <2>1, Zenon
  <2> HIDE DEF two
  <2>3. before' = before /\ gap' = gap
    BY <1>10, Zenon DEF before, gap
  <2>4. SlowLinked'
    <3>1. Latest(to_far', FarLink.last_arrival_ms' - Slack) <= now
      <4>1. Latest(to_far', FarLink.last_arrival_ms' - Slack) = now
        BY <1>4, <2>1, <2>2, <2>3, Zenon DEF before
      <4> QED
        BY <1>4, <4>1
    <3>2. Rank(FarLink)' = 0 /\ Len(to_far') = 2 /\ FarLink'.strikes = 0
      BY <1>7, <1>10, <2>1, <2>2, Zenon
    <3>3. Undoubled' /\ NoError(to_near')
      BY <1>2, <1>7, <1>8, <1>9 DEF Undoubled
    <3> QED
      BY <1>8, <1>9, <3>1, <3>2, <3>3 DEF SlowLinked
  <2>5. SlowToPartner'
    BY <1>1, <1>2, <1>3, <1>4, <1>7, <1>8, <1>9, <1>10, <2>1, <2>2, <2>4
       DEF SlowToPartner, before, gap
  <2> QED
    BY <1>1, <1>11, <1>12, <2>5 DEF SlowCalm
<1> QED
  BY <1>13, <1>14

LEMMA NearDownSlow ==
  ASSUME SlowCalm, NearDown
  PROVE  SlowCalm'
<1>1. Base /\ Base' /\ NearSound /\ SlowToPartner /\ SlowFromPartner
  BY NearDownBase DEF SlowCalm
<1>2. /\ link_down(FarId) /\ side' = "Down" /\ to_near' = <<>>
      /\ UNCHANGED <<ahead, far_links, far_side>>
  BY DEF NearDown, farVars
<1>3. PICK n \in 0..Len(to_far) : to_far' = SubSeq(to_far, 1, n)
  BY DEF NearDown
<1>4. UNCHANGED <<now, known>> /\ links' = Remove(links, {FarId})
  BY <1>2 DEF link_down
<1>5. links \in [Partners -> Option(LinkState)] /\ FarId \in Partners /\ to_far \in Seq(Frame)
  BY <1>1, CalmFacts
<1>6. links'[FarId] = None /\ NearLink' = NewLink
  <2>1. links'[FarId] = None
    BY <1>4, <1>5 DEF Remove
  <2> QED
    BY <2>1 DEF NearLink, Link, NewLink
<1>7. NearSound'
  BY <1>1, <1>6, NewNear, OursIsSound DEF NearSound
<1>8. FarLink' = FarLink
  BY <1>2, SameFarLink
<1>9. SlowToPartner'
  <2> DEFINE r == Rank(FarLink)
             before == FarLink.last_arrival_ms - Slack
             gap == Gap(FarLink.strikes)
  <2>1. Lane(to_far, r, before, now, gap)
    BY <1>1 DEF SlowToPartner
  <2> HIDE DEF r, before, gap
  <2>2. Lane(to_far', r, before, now, gap)
    BY <1>3, <1>5, <2>1, LaneCut
  <2> QED
    BY <1>1, <1>2, <1>4, <1>8, <2>2 DEF SlowToPartner, r, before, gap
<1>10. SlowFromPartner'
  BY <1>2, <1>6, NewNear, NothingComes DEF SlowFromPartner
<1> QED
  BY <1>1, <1>7, <1>9, <1>10 DEF SlowCalm

LEMMA FarDownSlow ==
  ASSUME SlowCalm, FarDown
  PROVE  SlowCalm'
<1>1. Base /\ Base' /\ NearSound /\ SlowToPartner /\ SlowFromPartner
  BY FarDownBase DEF SlowCalm
<1>2. /\ far_side' = "Down" /\ to_far' = <<>> /\ Far!link_down(LocalPeerId)
      /\ UNCHANGED <<now, links, known, ahead, side>>
  BY DEF FarDown, vars
<1>3. PICK n \in 0..Len(to_near) : to_near' = SubSeq(to_near, 1, n)
  BY DEF FarDown
<1>4. far_links'[LocalPeerId] = None /\ FarLink' = Far!NewLink
  <2>1. far_links'[LocalPeerId] = None
    BY <1>1, <1>2 DEF Base, FarBase, Far!link_down, Far!Remove
  <2> QED
    BY <2>1 DEF FarLink, Far!Link, Far!NewLink
<1>5. NearLink' = NearLink /\ NearSound'
  BY <1>1, <1>2, SameNearLink, SameNearSound DEF NearSound
<1>6. /\ Comes(to_near, Rank(NearLink)) => Comes(to_near', Rank(NearLink))
      /\ NoError(to_near) => NoError(to_near')
      /\ UnderWay(to_near, now) => UnderWay(to_near', now)
  <2>1. to_near \in Seq(Frame)
    BY <1>1, CalmFacts
  <2> QED
    BY <1>3, <2>1, ComesCut
<1>7. SlowToPartner'
  BY <1>1, <1>2, <1>4, <1>5, <1>6, NewIsReader, EmptyLane DEF SlowToPartner, Undoubled
<1>8. SlowFromPartner'
  BY <1>1, <1>2, <1>5, <1>6 DEF SlowFromPartner
<1> QED
  BY <1>1, <1>5, <1>7, <1>8 DEF SlowCalm

LEMMA FarUpSlow ==
  ASSUME SlowHosts, SlowCalm, FarUp
  PROVE  SlowCalm'
<1>1. Base /\ Base' /\ NearSound /\ SlowToPartner /\ SlowFromPartner
  BY FarUpBase DEF SlowCalm
<1>2. /\ far_side = "Up" /\ far_side' = "Speaking" /\ Far!link_up(LocalPeerId)
      /\ to_near' = IF side = "Down" THEN to_near ELSE to_near \o Written(far_out')
      /\ UNCHANGED <<now, links, known, ahead, side, to_far>>
  BY DEF FarUp, FarDoes, vars
<1>3. /\ DOMAIN far_links = {LocalPeerId} /\ (far_cache # None => far_cache.list = {})
      /\ now \in Nat /\ to_near \in Seq(Frame) /\ conn \in Nat
  BY <1>1, CalmFacts DEF Base, FarBase, NearBase
<1>4. PICK jitter \in Nat : far_links' = [far_links EXCEPT ![LocalPeerId] = FarLinkedUp(jitter)]
  BY <1>2, <1>3, FarUpWrites
<1> DEFINE l == FarLinkedUp(jitter)
<1>5. /\ Reader(l) /\ l.phase = FarLink.phase
      /\ l.last_arrival_ms = FarLink.last_arrival_ms
      /\ l.strikes = FarLink.strikes
  BY <1>1, FarFirstLink DEF SlowToPartner
<1> HIDE DEF l
<1>6. FarLink' = l
  BY <1>3, <1>4, <1>5, FarLinkSet DEF l, Reader
<1>7. NearLink' = NearLink /\ NearSound'
  BY <1>1, <1>2, SameNearLink, SameNearSound DEF NearSound
<1>8. Rank(l) = Rank(FarLink)
  BY <1>5 DEF Rank
<1>9. Rank(NearLink) = 0 /\ Errors(to_near) /\ UnderWay(to_near, now)
  BY <1>1, <1>2 DEF SlowFromPartner
<1>10. /\ Comes(to_near', 0) /\ UnderWay(to_near', now)
       /\ NoError(to_near) => NoError(to_near')
       /\ \A i \in DOMAIN to_near : /\ i \in DOMAIN to_near' /\ to_near'[i] = to_near[i]
                                    /\ OneError(to_near, i) => OneError(to_near', i)
  <2>1. CASE side = "Down"
    <3>1. to_near' = to_near
      BY <1>2, <2>1
    <3> QED
      BY <1>1, <1>9, <3>1 DEF SlowFromPartner
  <2>2. CASE side # "Down"
    <3> DEFINE h == Framed(FarHello)
               s == Framed(FarFirst)
               p == to_near \o <<h, s>>
    <3>1. Written(far_out') = <<h, s>> /\ FarHello \in Message /\ FarFirst \in Message
      BY <1>2, <1>3, FarUpWrites
    <3>2. /\ h.body = FarHello /\ s.body = FarFirst /\ h.sent = now /\ s.sent = now
          /\ h \in Frame /\ s \in Frame
      BY <1>3, <3>1, FrameType DEF Framed
    <3> HIDE DEF h, s
    <3>3. to_near' = p
      BY <1>2, <2>2, <3>1
    <3>4. /\ Comes(p, 0)
          /\ NoError(to_near) => NoError(p)
          /\ \A i \in DOMAIN to_near : /\ i \in DOMAIN p /\ p[i] = to_near[i]
                                       /\ OneError(to_near, i) => OneError(p, i)
      BY <1>3, <1>9, <3>2, ComesFirst
    <3>5. UnderWay(p, now)
      <4>1. /\ Len(to_near) \in Nat /\ DOMAIN p = 1..(Len(to_near) + 2)
            /\ DOMAIN to_near = 1..Len(to_near)
            /\ p[Len(to_near) + 1] = h /\ p[Len(to_near) + 2] = s
        BY <1>3, <3>2
      <4>2. ASSUME NEW i \in DOMAIN p, i \notin DOMAIN to_near PROVE p[i] = h \/ p[i] = s
        BY <4>1, <4>2
      <4>3. now <= now /\ now <= now + MaxDelay
        BY <1>3, NetworkAssumption
      <4> HIDE DEF p
      <4> QED
        BY <1>9, <3>2, <3>4, <4>2, <4>3 DEF UnderWay
    <3> QED
      BY <3>3, <3>4, <3>5, Zenon
  <2> QED
    BY <2>1, <2>2
<1>11. SlowToPartner'
  <2>1. Undoubled' <=> Undoubled
    BY <1>7 DEF Undoubled
  <2>2. Warned => Warned'
    <3> SUFFICES ASSUME Warned PROVE Warned'
      OBVIOUS
    <3>1. PICK i \in DOMAIN to_near :
             /\ OneError(to_near, i)
             /\ to_near[i].sent < NearLink.last_data_send_ms + Slack - Grace
      BY DEF Warned
    <3>2. i \in DOMAIN to_near' /\ to_near'[i] = to_near[i] /\ OneError(to_near', i)
      BY <1>10, <3>1
    <3> QED
      BY <1>2, <1>7, <2>1, <3>1, <3>2 DEF Warned
  <2>3. Eased => Eased'
    BY <1>7, <1>10 DEF Eased
  <2>4. ASSUME SlowLinked PROVE SlowLinked'
    BY <1>2, <1>5, <1>6, <1>7, <1>8, <1>10, <2>1, <2>2, <2>3, <2>4 DEF SlowLinked
  <2> QED
    BY <1>1, <1>2, <1>5, <1>6, <1>7, <1>8, <1>10, <2>1, <2>4 DEF SlowToPartner
<1>12. SlowFromPartner'
  BY <1>2, <1>7, <1>9, <1>10 DEF SlowFromPartner
<1> QED
  BY <1>1, <1>7, <1>11, <1>12 DEF SlowCalm

LEMMA NearReadsSlow ==
  ASSUME SlowHosts, SlowCalm, NearReads
  PROVE  SlowCalm'
<1> DEFINE f == Head(to_near)
           p == Tail(to_near)
           k == NearLink
           r == Rank(NearLink)
<1>1. Base /\ Base' /\ NearSound /\ SlowToPartner /\ SlowFromPartner
  BY NearReadsBase DEF SlowCalm
<1>2. /\ to_near # <<>> /\ to_near' = p
      /\ to_far' = IF far_side = "Down" THEN to_far ELSE to_far \o Written(out')
      /\ UNCHANGED <<ahead, far_links, side, far_side>>
  BY DEF NearReads, Near, farVars, hostVars
<1>3. /\ to_far \in Seq(Frame) /\ to_near \in Seq(Frame)
      /\ links \in [Partners -> Option(LinkState)] /\ FarId \in Partners
  BY <1>1, CalmFacts
<1>4. UNCHANGED <<now, known>>
  <2>1. on_message(FarId, f.body) \/ record_violation(FarId, Oversized)
    BY DEF NearReads, Near
  <2> QED
    BY <2>1 DEF on_message, record_violation, OutboundUnchanged
<1>5. FarLink' = FarLink
  BY <1>2, SameFarLink
<1>6. r \in 0..2 /\ Comes(to_near, r) /\ UnderWay(to_near, now)
  BY <1>1 DEF SlowFromPartner, Rank
<1>7. /\ \/ f.body = TooEarly /\ Comes(p, r)
         \/ f.body = FarHello /\ r = 0 /\ Comes(p, 1)
         \/ f.body = FarFirst /\ r = 1 /\ Comes(p, 2)
      /\ Errors(to_near) => f.body = TooEarly /\ Errors(p)
      /\ NoError(to_near) => f.body # TooEarly /\ NoError(p)
      /\ \A i \in DOMAIN to_near : OneError(to_near, i) =>
             \/ f.body = TooEarly /\ f = to_near[i] /\ NoError(p)
             \/ /\ f.body # TooEarly /\ i - 1 \in DOMAIN p
                /\ p[i - 1] = to_near[i] /\ OneError(p, i - 1)
      /\ UnderWay(p, now)
  <2> HIDE DEF r
  <2> QED
    BY <1>2, <1>3, <1>6, ComesPop, Zenon
<1>8. side # "Down"
  BY <1>1, <1>2 DEF Base, NearBase
<1> HIDE DEF f, p
<1>9. CASE f.body = TooEarly
  <2>1. PICK l : NearMinds(l)
    BY <1>1, <1>9, NearReadsMinds DEF f
  <2>2. NearLink' = l /\ links'[FarId] # None
    BY <1>3, <2>1, NearLinkSet DEF NearMinds
  <2>3. NearSound'
    BY <1>1, <2>1, <2>2, OursIsSound DEF NearSound, NearMinds
  <2>4. to_far' = to_far
    <3>1. Written(out') = <<>>
      BY <2>1 DEF NearMinds
    <3> QED
      BY <1>2, <1>3, <3>1, NothingWritten, Zenon
  <2>5. SlowFromPartner'
    BY <1>1, <1>2, <1>4, <1>7, <1>9, <2>1, <2>2, OtherFrames
       DEF SlowFromPartner, NearMinds, Rank
  <2>6. side = "Speaking"
    BY <1>1, <1>7, <1>8, <1>9 DEF SlowToPartner, Base, NearBase, HostStates
  <2>7. ASSUME SlowLinked PROVE SlowLinked'
    <3>1. FarLink.strikes # 0 /\ Warned
      BY <1>7, <1>9, <2>7 DEF SlowLinked, Eased
    <3>2. NoError(p)
      BY <1>7, <1>9, <3>1 DEF Warned
    <3>3. k.last_data_send_ms \in Nat
      BY <1>1, <2>6 DEF SlowToPartner
    <3>4. now < k.last_data_send_ms + Pause - Grace
      BY <1>1, <1>6, <3>1, <3>3, WarnedWaits
    <3>5. Undoubled
      BY <3>1 DEF Warned
    <3>6. Honored(k, RateViolation)
      BY <1>1, <3>3, <3>4, <3>5, ErrorCounts
    <3>7. l.self_interval_secs = Slowed
      BY <2>1, <3>5, <3>6 DEF NearMinds, Undoubled
    <3>8. Eased'
      BY <1>2, <2>2, <3>2, <3>7 DEF Eased
    <3> QED
      BY <1>5, <2>1, <2>2, <2>4, <2>7, <3>1, <3>8 DEF SlowLinked, NearMinds
  <2>8. SlowToPartner'
    BY <1>1, <1>2, <1>4, <1>5, <2>1, <2>2, <2>4, <2>6, <2>7 DEF SlowToPartner, NearMinds
  <2> QED
    BY <1>1, <2>3, <2>5, <2>8 DEF SlowCalm
<1>10. CASE f.body # TooEarly
  <2>1. \/ f.body = FarHello /\ r = 0 /\ Comes(p, 1)
        \/ f.body = FarFirst /\ r = 1 /\ Comes(p, 2)
    BY <1>7, <1>10
  <2>2. PICK l : NearTakes(l)
    BY <1>1, <2>1, NearReadsTakes DEF f
  <2>3. NearLink' = l /\ links'[FarId] # None
    BY <1>3, <2>2, NearLinkSet DEF NearTakes
  <2>4. NearSound'
    BY <1>1, <2>2, <2>3, OursIsSound DEF NearSound, NearTakes
  <2>5. to_far' = to_far
    <3>1. Written(out') = <<>>
      BY <2>2 DEF NearTakes
    <3> QED
      BY <1>2, <1>3, <3>1, NothingWritten, Zenon
  <2>6. SlowFromPartner'
    <3>1. Comes(p, r + 1)
      BY <2>1
    <3>2. Rank(NearLink)' = r + 1
      BY <2>2, <2>3 DEF NearTakes
    <3>3. far_side' # "Up"
      BY <1>1, <1>2, <1>7, <1>10 DEF SlowFromPartner
    <3> QED
      BY <1>2, <1>4, <1>7, <3>1, <3>2, <3>3 DEF SlowFromPartner
  <2>7. Undoubled' <=> Undoubled
    BY <2>2, <2>3 DEF NearTakes, SamePace, Undoubled
  <2>8. Warned => Warned'
    <3> SUFFICES ASSUME Warned PROVE Warned'
      OBVIOUS
    <3>1. PICK i \in DOMAIN to_near :
             /\ OneError(to_near, i)
             /\ to_near[i].sent < k.last_data_send_ms + Slack - Grace
      BY DEF Warned
    <3>2. /\ i - 1 \in DOMAIN to_near' /\ to_near'[i - 1] = to_near[i]
          /\ OneError(to_near', i - 1)
      BY <1>2, <1>7, <1>10, <3>1
    <3>3. to_near'[i - 1].sent < NearLink'.last_data_send_ms + Slack - Grace
      BY <2>2, <2>3, <3>1, <3>2 DEF NearTakes
    <3> DEFINE j == i - 1
    <3> HIDE DEF j
    <3>4. j \in DOMAIN to_near' /\ OneError(to_near', j)
          /\ to_near'[j].sent < NearLink'.last_data_send_ms + Slack - Grace
      BY <3>2, <3>3 DEF j
    <3> QED
      BY <2>5, <2>7, <3>4 DEF Warned
  <2>9. Eased => Eased'
    BY <1>2, <1>7, <2>2, <2>3 DEF Eased, NearTakes, SamePace
  <2>10. ASSUME SlowLinked PROVE SlowLinked'
    BY <1>2, <1>5, <1>7, <2>2, <2>3, <2>5, <2>7, <2>8, <2>9, <2>10 DEF SlowLinked, NearTakes
  <2>11. SlowToPartner'
    BY <1>1, <1>2, <1>4, <1>5, <1>7, <2>2, <2>3, <2>5, <2>7, <2>10 DEF SlowToPartner, NearTakes
  <2> QED
    BY <1>1, <2>4, <2>6, <2>11 DEF SlowCalm
<1> QED
  BY <1>9, <1>10

LEMMA NothingLeft ==
  ASSUME NEW S, NEW q \in Seq(S)
  PROVE  q = <<>> <=> Len(q) = 0
OBVIOUS

(* The frame the partner reads is the one that is due. *)
LEMMA DueFrame ==
  ASSUME Base, SlowToPartner, FarReads
  PROVE  /\ Head(to_far) \in Frame /\ to_far \in Seq(Frame) /\ now \in Nat /\ ahead \in Nat
         /\ GoodBody(Head(to_far).body, Rank(FarLink) + 1)
         /\ Head(to_far).sent \in Nat
         /\ Head(to_far).sent <= now /\ now <= Head(to_far).sent + MaxDelay
         /\ Rank(FarLink) = 2 =>
                /\ FarLink.last_arrival_ms \in Nat
                /\ FarLink.last_arrival_ms - Slack + Gap(FarLink.strikes) <= Head(to_far).sent
<1> DEFINE f == Head(to_far)
<1>1. /\ to_far \in Seq(Frame) /\ f \in Frame /\ f = to_far[1] /\ 1 \in DOMAIN to_far
      /\ now \in Nat /\ ahead \in Nat
  BY CalmFacts, Popped DEF FarReads
<1>2. /\ Reader(FarLink)
      /\ Lane(to_far, Rank(FarLink), FarLink.last_arrival_ms - Slack, now, Gap(FarLink.strikes))
  BY DEF SlowToPartner
<1>3. f.sent \in Nat
  BY <1>1 DEF Frame
<1>4. /\ GoodBody(f.body, Rank(FarLink) + 1) /\ f.sent <= now /\ now <= f.sent + MaxDelay
      /\ Rank(FarLink) + 1 >= 3 =>
             FarLink.last_arrival_ms - Slack + Gap(FarLink.strikes) <= f.sent
  BY <1>1, <1>2 DEF Lane, InKind, UnderWay, Apart, Previous
<1> QED
  BY <1>1, <1>2, <1>3, <1>4 DEF Reader

(* The partner strikes for the only frame on its way, and its error comes in
   time. *)
LEMMA StrikesSlow ==
  ASSUME SlowHosts, SlowCalm, FarReads,
         Rank(FarLink) = 2, FarLink.strikes = 0, Far!TooSoon(FarLink)
  PROVE  SlowCalm'
<1> DEFINE f == Head(to_far)
           q == to_far
           g == Framed(TooEarly)
           last == NearLink.last_data_send_ms
           arrival == FarLink.last_arrival_ms
<1>1. Base /\ Base' /\ NearSound /\ SlowToPartner /\ SlowFromPartner
  BY FarReadsBase DEF SlowCalm
<1>2. /\ q # <<>> /\ to_far' = Tail(q)
      /\ to_near' = IF side = "Down" THEN to_near ELSE to_near \o Written(far_out')
      /\ UNCHANGED <<now, links, known, ahead, side, far_side>>
  BY DEF FarReads, FarDoes, vars, hostVars
<1>3. /\ DOMAIN far_links = {LocalPeerId} /\ q \in Seq(Frame) /\ to_near \in Seq(Frame)
      /\ now \in Nat /\ ahead \in Nat
  BY <1>1, CalmFacts
<1>4. /\ GoodBody(f.body, 3) /\ f.sent \in Nat /\ f.sent <= now /\ now <= f.sent + MaxDelay
      /\ arrival \in Nat /\ arrival - Slack + Pause <= f.sent
  <2>1. Rank(FarLink) + 1 = 3 /\ Gap(FarLink.strikes) = Pause
    BY DEF Gap
  <2> QED
    BY <1>1, <2>1, DueFrame
<1>5. now + ahead < arrival + Pause - Grace
  BY <1>1, FarSoon DEF SlowToPartner
<1>6. PICK l : FarStrikes(l)
  BY <1>1, <1>4, FarReadsStrikes DEF SlowHosts, SlowToPartner
<1>7. /\ Reader(l) /\ Rank(l) = 2 /\ l.strikes = 1 /\ l.last_arrival_ms = arrival
      /\ Written(far_out') = <<g>>
  BY <1>6 DEF FarStrikes
<1>8. FarLink' = l
  BY <1>3, <1>6, FarLinkSet DEF FarStrikes, Reader
<1>9. NearLink' = NearLink /\ NearSound' /\ (Undoubled' <=> Undoubled)
  BY <1>1, <1>2, SameNearLink, SameNearSound DEF NearSound, Undoubled
<1>10. Len(q) = 1
  <2> SUFFICES ASSUME Len(q) # 1 PROVE FALSE
    OBVIOUS
  <2>1. 2 \in DOMAIN q /\ q[2] \in Frame /\ q[1] = f
    <3>1. Len(q) \in Nat /\ Len(q) >= 1 /\ DOMAIN q = 1..Len(q) /\ f = q[1]
      BY <1>2, <1>3, Popped
    <3>2. 2 \in DOMAIN q
      BY <3>1
    <3> HIDE DEF f
    <3> QED
      BY <1>3, <3>1, <3>2
  <2>2. Lane(q, 2, arrival - Slack, now, Pause)
    BY <1>1 DEF SlowToPartner, Gap
  <2>3. Previous(q, 2, arrival - Slack) = f.sent
    BY <2>1 DEF Previous
  <2>4. f.sent + Pause <= q[2].sent /\ q[2].sent <= now /\ q[2].sent \in Nat
    BY <2>1, <2>2, <2>3 DEF Lane, UnderWay, Apart, Frame
  <2> DEFINE s == f.sent
             t == q[2].sent
  <2>5. s \in Nat /\ t \in Nat /\ s + Pause <= t /\ t <= now /\ now <= s + MaxDelay
    BY <1>4, <2>4
  <2>6. MaxDelay \in Nat /\ Pause \in Nat /\ MaxDelay < Pause
    BY SlowType
  <2> HIDE DEF s, t, f, q
  <2> QED
    BY <1>3, <2>5, <2>6
<1>11. Tail(q) = <<>>
  <2>1. Tail(q) \in Seq(Frame) /\ Len(Tail(q)) = 0
    BY <1>2, <1>3, <1>10, Popped
  <2> QED
    BY <2>1, NothingLeft, Zenon
<1>12. g.body = TooEarly /\ g.sent = now
  BY DEF Framed
<1> DEFINE S == Frame \cup {g}
           p == to_near \o <<g>>
<1>13. to_near \in Seq(S) /\ g \in S
  BY <1>3
<1> HIDE DEF g
<1>14. /\ Comes(p, Rank(NearLink)) /\ (Errors(to_near) => Errors(p))
       /\ NoError(to_near) => OneError(p, Len(to_near) + 1)
  <2> HIDE DEF S
  <2> QED
    BY <1>1, <1>12, <1>13, ComesPush DEF SlowFromPartner
<1>15. /\ Len(to_near) + 1 \in DOMAIN p /\ p[Len(to_near) + 1] = g
       /\ UnderWay(p, now)
  <2> HIDE DEF S
  <2>1. /\ Len(to_near) \in Nat /\ DOMAIN p = 1..(Len(to_near) + 1)
        /\ DOMAIN to_near = 1..Len(to_near)
        /\ \A i \in 1..Len(to_near) : p[i] = to_near[i]
        /\ p[Len(to_near) + 1] = g
    BY <1>13, Pushed
  <2>2. now <= now /\ now <= now + MaxDelay
    BY <1>3, NetworkAssumption
  <2>3. \A i \in DOMAIN p : i \in DOMAIN to_near \/ p[i] = g
    BY <2>1
  <2>4. UnderWay(to_near, now)
    BY <1>1 DEF SlowFromPartner
  <2> HIDE DEF p
  <2>5. UnderWay(p, now)
    BY <1>12, <2>1, <2>2, <2>3, <2>4 DEF UnderWay
  <2> QED
    BY <2>1, <2>5
<1> HIDE DEF p
<1>16. to_near' = IF side = "Down" THEN to_near ELSE p
  BY <1>2, <1>7 DEF p
<1>17. SlowFromPartner'
  BY <1>1, <1>2, <1>9, <1>14, <1>15, <1>16 DEF SlowFromPartner
<1>18. ASSUME SlowLinked, side = "Speaking"
       PROVE  SlowLinked'
  <2>1. last \in Nat /\ Latest(q, arrival - Slack) <= last /\ Undoubled /\ NoError(to_near)
    BY <1>1, <1>18 DEF SlowLinked, SlowToPartner
  <2>2. f.sent <= last
    <3>1. Latest(q, arrival - Slack) = f.sent
      BY <1>3, <1>10 DEF Latest, Previous
    <3> QED
      BY <2>1, <3>1
  <2>3. now < last + Slack - Grace /\ arrival - Slack <= last
    <3> DEFINE s == f.sent
    <3>1. s \in Nat /\ arrival - Slack + Pause <= s /\ s <= last
      BY <1>4, <2>2
    <3>2. arrival \in Nat /\ last \in Nat
      BY <1>4, <2>1
    <3>3. Pause \in Nat /\ Slack \in Nat /\ Grace \in Nat
      BY SlowType
    <3> HIDE DEF s, last, arrival
    <3> QED
      BY <1>3, <1>5, <3>1, <3>2, <3>3
  <2>4. Latest(to_far', FarLink.last_arrival_ms' - Slack) <= last
    <3>1. Latest(<<>>, arrival - Slack) = arrival - Slack
      BY DEF Latest, Previous
    <3> QED
      BY <1>2, <1>7, <1>8, <1>11, <2>3, <3>1
  <2>5. Warned'
    <3> DEFINE n == Len(to_near) + 1
    <3>1. n \in DOMAIN p /\ OneError(p, n) /\ p[n].sent < last + Slack - Grace
      BY <1>12, <1>14, <1>15, <2>1, <2>3
    <3> HIDE DEF n
    <3>2. to_near' = p
      BY <1>16, <1>18
    <3> QED
      BY <1>2, <1>9, <1>11, <2>1, <3>1, <3>2 DEF Warned
  <2>6. Rank(FarLink)' = 2 /\ Len(to_far') = 0 /\ FarLink'.strikes = 1
    BY <1>2, <1>7, <1>8, <1>11
  <2> QED
    BY <1>9, <2>4, <2>5, <2>6 DEF SlowLinked
<1>19. SlowToPartner'
  <2>1. Lane(to_far', Rank(FarLink)', FarLink.last_arrival_ms' - Slack, now', Gap(FarLink.strikes)')
    BY <1>2, <1>11, EmptyLane
  <2>2. side # "Up"
    BY <1>1, <1>2 DEF SlowToPartner
  <2> QED
    BY <1>1, <1>2, <1>7, <1>8, <1>9, <1>18, <2>1, <2>2 DEF SlowToPartner
<1> QED
  BY <1>1, <1>9, <1>17, <1>19 DEF SlowCalm

LEMMA FarReadsSlow ==
  ASSUME SlowHosts, SlowCalm, FarReads
  PROVE  SlowCalm'
<1> SUFFICES ASSUME ~(Rank(FarLink) = 2 /\ FarLink.strikes = 0 /\ Far!TooSoon(FarLink))
             PROVE  SlowCalm'
  BY StrikesSlow
<1>1. Base /\ Base' /\ NearSound /\ SlowToPartner /\ SlowFromPartner
  BY FarReadsBase DEF SlowCalm
<1> DEFINE f == Head(to_far)
           r == Rank(FarLink)
           q == to_far
           arrival == FarLink.last_arrival_ms
           before == arrival - Slack
           gap == Gap(FarLink.strikes)
<1>2. PICK l : FarTakes(f, l)
  <2>1. GoodBody(f.body, r + 1) /\ Reader(FarLink)
    BY <1>1, DueFrame DEF SlowToPartner
  <2>2. ASSUME r = 2, Far!TooSoon(FarLink) PROVE FALSE
    <3>1. FarLink.strikes # 0 /\ gap = SlowPause
      BY <2>2 DEF Gap
    <3>2. now + ahead < arrival + Pause - Grace
      BY <1>1, <2>1, <2>2, FarSoon
    <3>3. /\ arrival \in Nat /\ before + SlowPause <= f.sent /\ f.sent \in Nat /\ f.sent <= now
          /\ now \in Nat /\ ahead \in Nat
      BY <1>1, <2>2, <3>1, DueFrame
    <3> DEFINE s == f.sent
    <3>4. s \in Nat /\ arrival - Slack + SlowPause <= s /\ s <= now
      BY <3>3
    <3> HIDE DEF s, f, arrival
    <3> QED
      BY <3>2, <3>3, <3>4, SlowType
  <2> QED
    BY <1>1, <2>1, <2>2, FarReadsTakes
<1> DEFINE after == l.last_arrival_ms - Slack
<1>3. /\ q # <<>> /\ to_far' = Tail(q)
      /\ to_near' = IF side = "Down" THEN to_near ELSE to_near \o Written(far_out')
      /\ UNCHANGED <<now, links, known, ahead, side, far_side>>
  BY DEF FarReads, FarDoes, vars, hostVars
<1>4. /\ DOMAIN far_links = {LocalPeerId} /\ q \in Seq(Frame) /\ to_near \in Seq(Frame)
      /\ now \in Nat /\ ahead \in Nat
  BY <1>1, CalmFacts
<1>5. /\ Reader(l) /\ Rank(l) = NextRank(r) /\ l.strikes = FarLink.strikes
      /\ (Rank(l) = 2 => l.last_arrival_ms = now + ahead)
  BY <1>2 DEF FarTakes
<1>6. FarLink' = l
  BY <1>2, <1>4, <1>5, FarLinkSet DEF FarTakes, Reader
<1>7. NearLink' = NearLink /\ NearSound' /\ (Undoubled' <=> Undoubled)
  BY <1>1, <1>3, SameNearLink, SameNearSound DEF NearSound, Undoubled
<1>8. to_near' = to_near
  <2>1. Written(far_out') = <<>>
    BY <1>2 DEF FarTakes
  <2> QED
    BY <1>3, <1>4, <2>1, NothingWritten, Zenon
<1>9. SlowFromPartner'
  BY <1>1, <1>3, <1>8, SameSlowFromPartner
<1>10. r \in 0..2 /\ NextRank(r) \in 1..2 /\ Lane(q, r, before, now, gap)
  BY <1>1 DEF Rank, NextRank, SlowToPartner
<1>11. /\ Lane(Tail(q), NextRank(r), after, now, gap)
       /\ NextRank(r) = 2 \/ Tail(q) # <<>> => Latest(Tail(q), after) <= Latest(q, before)
  <2>1. ahead + MaxDelay <= Slack /\ gap \in Nat /\ Slack \in Nat
    BY <1>1, SlowType DEF NearSound, Gap
  <2>2. NextRank(r) = 2 => after = now + ahead - Slack
    <3>1. NextRank(r) = 2 => l.last_arrival_ms = now + ahead
      BY <1>5
    <3> HIDE DEF r
    <3> QED
      BY <1>4, <2>1, <3>1
  <2> HIDE DEF q, r, before, after, gap
  <2> QED
    BY <1>3, <1>4, <1>10, <2>1, <2>2, LanePop
<1>12. /\ Tail(q) \in Seq(Frame) /\ Len(q) \in Nat /\ Len(q) >= 1
       /\ Len(Tail(q)) = Len(q) - 1
  BY <1>3, <1>4, Popped
<1>13. ASSUME SlowLinked, side = "Speaking"
      PROVE  SlowLinked'
  <2>1. r + Len(q) >= 2 /\ Latest(q, before) <= NearLink.last_data_send_ms
    BY <1>13 DEF SlowLinked
  <2>2. NextRank(r) + Len(Tail(q)) >= 2
    <3> HIDE DEF r, q
    <3> QED
      BY <1>10, <1>12, <2>1 DEF NextRank
  <2>3. NextRank(r) = 2 \/ Tail(q) # <<>>
    <3>1. Tail(q) = <<>> => Len(Tail(q)) = 0
      BY <1>12, NothingLeft, Zenon
    <3> HIDE DEF r, q
    <3> QED
      BY <1>10, <1>12, <2>2, <3>1
  <2>4. Latest(Tail(q), after) <= NearLink.last_data_send_ms
    <3>1. Latest(Tail(q), after) \in Int
      <4>1. Tail(q) = <<>> => after \in Int
        <5>1. Tail(q) = <<>> => l.last_arrival_ms \in Nat
          BY <1>5, <2>3 DEF Reader
        <5>2. Slack \in Nat
          BY SlowType
        <5> HIDE DEF q
        <5> QED
          BY <5>1, <5>2
      <4> HIDE DEF q, after
      <4> QED
        BY <1>12, <4>1, LatestType
    <3>2. Latest(q, before) \in Int
      BY <1>3, <1>4, LatestType
    <3>3. Latest(Tail(q), after) <= Latest(q, before)
      BY <1>11, <2>3
    <3>4. NearLink.last_data_send_ms \in Nat
      BY <1>1, <1>13 DEF SlowToPartner
    <3> DEFINE x == Latest(Tail(q), after)
               y == Latest(q, before)
               z == NearLink.last_data_send_ms
    <3>5. x \in Int /\ y \in Int /\ z \in Nat /\ x <= y /\ y <= z
      BY <2>1, <3>1, <3>2, <3>3, <3>4
    <3> HIDE DEF x, y, z
    <3>6. x <= z
      BY <3>5
    <3> QED
      BY <3>6 DEF x, z
  <2>5. /\ FarLink.strikes = 0 => Undoubled' /\ NoError(to_near')
        /\ FarLink.strikes # 0 => Eased'
    BY <1>3, <1>7, <1>8, <1>13 DEF SlowLinked, Warned, Eased
  <2>6. /\ Latest(to_far', FarLink.last_arrival_ms' - Slack) <= NearLink'.last_data_send_ms
        /\ Rank(FarLink)' + Len(to_far') >= 2
    BY <1>3, <1>5, <1>6, <1>7, <2>2, <2>4
  <2> QED
    BY <1>5, <1>6, <2>5, <2>6 DEF SlowLinked
<1>14. SlowToPartner'
  <2>1. Lane(to_far', Rank(FarLink)', FarLink.last_arrival_ms' - Slack, now', Gap(FarLink.strikes)')
    BY <1>3, <1>5, <1>6, <1>11
  <2>2. FarLink.strikes = 0 \/ (FarLink.strikes = 1 /\ Rank(l) = 2)
    BY <1>1, <1>5 DEF SlowToPartner, NextRank
  <2>3. side # "Up"
    BY <1>1, <1>3 DEF SlowToPartner
  <2> QED
    BY <1>1, <1>3, <1>5, <1>6, <1>7, <1>13, <2>1, <2>2, <2>3 DEF SlowToPartner
<1> QED
  BY <1>1, <1>7, <1>9, <1>14 DEF SlowCalm

LEMMA SlowNext == SlowHosts /\ SlowCalm /\ [NetNext]_netVars => SlowCalm'
<1> SUFFICES ASSUME SlowHosts, SlowCalm, [NetNext]_netVars PROVE SlowCalm'
  OBVIOUS
<1>1. CASE Connect
  BY <1>1, ConnectSlow
<1>2. CASE Knows
  BY <1>2, KnowsSlow
<1>3. CASE Ticks
  BY <1>3, TicksSlow
<1>4. CASE NearUp
  BY <1>4, NearUpSlow
<1>5. CASE FarUp
  BY <1>5, FarUpSlow
<1>6. CASE NearDown
  BY <1>6, NearDownSlow
<1>7. CASE FarDown
  BY <1>7, FarDownSlow
<1>8. CASE NearReads
  BY <1>8, NearReadsSlow
<1>9. CASE FarReads
  BY <1>9, FarReadsSlow
<1>10. CASE TimePasses
  BY <1>10, TimePassesSlow
<1>11. CASE FarClockSet
  BY <1>11, FarClockSetSlow
<1>12. CASE UNCHANGED netVars
  BY <1>12, StutterSlow
<1> QED
  BY <1>1, <1>2, <1>3, <1>4, <1>5, <1>6, <1>7, <1>8, <1>9, <1>10, <1>11, <1>12 DEF NetNext

(* SPEC 6.4: when delays break the floor, the partner strikes once and no more,
   and never mutes: its code-3 reply makes our engine back off before it sends
   again (engine.rs:425, 507).  Whatever the intervals, the entries and the
   calls, as long as the delay is one that the back-off can make good. *)
THEOREM PartnersStruckOnce ==
  ASSUME OrderlyHosts \/ SlowHosts
  PROVE  NetSpec => []StruckOnce
<1>1. CASE OrderlyHosts
  <2>1. Calm /\ [NetNext]_netVars => Calm'
    BY <1>1, CalmNext
  <2>2. Calm => StruckOnce
    BY DEF Calm, ToPartner, Reader, StruckOnce
  <2> QED
    BY <2>1, <2>2, CalmInit, PTL DEF NetSpec
<1>2. CASE SlowHosts
  <2>1. SlowCalm /\ [NetNext]_netVars => SlowCalm'
    BY <1>2, SlowNext
  <2>2. SlowCalm => StruckOnce
    BY DEF SlowCalm, SlowToPartner, Reader, StruckOnce
  <2> QED
    BY <2>1, <2>2, SlowInit, PTL DEF NetSpec
<1> QED
  BY <1>1, <1>2
===============================================================================
