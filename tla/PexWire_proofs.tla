----------------------------- MODULE PexWire_proofs -----------------------------
(***************************************************************************)
(* The codec, for any width of byte and prefix, any bodies, any bound and  *)
(* any way the bytes arrive: what decode returns is what a pipe of whole   *)
(* messages would return (PexPipe), and the body of a frame over the bound *)
(* is never taken from the stream.                                         *)
(***************************************************************************)
EXTENDS PexWire, TLAPS, WellFoundedInduction

-----------------------------------------------------------------------------
(* The length prefix.  FromBytes and the shifts of ToBytes are recursive   *)
(* functions; the first lemmas show that they are what their equations     *)
(* say, by looking at the least index where that fails.                    *)

LEMMA LeastFailure ==
  ASSUME NEW T \in SUBSET Nat, T # {}
  PROVE  \E n \in T : \A m \in T : n <= m
<1>1. PICK n \in T : \A m \in T : <<m, n>> \notin OpToRel(<, Nat)
  BY WFMin, NatLessThanWellFounded, Zenon
<1>2. ASSUME NEW m \in T PROVE n <= m
  <2>1. m \in Nat /\ n \in Nat
    OBVIOUS
  <2>2. ~(m < n)
    BY <1>1, <2>1 DEF OpToRel
  <2> QED
    BY <2>1, <2>2
<1> QED
  BY <1>2, Zenon

ShiftUpTo(f, n, k) == f = [i \in 0..k |-> IF i = 0 THEN n ELSE f[i - 1] \div Base]

LEMMA ShiftDefined ==
  ASSUME NEW n \in Nat
  PROVE  ShiftUpTo(Shifted(n), n, PrefixLen)
<1> DEFINE Fails == {k \in Nat : ~\E f : ShiftUpTo(f, n, k)}
<1>1. Fails = {}
  <2>1. SUFFICES ASSUME Fails # {} PROVE FALSE
    OBVIOUS
  <2>2. PICK k \in Fails : \A m \in Fails : k <= m
    <3>1. Fails \in SUBSET Nat
      OBVIOUS
    <3> QED
      BY <2>1, <3>1, LeastFailure
  <2>3. CASE k = 0
    <3> DEFINE g == [i \in 0..0 |-> n]
    <3>1. ShiftUpTo(g, n, 0)
      BY DEF ShiftUpTo
    <3> QED
      BY <3>1, <2>3
  <2>4. CASE k # 0
    <3>1. k \in Nat /\ k - 1 \in Nat /\ k - 1 \notin Fails
      BY <2>2, <2>4
    <3>2. PICK f : ShiftUpTo(f, n, k - 1)
      BY <3>1
    <3> DEFINE g == [i \in 0..k |-> IF i = k THEN f[k - 1] \div Base ELSE f[i]]
    <3>3. ASSUME NEW i \in 0..k
          PROVE  g[i] = IF i = 0 THEN n ELSE g[i - 1] \div Base
      <4>1. CASE i = k
        <5>1. k - 1 \in 0..k /\ k - 1 # k /\ k \in 0..k
          BY <3>1
        <5>2. g[k - 1] = f[k - 1] /\ g[k] = f[k - 1] \div Base
          BY <5>1
        <5> QED
          BY <4>1, <5>2, <2>4
      <4>2. CASE i # k
        <5>1. i \in 0..k - 1
          BY <4>2, <3>1
        <5>2. g[i] = f[i]
          BY <4>2
        <5>3. f[i] = IF i = 0 THEN n ELSE f[i - 1] \div Base
          BY <3>2, <5>1 DEF ShiftUpTo
        <5>4. i # 0 => g[i - 1] = f[i - 1]
          BY <5>1, <3>1
        <5> QED
          BY <5>2, <5>3, <5>4
      <4> QED
        BY <4>1, <4>2
    <3>4. g = [i \in 0..k |-> IF i = 0 THEN n ELSE g[i - 1] \div Base]
      <4> DEFINE h == [i \in 0..k |-> IF i = 0 THEN n ELSE g[i - 1] \div Base]
      <4>1. DOMAIN g = 0..k /\ DOMAIN h = 0..k
        OBVIOUS
      <4>2. \A i \in 0..k : g[i] = h[i]
        BY <3>3
      <4> HIDE DEF g, h
      <4>3. g = h
        <5>1. g = [i \in 0..k |-> g[i]] /\ h = [i \in 0..k |-> h[i]]
          BY <4>1 DEF g, h
        <5> QED
          BY <4>2, <5>1
      <4> QED
        BY <4>3 DEF h
    <3> HIDE DEF g
    <3> QED
      BY <3>4 DEF ShiftUpTo
  <2> QED
    BY <2>3, <2>4
<1>2. \E f : ShiftUpTo(f, n, PrefixLen)
  BY <1>1, WireAssumption
<1>3. Shifted(n) = CHOOSE f : ShiftUpTo(f, n, PrefixLen)
  BY DEF Shifted, ShiftUpTo
<1> QED
  BY <1>2, <1>3

LEMMA LastByte ==
  ASSUME NEW n \in Nat, NEW b \in Nat \ {0}
  PROVE  n \div b \in Nat /\ n = b * (n \div b) + (n % b)
<1>1. n \div b \in Nat
  OBVIOUS
<1>2. n = b * (n \div b) + (n % b)
  OBVIOUS
<1> QED
  BY <1>1, <1>2

(* Every shift is a number, and each is the one before without its last
   byte. *)
LEMMA ShiftStep ==
  ASSUME NEW n \in Nat
  PROVE  /\ Shifted(n)[0] = n
         /\ \A i \in 0..PrefixLen : Shifted(n)[i] \in Nat
         /\ \A i \in 1..PrefixLen : Shifted(n)[i] = Shifted(n)[i - 1] \div Base
<1> DEFINE s == Shifted(n)
<1>1. s = [i \in 0..PrefixLen |-> IF i = 0 THEN n ELSE s[i - 1] \div Base]
  BY ShiftDefined DEF ShiftUpTo
<1> HIDE DEF s
<1>2. \A i \in 0..PrefixLen : s[i] = IF i = 0 THEN n ELSE s[i - 1] \div Base
  BY <1>1
<1>3. s[0] = n
  BY <1>2, WireAssumption
<1>4. \A i \in 1..PrefixLen : s[i] = s[i - 1] \div Base
  BY <1>2, WireAssumption
<1> DEFINE Fails == {i \in 0..PrefixLen : s[i] \notin Nat}
<1>5. Fails = {}
  <2>1. SUFFICES ASSUME Fails # {} PROVE FALSE
    OBVIOUS
  <2>2. PICK k \in Fails : \A m \in Fails : k <= m
    <3>1. Fails \in SUBSET Nat
      BY WireAssumption
    <3> QED
      BY <2>1, <3>1, LeastFailure
  <2>3. k # 0
    BY <1>3
  <2>4. k \in 1..PrefixLen /\ k - 1 \in 0..PrefixLen /\ k - 1 \notin Fails
    BY <2>2, <2>3, WireAssumption
  <2>5. s[k - 1] \in Nat
    BY <2>4
  <2>6. s[k] \in Nat
    <3>1. Base \in Nat \ {0}
      BY WireAssumption
    <3> QED
      BY <2>4, <2>5, <1>4, <3>1, LastByte
  <2> QED
    BY <2>6
<1> QED
  BY <1>3, <1>4, <1>5 DEF s

SumUpTo(f, bytes) == f = [i \in 0..Len(bytes) |-> IF i = 0 THEN 0 ELSE Base * f[i - 1] + bytes[i]]

(* from_be_bytes undoes to_be_bytes: read big-endian, the first i bytes are
   the length shifted right by the others. *)
LEMMA LengthRoundTrip ==
  ASSUME NEW n \in Nat, Shifted(n)[PrefixLen] = 0
  PROVE  FromBytes(ToBytes(n)) = n
<1> DEFINE s == Shifted(n)
           bytes == ToBytes(n)
           w == [i \in 0..PrefixLen |-> s[PrefixLen - i]]
<1>1. PrefixLen \in Nat /\ Base \in Nat \ {0, 1}
  BY WireAssumption
<1>2. Len(bytes) = PrefixLen /\ \A i \in 1..PrefixLen : bytes[i] = s[PrefixLen - i] % Base
  BY <1>1 DEF ToBytes
<1>3. \A i \in 0..PrefixLen : s[i] \in Nat
  BY ShiftStep
<1>4. \A i \in 1..PrefixLen : s[i] = s[i - 1] \div Base
  BY ShiftStep
<1>5. s[0] = n /\ s[PrefixLen] = 0
  BY ShiftStep
<1> HIDE DEF s, bytes
<1>6. ASSUME NEW i \in 0..PrefixLen
      PROVE  w[i] = IF i = 0 THEN 0 ELSE Base * w[i - 1] + bytes[i]
  <2>1. CASE i = 0
    BY <1>5, <2>1, <1>1
  <2>2. CASE i # 0
    <3> DEFINE j == PrefixLen - i
    <3>1. i \in 1..PrefixLen /\ j \in 0..PrefixLen /\ j + 1 \in 1..PrefixLen /\ PrefixLen - (i - 1) = j + 1
      BY <2>2, <1>1
    <3>2. w[i] = s[j] /\ w[i - 1] = s[j + 1] /\ bytes[i] = s[j] % Base
      BY <3>1, <1>2
    <3>3. s[j + 1] = s[j] \div Base /\ s[j] \in Nat
      <4>1. (j + 1) - 1 = j
        BY <3>1
      <4> QED
        BY <3>1, <4>1, <1>3, <1>4
    <3> HIDE DEF j
    <3>4. s[j] = Base * (s[j] \div Base) + (s[j] % Base)
      <4>1. Base \in Nat \ {0} /\ s[j] \in Nat
        BY <3>3, <1>1
      <4> QED
        BY <4>1, LastByte
    <3>5. w[i] = Base * w[i - 1] + bytes[i]
      <4> HIDE DEF w
      <4>1. w[i - 1] = s[j] \div Base /\ bytes[i] = s[j] % Base /\ w[i] = s[j]
        BY <3>2, <3>3
      <4> QED
        BY <4>1, <3>4, Zenon
    <3> HIDE DEF w
    <3> QED
      BY <3>5, <2>2
  <2> QED
    BY <2>1, <2>2
<1>7. SumUpTo(w, bytes)
  <2>1. w = [i \in 0..PrefixLen |-> w[i]]
    OBVIOUS
  <2> HIDE DEF w
  <2> QED
    BY <1>2, <1>6, <2>1, ZenonT(30) DEF SumUpTo
<1> DEFINE f == CHOOSE g : SumUpTo(g, bytes)
<1>8. SumUpTo(f, bytes)
  <2> HIDE DEF w
  <2> QED
    BY <1>7
<1>9. FromBytes(bytes) = f[Len(bytes)]
  BY DEF FromBytes, SumUpTo
<1> HIDE DEF f
<1>10. \A i \in 0..PrefixLen : f[i] = IF i = 0 THEN 0 ELSE Base * f[i - 1] + bytes[i]
  BY <1>8, <1>2 DEF SumUpTo
<1> DEFINE Fails == {i \in 0..PrefixLen : f[i] # w[i]}
<1>11. Fails = {}
  <2> HIDE DEF w
  <2>1. SUFFICES ASSUME Fails # {} PROVE FALSE
    OBVIOUS
  <2>2. PICK k \in Fails : \A m \in Fails : k <= m
    <3>1. Fails \in SUBSET Nat
      BY <1>1
    <3> QED
      BY <2>1, <3>1, LeastFailure
  <2>3. CASE k = 0
    BY <2>3, <1>6, <1>10, <1>1
  <2>4. CASE k # 0
    <3>1. k \in 0..PrefixLen /\ k - 1 \in 0..PrefixLen /\ k - 1 \notin Fails
      BY <2>2, <2>4, <1>1
    <3>2. f[k - 1] = w[k - 1]
      BY <3>1
    <3> QED
      BY <3>1, <3>2, <2>4, <1>6, <1>10
  <2> QED
    BY <2>3, <2>4
<1>12. f[PrefixLen] = w[PrefixLen]
  <2> HIDE DEF w
  <2> QED
    BY <1>11, <1>1
<1>13. w[PrefixLen] = n
  BY <1>5, <1>1
<1> QED
  BY <1>2, <1>9, <1>12, <1>13 DEF bytes

-----------------------------------------------------------------------------
(* The reader's place in the stream.  cut[k] is where the k-th frame ends, *)
(* counted from the bytes that are still in the stream; the frame decode   *)
(* is in began at or before the first of them.                             *)

Taken == IF stage = "Prefix" THEN Len(buf) ELSE PrefixLen + Len(buf)

Cuts(cut) ==
    /\ cut \in [Len(results)..Len(written) -> Int]
    /\ cut[Len(results)] = -Taken
    /\ cut[Len(written)] = Len(stream)
    /\ \A k \in DOMAIN cut : cut[k] <= Len(stream)
    /\ \A k \in Len(results) + 1 .. Len(written) :
          /\ cut[k] = cut[k - 1] + PrefixLen + Len(written[k])
          /\ \A j \in 1..PrefixLen + Len(written[k]) :
                cut[k - 1] + j >= 1 => stream[cut[k - 1] + j] = encode(written[k])[j]

WireType ==
    /\ written \in Seq(Bodies)
    /\ stream \in Seq(0..Base - 1)
    /\ arrived \in 0..Len(stream)
    /\ stage \in {"Prefix", "Body", "Closed", "Ended"}
    /\ broken \in BOOLEAN
    /\ len \in Nat
    /\ buf \in Seq(0..Base - 1)
    /\ results \in Seq(Messages \cup {BadMessage, TooLarge})
    /\ Len(results) <= Len(written)

(* Nothing was refused as too large before the stream is closed. *)
OpenResults == stage # "Closed" => \A k \in DOMAIN results : results[k] # TooLarge

InPrefix ==
    stage = "Prefix" =>
        /\ Len(buf) <= PrefixLen
        /\ Len(buf) > 0 =>
              /\ Len(results) < Len(written)
              /\ \A j \in 1..Len(buf) : buf[j] = ToBytes(Len(written[Len(results) + 1]))[j]

InBody ==
    stage = "Body" =>
        /\ Len(results) < Len(written)
        /\ len = Len(written[Len(results) + 1]) /\ len <= PEX_MAX_FRAME
        /\ Len(buf) <= len
        /\ \A j \in 1..Len(buf) : buf[j] = written[Len(results) + 1][j]

Closed == stage = "Closed" => Len(results) > 0 /\ Len(stream) >= Len(written[Len(results)])

WireInv ==
    /\ WireType /\ OpenResults /\ InPrefix /\ InBody /\ Closed
    /\ Reading => \E cut : Cuts(cut)

-----------------------------------------------------------------------------
(* One frame.                                                              *)

LEMMA ByteRange ==
  ASSUME NEW n \in Nat, NEW b \in Nat \ {0}
  PROVE  n % b \in 0..b - 1
OBVIOUS

LEMMA FrameBytes ==
  ASSUME NEW b \in Bodies
  PROVE  /\ b \in Seq(0..Base - 1) /\ Len(b) \in Nat
         /\ ToBytes(Len(b)) \in Seq(0..Base - 1) /\ Len(ToBytes(Len(b))) = PrefixLen
         /\ encode(b) \in Seq(0..Base - 1) /\ Len(encode(b)) = PrefixLen + Len(b)
         /\ \A j \in 1..PrefixLen : encode(b)[j] = ToBytes(Len(b))[j]
         /\ \A j \in 1..Len(b) : encode(b)[PrefixLen + j] = b[j]
<1>1. PrefixLen \in Nat /\ Base \in Nat \ {0, 1}
  BY WireAssumption
<1>2. b \in Seq(0..Base - 1) /\ Len(b) \in Nat
  BY WireAssumption
<1> DEFINE p == ToBytes(Len(b))
<1>3. p = [i \in 1..PrefixLen |-> Shifted(Len(b))[PrefixLen - i] % Base]
  BY DEF ToBytes
<1>4. ASSUME NEW i \in 1..PrefixLen PROVE Shifted(Len(b))[PrefixLen - i] % Base \in 0..Base - 1
  <2> DEFINE x == Shifted(Len(b))[PrefixLen - i]
  <2>1. PrefixLen - i \in 0..PrefixLen
    BY <1>1
  <2>2. x \in Nat
    BY <2>1, <1>2, ShiftStep
  <2>3. Base \in Nat \ {0}
    BY <1>1
  <2> QED
    BY <2>2, <2>3, ByteRange
<1>5. p \in Seq(0..Base - 1) /\ Len(p) = PrefixLen
  <2> HIDE DEF p
  <2>1. p \in [1..PrefixLen -> 0..Base - 1]
    BY <1>3, <1>4
  <2> QED
    BY <2>1, <1>1
<1> HIDE DEF p
<1>6. encode(b) = p \o b
  BY DEF encode, p
<1>7. /\ p \o b \in Seq(0..Base - 1) /\ Len(p \o b) = PrefixLen + Len(b)
      /\ \A j \in 1..PrefixLen : (p \o b)[j] = p[j]
      /\ \A j \in 1..Len(b) : (p \o b)[PrefixLen + j] = b[j]
  BY <1>1, <1>2, <1>5
<1> QED
  BY <1>2, <1>5, <1>6, <1>7 DEF p

LEMMA FromJsonType ==
  ASSUME NEW b
  PROVE  from_json(b) \in Messages \cup {BadMessage} /\ from_json(b) # TooLarge
<1>1. from_json(b) \in Messages \cup {BadMessage}
  BY DEF from_json
<1>2. TooLarge \notin Messages \cup {BadMessage}
  BY WireAssumption DEF TooLarge, BadMessage
<1> QED
  BY <1>1, <1>2

-----------------------------------------------------------------------------
(* The invariant, one lemma for each action.                               *)

LEMMA WireInitInv == WireInit => WireInv
<1> SUFFICES ASSUME WireInit PROVE WireInv
  OBVIOUS
<1> USE DEF WireInit
<1>1. PrefixLen \in Nat /\ Base \in Nat \ {0, 1}
  BY WireAssumption
<1>2. WireType
  <2>1. broken \in BOOLEAN
    BY Zenon
  <2> QED
    BY <1>1, <2>1 DEF WireType
<1>3. OpenResults /\ InPrefix /\ InBody /\ Closed
  BY <1>1 DEF OpenResults, InPrefix, InBody, Closed
<1> DEFINE c == [k \in 0..0 |-> 0]
<1>4. c \in [0..0 -> Int] /\ c[0] = 0 /\ DOMAIN c = 0..0
  OBVIOUS
<1> HIDE DEF c
<1>5. Len(results) = 0 /\ Len(written) = 0 /\ Len(stream) = 0 /\ Taken = 0
  BY DEF Taken
<1>6. Cuts(c)
  BY <1>4, <1>5 DEF Cuts
<1> QED
  BY <1>2, <1>3, <1>6 DEF WireInv

LEMMA SendInv == WireInv /\ Send => WireInv'
<1> SUFFICES ASSUME WireInv, Send PROVE WireInv'
  OBVIOUS
<1> PICK b \in Bodies : written' = Append(written, b) /\ stream' = stream \o encode(b)
  BY DEF Send
<1>1. UNCHANGED <<arrived, broken, stage, len, buf, results>>
  BY DEF Send
<1>2. WireType /\ PrefixLen \in Nat \ {0} /\ Base \in Nat \ {0, 1}
  BY WireAssumption DEF WireInv
<1>3. /\ Len(written') = Len(written) + 1 /\ written'[Len(written) + 1] = b
      /\ \A k \in 1..Len(written) : written'[k] = written[k]
      /\ written' \in Seq(Bodies)
  BY <1>2 DEF WireType
<1>4. /\ Len(stream') = Len(stream) + PrefixLen + Len(b)
      /\ \A j \in 1..Len(stream) : stream'[j] = stream[j]
      /\ \A j \in 1..PrefixLen + Len(b) : stream'[Len(stream) + j] = encode(b)[j]
      /\ stream' \in Seq(0..Base - 1)
  <2> DEFINE e == encode(b)
  <2>1. e \in Seq(0..Base - 1) /\ Len(e) = PrefixLen + Len(b) /\ Len(b) \in Nat
    BY FrameBytes
  <2>2. stream' = stream \o e
    OBVIOUS
  <2> HIDE DEF e
  <2>3. stream \in Seq(0..Base - 1)
    BY <1>2 DEF WireType
  <2>4. /\ stream' \in Seq(0..Base - 1) /\ Len(stream') = Len(stream) + Len(e)
        /\ \A j \in 1..Len(stream) : stream'[j] = stream[j]
        /\ \A j \in 1..Len(e) : stream'[Len(stream) + j] = e[j]
    <3> DEFINE S == 0..Base - 1
    <3>0. stream \in Seq(S) /\ e \in Seq(S)
      BY <2>1, <2>3
    <3> HIDE DEF S
    <3> HIDE DEF e
    <3>1. stream \o e \in Seq(S) /\ Len(stream \o e) = Len(stream) + Len(e)
      BY <3>0
    <3>2. \A j \in 1..Len(stream) : (stream \o e)[j] = stream[j]
      BY <3>0
    <3>3. \A j \in 1..Len(e) : (stream \o e)[Len(stream) + j] = e[j]
      BY <3>0
    <3> QED
      BY <2>2, <3>1, <3>2, <3>3, Zenon DEF S
  <2>5. Len(stream) + Len(e) = Len(stream) + PrefixLen + Len(b)
    BY <2>1, <2>3, <1>2
  <2> QED
    BY <2>1, <2>4, <2>5 DEF e
<1>5. Len(b) \in Nat /\ Len(stream) \in Nat /\ Len(written) \in Nat /\ Len(results) \in Nat
  BY <1>2, FrameBytes, SMTT(30) DEF WireType
<1>6. WireType'
  BY <1>1, <1>2, <1>3, <1>4, <1>5 DEF WireType
<1>7. OpenResults'
  BY <1>1 DEF WireInv, OpenResults
<1>8. InPrefix'
  <2>1. InPrefix
    BY DEF WireInv
  <2>2. Len(results) < Len(written) => written'[Len(results) + 1] = written[Len(results) + 1]
    BY <1>3, <1>5
  <2> QED
    BY <2>1, <2>2, <1>1, <1>3, <1>5 DEF InPrefix
<1>9. InBody'
  <2>1. InBody
    BY DEF WireInv
  <2>2. Len(results) < Len(written) => written'[Len(results) + 1] = written[Len(results) + 1]
    BY <1>3, <1>5
  <2> QED
    BY <2>1, <2>2, <1>1, <1>3, <1>5 DEF InBody
<1>10. Closed'
  <2>1. stage = "Closed" => Len(results) \in 1..Len(written) /\ Len(stream) >= Len(written[Len(results)])
    BY <1>2, <1>5 DEF WireInv, Closed, WireType
  <2>2. ASSUME stage = "Closed" PROVE Len(written[Len(results)]) \in Nat
    <3>1. written[Len(results)] \in Bodies
      BY <2>1, <2>2, <1>2 DEF WireType
    <3> QED
      BY <3>1, FrameBytes
  <2> QED
    BY <2>1, <2>2, <1>1, <1>2, <1>3, <1>4, <1>5 DEF Closed
<1>11. ASSUME Reading PROVE \E cut : Cuts(cut)'
  <2> PICK cut : Cuts(cut)
    BY <1>11 DEF WireInv
  <2> DEFINE c == [k \in Len(results)..Len(written) + 1 |->
                      IF k = Len(written) + 1 THEN Len(stream) + PrefixLen + Len(b) ELSE cut[k]]
  <2>1. Len(results) <= Len(written)
    BY <1>2 DEF WireType
  <2>2. /\ cut \in [Len(results)..Len(written) -> Int] /\ cut[Len(results)] = -Taken
        /\ cut[Len(written)] = Len(stream)
        /\ \A k \in Len(results)..Len(written) : cut[k] <= Len(stream)
    BY DEF Cuts
  <2>3. /\ c \in [Len(results)..Len(written) + 1 -> Int]
        /\ c[Len(written) + 1] = Len(stream) + PrefixLen + Len(b)
        /\ \A k \in Len(results)..Len(written) : c[k] = cut[k]
        /\ DOMAIN c = Len(results)..Len(written) + 1
    <3> DEFINE n == Len(written)
               x == Len(stream) + PrefixLen + Len(b)
    <3>1. n \in Nat /\ n # n + 1 /\ x \in Int /\ \A k \in Len(results)..n : k # n + 1 /\ k \in Len(results)..n + 1
      BY <1>2, <1>5
    <3>2. n + 1 \in Len(results)..n + 1
      BY <2>1, <1>5
    <3>3. \A k \in Len(results)..n + 1 : k = n + 1 \/ k \in Len(results)..n
      BY <1>5
    <3> HIDE DEF n, x
    <3>4. c = [k \in Len(results)..n + 1 |-> IF k = n + 1 THEN x ELSE cut[k]]
      BY DEF n, x
    <3>5. cut \in [Len(results)..n -> Int]
      BY <2>2 DEF n
    <3> HIDE DEF c
    <3> QED
      BY <3>1, <3>2, <3>3, <3>4, <3>5 DEF n, x
  <2> HIDE DEF c
  <2>4. Taken' = Taken
    BY <1>1 DEF Taken
  <2>5. ASSUME NEW k \in Len(results) + 1 .. Len(written) + 1
        PROVE  /\ c[k] = c[k - 1] + PrefixLen + Len(written'[k])
               /\ \A j \in 1..PrefixLen + Len(written'[k]) :
                     c[k - 1] + j >= 1 => stream'[c[k - 1] + j] = encode(written'[k])[j]
    <3>1. CASE k = Len(written) + 1
      <4>1. c[k - 1] = Len(stream) /\ written'[k] = b
        BY <3>1, <2>1, <2>2, <2>3, <1>3, <1>5, SMTT(30)
      <4> QED
        BY <4>1, <3>1, <2>3, <1>4
    <3>2. CASE k # Len(written) + 1
      <4>1. k \in Len(results) + 1 .. Len(written) /\ k - 1 \in Len(results)..Len(written)
            /\ k \in Len(results)..Len(written)
        BY <3>2, <1>5
      <4>2. c[k] = cut[k] /\ c[k - 1] = cut[k - 1]
        BY <4>1, <2>3
      <4>3. written'[k] = written[k] /\ written[k] \in Bodies
        BY <4>1, <1>2, <1>3, <1>5 DEF WireType
      <4>4. /\ cut[k] = cut[k - 1] + PrefixLen + Len(written[k])
            /\ \A j \in 1..PrefixLen + Len(written[k]) :
                  cut[k - 1] + j >= 1 => stream[cut[k - 1] + j] = encode(written[k])[j]
        BY <4>1 DEF Cuts
      <4>5. ASSUME NEW j \in 1..PrefixLen + Len(written[k]), cut[k - 1] + j >= 1
            PROVE  stream'[cut[k - 1] + j] = stream[cut[k - 1] + j]
        <5>1. cut[k] \in Int /\ cut[k - 1] \in Int /\ cut[k] <= Len(stream) /\ Len(written[k]) \in Nat
          BY <4>1, <4>3, <2>2, FrameBytes
        <5>2. cut[k - 1] + j \in 1..Len(stream)
          <6> DEFINE x == cut[k - 1]
                     y == cut[k]
                     z == Len(written[k])
          <6>1. x \in Int /\ y \in Int /\ z \in Nat /\ y = x + PrefixLen + z /\ y <= Len(stream) /\ x + j >= 1
            BY <5>1, <4>4, <4>5
          <6>2. j <= PrefixLen + z /\ j \in Int
            BY <5>1, <1>2
          <6> HIDE DEF x, y, z
          <6>3. x + j \in 1..Len(stream)
            BY <6>1, <6>2, <1>2, <1>5
          <6> QED
            BY <6>3 DEF x
        <5> QED
          BY <5>2, <1>4
      <4> QED
        BY <4>2, <4>3, <4>4, <4>5
    <3> QED
      BY <3>1, <3>2
  <2>6. ASSUME NEW k \in Len(results)..Len(written) + 1 PROVE c[k] <= Len(stream')
    <3>1. CASE k = Len(written) + 1
      BY <3>1, <2>3, <1>2, <1>4, <1>5
    <3>2. CASE k # Len(written) + 1
      <4>1. k \in Len(results)..Len(written)
        BY <3>2, <1>5
      <4>2. c[k] = cut[k] /\ cut[k] \in Int /\ cut[k] <= Len(stream)
        BY <4>1, <2>2, <2>3
      <4> QED
        BY <4>2, <1>2, <1>4, <1>5
    <3> QED
      BY <3>1, <3>2
  <2>7. c[Len(results)] = -Taken /\ c[Len(written) + 1] = Len(stream')
    BY <2>1, <2>2, <2>3, <1>4, <1>5
  <2>8. Len(results') = Len(results) /\ Len(written') = Len(written) + 1
    BY <1>1, <1>3
  <2>9. ASSUME NEW d, d = c PROVE Cuts(d)'
    <3>1. d \in [Len(results')..Len(written') -> Int] /\ DOMAIN d = Len(results')..Len(written')
      BY <2>3, <2>8, <2>9
    <3>2. d[Len(results')] = -Taken' /\ d[Len(written')] = Len(stream')
      BY <2>4, <2>7, <2>8, <2>9
    <3>3. \A k \in DOMAIN d : d[k] <= Len(stream')
      BY <2>6, <2>8, <3>1, <2>9
    <3>4. ASSUME NEW k \in Len(results') + 1 .. Len(written')
          PROVE  /\ d[k] = d[k - 1] + PrefixLen + Len(written'[k])
                 /\ \A j \in 1..PrefixLen + Len(written'[k]) :
                       d[k - 1] + j >= 1 => stream'[d[k - 1] + j] = encode(written'[k])[j]
      BY <2>5, <2>8, <2>9
    <3> QED
      BY <3>1, <3>2, <3>3, <3>4 DEF Cuts
  <2> QED
    BY <2>9
<1> QED
  BY <1>1, <1>6, <1>7, <1>8, <1>9, <1>10, <1>11 DEF WireInv, Reading

LEMMA ArriveInv == WireInv /\ Arrive => WireInv'
<1> SUFFICES ASSUME WireInv, Arrive PROVE WireInv'
  OBVIOUS
<1>1. /\ arrived' \in arrived + 1 .. Len(stream)
      /\ UNCHANGED <<written, stream, broken, stage, len, buf, results>>
  BY DEF Arrive
<1>2. WireType'
  BY <1>1 DEF WireInv, WireType
<1>3. (OpenResults /\ InPrefix /\ InBody /\ Closed)'
  BY <1>1 DEF WireInv, OpenResults, InPrefix, InBody, Closed
<1>4. ASSUME NEW cut, Cuts(cut) PROVE Cuts(cut)'
  BY <1>1, <1>4 DEF Cuts, Taken
<1> QED
  BY <1>1, <1>2, <1>3, <1>4 DEF WireInv, Reading

(* Where decode is: the frame it is in was written, and starts where the
   bytes taken so far say. *)
LEMMA CurrentFrame ==
  ASSUME WireInv, NEW cut, Cuts(cut), Reading,
         Len(stream) > 0 \/ Len(buf) > 0 \/ stage = "Body"
  PROVE  /\ Len(results) + 1 \in 1..Len(written)
         /\ written[Len(results) + 1] \in Bodies
         /\ cut[Len(results)] = -Taken
         /\ cut[Len(results) + 1] = PrefixLen + Len(written[Len(results) + 1]) - Taken
         /\ cut[Len(results) + 1] <= Len(stream)
         /\ \A i \in 1..PrefixLen + Len(written[Len(results) + 1]) - Taken :
               stream[i] = encode(written[Len(results) + 1])[Taken + i]
<1> DEFINE r == Len(results)
           w == written[r + 1]
<1>1. WireType /\ InPrefix /\ InBody /\ PrefixLen \in Nat \ {0}
  BY WireAssumption DEF WireInv
<1>2. r \in Nat /\ Len(written) \in Nat /\ r <= Len(written) /\ Len(stream) \in Nat
  BY <1>1 DEF WireType
<1>3. Len(buf) \in Nat /\ Taken \in Nat
  BY <1>1 DEF WireType, Taken
<1>4. cut[r] = -Taken /\ cut[Len(written)] = Len(stream) /\ DOMAIN cut = r..Len(written)
  BY DEF Cuts
<1>5. r # Len(written)
  <2>1. CASE Len(stream) > 0
    BY <2>1, <1>2, <1>3, <1>4
  <2>2. CASE Len(buf) > 0 \/ stage = "Body"
    <3>1. stage = "Prefix" \/ stage = "Body"
      BY DEF Reading
    <3> QED
      BY <2>2, <3>1, <1>1, <1>2 DEF InPrefix, InBody
  <2> QED
    BY <2>1, <2>2
<1>6. r + 1 \in 1..Len(written) /\ r + 1 \in r + 1..Len(written) /\ r + 1 \in r..Len(written)
  BY <1>2, <1>5
<1>7. w \in Bodies
  BY <1>1, <1>6 DEF WireType
<1>8. Len(w) \in Nat
  BY <1>7, FrameBytes
<1>9. /\ cut[r + 1] = cut[(r + 1) - 1] + PrefixLen + Len(w)
      /\ \A j \in 1..PrefixLen + Len(w) :
             cut[(r + 1) - 1] + j >= 1 => stream[cut[(r + 1) - 1] + j] = encode(w)[j]
      /\ cut[r + 1] <= Len(stream)
  BY <1>4, <1>6 DEF Cuts
<1>10. (r + 1) - 1 = r
  BY <1>2
<1> HIDE DEF w, r
<1>11. cut[r + 1] = PrefixLen + Len(w) - Taken
  BY <1>1, <1>3, <1>4, <1>8, <1>9, <1>10
<1>12. ASSUME NEW i \in 1..PrefixLen + Len(w) - Taken
       PROVE  stream[i] = encode(w)[Taken + i]
  <2>1. Taken + i \in 1..PrefixLen + Len(w) /\ -Taken + (Taken + i) = i /\ i >= 1
    BY <1>1, <1>3, <1>8
  <2>2. cut[r] + (Taken + i) = i
    BY <2>1, <1>4
  <2> QED
    BY <2>1, <2>2, <1>9, <1>10
<1> QED
  BY <1>4, <1>6, <1>7, <1>9, <1>11, <1>12 DEF w, r

LEMMA FillInv == WireInv /\ Fill => WireInv'
<1> SUFFICES ASSUME WireInv, Fill PROVE WireInv'
  OBVIOUS
<1> DEFINE room == Want - Len(buf)
           n == IF arrived <= room THEN arrived ELSE room
           r == Len(results)
           w == written[r + 1]
           taken == SubSeq(stream, 1, n)
<1>1. /\ Reading /\ arrived > 0 /\ Len(buf) < Want
      /\ buf' = buf \o taken /\ stream' = SubSeq(stream, n + 1, Len(stream)) /\ arrived' = arrived - n
      /\ UNCHANGED <<written, broken, stage, len, results>>
  BY DEF Fill
<1>2. WireType /\ InPrefix /\ InBody /\ PrefixLen \in Nat \ {0}
  BY WireAssumption DEF WireInv
<1>3. Len(buf) \in Nat /\ Len(stream) \in Nat /\ arrived \in 1..Len(stream) /\ Want \in Nat
  BY <1>1, <1>2 DEF WireType, Want
<1>4. n \in 1..Len(stream) /\ n <= arrived /\ n <= Want - Len(buf) /\ Len(buf) + n <= Want
  BY <1>1, <1>3
<1> HIDE DEF n
<1> DEFINE S == 0..Base - 1
<1>5. stream \in Seq(S) /\ buf \in Seq(S) /\ n \in 0..Len(stream)
  BY <1>2, <1>4 DEF WireType
<1> HIDE DEF S
<1>6. /\ taken \in Seq(S) /\ Len(taken) = n /\ \A j \in 1..n : taken[j] = stream[j]
  BY <1>5
<1>7. /\ stream' \in Seq(S) /\ Len(stream') = Len(stream) - n
      /\ \A j \in 1..Len(stream) - n : stream'[j] = stream[n + j]
  <2> DEFINE rest == SubSeq(stream, n + 1, Len(stream))
  <2>1. rest \in Seq(S) /\ Len(rest) = Len(stream) - n
    BY <1>5
  <2>2. \A j \in 1..Len(stream) - n : rest[j] = stream[n + j]
    BY <1>5
  <2> QED
    BY <2>1, <2>2, <1>1
<1> HIDE DEF taken
<1>8. /\ buf' \in Seq(S) /\ Len(buf') = Len(buf) + n
      /\ \A j \in 1..Len(buf) : buf'[j] = buf[j]
      /\ \A j \in 1..n : buf'[Len(buf) + j] = stream[j]
  <2>1. buf \o taken \in Seq(S) /\ Len(buf \o taken) = Len(buf) + n
    BY <1>5, <1>6, SMTT(30)
  <2>2. \A j \in 1..Len(buf) : (buf \o taken)[j] = buf[j]
    BY <1>5, <1>6
  <2>3. \A j \in 1..n : (buf \o taken)[Len(buf) + j] = taken[j]
    BY <1>5, <1>6
  <2> QED
    BY <2>1, <2>2, <2>3, <1>1, <1>6
<1>9. WireType'
  <2>1. arrived' \in 0..Len(stream')
    BY <1>1, <1>3, <1>4, <1>7
  <2> QED
    BY <2>1, <1>1, <1>2, <1>7, <1>8 DEF WireType, S
<1> PICK cut : Cuts(cut)
  BY <1>1 DEF WireInv
<1>10. Taken \in Nat /\ Taken' = Taken + n
  BY <1>1, <1>2, <1>3, <1>4, <1>8 DEF Taken
<1>11. /\ r + 1 \in 1..Len(written) /\ w \in Bodies
       /\ cut[r] = -Taken
       /\ cut[r + 1] = PrefixLen + Len(w) - Taken /\ cut[r + 1] <= Len(stream)
       /\ \A i \in 1..PrefixLen + Len(w) - Taken : stream[i] = encode(w)[Taken + i]
  BY <1>1, <1>3, CurrentFrame
<1>12. /\ Len(w) \in Nat
       /\ \A j \in 1..PrefixLen : encode(w)[j] = ToBytes(Len(w))[j]
       /\ \A j \in 1..Len(w) : encode(w)[PrefixLen + j] = w[j]
  BY <1>11, FrameBytes
<1>13. r \in Nat /\ Len(written) \in Nat /\ w' = w /\ r' = r
  BY <1>1, <1>2 DEF WireType
<1>14. InPrefix'
  <2> SUFFICES ASSUME stage = "Prefix"
               PROVE  /\ Len(buf') <= PrefixLen
                      /\ r < Len(written)
                      /\ \A j \in 1..Len(buf') : buf'[j] = ToBytes(Len(w))[j]
    BY <1>1 DEF InPrefix
  <2>1. Taken = Len(buf) /\ Want = PrefixLen
    BY DEF Taken, Want
  <2>2. Len(buf') <= PrefixLen /\ r < Len(written)
    BY <2>1, <1>4, <1>8, <1>11, <1>13
  <2>3. ASSUME NEW j \in 1..Len(buf') PROVE buf'[j] = ToBytes(Len(w))[j]
    <3>1. CASE j <= Len(buf)
      <4>1. j \in 1..Len(buf) /\ Len(buf) > 0
        BY <3>1, <1>3, <1>8
      <4> QED
        BY <4>1, <1>2, <1>8 DEF InPrefix
    <3>2. CASE j > Len(buf)
      <4> DEFINE i == j - Len(buf)
      <4>1. i \in 1..n /\ Len(buf) + i = j /\ j \in 1..PrefixLen
        BY <3>2, <2>1, <2>2, <1>3, <1>4, <1>8
      <4>2. i \in 1..PrefixLen + Len(w) - Taken /\ Taken + i = j
        BY <4>1, <2>1, <1>2, <1>3, <1>12
      <4> HIDE DEF i
      <4>3. buf'[j] = stream[i]
        BY <4>1, <1>8
      <4>4. stream[i] = encode(w)[j]
        BY <4>2, <1>11
      <4> QED
        BY <4>1, <4>3, <4>4, <1>12
    <3> QED
      BY <3>1, <3>2, <1>3, <1>8
  <2> QED
    BY <2>2, <2>3
<1>15. InBody'
  <2> SUFFICES ASSUME stage = "Body"
               PROVE  /\ r < Len(written) /\ len = Len(w) /\ len <= PEX_MAX_FRAME
                      /\ Len(buf') <= len
                      /\ \A j \in 1..Len(buf') : buf'[j] = w[j]
    BY <1>1 DEF InBody
  <2>1. Taken = PrefixLen + Len(buf) /\ Want = len
    BY DEF Taken, Want
  <2>2. r < Len(written) /\ len = Len(w) /\ len <= PEX_MAX_FRAME /\ Len(buf') <= len
    BY <2>1, <1>2, <1>4, <1>8 DEF InBody
  <2>3. ASSUME NEW j \in 1..Len(buf') PROVE buf'[j] = w[j]
    <3>1. CASE j <= Len(buf)
      <4>1. j \in 1..Len(buf)
        BY <3>1, <1>3, <1>8
      <4> QED
        BY <4>1, <1>2, <1>8 DEF InBody
    <3>2. CASE j > Len(buf)
      <4> DEFINE i == j - Len(buf)
      <4>1. i \in 1..n /\ Len(buf) + i = j /\ j \in 1..Len(w)
        BY <3>2, <2>1, <2>2, <1>3, <1>4, <1>8
      <4>2. i \in 1..PrefixLen + Len(w) - Taken /\ Taken + i = PrefixLen + j
        BY <4>1, <2>1, <1>2, <1>3, <1>12
      <4> HIDE DEF i
      <4>3. buf'[j] = stream[i]
        BY <4>1, <1>8
      <4>4. stream[i] = encode(w)[PrefixLen + j]
        BY <4>2, <1>11
      <4> QED
        BY <4>1, <4>3, <4>4, <1>12
    <3> QED
      BY <3>1, <3>2, <1>3, <1>8
  <2> QED
    BY <2>2, <2>3
<1>16. OpenResults' /\ Closed'
  BY <1>1 DEF WireInv, OpenResults, Closed, Reading
<1>17. \E c : Cuts(c)'
  <2> DEFINE e == [k \in Len(results)..Len(written) |-> cut[k] - n]
  <2> SUFFICES ASSUME NEW c, c = e PROVE Cuts(c)'
    OBVIOUS
  <2>1. /\ cut \in [r..Len(written) -> Int] /\ cut[Len(written)] = Len(stream)
        /\ \A k \in r..Len(written) : cut[k] <= Len(stream)
    BY DEF Cuts
  <2>2. /\ c \in [r..Len(written) -> Int] /\ DOMAIN c = r..Len(written)
        /\ \A k \in r..Len(written) : c[k] = cut[k] - n
    BY <2>1, <1>4
  <2> HIDE DEF e
  <2>3. r \in r..Len(written) /\ Len(written) \in r..Len(written)
    BY <1>2, <1>13 DEF WireType
  <2>4. c[r] = -(Taken + n) /\ c[Len(written)] = Len(stream')
    <3>1. c[r] = cut[r] - n /\ c[Len(written)] = cut[Len(written)] - n
      BY <2>2, <2>3
    <3>2. cut[r] = -Taken /\ cut[Len(written)] = Len(stream)
      BY <2>1, <1>11
    <3> QED
      BY <3>1, <3>2, <1>3, <1>4, <1>7, <1>10
  <2>5. ASSUME NEW k \in r..Len(written) PROVE c[k] <= Len(stream')
    <3>1. c[k] = cut[k] - n /\ cut[k] \in Int /\ cut[k] <= Len(stream)
      BY <2>1, <2>2
    <3> QED
      BY <3>1, <1>3, <1>4, <1>7
  <2>6. ASSUME NEW k \in r + 1 .. Len(written)
        PROVE  /\ c[k] = c[k - 1] + PrefixLen + Len(written[k])
               /\ \A j \in 1..PrefixLen + Len(written[k]) :
                     c[k - 1] + j >= 1 => stream'[c[k - 1] + j] = encode(written[k])[j]
    <3> DEFINE x == cut[k - 1]
               y == cut[k]
               z == Len(written[k])
    <3>1. k \in r..Len(written) /\ k - 1 \in r..Len(written) /\ k \in 1..Len(written)
      BY <1>13
    <3>2. x \in Int /\ y \in Int /\ y <= Len(stream) /\ c[k] = y - n /\ c[k - 1] = x - n
      BY <2>1, <2>2, <3>1
    <3>3. z \in Nat
      <4>1. written[k] \in Bodies
        BY <3>1, <1>2 DEF WireType
      <4> QED
        BY <4>1, FrameBytes
    <3>4. y = x + PrefixLen + z
      BY DEF Cuts
    <3>5. \A j \in 1..PrefixLen + z : x + j >= 1 => stream[x + j] = encode(written[k])[j]
      BY DEF Cuts
    <3> HIDE DEF x, y, z
    <3>6. c[k] = c[k - 1] + PrefixLen + z
      BY <3>2, <3>3, <3>4, <1>2, <1>4
    <3>7. ASSUME NEW j \in 1..PrefixLen + z, c[k - 1] + j >= 1
          PROVE  stream'[c[k - 1] + j] = encode(written[k])[j]
      <4>1. j \in Int /\ j <= PrefixLen + z
        BY <3>3, <1>2
      <4>2. x - n + j \in 1..Len(stream) - n /\ n + (x - n + j) = x + j /\ x + j >= 1
        BY <4>1, <3>2, <3>3, <3>4, <3>7, <1>2, <1>3, <1>4
      <4>3. stream'[x - n + j] = stream[n + (x - n + j)]
        BY <4>2, <1>7
      <4> QED
        BY <4>2, <4>3, <3>2, <3>5
    <3> QED
      BY <3>6, <3>7 DEF z
  <2> QED
    BY <2>2, <2>4, <2>5, <2>6, <1>1, <1>10 DEF Cuts
<1> QED
  BY <1>9, <1>14, <1>15, <1>16, <1>17 DEF WireInv

(* The length decode reads is that of the body which follows. *)
LEMMA PrefixIsLength ==
  ASSUME WireInv, ReadPrefix, Len(results) + 1 \in 1..Len(written),
         written[Len(results) + 1] \in Bodies
  PROVE  len' = Len(written[Len(results) + 1])
<1> DEFINE w == written[Len(results) + 1]
           p == ToBytes(Len(w))
           S == 0..Base - 1
<1>1. stage = "Prefix" /\ Len(buf) = PrefixLen /\ len' = FromBytes(buf)
  BY DEF ReadPrefix
<1>2. WireType /\ InPrefix /\ PrefixLen \in Nat \ {0}
  BY WireAssumption DEF WireInv
<1>3. p \in Seq(S) /\ Len(p) = PrefixLen /\ buf \in Seq(S) /\ Len(w) \in Nat
  BY <1>2, FrameBytes DEF WireType
<1>4. \A j \in 1..Len(buf) : buf[j] = p[j]
  BY <1>1, <1>2 DEF InPrefix
<1> HIDE DEF p, S
<1>5. buf = p
  BY <1>1, <1>3, <1>4
<1>6. Shifted(Len(w))[PrefixLen] = 0
  BY WireAssumption
<1> QED
  BY <1>1, <1>3, <1>5, <1>6, LengthRoundTrip DEF p

LEMMA ReadPrefixInv == WireInv /\ ReadPrefix => WireInv'
<1> SUFFICES ASSUME WireInv, ReadPrefix PROVE WireInv'
  OBVIOUS
<1> DEFINE r == Len(results)
           w == written[r + 1]
<1>1. /\ stage = "Prefix" /\ Len(buf) = PrefixLen
      /\ len' = FromBytes(buf) /\ buf' = <<>>
      /\ UNCHANGED <<written, stream, arrived, broken>>
  BY DEF ReadPrefix
<1>2. \/ len' <= PEX_MAX_FRAME /\ stage' = "Body" /\ results' = results
      \/ ~(len' <= PEX_MAX_FRAME) /\ stage' = "Closed" /\ results' = Append(results, TooLarge)
  BY DEF ReadPrefix, frame_within_bound
<1>3. WireType /\ InPrefix /\ InBody /\ PrefixLen \in Nat \ {0}
  BY WireAssumption DEF WireInv
<1> PICK cut : Cuts(cut)
  BY <1>1 DEF WireInv, Reading
<1>4. Taken = PrefixLen
  BY <1>1 DEF Taken
<1>5. /\ r + 1 \in 1..Len(written) /\ w \in Bodies
      /\ cut[r + 1] = PrefixLen + Len(w) - Taken /\ cut[r + 1] <= Len(stream)
  BY <1>1, <1>3, CurrentFrame DEF Reading
<1>6. r \in Nat /\ Len(written) \in Nat /\ Len(stream) \in Nat /\ Len(w) \in Nat
  BY <1>3, <1>5, FrameBytes DEF WireType
<1>7. Len(w) <= Len(stream)
  BY <1>3, <1>4, <1>5, <1>6
<1>8. len' = Len(w)
  BY <1>5, PrefixIsLength
<1> HIDE DEF w
<1>9. CASE len' <= PEX_MAX_FRAME /\ stage' = "Body" /\ results' = results
  <2>1. WireType'
    BY <1>1, <1>3, <1>6, <1>8, <1>9 DEF WireType
  <2>2. OpenResults' /\ InPrefix' /\ Closed'
    BY <1>1, <1>9 DEF WireInv, OpenResults, InPrefix, Closed
  <2>3. InBody'
    <3>1. Len(buf') = 0 /\ Len(results') = r /\ written'[r + 1] = w /\ r < Len(written')
      BY <1>1, <1>5, <1>6, <1>9 DEF w
    <3> QED
      BY <3>1, <1>6, <1>8, <1>9 DEF InBody
  <2>4. Taken' = Taken
    BY <1>1, <1>3, <1>4, <1>9 DEF Taken
  <2>5. Cuts(cut)'
    BY <2>4, <1>1, <1>9 DEF Cuts
  <2> QED
    BY <2>1, <2>2, <2>3, <2>5 DEF WireInv
<1>10. CASE stage' = "Closed" /\ results' = Append(results, TooLarge)
  <2>1. results' \in Seq(Messages \cup {BadMessage, TooLarge}) /\ Len(results') = r + 1
    BY <1>3, <1>10 DEF WireType
  <2>2. WireType'
    BY <2>1, <1>1, <1>3, <1>5, <1>6, <1>8, <1>10 DEF WireType
  <2>3. OpenResults' /\ InPrefix' /\ InBody'
    BY <1>10 DEF OpenResults, InPrefix, InBody
  <2>4. Closed'
    BY <2>1, <1>1, <1>6, <1>7 DEF Closed, w
  <2> QED
    BY <2>2, <2>3, <2>4, <1>10 DEF WireInv, Reading
<1> QED
  BY <1>2, <1>9, <1>10

(* What decode has read of a body, when it has read all of it. *)
LEMMA WholeBody ==
  ASSUME WireInv, ReadBody
  PROVE  /\ Len(results) + 1 \in 1..Len(written)
         /\ buf = written[Len(results) + 1] /\ buf \in Bodies
         /\ frame_within_bound(Len(buf))
<1> DEFINE r == Len(results)
           w == written[r + 1]
           S == 0..Base - 1
<1>1. stage = "Body" /\ Len(buf) = len
  BY DEF ReadBody
<1>2. WireType /\ InBody
  BY DEF WireInv
<1>3. r < Len(written) /\ len = Len(w) /\ len <= PEX_MAX_FRAME /\ \A j \in 1..Len(buf) : buf[j] = w[j]
  BY <1>1, <1>2 DEF InBody
<1>4. r \in Nat /\ Len(written) \in Nat
  BY <1>2 DEF WireType
<1>5. r + 1 \in 1..Len(written)
  BY <1>3, <1>4
<1>6. w \in Bodies
  BY <1>2, <1>5 DEF WireType
<1>7. w \in Seq(S) /\ buf \in Seq(S)
  BY <1>2, <1>6, FrameBytes DEF WireType
<1> HIDE DEF w, S
<1>8. buf = w
  BY <1>1, <1>3, <1>7
<1> QED
  BY <1>1, <1>3, <1>5, <1>6, <1>8 DEF w, frame_within_bound

LEMMA ReadBodyInv == WireInv /\ ReadBody => WireInv'
<1> SUFFICES ASSUME WireInv, ReadBody PROVE WireInv'
  OBVIOUS
<1> DEFINE r == Len(results)
<1>1. /\ stage = "Body" /\ Len(buf) = len
      /\ results' = Append(results, from_json(buf)) /\ stage' = "Prefix" /\ buf' = <<>>
      /\ UNCHANGED <<written, stream, arrived, broken, len>>
  BY DEF ReadBody
<1>2. WireType /\ PrefixLen \in Nat \ {0}
  BY WireAssumption DEF WireInv
<1> PICK cut : Cuts(cut)
  BY <1>1 DEF WireInv, Reading
<1>3. r + 1 \in 1..Len(written) /\ buf = written[r + 1]
  BY WholeBody
<1>4. r \in Nat /\ Len(written) \in Nat /\ Len(buf) \in Nat
  BY <1>2 DEF WireType
<1>5. from_json(buf) \in Messages \cup {BadMessage} /\ from_json(buf) # TooLarge
  BY FromJsonType
<1>6. /\ results' \in Seq(Messages \cup {BadMessage, TooLarge}) /\ Len(results') = r + 1
      /\ \A k \in 1..r : results'[k] = results[k]
      /\ results'[r + 1] = from_json(buf)
  BY <1>1, <1>2, <1>4, <1>5 DEF WireType
<1>7. WireType'
  BY <1>1, <1>2, <1>3, <1>4, <1>6 DEF WireType
<1>8. OpenResults'
  <2>1. ASSUME NEW k \in 1..r + 1 PROVE results'[k] # TooLarge
    <3>1. CASE k \in 1..r
      <4>1. k \in DOMAIN results
        BY <3>1, <1>2 DEF WireType
      <4> QED
        BY <4>1, <3>1, <1>1, <1>6 DEF WireInv, OpenResults
    <3>2. CASE k = r + 1
      BY <3>2, <1>5, <1>6
    <3> QED
      BY <3>1, <3>2, <1>4
  <2>2. DOMAIN results' = 1..r + 1
    BY <1>6
  <2> QED
    BY <2>1, <2>2 DEF OpenResults
<1>9. InPrefix' /\ InBody' /\ Closed'
  BY <1>1, <1>2 DEF InPrefix, InBody, Closed
<1>10. \E c : Cuts(c)'
  <2> DEFINE e == [k \in r + 1..Len(written) |-> cut[k]]
  <2> SUFFICES ASSUME NEW c, c = e PROVE Cuts(c)'
    OBVIOUS
  <2>1. /\ cut \in [r..Len(written) -> Int] /\ cut[Len(written)] = Len(stream)
        /\ \A k \in r..Len(written) : cut[k] <= Len(stream)
    BY DEF Cuts
  <2>2. \A k \in r + 1..Len(written) : k \in r..Len(written)
    BY <1>4
  <2>3. /\ c \in [r + 1..Len(written) -> Int] /\ DOMAIN c = r + 1..Len(written)
        /\ \A k \in r + 1..Len(written) : c[k] = cut[k]
    BY <2>1, <2>2
  <2> HIDE DEF e
  <2>4. Taken = PrefixLen + Len(buf) /\ Taken' = 0
    BY <1>1 DEF Taken
  <2>5. c[r + 1] = 0 /\ c[Len(written)] = Len(stream)
    <3>1. cut[r + 1] = PrefixLen + Len(buf) - Taken
      BY <1>1, <1>3, CurrentFrame DEF Reading
    <3>2. r + 1 \in r + 1..Len(written) /\ Len(written) \in r + 1..Len(written)
      BY <1>3, <1>4
    <3> QED
      BY <3>1, <3>2, <2>1, <2>3, <2>4, <1>2, <1>4
  <2>6. \A k \in r + 1..Len(written) : c[k] <= Len(stream)
    BY <2>1, <2>2, <2>3
  <2>7. ASSUME NEW k \in (r + 1) + 1 .. Len(written)
        PROVE  /\ c[k] = c[k - 1] + PrefixLen + Len(written[k])
               /\ \A j \in 1..PrefixLen + Len(written[k]) :
                     c[k - 1] + j >= 1 => stream[c[k - 1] + j] = encode(written[k])[j]
    <3>1. k \in r + 1..Len(written) /\ k - 1 \in r + 1..Len(written)
      BY <1>4
    <3>2. c[k] = cut[k] /\ c[k - 1] = cut[k - 1]
      BY <3>1, <2>3
    <3>3. /\ cut[k] = cut[k - 1] + PrefixLen + Len(written[k])
          /\ \A j \in 1..PrefixLen + Len(written[k]) :
                cut[k - 1] + j >= 1 => stream[cut[k - 1] + j] = encode(written[k])[j]
      BY <3>1 DEF Cuts
    <3> QED
      BY <3>2, <3>3
  <2> QED
    BY <2>3, <2>4, <2>5, <2>6, <2>7, <1>1, <1>6 DEF Cuts
<1> QED
  BY <1>7, <1>8, <1>9, <1>10 DEF WireInv

LEMMA BreakInv == WireInv /\ Break => WireInv'
<1> SUFFICES ASSUME WireInv, Break PROVE WireInv'
  OBVIOUS
<1>1. broken' = TRUE /\ UNCHANGED <<written, stream, arrived, stage, len, buf, results>>
  BY DEF Break
<1>2. WireType'
  BY <1>1 DEF WireInv, WireType
<1>3. (OpenResults /\ InPrefix /\ InBody /\ Closed)'
  BY <1>1 DEF WireInv, OpenResults, InPrefix, InBody, Closed
<1>4. ASSUME NEW cut, Cuts(cut) PROVE Cuts(cut)'
  BY <1>1, <1>4 DEF Cuts, Taken
<1> QED
  BY <1>1, <1>2, <1>3, <1>4 DEF WireInv, Reading

LEMMA EofInv == WireInv /\ Eof => WireInv'
<1> SUFFICES ASSUME WireInv, Eof PROVE WireInv'
  OBVIOUS
<1>1. /\ Reading /\ stage' = "Ended"
      /\ UNCHANGED <<written, stream, arrived, broken, len, buf, results>>
  BY DEF Eof
<1>2. WireType'
  BY <1>1 DEF WireInv, WireType
<1>3. (OpenResults /\ InPrefix /\ InBody /\ Closed)'
  BY <1>1 DEF WireInv, OpenResults, InPrefix, InBody, Closed, Reading
<1> QED
  BY <1>1, <1>2, <1>3 DEF WireInv, Reading

LEMMA WireNextInv == WireInv /\ [WireNext]_wireVars => WireInv'
<1> SUFFICES ASSUME WireInv, [WireNext]_wireVars PROVE WireInv'
  OBVIOUS
<1>1. CASE Send
  BY <1>1, SendInv
<1>2. CASE Arrive
  BY <1>2, ArriveInv
<1>3. CASE Fill
  BY <1>3, FillInv
<1>4. CASE ReadPrefix
  BY <1>4, ReadPrefixInv
<1>5. CASE ReadBody
  BY <1>5, ReadBodyInv
<1>6. CASE Break
  BY <1>6, BreakInv
<1>7. CASE Eof
  BY <1>7, EofInv
<1>8. CASE UNCHANGED wireVars
  <2>1. UNCHANGED <<written, stream, arrived, broken, stage, len, buf, results>>
    BY <1>8 DEF wireVars
  <2>2. (WireType /\ OpenResults /\ InPrefix /\ InBody /\ Closed)'
    BY <2>1 DEF WireInv, WireType, OpenResults, InPrefix, InBody, Closed
  <2>3. ASSUME NEW cut, Cuts(cut) PROVE Cuts(cut)'
    BY <2>1, <2>3 DEF Cuts, Taken, Reading
  <2> QED
    BY <2>1, <2>2, <2>3 DEF WireInv, Reading
<1> QED
  BY <1>1, <1>2, <1>3, <1>4, <1>5, <1>6, <1>7, <1>8 DEF WireNext, decode

LEMMA WireInvariance == WireSpec => []WireInv
<1>1. WireInit => WireInv
  BY WireInitInv
<1>2. WireInv /\ [WireNext]_wireVars => WireInv'
  BY WireNextInv
<1> QED
  BY <1>1, <1>2, PTL DEF WireSpec

-----------------------------------------------------------------------------
(* What the codec promises.                                                *)

(* In every reachable state a body being waited for is within the bound, and
   the body of a frame that was refused as too large is still in the stream,
   whatever its length (decode, wire.rs:95). *)
THEOREM OversizeSafe == WireSpec => []OversizeUntouched
<1>1. WireInv => OversizeUntouched
  BY DEF WireInv, InBody, Closed, OversizeUntouched
<1> QED
  BY <1>1, WireInvariance, PTL

(* A step of the codec is a step of the pipe: framing a body writes it, the
   two points where decode returns read the next one, and the bytes in between
   are not seen. *)
LEMMA StepRefines == WireInv /\ [WireNext]_wireVars => [Pipe!PipeNext]_Pipe!pipeVars
<1> SUFFICES ASSUME WireInv, [WireNext]_wireVars PROVE Pipe!PipeNext \/ UNCHANGED Pipe!pipeVars
  OBVIOUS
<1> DEFINE r == Len(results)
<1>1. WireType /\ PrefixLen \in Nat \ {0}
  BY WireAssumption DEF WireInv
<1>2. r \in Nat /\ Len(written) \in Nat
  BY <1>1 DEF WireType
<1>3. ASSUME Reading, r + 1 \in 1..Len(written),
             results' = Append(results, Verdict(written[r + 1])), written' = written
      PROVE  Pipe!Read
  <2>1. r < Len(written)
    BY <1>2, <1>3
  <2>2. \A k \in DOMAIN results : results[k] # TooLarge
    BY <1>3 DEF WireInv, OpenResults, Reading
  <2> QED
    BY <2>1, <2>2, <1>3 DEF Pipe!Read
<1>4. CASE Send
  BY <1>4 DEF Send, Pipe!PipeNext, Pipe!Write
<1>5. CASE Arrive \/ Break \/ Fill \/ Eof
  BY <1>5 DEF Arrive, Break, Fill, Eof, Pipe!pipeVars
<1>6. CASE ReadPrefix
  <2>1. /\ stage = "Prefix" /\ Len(buf) = PrefixLen /\ written' = written
        /\ len' = FromBytes(buf)
        /\ \/ results' = results
           \/ ~frame_within_bound(len') /\ results' = Append(results, TooLarge)
    BY <1>6 DEF ReadPrefix
  <2> PICK cut : Cuts(cut)
    BY <2>1 DEF WireInv, Reading
  <2>2. r + 1 \in 1..Len(written) /\ written[r + 1] \in Bodies
    BY <1>1, <2>1, CurrentFrame DEF Reading
  <2>3. len' = Len(written[r + 1])
    BY <1>6, <2>2, PrefixIsLength
  <2>4. CASE results' = Append(results, TooLarge) /\ ~frame_within_bound(len')
    <3>1. Verdict(written[r + 1]) = TooLarge
      BY <2>3, <2>4 DEF Verdict
    <3> QED
      BY <3>1, <2>1, <2>2, <2>4, <1>3 DEF Pipe!PipeNext, Reading
  <2> QED
    BY <2>1, <2>4 DEF Pipe!pipeVars
<1>7. CASE ReadBody
  <2>1. stage = "Body" /\ results' = Append(results, from_json(buf)) /\ written' = written
    BY <1>7 DEF ReadBody
  <2>2. r + 1 \in 1..Len(written) /\ buf = written[r + 1] /\ frame_within_bound(Len(buf))
    BY <1>7, WholeBody
  <2>3. Verdict(written[r + 1]) = from_json(buf)
    BY <2>2 DEF Verdict
  <2> QED
    BY <2>1, <2>2, <2>3, <1>3 DEF Pipe!PipeNext, Reading
<1>8. CASE UNCHANGED wireVars
  BY <1>8 DEF wireVars, Pipe!pipeVars
<1> QED
  BY <1>4, <1>5, <1>6, <1>7, <1>8 DEF WireNext, decode

(* However the bytes arrive, however they are cut into reads and wherever the
   connection breaks, what the calls of decode return is what a pipe of whole
   messages returns: every body framed, in order, as its message or as an
   error, up to the first one over the bound, and nothing of a frame cut short
   (wire.rs:91, SPEC 4.1, 7.2, 7.3). *)
THEOREM CodecIsAPipe == WireSpec => ImplementsPipe
<1>1. WireInit => Pipe!PipeInit
  BY DEF WireInit, Pipe!PipeInit
<1>2. WireInv /\ [WireNext]_wireVars => [Pipe!PipeNext]_Pipe!pipeVars
  BY StepRefines
<1> QED
  BY <1>1, <1>2, WireInvariance, PTL DEF WireSpec, ImplementsPipe, Pipe!PipeSpec

===============================================================================
