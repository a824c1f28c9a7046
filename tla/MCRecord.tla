------------------------------- MODULE MCRecord -------------------------------
(***************************************************************************)
(* Records of one well-formed and one malformed id, with up to two         *)
(* addresses and flags where one of each is the most, looked at by         *)
(* receivers that are the peer itself, told by it, or neither.             *)
(***************************************************************************)
EXTENDS PexRecord

TwoNetworks == {<<1>>, <<2>>}
KeyIds == [k \in {"ka"} |-> <<7>>]
KeyLen == [k \in {"ka"} |-> 3]

Address(host, port, kind) == [host |-> host, port |-> port, kind |-> kind]
(* The third host reads like the end of another address: "h|1|d,h". *)
SomeAddresses ==
    { Address(<<5>>, 1, "direct"), Address(<<5>>, 1, "unknown"),
      Address(<<5, 124, 49, 124, 100, 44, 5>>, 1, "unknown") }

PortDigits == [p \in {1} |-> <<49>>]

(* One letter of each. *)
KindNames ==
    [direct |-> <<100>>, mapped |-> <<109>>, reflexive |-> <<102>>, relay |-> <<114>>,
     unknown |-> <<117>>]

(* Flags empty, plain, holding # and holding the comma, all within the cap;
   and one over it. *)
SomeFlags == {<<>>, <<97>>, <<97, 35>>, <<97, 44, 97>>, <<97, 97, 97, 97>>}

Claim(address, sig) ==
    [address |-> address, spki |-> Base64("ka", 3), sig |-> [of |-> sig, len |-> 4]]
SomeClaims ==
    {Claim(<<>>, "s1"), Claim(<<35>>, "s1"), Claim(<<35>>, None), Claim(<<1, 1, 1>>, "s1")}

PartNames ==
    [x \in {c.spki : c \in SomeClaims} \cup {c.sig : c \in SomeClaims} |->
        CASE x.of = "ka" -> <<107>> [] x.of = "s1" -> <<115>> [] OTHER -> <<63>>]

LookedAt(receiver, sender, now) ==
    [receiver |-> receiver, sender |-> sender, network_id |-> <<1>>, now |-> now]
Receivers ==
    { LookedAt("me", "you", 20), LookedAt("me", "you", 21),
      LookedAt("id", "you", 3), LookedAt("me", "id", 20) }
NoContext == <<>>
===============================================================================
