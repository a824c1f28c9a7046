-------------------------------- MODULE PexWire -------------------------------
(***************************************************************************)
(* The byte-stream codec (src/src/wire.rs): a message is framed as a       *)
(* big-endian length and a JSON body, and decode reads it back, waiting    *)
(* for the bytes as they arrive, in one call that is not abandoned.  A     *)
(* body is a sequence of bytes; Json says which bytes serde_json makes of  *)
(* a message, and everything else does not parse.  The reading host calls  *)
(* decode again and again; it closes the stream on a frame over the bound  *)
(* (SPEC 7.2), and is done with it when decode returns an I/O error, which *)
(* it may do in the middle of a frame once the connection has broken.      *)
(***************************************************************************)
EXTENDS Integers, Sequences, FiniteSets

CONSTANTS
    Base,           \* 256: the values of a byte
    PrefixLen,      \* 4: the bytes of the length prefix
    PEX_MAX_FRAME,  \* caps.rs: 262144
    Messages,       \* the PEX messages
    Json,           \* message -> its JSON, as bytes
    Foreign,        \* other bodies a partner may frame
    MaxSends        \* bound: frames on the stream

Bodies == {Json[m] : m \in Messages} \cup Foreign

BadMessage == "bad message"
TooLarge == "pex frame too large"

(* n shifted right by 0, 1, ..., PrefixLen bytes; what the last shift leaves
   is cut off by `as u32`. *)
Shifted(n) ==
    LET shift[i \in 0..PrefixLen] == IF i = 0 THEN n ELSE shift[i - 1] \div Base
    IN  shift

(* The errors are no messages, and the length of a body fits in the prefix. *)
ASSUME WireAssumption ==
    /\ Base \in Nat \ {0, 1} /\ PrefixLen \in Nat \ {0} /\ PEX_MAX_FRAME \in Nat
    /\ \A m, n \in Messages : Json[m] = Json[n] => m = n
    /\ {BadMessage, TooLarge} \cap Messages = {}
    /\ \A b \in Bodies : b \in Seq(0..Base - 1) /\ Shifted(Len(b))[PrefixLen] = 0
    /\ {Json[m] : m \in Messages} \cap Foreign = {}
    /\ MaxSends \in Nat

VARIABLES
    written,  \* the bodies framed so far
    stream,   \* the bytes on their way
    arrived,  \* how many of them have arrived
    broken,   \* whether the connection is gone: what has not arrived never will
    stage,    \* where decode waits: for the prefix, for the body; or the host has Closed
              \* the stream, or decode Ended it with an I/O error
    len,      \* the length decode has read
    buf,      \* the bytes read_exact has taken from the stream so far
    results   \* what decode returned of the frames it read

wireVars == <<written, stream, arrived, broken, stage, len, buf, results>>

frame_within_bound(n) == n <= PEX_MAX_FRAME

(* u32::to_be_bytes of the length, cut to the width of the prefix. *)
ToBytes(n) == [i \in 1..PrefixLen |-> Shifted(n)[PrefixLen - i] % Base]

(* Mutant of FromBytes: little-endian. *)
FromBytes_le(bytes) ==
    LET sum[i \in 0..Len(bytes)] == IF i = 0 THEN 0 ELSE sum[i - 1] + Base^(i - 1) * bytes[i]
    IN  sum[Len(bytes)]

FromBytes(bytes) ==
    LET sum[i \in 0..Len(bytes)] == IF i = 0 THEN 0 ELSE Base * sum[i - 1] + bytes[i]
    IN  sum[Len(bytes)]

(* encode: no check of the bound is made here. *)
encode(body) == ToBytes(Len(body)) \o body

(* from_json: the message, or the error the host strikes. *)
from_json(body) ==
    IF \E m \in Messages : Json[m] = body
    THEN CHOOSE m \in Messages : Json[m] = body
    ELSE BadMessage

-----------------------------------------------------------------------------
WireInit ==
    /\ written = <<>> /\ stream = <<>> /\ arrived = 0 /\ broken = FALSE
    /\ stage = "Prefix" /\ len = 0 /\ buf = <<>> /\ results = <<>>

Send ==
    /\ Len(written) < MaxSends
    /\ \E b \in Bodies : written' = Append(written, b) /\ stream' = stream \o encode(b)
    /\ UNCHANGED <<arrived, broken, stage, len, buf, results>>

Arrive ==
    /\ ~broken /\ arrived' \in arrived + 1 .. Len(stream)
    /\ UNCHANGED <<written, stream, broken, stage, len, buf, results>>

(* The connection is closed by the partner, or lost. *)
Break ==
    /\ ~broken /\ broken' = TRUE
    /\ UNCHANGED <<written, stream, arrived, stage, len, buf, results>>

Reading == stage \in {"Prefix", "Body"}

Want == IF stage = "Prefix" THEN PrefixLen ELSE len

(* read_exact takes what has arrived, and waits for the rest. *)
Fill ==
    /\ Reading /\ arrived > 0 /\ Len(buf) < Want
    /\ LET room == Want - Len(buf)
           n == IF arrived <= room THEN arrived ELSE room
       IN  /\ buf' = buf \o SubSeq(stream, 1, n)
           /\ stream' = SubSeq(stream, n + 1, Len(stream))
           /\ arrived' = arrived - n
    /\ UNCHANGED <<written, broken, stage, len, results>>

(* Mutant of ReadPrefix: the bound is off by one. *)
ReadPrefix_off ==
    /\ stage = "Prefix" /\ Len(buf) = PrefixLen
    /\ len' = FromBytes(buf) /\ buf' = <<>>
    /\ IF len' <= PEX_MAX_FRAME + 1
       THEN stage' = "Body" /\ UNCHANGED results
       ELSE stage' = "Closed" /\ results' = Append(results, TooLarge)
    /\ UNCHANGED <<written, stream, arrived, broken>>

ReadPrefix ==
    /\ stage = "Prefix" /\ Len(buf) = PrefixLen
    /\ len' = FromBytes(buf) /\ buf' = <<>>
    /\ IF frame_within_bound(len')
       THEN stage' = "Body" /\ UNCHANGED results
       ELSE stage' = "Closed" /\ results' = Append(results, TooLarge)
    /\ UNCHANGED <<written, stream, arrived, broken>>

(* Mutant of ReadBody: a body that does not parse is passed over. *)
ReadBody_skipping ==
    /\ stage = "Body" /\ Len(buf) = len
    /\ results' = IF from_json(buf) = BadMessage THEN results ELSE Append(results, from_json(buf))
    /\ stage' = "Prefix" /\ buf' = <<>>
    /\ UNCHANGED <<written, stream, arrived, broken, len>>

ReadBody ==
    /\ stage = "Body" /\ Len(buf) = len
    /\ results' = Append(results, from_json(buf))
    /\ stage' = "Prefix" /\ buf' = <<>>
    /\ UNCHANGED <<written, stream, arrived, broken, len>>

(* read_exact fails: the bytes it wants are not coming.  A reset may drop
   bytes that had arrived. *)
Eof ==
    /\ broken /\ Reading /\ Len(buf) < Want
    /\ stage' = "Ended"
    /\ UNCHANGED <<written, stream, arrived, broken, len, buf, results>>

decode == Fill \/ ReadPrefix \/ ReadBody \/ Eof

WireNext == Send \/ Arrive \/ Break \/ decode

WireSpec == WireInit /\ [][WireNext]_wireVars /\ WF_wireVars(Arrive) /\ WF_wireVars(decode)

-----------------------------------------------------------------------------
Verdict(body) == IF frame_within_bound(Len(body)) THEN from_json(body) ELSE TooLarge

Pipe == INSTANCE PexPipe WITH Items <- Bodies, Fatal <- TooLarge

(* However the bytes arrive and wherever the connection breaks, decode returns
   the messages that were framed, in order, a bad one as an error that does not
   disturb the next, nothing after one that is over the bound, and nothing of a
   frame that was cut short (wire.rs:91, SPEC 4.1, 7.2, 7.3). *)
ImplementsPipe == Pipe!PipeSpec

(* A frame over the bound costs nothing: its body is neither waited for nor
   taken from the stream, however large it is (wire.rs:95). *)
OversizeUntouched ==
    /\ stage = "Body" => len <= PEX_MAX_FRAME
    /\ stage = "Closed" =>
           Len(stream) >= Len(written[Len(results)])

(* Every frame is decoded in the end, or the stream is closed, or the
   connection broke and decode said so: it never waits for what cannot come. *)
FramesAreRead ==
    \A n \in 1..MaxSends :
        Len(written) >= n ~> (Len(results) >= n \/ ~Reading)
===============================================================================
