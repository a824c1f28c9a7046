-------------------------------- MODULE PexPipe -------------------------------
(***************************************************************************)
(* What a PEX stream promises (SPEC 4.1), with no byte in it: what is read *)
(* is what was written, in order, each message as itself or, if it is not  *)
(* a PEX message, as an error, up to the first one over the size bound,    *)
(* which closes the stream.                                                *)
(***************************************************************************)
EXTENDS Sequences, Naturals

CONSTANTS Items, Verdict(_), Fatal

VARIABLES written, results

pipeVars == <<written, results>>

PipeInit == written = <<>> /\ results = <<>>

Write == \E i \in Items : written' = Append(written, i) /\ UNCHANGED results

Read ==
    /\ Len(results) < Len(written)
    /\ \A k \in DOMAIN results : results[k] # Fatal
    /\ results' = Append(results, Verdict(written[Len(results) + 1]))
    /\ UNCHANGED written

PipeNext == Write \/ Read

PipeSpec == PipeInit /\ [][PipeNext]_pipeVars
===============================================================================
