----------------------------- MODULE LogStream ------------------------------
(***************************************************************************)
(* What an output promises the tracing library: the messages it accepted   *)
(* arrive at the daemon in the order in which they were accepted, without  *)
(* gaps, repetitions or mixed up bytes, though perhaps not all of them.    *)
(* The bytes of the accepted messages are numbered 1, 2, 3, ...            *)
(***************************************************************************)
EXTENDS Naturals, Sequences

CONSTANT MsgLen           \* bytes per message

VARIABLES
  accepted,               \* number of messages accepted
  wire                    \* the bytes given to the operating system

StreamInit == accepted = 0 /\ wire = <<>>

Accept == accepted' = accepted + 1 /\ UNCHANGED wire

\* The next bytes, in order.
Transmit ==
  /\ \E n \in Len(wire) + 1 .. accepted * MsgLen : wire' = [b \in 1 .. n |-> b]
  /\ UNCHANGED accepted

\* The output is discarded and a new one takes its place.
Renewed == accepted' = 0 /\ wire' = <<>>

StreamSpec ==
  StreamInit /\ [][Accept \/ Transmit \/ Renewed]_<<accepted, wire>>
=============================================================================
