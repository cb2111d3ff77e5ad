------------------------------ MODULE MCFeeder ------------------------------
(***************************************************************************)
(* Instances of Feeder for TLC.  The entries are few, but any two of them  *)
(* share some of their rows and differ in others.                          *)
(***************************************************************************)
EXTENDS Feeder

Sent(path, name, pid, start, group, message) ==
  [path |-> path, function |-> "f", name |-> name, pid |-> pid,
   start |-> start, tid |-> 1, group |-> group, message |-> message,
   keys |-> {}]

\* Two processes, logging from one function of one source file.
TwoProcesses ==
  {Sent("a.cpp", "app", 1, 1, "none", "m1"),
   [Sent("a.cpp", "app", 2, 1, "net", "m2") EXCEPT !.keys = {"net"}]}

\* One process and two source files.
OneProcess ==
  {Sent("a.cpp", "app", 1, 1, "none", "m1"),
   Sent("b.cpp", "app", 1, 1, "none", "m2")}

\* The same program started again, and the system hands out the same pid.
ReusedPid ==
  {Sent("a.cpp", "app", 1, 1, "none", "m1"),
   Sent("b.cpp", "app", 1, 2, "none", "m2")}
=============================================================================
