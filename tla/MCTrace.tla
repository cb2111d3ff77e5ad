------------------------------ MODULE MCTrace -------------------------------
(* Small instances of Trace: configuration files over two trace points.    *)
EXTENDS Trace, TLC

CONSTANTS p1, p2

Conf(o, filters, keyed) == [output |-> o, filters |-> filters, keyed |-> keyed]

\* Files without trace keys: with an output of each kind, and with no trace
\* point set, one or two.
MCFiles == {Conf("tcp", {}, TracePoints), Conf("none", {{p1}}, TracePoints),
            Conf("file", {{p2}, {}}, TracePoints)}
FilesOnly == {Conf("file", {}, TracePoints), Conf("file", {{p1}}, TracePoints),
              Conf("none", {{}}, TracePoints)}
TcpOnly == {Conf("tcp", {}, TracePoints)}

\* A file whose only set accepts everything, and one that adds a trace key.
Keyed == {Conf("file", {TracePoints}, TracePoints),
          Conf("file", {TracePoints}, {p1})}

Symmetry == Permutations(Threads) \cup Permutations(Addresses)
=============================================================================
