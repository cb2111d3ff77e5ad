------------------------------- MODULE MCDaemon -------------------------------
(***************************************************************************)
(* Instances of Daemon: two applications with different storage limits,    *)
(* one of which sends a backtrace, variables, trace keys and a group.      *)
(***************************************************************************)
EXTENDS Daemon

Entry(c, m) ==
  [NewEntry EXCEPT !.who = c, !.processname = <<c>>, !.stackposition = <<"1">>,
                   !.type = <<"2">>, !.path = <<"a.cpp">>, !.line = 3,
                   !.function = <<"f">>, !.message = <<m>>]

Frame == [module |-> <<"lib">>, function |-> <<"g">>, offset |-> 8,
          path |-> <<"b.cpp">>, line |-> 5]

FullEntry(c, m) ==
  [Entry(c, m) EXCEPT !.group = <<"net">>,
     !.traceKeys = <<[name |-> <<"net">>, enabled |-> TRUE]>>,
     !.variables = <<[name |-> "x", type |-> "string", value |-> <<"v">>]>>,
     !.backtrace = <<Frame>>]

Storage(n) == [maximumSize |-> n, shrinkBy |-> 10, archiveDir |-> <<"dir">>]

EntryItem(e, cfg) == [kind |-> "entry", entry |-> e, storage |-> cfg]
ShutdownItem(c) == [kind |-> "shutdown", event |-> [who |-> c, name |-> <<c>>]]

\* The expression this entry traces does not fit into an attribute.
BrokenEntry(c, m) ==
  [Entry(c, m) EXCEPT
     !.variables = <<[name |-> Unescaped, type |-> "number", value |-> <<"1">>]>>]

MCItems ==
  [c \in Clients |->
     IF c = "c1" THEN <<EntryItem(FullEntry("c1", "m1"), Storage(1)), ShutdownItem("c1")>>
     ELSE <<EntryItem(Entry("c2", "m2"), Storage(2)),
            EntryItem(BrokenEntry("c2", "m3"), Storage(2))>>]
=============================================================================
