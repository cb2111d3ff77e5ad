------------------------------- MODULE MCViewer -------------------------------
(* Instances of Viewer. *)
EXTENDS Viewer

Settings(auto, port, tracePort, file) ==
  [auto |-> auto, port |-> port, tracePort |-> tracePort, file |-> file]

MCChoices ==
  {Settings(TRUE, 1, 2, "same"), Settings(TRUE, 1, 3, "same"),
   Settings(FALSE, 2, 1, "same"), Settings(FALSE, 1, 2, "same"), Settings(TRUE, 1, 1, "f2"),
   Settings(TRUE, 2, 1, "")}

MCColumnNames == <<"Time", "Message">>

\* An earlier version had a column that is gone, and not all there are now.
MCFirstSettings ==
  [settings |-> Settings(TRUE, 1, 2, "f1"),
   columns |-> ColumnsAre(<<"Message">>, <<"Host">>)]

\* The viewer can open the file of one daemon, and not that of the other.
MCExternal == [p \in Ports |-> IF p = 1 THEN "f2" ELSE "f3"]
=============================================================================
