---------------------------- MODULE MCDatabaseFile ----------------------------
(***************************************************************************)
(* Instances of DatabaseFile: the daemon and the GUI, which create a       *)
(* missing file, trace2xml, which does not, and convertdb.                 *)
(***************************************************************************)
EXTENDS DatabaseFile

MCDoes ==
  [p \in Programs |->
     CASE p \in {"traced", "tracegui"} -> "openOrCreate"
       [] p = "trace2xml" -> "open"
       [] p = "upgrade" -> "upgrade"
       [] p = "downgrade" -> "downgrade"]

MCInitialFiles == {NoFile, EmptyFile} \cup {FileOf(v) : v \in {0, 3, 4, 5, 6, 8}}
=============================================================================
