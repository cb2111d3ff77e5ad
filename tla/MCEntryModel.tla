---------------------------- MODULE MCEntryModel ----------------------------
(* Instances of EntryModel: two processes, one of which traces with a key. *)
EXTENDS EntryModel

Net == [k \in {"net"} |-> TRUE]
NoNet == [k \in {"net"} |-> FALSE]
Unconfigured == [k \in {} |-> TRUE]

Plain == [proc |-> "a", pid |-> 1, point |-> "p", key |-> NoKey, traceKeys |-> Net,
          watched |-> TRUE]
Keyed == [Plain EXCEPT !.proc = "b", !.pid = 2, !.point = "q", !.key = "net",
                       !.watched = FALSE]
MCKinds == {Plain, Keyed}
MCKeyLess == {[k EXCEPT !.traceKeys = Unconfigured] : k \in MCKinds}
MCUnkeyed == {[k EXCEPT !.traceKeys = Unconfigured, !.key = NoKey] : k \in MCKinds}
MCDisabled == {[k EXCEPT !.traceKeys = NoNet] : k \in MCKinds}

First == CHOOSE k \in Kinds : k.watched

Text(contains, like) == [contains |-> contains, like |-> like]
MCTexts == {Text(Kinds, Kinds), Text({First}, {First}), Text({}, {First})}
MCProcessRow == [pid \in 1 .. 2 |-> 3 - pid]
AnyProcess == {-1}
FirstProcess == {-1, 1}

MCFirstDatabase == With(EmptyDatabase, NewEntry(EmptyDatabase, First, 0))
NoDatabase == {}
MCOther == {EmptyDatabase}
=============================================================================
