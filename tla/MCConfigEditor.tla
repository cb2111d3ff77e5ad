--------------------------- MODULE MCConfigEditor ---------------------------
(* The documents of the runs of ConfigEditor: a file as the viewer's test    *)
(* has it, and files with each construct the documentation describes.        *)
EXTENDS ConfigEditor

TP(source, function, group) ==
  [sourceFile |-> source, functionName |-> function, groupName |-> group]

MCTracePoints == {TP("a.cpp", "f", "key1"), TP("a.cpp", "g", "key2"), TP("b.cpp", "f", "")}

Output(type, option) == [tag |-> "output", type |-> type, option |-> option]
Tcp == Output("tcp", [host |-> "local"])
Xml == [tag |-> "serializer", type |-> "xml", option |-> [beautifiedOutput |-> "yes"]]
Text == [tag |-> "serializer", type |-> "plaintext", option |-> [timestamps |-> "yes"]]
Set(variables, backtraces, filters) ==
  [tag |-> "tracepointset", variables |-> variables, backtraces |-> backtraces,
   filters |-> filters]
ProcessElement(name, children) == [tag |-> "process", name |-> name, children |-> children]
Keys(s) == [tag |-> "tracekeys", children |-> s]
Path(mode, text) == FilterElement("pathfilter", mode, text)
Function(mode, text) == FilterElement("functionfilter", mode, text)
Compound(tag, mode, sub) == [tag |-> tag, mode |-> mode, text |-> "", sub |-> sub]
Storage == [tag |-> "storage", children |-> <<Leaf("maximumSize", "9"),
              Leaf("shrinkBy", "10"), Leaf("archiveDirectory", "d")>>]

\* testconf.xml has two sets, one of them with a function filter.
Tested == << ProcessElement("p", <<Tcp, Xml, Set("yes", "", <<Path("regexp", "*")>>),
                                 Set("yes", "", <<Function("wildcard", "f")>>)>>) >>
Plain == << Storage, Keys(<<Key("key1", "true"), Key("key2", "false")>>),
            ProcessElement("p", <<Tcp, Xml>>),
            ProcessElement("q", <<Tcp, Text, Set("no", "no", <<Path("strict", "a.cpp")>>)>>) >>
Twice == << Keys(<<Key("key1", "")>>),
            ProcessElement("p", <<Xml, Output("stdout", <<>>), Set("", "yes",
              <<Compound("matchanyfilter", "", <<Path("regexp", "b.cpp"), Function("strict", "g"),
                  Compound("matchallfilter", "", <<Path("strict", "a.cpp"),
                    Compound("tracekeyfilter", "blacklist", <<Key("key2", "")>>)>>)>>)>>),
              Set("yes", "", <<Compound("tracekeyfilter", "whitelist", <<Key("key2", "")>>)>>)>>),
            ProcessElement("p", <<Tcp>>), Keys(<<Key("key2", "true")>>) >>
\* Filters without a mode: what the library makes of them is not what is meant.
Unsaid == << ProcessElement("p", <<Tcp, Xml, Set("yes", "", <<Path("", "a.cpp"),
              Compound("tracekeyfilter", "", <<Key("key2", "")>>)>>)>>) >>
Odd == << ProcessElement("q", <<Output("file", [filename |-> "t.log"]), Text,
            Set("yes", "", <<Compound("matchanyfilter", "", <<>>)>>),
            [tag |-> "comment"]>>),
          ProcessElement("p", <<Tcp, Xml, Tcp>>),
          Keys(<<Key("key2", "false")>>) >>

MCFiles == {Tested, Plain, Twice, Odd, Unsaid, <<>>,
            Append(Plain, [tag |-> "comment"]), <<Keys(<<Leaf("name", "key1")>>)>>,
            << ProcessElement("p", <<Tcp, Xml, Set("no", "", <<>>), Tcp>>) >>,
            << [Storage EXCEPT !.children = Tail(@)], ProcessElement("p", <<Tcp, Xml>>) >>}
=============================================================================
