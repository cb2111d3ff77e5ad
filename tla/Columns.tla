-------------------------------- MODULE Columns --------------------------------
(***************************************************************************)
(* The columns of the viewer's table (gui/columnsinfo.cpp): m_visualToReal *)
(* is the visible columns in their order and the invisible ones.  What a   *)
(* session saves is names, which another version may not know.             *)
(***************************************************************************)
LOCAL INSTANCE Sequences
LOCAL INSTANCE SequencesExt
LOCAL INSTANCE FiniteSetsExt

CONSTANT ColumnNames     \* columnNames, in the order of the program

ColumnsAre(visible, invisible) == [visible |-> visible, invisible |-> invisible]

\* ColumnsInfo::setDefaultState
DefaultColumns == ColumnsAre(ColumnNames, <<>>)

Known(names) == SelectSeq(names, LAMBDA n : n \in Range(ColumnNames))

\* Mutant: columns the session does not name are nowhere.
RestoreColumnsNamed(state) == ColumnsAre(Known(state.visible), Known(state.invisible))

\* ColumnsInfo::restoreSessionState: columns that were not saved become visible.
RestoreColumns(state) ==
  LET visible == Known(state.visible)
      invisible == Known(state.invisible)
      restored == Range(visible) \cup Range(invisible)
      new == SelectSeq(ColumnNames, LAMBDA n : n \notin restored)
  IN  ColumnsAre(IF Len(visible) + Len(invisible) # Len(ColumnNames)
                 THEN visible \o new ELSE visible, invisible)

\* Mutant: the invisible columns are not saved.
ColumnsStateVisible(c) == ColumnsAre(c.visible, <<>>)

\* ColumnsInfo::sessionState
ColumnsState(c) == ColumnsAre(c.visible, c.invisible)

\* SettingsForm: the lists, and what its buttons do to them.
MoveRow(from, to, row) ==
  [from |-> RemoveAt(from, row), to |-> Append(to, from[row])]
SwapRows(list, row) ==
  [list EXCEPT ![row] = list[row + 1], ![row + 1] = list[row]]

Moved(c) ==
  {LET m == MoveRow(c.visible, c.invisible, i) IN ColumnsAre(m.from, m.to) :
     i \in DOMAIN c.visible}
  \cup {LET m == MoveRow(c.invisible, c.visible, i) IN ColumnsAre(m.to, m.from) :
          i \in DOMAIN c.invisible}
  \cup {ColumnsAre(SwapRows(c.visible, i), c.invisible) :
          i \in {j \in DOMAIN c.visible : j < Len(c.visible)}}
=============================================================================
