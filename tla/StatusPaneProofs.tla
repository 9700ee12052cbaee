-------------------------- MODULE StatusPaneProofs --------------------------
(***************************************************************************)
(* Theorems about StatusPane, for any plugins, any number of actions in    *)
(* flight and any number of changes of the daemon.                         *)
(***************************************************************************)
EXTENDS StatusPane, TLAPS

(***************************************************************************)
(* The inductive invariant behind TableForward.  That a reply is not older *)
(* than the table is not inductive alone: a second request in flight could *)
(* have been answered before the table was filled.  m_requestInFlight has  *)
(* to be set exactly while there is a request, which makes it the only one.*)
(***************************************************************************)
OneInFlight ==
    /\ listInFlight \in BOOLEAN
    /\ listInFlight <=> lists # {}
    /\ \A a, b \in lists : a = b
Dated ==
    /\ version \in Nat /\ table.version \in Nat
    /\ table.version <= version
    /\ \A l \in lists : l.phase = "ok" =>
         l.version \in Nat /\ table.version <= l.version /\ l.version <= version
PaneInv == OneInFlight /\ Dated

\* Every step keeps PaneInv and moves the table, if at all, forward.
LEMMA StepForward ==
    ASSUME PaneInv, Next
    PROVE  PaneInv' /\ table'.version >= table.version
<1>1. ASSUME NEW row \in 1..Len(Order), OnTableSelectionChanged(row)
      PROVE  PaneInv' /\ table'.version >= table.version
  BY <1>1 DEF OnTableSelectionChanged, PaneInv, OneInFlight, Dated, pluginVars, statusVars
<1>2. CASE OnTimeout
  <2>1. /\ lists = {} /\ lists' = {[phase |-> "sent"]} /\ listInFlight' = TRUE
        /\ UNCHANGED <<version, table>>
    BY <1>2 DEF OnTimeout, Refresh, PaneInv, OneInFlight, pluginVars, tableVars
  <2>2. QED
    BY <2>1 DEF PaneInv, OneInFlight, Dated
<1>3. ASSUME NEW l \in lists, ListAnswered(l)
      PROVE  PaneInv' /\ table'.version >= table.version
  <2>1. lists = {l}
    BY <1>3 DEF PaneInv, OneInFlight
  <2>2. UNCHANGED <<version, table, listInFlight>>
    BY <1>3 DEF ListAnswered, pluginVars, tableVars
  <2>3. \/ lists' = {[phase |-> "ok", rows |-> plugins, version |-> version]}
        \/ lists' = {[phase |-> "error"]}
    BY <1>3, <2>1 DEF ListAnswered
  <2>4. table'.version = table.version /\ version' = version
    BY <2>2
  <2>5. OneInFlight'
    BY <2>1, <2>2, <2>3 DEF PaneInv, OneInFlight
  <2>6. \A m \in lists' : m.phase = "ok" => m.version = version
    BY <2>3
  <2>7. Dated'
    BY <2>4, <2>6 DEF PaneInv, Dated
  <2>8. QED
    BY <2>4, <2>5, <2>7 DEF PaneInv, Dated
<1>4. ASSUME NEW l \in lists, OnListReplyFinished(l)
      PROVE  PaneInv' /\ table'.version >= table.version
  <2>1. lists' = {} /\ listInFlight' = FALSE /\ version' = version
    BY <1>4 DEF OnListReplyFinished, InFlightAfter, PaneInv, OneInFlight, pluginVars
  <2>2. CASE l.phase = "ok"
    <3>1. table'.version = l.version
      BY <1>4, <2>2 DEF OnListReplyFinished, OnPluginsUpdated
    <3>2. QED
      BY <2>1, <2>2, <3>1 DEF PaneInv, OneInFlight, Dated
  <2>3. CASE l.phase # "ok"
    <3>1. table'.version = table.version
      BY <1>4, <2>3 DEF OnListReplyFinished
    <3>2. OneInFlight'
      BY <2>1 DEF OneInFlight
    <3>3. Dated'
      BY <2>1, <3>1 DEF PaneInv, Dated
    <3>4. QED
      BY <3>1, <3>2, <3>3 DEF PaneInv, Dated
  <2>4. QED
    BY <2>2, <2>3
<1>5. ASSUME NEW k \in Slots, NEW a \in Clicks, OnClicked(a, k)
      PROVE  PaneInv' /\ table'.version >= table.version
  BY <1>5 DEF OnClicked, PaneInv, OneInFlight, Dated, pluginVars, tableVars
<1>6. ASSUME NEW k \in Slots, ActionApplied(k)
      PROVE  PaneInv' /\ table'.version >= table.version
  <2>1. /\ version' = version \/ version' = version + 1
        /\ UNCHANGED <<table, lists, listInFlight>>
    BY <1>6 DEF ActionApplied, pluginVars, tableVars
  <2>2. QED
    BY <2>1 DEF PaneInv, OneInFlight, Dated
<1>7. ASSUME NEW k \in Slots, OnActionReplyFinished(k)
      PROVE  PaneInv' /\ table'.version >= table.version
  <2>1. UNCHANGED <<version, table>>
    BY <1>7 DEF OnActionReplyFinished, pluginVars, tableVars
  <2>2. CASE listInFlight
    <3>1. UNCHANGED <<lists, listInFlight>>
      BY <1>7, <2>2 DEF OnActionReplyFinished, Refresh
    <3>2. QED
      BY <2>1, <3>1 DEF PaneInv, OneInFlight, Dated
  <2>3. CASE ~listInFlight
    <3>1. lists = {} /\ lists' = {[phase |-> "sent"]} /\ listInFlight' = TRUE
      BY <1>7, <2>3 DEF OnActionReplyFinished, Refresh, PaneInv, OneInFlight
    <3>2. QED
      BY <2>1, <3>1 DEF PaneInv, OneInFlight, Dated
  <2>4. QED
    BY <2>2, <2>3
<1>8. ASSUME NEW p \in Plugins, NEW s \in States \union {"absent"}, PluginChanges(p, s)
      PROVE  PaneInv' /\ table'.version >= table.version
  <2>1. version' = version + 1 /\ UNCHANGED <<table, lists, listInFlight>>
    BY <1>8 DEF PluginChanges, statusVars, tableVars
  <2>2. QED
    BY <2>1 DEF PaneInv, OneInFlight, Dated
<1>9. CASE Outage
  BY <1>9 DEF Outage, PaneInv, OneInFlight, Dated, pluginVars, statusVars, tableVars
<1>10. QED
  BY <1>1, <1>2, <1>3, <1>4, <1>5, <1>6, <1>7, <1>8, <1>9 DEF Next

LEMMA InitDated == Init => PaneInv
  BY DEF Init, PaneInv, OneInFlight, Dated

LEMMA StutterDated == PaneInv /\ UNCHANGED vars => PaneInv'
  BY DEF PaneInv, OneInFlight, Dated, vars, pluginVars, statusVars, tableVars

\* A list taken earlier is never shown after a later one, whatever refreshes
\* timers and actions ask for (PluginStatusManager::refresh).
THEOREM TableNeverGoesBack == Spec => TableForward
<1>1. PaneInv /\ [Next]_vars => PaneInv'
  BY StepForward, StutterDated
<1>2. PaneInv /\ [Next]_vars => [table'.version >= table.version]_vars
  BY StepForward
<1>3. QED
  BY InitDated, <1>1, <1>2, PTL DEF Spec, TableForward

-----------------------------------------------------------------------------
(* The selection.                                                          *)

\* What RestoredRow selects, when the plugin selected before is still listed.
LEMMA RestoresSelection ==
    ASSUME NEW rows,
           SelectedPluginId(table.rows, currentRow) \in Range(Rows(rows))
    PROVE  SelectedPluginId(rows, RestoredRow(rows)) = SelectedPluginId(table.rows, currentRow)
<1> DEFINE previous == SelectedPluginId(table.rows, currentRow)
           now == Rows(rows)
           row == CHOOSE i \in DOMAIN now : now[i] = previous
<1>1. \E i \in DOMAIN now : now[i] = previous
  BY DEF Range
<1>2. row \in DOMAIN now /\ now[row] = previous
  BY <1>1
<1>3. DOMAIN now = 1..RowCount(rows)
  BY DEF Rows
<1>4. row # 0
  <2>1. 0 \notin 1..RowCount(rows)
    OBVIOUS
  <2>2. QED
    BY <1>2, <1>3, <2>1
<1>5. RestoredRow(rows) = row
  BY DEF RestoredRow
<1>6. QED
  BY <1>2, <1>4, <1>5 DEF SelectedPluginId

Kept ==
    SelectedPluginId(table.rows, currentRow) \in Range(Rows(table'.rows))
      => \/ SelectedPluginId(table'.rows, currentRow') = SelectedPluginId(table.rows, currentRow)
         \/ table' = table

LEMMA StepKeepsSelection == Next => Kept
<1> SUFFICES ASSUME Next PROVE Kept
  OBVIOUS
<1>1. CASE table' = table
  BY <1>1 DEF Kept
<1>2. CASE table' # table
  <2>1. PICK l \in lists : OnListReplyFinished(l)
    BY <1>2 DEF Next, OnTableSelectionChanged, OnTimeout, ListAnswered, OnClicked,
                ActionApplied, OnActionReplyFinished, PluginChanges, Outage, tableVars
  <2>2. OnPluginsUpdated(l)
    BY <1>2, <2>1 DEF OnListReplyFinished
  <2>3. table'.rows = l.rows /\ currentRow' = RestoredRow(l.rows)
    BY <2>2 DEF OnPluginsUpdated
  <2>4. QED
    BY <2>3, RestoresSelection DEF Kept
<1>3. QED
  BY <1>1, <1>2

\* A plugin the user selected stays selected while it is listed, however many
\* plugins come and go around it (DzPythonBridgePane::onPluginsUpdated): no
\* click acts on a plugin that slid into the selected row.
THEOREM SelectionStays == Spec => SelectionKept
<1>1. [Next]_vars => [Kept]_vars
  BY StepKeepsSelection
<1>2. QED
  BY <1>1, PTL DEF Spec, SelectionKept, Kept

-----------------------------------------------------------------------------
(* The buttons.                                                            *)

LEMMA StepMatchesButtons ==
    ButtonsMatchSelection /\ [Next]_vars => ButtonsMatchSelection'
<1> SUFFICES ASSUME ButtonsMatchSelection, [Next]_vars PROVE ButtonsMatchSelection'
  OBVIOUS
<1>1. CASE UNCHANGED <<table, currentRow, buttons>>
  BY <1>1 DEF ButtonsMatchSelection
<1>2. ASSUME NEW row, OnTableSelectionChanged(row)
      PROVE  ButtonsMatchSelection'
  BY <1>2 DEF OnTableSelectionChanged, UpdateActionButtonsEnabled, ButtonsMatchSelection
<1>3. ASSUME NEW l, OnListReplyFinished(l)
      PROVE  ButtonsMatchSelection'
  <2>1. CASE l.phase = "ok"
    <3>1. table'.rows = l.rows /\ buttons' = (SelectedPluginId(l.rows, currentRow') # NoPlugin)
      BY <1>3, <2>1 DEF OnListReplyFinished, OnPluginsUpdated, UpdateActionButtonsEnabled
    <3>2. QED
      BY <3>1 DEF ButtonsMatchSelection
  <2>2. CASE l.phase # "ok"
    BY <1>1, <1>3, <2>2 DEF OnListReplyFinished
  <2>3. QED
    BY <2>1, <2>2
<1>4. QED
  BY <1>1, <1>2, <1>3
     DEF Next, OnTimeout, ListAnswered, OnClicked, ActionApplied, OnActionReplyFinished,
         PluginChanges, Outage, tableVars, vars

\* The action buttons are enabled exactly while a click has a plugin to act on
\* (updateActionButtonsEnabled).
THEOREM ButtonsMatch == Spec => []ButtonsMatchSelection
<1>1. Init => ButtonsMatchSelection
  BY DEF Init, ButtonsMatchSelection, SelectedPluginId
<1>2. QED
  BY <1>1, StepMatchesButtons, PTL DEF Spec
=============================================================================
