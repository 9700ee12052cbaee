----------------------------- MODULE StatusPane -----------------------------
(***************************************************************************)
(* The user's half of the pane: PluginStatusManager (the polled plugin     *)
(* list and the Start/Stop/Restart/Enable/Disable requests) and the plugin *)
(* table and its selection in DzPythonBridgePane.                          *)
(*                                                                         *)
(* The pane runs on the Qt main thread: one slot, one action.  Requests    *)
(* travel on their own connections, so the daemon may apply them and the   *)
(* replies may come back in any order.  The daemon is reduced to the state *)
(* it reports for each plugin (PluginRegistry models it); version counts   *)
(* its changes, so that what the pane shows can be dated.                  *)
(***************************************************************************)
EXTENDS Naturals, Sequences, FiniteSets, SequencesExt

CONSTANTS
    Order,          \* the plugin ids, in the order GET /plugins sorts them
    Clicks,         \* the action buttons the user may press
    Outages,        \* whether the daemon may become unreachable
    MaxVersion,     \* bound: changes of the daemon's state
    MaxActions      \* bound: action requests in flight

ASSUME StatusAssumption ==
    /\ IsInjective(Order)
    /\ Outages \in BOOLEAN
    /\ MaxVersion \in Nat /\ MaxActions \in Nat \ {0}
    /\ Clicks \subseteq {"start", "stop", "restart", "enable", "disable"}

VARIABLES
    plugins,        \* daemon: the state of each plugin, or "absent"
    version,        \* daemon: number of changes of plugins so far
    reachable,      \* the daemon accepts connections and the token
    lists,          \* GET /plugins requests in flight
    listInFlight,   \* PluginStatusManager::m_requestInFlight
    actions,        \* action requests in flight, by slot
    table,          \* the table: the last list shown, and its version
    currentRow,     \* QTableWidget's current row, 0 for none
    buttons         \* the five action buttons are enabled

pluginVars == <<plugins, version>>
statusVars == <<lists, listInFlight, actions>>
tableVars == <<table, currentRow, buttons>>
vars == <<pluginVars, reachable, statusVars, tableVars>>

Plugins == Range(Order)
States == {"ready", "running", "disabled"}
Slots == 1..MaxActions
NoAction == [phase |-> "none"]
NoPlugin == "none"

\* The rows of a table showing snapshot s: the k-th row is the k-th plugin
\* listed.
Listed(s) == {i \in DOMAIN Order : s[Order[i]] # "absent"}
RowCount(s) == Cardinality(Listed(s))
Rows(s) == [k \in 1..RowCount(s) |->
              Order[CHOOSE i \in Listed(s) : Cardinality({j \in Listed(s) : j <= i}) = k]]

-----------------------------------------------------------------------------
(* DzPythonBridgePane: table and selection. *)

SelectedPluginId(shown, row) ==
    IF row = 0 THEN NoPlugin ELSE Rows(shown)[row]

UpdateActionButtonsEnabled(shown, row) ==
    buttons' = (SelectedPluginId(shown, row) # NoPlugin)

\* The user clicks a row.
OnTableSelectionChanged(row) ==
    /\ row \in 1..RowCount(table.rows) /\ row # currentRow
    /\ currentRow' = row
    /\ UpdateActionButtonsEnabled(table.rows, row)
    /\ UNCHANGED <<pluginVars, reachable, statusVars, table>>

\* QTableWidget::setRowCount drops rows from the end; a current row that goes
\* with them moves to the last row left.
SetRowCount(count) == IF currentRow > count THEN count ELSE currentRow

KeepsRow(rows) == SetRowCount(RowCount(rows))                          \* mutant
\* onPluginsUpdated selects the plugin that was selected before, if it is still
\* listed; otherwise the row number stays and names whatever is there now.
RestoredRow(rows) ==
    LET previous == SelectedPluginId(table.rows, currentRow)
        now == Rows(rows)
    IN  IF previous \in Range(now)
        THEN CHOOSE i \in DOMAIN now : now[i] = previous
        ELSE SetRowCount(RowCount(rows))

OnPluginsUpdated(reply) ==
    /\ table' = [rows |-> reply.rows, version |-> reply.version]
    /\ currentRow' = RestoredRow(reply.rows)
    /\ UpdateActionButtonsEnabled(reply.rows, currentRow')

-----------------------------------------------------------------------------
(* PluginStatusManager *)

RefreshAlways ==                                                       \* mutant
    IF Cardinality(lists) < 2 THEN lists' = lists \union {[phase |-> "sent", n |-> Cardinality(lists)]}
                                   /\ listInFlight' = TRUE
                              ELSE UNCHANGED <<lists, listInFlight>>
\* refresh: dropped while a list request is in flight.
Refresh ==
    IF listInFlight
    THEN UNCHANGED <<lists, listInFlight>>
    ELSE /\ lists' = lists \union {[phase |-> "sent"]}
         /\ listInFlight' = TRUE

OnTimeout ==
    /\ ~listInFlight
    /\ Refresh
    /\ UNCHANGED <<pluginVars, reachable, actions, tableVars>>

\* The daemon lists its plugins, or the request fails: refused, unauthorized, or
\* a plugin directory that vanishes while it is listed.  The list is dated by the
\* moment it is taken; that it is put together plugin by plugin is the concern
\* of PluginRegistry.
ListAnswered(l) ==
    /\ l.phase = "sent"
    /\ \/ /\ reachable
          /\ lists' = (lists \ {l}) \union
                        {[phase |-> "ok", rows |-> plugins, version |-> version]}
       \/ /\ ~reachable
          /\ lists' = (lists \ {l}) \union {[phase |-> "error"]}
    /\ UNCHANGED <<pluginVars, reachable, listInFlight, actions, tableVars>>

ErrorKeepsFlag(l) == l.phase = "error"                                 \* mutant
InFlightAfter(l) == FALSE

OnListReplyFinished(l) ==
    /\ l.phase \in {"ok", "error"}
    /\ lists' = lists \ {l}
    /\ listInFlight' = InFlightAfter(l)
    /\ IF l.phase = "ok" THEN OnPluginsUpdated(l)
                         ELSE UNCHANGED <<table, currentRow, buttons>>
    /\ UNCHANGED <<pluginVars, reachable, actions>>

\* performActionOnSelection and performAction: one POST per click, on the plugin
\* selected when the button is clicked.
OnClicked(action, k) ==
    /\ buttons /\ actions[k] = NoAction
    /\ actions' = [actions EXCEPT ![k] =
          [phase |-> "sent", action |-> action,
           plugin |-> SelectedPluginId(table.rows, currentRow)]]
    /\ UNCHANGED <<pluginVars, reachable, lists, listInFlight, tableVars>>

\* PluginRegistry's five operations, as the state they leave the plugin in.
Refuses(action, state) ==
    state = "absent" \/ (state = "disabled" /\ action \in {"start", "restart"})
Effect(action, state) ==
    CASE action \in {"start", "restart"} -> "running"
      [] action = "stop"    -> IF state = "disabled" THEN state ELSE "ready"
      [] action = "enable"  -> IF state = "disabled" THEN "ready" ELSE state
      [] action = "disable" -> "disabled"

\* The daemon applies the request and answers with the plugin's new status, or
\* answers 404/409/502, or cannot be reached.
ActionApplied(k) ==
    LET a == actions[k]
        state == plugins[a.plugin]
    IN  /\ a.phase = "sent"
        /\ IF ~reachable \/ Refuses(a.action, state)
           THEN /\ actions' = [actions EXCEPT ![k].phase = "error"]
                /\ UNCHANGED pluginVars
           ELSE /\ version < MaxVersion
                /\ version' = version + 1
                /\ plugins' = [plugins EXCEPT ![a.plugin] = Effect(a.action, state)]
                /\ actions' = [actions EXCEPT ![k] =
                      [phase |-> "ok", plugin |-> a.plugin]]
        /\ UNCHANGED <<reachable, lists, listInFlight, tableVars>>

\* onActionReplyFinished: actionFinished(), then refresh().  The pane's handler of
\* actionFinished() (a failure as the table's tool tip) is not connected: the types in
\* its SLOT(), PluginStatusManager::Action, and in the SIGNAL(), Action, do not match.
OnActionReplyFinished(k) ==
    LET a == actions[k]
    IN  /\ a.phase \in {"ok", "error"}
        /\ actions' = [actions EXCEPT ![k] = NoAction]
        /\ Refresh
        /\ UNCHANGED <<pluginVars, reachable, tableVars>>

-----------------------------------------------------------------------------
(* The rest of the world: installs and removals, workers that start, are       *)
(* evicted or fail, a daemon that goes away and comes back.                    *)

PluginChanges(p, state) ==
    /\ version < MaxVersion /\ plugins[p] # state
    /\ plugins' = [plugins EXCEPT ![p] = state]
    /\ version' = version + 1
    /\ UNCHANGED <<reachable, statusVars, tableVars>>

Outage ==
    /\ Outages
    /\ reachable' = ~reachable
    /\ UNCHANGED <<pluginVars, statusVars, tableVars>>

-----------------------------------------------------------------------------

\* The constructor: an empty table, buttons disabled, and start() refreshing once.
Init ==
    /\ plugins \in [Plugins -> {"absent", "ready"}]
    /\ version = 0
    /\ reachable \in {TRUE, ~Outages}
    /\ lists = {[phase |-> "sent"]}
    /\ listInFlight = TRUE
    /\ actions = [k \in Slots |-> NoAction]
    /\ table = [rows |-> [p \in Plugins |-> "absent"], version |-> 0]
    /\ currentRow = 0
    /\ buttons = FALSE

Next ==
    \/ \E row \in 1..Len(Order) : OnTableSelectionChanged(row)
    \/ OnTimeout
    \/ \E l \in lists : ListAnswered(l) \/ OnListReplyFinished(l)
    \/ \E k \in Slots : \/ \E a \in Clicks : OnClicked(a, k)
                        \/ ActionApplied(k)
                        \/ OnActionReplyFinished(k)
    \/ \E p \in Plugins, s \in States \union {"absent"} : PluginChanges(p, s)
    \/ Outage

\* Timers fire, list requests are answered one way or the other and the event
\* loop delivers the replies.
Fairness ==
    /\ WF_vars(OnTimeout)
    /\ WF_vars(\E l \in lists : ListAnswered(l))
    /\ WF_vars(\E l \in lists : OnListReplyFinished(l))

Spec == Init /\ [][Next]_vars /\ Fairness

-----------------------------------------------------------------------------
(* Properties *)

\* The buttons are enabled exactly when a click would have a plugin to act on,
\* through every shrinking and growing of the table under the selection.
ButtonsMatchSelection == buttons <=> SelectedPluginId(table.rows, currentRow) # NoPlugin

\* The plugin selected by the user stays selected as long as it is listed,
\* however the rows move when other plugins come and go.
SelectionKept ==
    [][SelectedPluginId(table.rows, currentRow) \in Range(Rows(table'.rows))
         => \/ SelectedPluginId(table'.rows, currentRow') = SelectedPluginId(table.rows, currentRow)
            \/ table' = table]_vars

\* The table never goes back in time: a list taken earlier is not shown after a
\* later one (m_requestInFlight allows one list request at a time).
TableForward == [][table'.version >= table.version]_vars

\* While the daemon can be reached, every change of it reaches the table, also
\* the ones whose own refresh was dropped.
TableCatchesUp ==
    \A v \in 1..MaxVersion : <>[]reachable => (version >= v ~> table.version >= v)
=============================================================================
