------------------------------ MODULE Catalogue ------------------------------
(***************************************************************************)
(* The workspace page around the grid: the sidebar that lists tables and   *)
(* views, the route, the page of a saved view and the home page of a       *)
(* freshly seeded workspace, over the store a tab reads.                   *)
(*                                                                         *)
(*   components/Sidebar.tsx         refreshData and the handlers           *)
(*   components/NewViewDropdown.tsx, ViewSettingsModal.tsx                 *)
(*   views/kanban/KanbanView.tsx, views/table/TableView.tsx  saved views   *)
(*   views/ViewRouter.tsx, App.tsx  routes, WorkspaceHome                  *)
(*   app-core: workspace.rs, schema.rs, views.rs and their bridge calls    *)
(*                                                                         *)
(* The client holding the store is the tab itself or the shared worker; a  *)
(* worker pushes what a tab reads.  Every call waits for its cells to be   *)
(* sent, so anything may happen between a call and its answer.  A table or *)
(* view is made under the identifier its name gives, which is its first    *)
(* name here.  Sort order, hidden columns and rows are left out.           *)
(***************************************************************************)
EXTENDS Naturals, Sequences, FiniteSets

CONSTANTS Tables, Views,  \* identifiers of tables and views
          Of(_),          \* the table a view projects
          Renames,        \* names a user may type
          Conditions,     \* filter conditions
          Columns,        \* columns a board may group by
          Envs            \* the surroundings a behaviour may run in

Hosts == {"tab", "worker"}

None == "none"

Names == Renames \union Tables \union Views \union {None}
Configs == [name : Names, filters : SUBSET Conditions, group : Columns \union {None}]
Orders == [1..Cardinality(Tables) -> Tables]

\* What a store may hold.
Workspaces ==
  [tables : [Tables -> [live : BOOLEAN, name : Names]],
   views : [Views -> [live : BOOLEAN, name : Names, filters : SUBSET Conditions,
                      group : Columns \union {None}]],
   order : Orders \union {<< >>}, gone : SUBSET Columns]

ASSUME CatalogueAssumption ==
  /\ \A v \in Views : Of(v) \in Tables
  /\ None \notin Views
  /\ \A e \in Envs : e.start \in Workspaces
  /\ \A e \in Envs : /\ e.host \in Hosts /\ {e.unsealed, e.seeded} \subseteq BOOLEAN
                     /\ e.boards \subseteq Views
                     /\ {e.ops, e.arrivals} \subseteq Nat

VARIABLES
  env,      \* fixed: the store found on opening (start) and who holds it (host); the
            \* views shown as boards, the others being grids; whether the room may
            \* turn out not to be encrypted (unsealed); whether the page was opened
            \* with the seeded hint; bounds on ops and arrivals
  store,    \* the workspace as the client holds it
  seen,     \* the workspace as this tab reads it
  unpushed, \* worker: the store changed since the last push
  due,      \* an effect on [pathname, syncCount] has to run
  shown,    \* the sidebar's tables and views
  route,    \* where the page is
  gaveUp,   \* the seeded home page stopped waiting
  board,    \* the saved view on screen
  dialog,   \* the sidebar's open prompt or confirmation
  calls,    \* calls not yet answered
  ops,      \* things the user asked for so far
  arrivals  \* changes made elsewhere so far

catalogueVars == <<env, store, seen, unpushed, due, shown, route, gaveUp, board, dialog,
                   calls, ops, arrivals>>
workspace == <<store, seen, unpushed>>
page == <<due, shown, route, gaveUp, board, dialog>>

Home(hint) == [page |-> "home", table |-> None, view |-> None, hint |-> hint]
TablePage(t) == [page |-> "table", table |-> t, view |-> None, hint |-> FALSE]
ViewPage(v) == [page |-> "view", table |-> Of(v), view |-> v, hint |-> FALSE]

NoConfig == [name |-> None, filters |-> {}, group |-> None]
NoBoard == [on |-> None, holds |-> None, cfg |-> NoConfig, draft |-> {}, gone |-> {}]
NoDialog == [op |-> None, id |-> None, name |-> None, filters |-> {}]

-----------------------------------------------------------------------------
(* The workspace.                                                          *)

\* get_view, without its identifier.
Config(s, v) ==
  [name |-> s.views[v].name, filters |-> s.views[v].filters, group |-> s.views[v].group]

\* list_tables: in manual order, tombstones hidden.
LiveTables(s) == SelectSeq(s.order, LAMBDA t : s.tables[t].live)
LiveViews(s) == {v \in Views : s.views[v].live /\ s.tables[Of(v)].live}

\* What refreshData reads.
Listing(s) ==
  [tables |-> [i \in DOMAIN LiveTables(s) |->
                 <<LiveTables(s)[i], s.tables[LiveTables(s)[i]].name>>],
   views  |-> {[id |-> v, name |-> s.views[v].name, filters |-> s.views[v].filters] :
                 v \in LiveViews(s)}]

\* create_view: a cell per field; lists that are empty are not written, so the
\* cell that was there stays. Writing a view brings a deleted one back.
WriteView(s, v, cfg) ==
  [s EXCEPT !.views[v] =
     [live |-> TRUE, name |-> cfg.name,
      filters |-> IF cfg.filters = {} THEN @.filters ELSE cfg.filters,
      group |-> IF cfg.group = None THEN @.group ELSE cfg.group]]

\* Bound: a view has at most one condition.
Filters == {f \in SUBSET Conditions : Cardinality(f) <= 1}

ViewWrites == {"renameView", "newView", "save", "regroup", "settings", "fork"}

\* What a call does to the workspace. A new or imported table clears the
\* tombstone of its identifier; rows are imported into a live table as it is.
Effect(s, c) ==
  CASE c.op \in ViewWrites -> WriteView(s, c.id, c.cfg)
    [] c.op = "deleteView" -> [s EXCEPT !.views[c.id].live = FALSE]
    [] c.op = "deleteTable" -> [s EXCEPT !.tables[c.id].live = FALSE]
    [] c.op = "renameTable" -> [s EXCEPT !.tables[c.id].name = c.cfg.name]
    [] c.op = "createTable" -> [s EXCEPT !.tables[c.id] = [live |-> TRUE, name |-> c.id]]
    [] c.op = "importCsv" -> IF s.tables[c.id].live THEN s
                             ELSE [s EXCEPT !.tables[c.id] = [live |-> TRUE, name |-> c.id]]
    [] c.op = "setTableOrder" -> [s EXCEPT !.order = c.order]

\* create_table is refused for a table that exists, before anything is written.
Fails(s, c) == c.op = "createTable" /\ s.tables[c.id].live

\* What other people, devices and tabs do, and what an integrity check may find
\* missing: one change.
Elsewhere(s) ==
  {[s EXCEPT !.tables[t] = x] : t \in Tables, x \in [live : BOOLEAN, name : Renames]}
  \union {WriteView(s, v, x) : v \in Views,
                               x \in [name : Renames, filters : Filters, group : {None}]}
  \union {[s EXCEPT !.views[v].live = FALSE] : v \in LiveViews(s)}
  \union {[s EXCEPT !.views[v].group = x] : v \in LiveViews(s) \cap env.boards, x \in Columns}
  \union {[s EXCEPT !.gone = @ \union {x}] : x \in Columns}

CatalogueInit ==
  /\ env \in Envs /\ store = env.start /\ seen = store /\ unpushed = FALSE
  /\ due = TRUE
  /\ shown = [tables |-> << >>, views |-> {}]
  /\ route = Home(env.seeded) /\ gaveUp = FALSE
  /\ board = NoBoard /\ dialog = NoDialog /\ calls = {}
  /\ ops = 0 /\ arrivals = 0

-----------------------------------------------------------------------------
(* The page.                                                               *)

\* WorkspaceHome: seeded, that is hinted and not given up.
Promising == route.page = "home" /\ route.hint /\ ~gaveUp

\* ViewRouter keeps the mounted component when the next view is of its kind.
Stays(r) ==
  \/ r = route
  \/ r.page = "view" /\ board.on # None /\ (r.view \in env.boards) = (board.on \in env.boards)

\* The calls left after a move to r: one made by a page that is gone changes
\* nothing on screen when it is answered.
Left(r, cs) == IF Stays(r) THEN cs ELSE {[c EXCEPT !.mine = FALSE] : c \in cs}

\* navigate: the home page's own state goes with the page.
MoveTo(r) == route' = r /\ gaveUp' = (gaveUp /\ r = route)

\* Where refreshData leaves the page: a table that is gone is left.
Refreshed(s) ==
  IF route.table # None /\ ~s.tables[route.table].live THEN Home(FALSE) ELSE route

\* refreshData over s, after which the page goes to r, or stays when r is where it is.
Refresh(s, r, cs) ==
  /\ shown' = Listing(s)
  /\ MoveTo(IF r = route THEN Refreshed(s) ELSE r)
  /\ board' = IF Stays(route') THEN board ELSE NoBoard
  /\ calls' = Left(route', cs)

\* A board whose view cannot be read shows an error; a grid keeps the view it held.
Unreadable(v) == [board EXCEPT !.on = v, !.holds = IF v \in env.boards THEN None ELSE @]

Opened(v) ==
  IF ~seen.views[v].live THEN Unreadable(v)
  ELSE LET cfg == Config(seen, v)
       IN [on |-> v, holds |-> v, cfg |-> cfg, draft |-> cfg.filters, gone |-> {}]

LoadedEachSync ==
  IF route.page # "view" THEN NoBoard
  ELSE [Opened(route.view) EXCEPT !.gone = seen.gone]

\* A view's configuration is read when its page opens and at no later sync; the
\* schema is read again every time.
Loaded ==
  IF route.page # "view" THEN NoBoard
  ELSE [(IF board.on = route.view THEN board ELSE Opened(route.view)) EXCEPT !.gone = seen.gone]

\* The effects of one render: the sidebar reads its lists again, the view page
\* loads, a seeded home page opens the first table there is.
RunEffects ==
  /\ due
  /\ shown' = Listing(seen)
  /\ MoveTo(IF Promising /\ LiveTables(seen) # << >> THEN TablePage(LiveTables(seen)[1])
            ELSE Refreshed(seen))
  /\ board' = IF route' = route THEN Loaded ELSE NoBoard
  /\ calls' = Left(route', calls)
  /\ due' = (route' # route)
  /\ UNCHANGED <<env, workspace, dialog, ops, arrivals>>

\* The seeded home page's timer.
GiveUp ==
  /\ Promising
  /\ gaveUp' = TRUE
  /\ UNCHANGED <<env, workspace, due, shown, route, board, dialog, calls, ops, arrivals>>

\* A table or view of the sidebar is clicked.
Navigate ==
  /\ dialog = NoDialog
  /\ \E r \in {TablePage(shown.tables[i][1]) : i \in DOMAIN shown.tables}
              \union {ViewPage(v.id) : v \in shown.views} :
       /\ r # route
       /\ MoveTo(r)
       /\ board' = IF Stays(r) THEN board ELSE NoBoard
       /\ calls' = Left(r, calls)
  /\ due' = TRUE
  /\ UNCHANGED <<env, workspace, shown, dialog, ops, arrivals>>

-----------------------------------------------------------------------------
(* Calls.                                                                  *)

Call(op, id, cfg) ==
  [n |-> ops + 1, op |-> op, id |-> id, cfg |-> cfg, order |-> << >>, state |-> "sent",
   mine |-> TRUE]

\* How a call ends. A room that is not encrypted is noticed only after the
\* client has applied the change; an import is queued without a look at the room.
Fates(c) ==
  IF c.op = "checkIntegrity" THEN {"done", "failed"}
  ELSE IF Fails(store, c) THEN {"failed"}
  ELSE {"done"} \union (IF env.unsealed /\ c.op # "importCsv" THEN {"refused"} ELSE {})

\* The client runs the call. An integrity check brings in what it finds missing.
Runs(c, fate) ==
  /\ \/ c.op = "checkIntegrity" /\ fate = "done" /\ arrivals < env.arrivals
        /\ store' \in Elsewhere(store) /\ arrivals' = arrivals + 1
     \/ store' = (IF fate = "failed" \/ c.op = "checkIntegrity" THEN store ELSE Effect(store, c))
        /\ UNCHANGED arrivals
  /\ seen' = IF env.host = "tab" THEN store' ELSE seen
  /\ UNCHANGED unpushed

\* The user asks for c: a store in the tab changes at the call, unless it has to
\* read the room's history first.
Begin(c, cs) ==
  /\ ops < env.ops /\ ops' = ops + 1
  /\ IF env.host = "tab" /\ c.op # "checkIntegrity"
     THEN \E fate \in Fates(c) : Runs(c, fate) /\ calls' = cs \union {[c EXCEPT !.state = fate]}
     ELSE calls' = cs \union {c} /\ UNCHANGED <<workspace, arrivals>>
  /\ UNCHANGED env

Run(c) ==
  /\ c.state = "sent"
  /\ \E fate \in Fates(c) :
       Runs(c, fate) /\ calls' = (calls \ {c}) \union {[c EXCEPT !.state = fate]}
  /\ UNCHANGED <<env, page, ops>>

\* A worker pushes its state before it answers a write, and not when it failed.
Answered(c) == IF c.state = "done" THEN store ELSE seen

Push ==
  /\ unpushed
  /\ unpushed' = FALSE /\ seen' = store /\ due' = TRUE
  /\ UNCHANGED <<env, store, shown, route, gaveUp, board, dialog, calls, ops, arrivals>>

\* A change made elsewhere reaches the client.
Arrive ==
  /\ arrivals < env.arrivals /\ arrivals' = arrivals + 1
  /\ store' \in Elsewhere(store) /\ store' # store
  /\ IF env.host = "tab"
     THEN seen' = store' /\ due' = TRUE /\ UNCHANGED unpushed
     ELSE unpushed' = TRUE /\ UNCHANGED <<seen, due>>
  /\ UNCHANGED <<env, shown, route, gaveUp, board, dialog, calls, ops>>

-----------------------------------------------------------------------------
(* The sidebar.                                                            *)

\* A prompt or confirmation is opened on what the sidebar lists.
Ask ==
  /\ dialog = NoDialog /\ ops < env.ops
  /\ \/ \E op \in {"renameTable", "deleteTable"}, i \in DOMAIN shown.tables :
          dialog' = [op |-> op, id |-> shown.tables[i][1], name |-> shown.tables[i][2],
                     filters |-> {}]
     \/ \E op \in {"renameView", "deleteView"}, v \in shown.views :
          dialog' = [op |-> op, id |-> v.id, name |-> v.name, filters |-> v.filters]
  /\ UNCHANGED <<env, workspace, due, shown, route, gaveUp, board, calls, ops, arrivals>>

Dismiss ==
  /\ dialog # NoDialog
  /\ dialog' = NoDialog
  /\ UNCHANGED <<env, workspace, due, shown, route, gaveUp, board, calls, ops, arrivals>>

\* handleRenameTable: the new name is not shown before the call is answered.
RenameTable(name) ==
  /\ dialog.op = "renameTable" /\ name # dialog.name
  /\ dialog' = NoDialog
  /\ Begin(Call("renameTable", dialog.id, [NoConfig EXCEPT !.name = name]), calls)
  /\ UNCHANGED <<due, shown, route, gaveUp, board>>

RenamedFromList(name) ==
  [Config(seen, dialog.id) EXCEPT !.name = name, !.filters = dialog.filters]

\* The configuration a rename writes is read when the prompt has been answered.
Renamed(name) == [Config(seen, dialog.id) EXCEPT !.name = name]

\* handleRenameView: a view that has gone meanwhile cannot be read.
RenameView(name) ==
  /\ dialog.op = "renameView" /\ name # dialog.name
  /\ dialog' = NoDialog
  /\ \/ /\ seen.views[dialog.id].live
        /\ Begin(Call("renameView", dialog.id, Renamed(name)), calls)
        /\ UNCHANGED <<due, shown, route, gaveUp, board>>
     \/ /\ ~seen.views[dialog.id].live
        /\ Refresh(seen, route, calls)
        /\ due' = (due \/ (route' # route))
        /\ UNCHANGED <<env, workspace, ops, arrivals>>

\* handleDeleteView, handleDeleteTable: gone from the list and left at once.
DeleteView ==
  /\ dialog.op = "deleteView"
  /\ dialog' = NoDialog
  /\ shown' = [shown EXCEPT !.views = {v \in @ : v.id # dialog.id}]
  /\ MoveTo(IF route.view = dialog.id THEN TablePage(Of(dialog.id)) ELSE route)
  /\ board' = IF Stays(route') THEN board ELSE NoBoard
  /\ Begin(Call("deleteView", dialog.id, NoConfig), Left(route', calls))
  /\ due' = (due \/ (route' # route))

DeleteTable ==
  /\ dialog.op = "deleteTable"
  /\ dialog' = NoDialog
  /\ shown' = [shown EXCEPT !.tables = SelectSeq(@, LAMBDA x : x[1] # dialog.id)]
  /\ MoveTo(IF route.table = dialog.id THEN Home(FALSE) ELSE route)
  /\ board' = IF Stays(route') THEN board ELSE NoBoard
  /\ Begin(Call("deleteTable", dialog.id, NoConfig), Left(route', calls))
  /\ due' = (due \/ (route' # route))

UnderWay(op) == \E c \in calls : c.op = op

\* handleCreateTable: one at a time; the call names no table that must be free.
CreateTable ==
  /\ dialog = NoDialog /\ ~UnderWay("createTable")
  /\ \E t \in Tables : Begin(Call("createTable", t, NoConfig), calls)
  /\ UNCHANGED page

ImportCsv ==
  /\ dialog = NoDialog /\ ~UnderWay("importCsv")
  /\ \E t \in Tables : Begin(Call("importCsv", t, NoConfig), calls)
  /\ UNCHANGED page

CheckIntegrity ==
  /\ dialog = NoDialog /\ ~UnderWay("checkIntegrity")
  /\ Begin(Call("checkIntegrity", None, NoConfig), calls)
  /\ UNCHANGED page

\* NewViewModal.handleSubmit: the identifier comes from the name, whether or not a
\* view has it already.
NewView ==
  /\ dialog = NoDialog /\ ~UnderWay("newView")
  /\ \E v \in Views, g \in Columns \ seen.gone :
       /\ seen.tables[Of(v)].live
       /\ Begin(Call("newView", v, [name |-> v, filters |-> {},
                                   group |-> IF v \in env.boards THEN g ELSE None]), calls)
  /\ UNCHANGED page

Reordered(p) ==
  LET ids == SelectSeq(p, LAMBDA t : \E i \in DOMAIN shown.tables : shown.tables[i][1] = t)
  IN [i \in DOMAIN ids |->
        CHOOSE x \in {shown.tables[j] : j \in DOMAIN shown.tables} : x[1] = ids[i]]

\* handleTableDragEnd: the new order shows at once; the writes are not waited for.
DragTable ==
  /\ dialog = NoDialog
  /\ \E p \in Orders :
       /\ {p[i] : i \in DOMAIN p} = Tables
       /\ Reordered(p) # shown.tables
       /\ shown' = [shown EXCEPT !.tables = Reordered(p)]
       /\ Begin([Call("setTableOrder", None, NoConfig) EXCEPT !.order = p], calls)
  /\ due' = TRUE
  /\ UNCHANGED <<route, gaveUp, board, dialog>>

\* Where a call that succeeded takes the page.
Destination(c) ==
  CASE c.op = "createTable" -> TablePage(c.id)
    [] c.op = "newView" /\ c.id \notin env.boards -> TablePage(Of(c.id))
    [] c.op = "newView" /\ c.id \in env.boards -> ViewPage(c.id)
    [] OTHER -> route

SidebarOps == {"createTable", "importCsv", "checkIntegrity", "renameTable", "renameView",
               "deleteTable", "deleteView", "newView"}

\* A sidebar call succeeded: the lists are read again, and again on the signal.
SidebarDone(c) ==
  /\ c.op \in SidebarOps /\ c.state = "done"
  /\ seen' = Answered(c)
  /\ Refresh(Answered(c), Destination(c), calls \ {c})
  /\ due' = TRUE
  /\ UNCHANGED <<env, store, unpushed, dialog, ops, arrivals>>

RereadAfterRenames == {"renameTable", "renameView"}

\* Renames and deletions that failed put the lists back; the others only say so.
RereadOnFailure == {"renameTable", "renameView", "deleteTable", "deleteView"}

SidebarFailed(c) ==
  /\ c.op \in SidebarOps /\ c.state \in {"refused", "failed"}
  /\ \/ c.op \in RereadOnFailure /\ Refresh(seen, route, calls \ {c})
     \/ /\ c.op \notin RereadOnFailure
        /\ calls' = calls \ {c} /\ UNCHANGED <<shown, route, gaveUp, board>>
  /\ due' = (due \/ (route' # route))
  /\ UNCHANGED <<env, workspace, dialog, ops, arrivals>>

OrderDone(c) ==
  /\ c.op = "setTableOrder" /\ c.state # "sent"
  /\ calls' = calls \ {c}
  /\ seen' = Answered(c)
  /\ due' = (due \/ (c.state = "done" /\ env.host = "worker"))
  /\ UNCHANGED <<env, store, unpushed, shown, route, gaveUp, board, dialog, ops, arrivals>>

-----------------------------------------------------------------------------
(* The page of a saved view.                                               *)

OnBoard == dialog = NoDialog /\ route.page = "view" /\ board.on = route.view /\ board.holds # None

OnGrid == OnBoard /\ board.on \notin env.boards
OnLanes == OnBoard /\ board.on \in env.boards

SetDraft(f) ==
  /\ board' = [board EXCEPT !.draft = f]
  /\ UNCHANGED <<env, workspace, due, shown, route, gaveUp, dialog, calls, ops, arrivals>>

EditFilters ==
  /\ OnBoard /\ ops < env.ops
  /\ \E f \in Filters : SetDraft(f)

\* resetFilters: a board goes back to what it holds, a grid to what the store has.
ResetBoard == OnLanes /\ SetDraft(board.cfg.filters)

ResetGrid ==
  /\ OnGrid
  /\ SetDraft(IF seen.views[board.holds].live THEN seen.views[board.holds].filters ELSE {})

\* What a page writes for a view named name: a board everything it holds, a grid
\* no grouping; both the conditions on screen.
Payload(name) ==
  [name |-> name, filters |-> board.draft,
   group |-> IF board.on \in env.boards THEN board.cfg.group ELSE None]

\* saveFilters: the board's view, under the name the board has held since it opened.
SaveFilters ==
  /\ OnLanes
  /\ Begin(Call("save", board.on, Payload(board.cfg.name)), calls)
  /\ UNCHANGED page

\* saveChanges: the view the grid holds, which is the one it last could read.
SaveChanges ==
  /\ OnGrid
  /\ Begin(Call("save", board.holds, Payload(board.cfg.name)), calls)
  /\ UNCHANGED page

\* saveAsView: under a new identifier.
SaveAs ==
  /\ OnBoard
  /\ \E v \in Views :
       /\ store.views[v].name = None /\ (v \in env.boards) = (board.on \in env.boards)
       /\ Of(v) = Of(board.on) /\ \A c \in calls : c.id # v
       /\ Begin(Call("fork", v, Payload(v)), calls)
  /\ UNCHANGED page

\* A board grouped by a column the schema no longer has shows a prompt instead of lanes.
GroupMissing == board.cfg.group \in board.gone

\* handleRegroup: name and filters as the board holds them.
Regroup ==
  /\ OnLanes /\ GroupMissing
  /\ \E g \in Columns \ board.gone :
       Begin(Call("regroup", board.on, [board.cfg EXCEPT !.group = g]), calls)
  /\ UNCHANGED page

\* ViewSettingsModal: name and grouping from the form, filters as the board holds them.
Settings ==
  /\ OnLanes /\ ~UnderWay("settings")
  /\ \E name \in Renames, g \in Columns \ seen.gone :
       Begin(Call("settings", board.on, [board.cfg EXCEPT !.name = name, !.group = g]), calls)
  /\ UNCHANGED page

\* After a write of its own a board reads the view it wrote, whichever it is on.
BoardDone(c) ==
  /\ c.op \in {"save", "regroup", "settings"} /\ c.state = "done"
  /\ calls' = calls \ {c}
  /\ seen' = Answered(c)
  /\ board' = IF c.mine /\ c.id \in env.boards /\ Answered(c).views[c.id].live
              THEN [board EXCEPT !.holds = c.id, !.cfg = Config(Answered(c), c.id)]
              ELSE board
  /\ due' = TRUE
  /\ UNCHANGED <<env, store, unpushed, shown, route, gaveUp, dialog, ops, arrivals>>

ForkDone(c) ==
  /\ c.op = "fork" /\ c.state = "done"
  /\ seen' = Answered(c)
  /\ MoveTo(ViewPage(c.id))
  /\ board' = IF Stays(route') THEN board ELSE NoBoard
  /\ calls' = Left(route', calls \ {c})
  /\ due' = TRUE
  /\ UNCHANGED <<env, store, unpushed, shown, dialog, ops, arrivals>>

BoardFailed(c) ==
  /\ c.op \in {"save", "regroup", "settings", "fork"} /\ c.state \in {"refused", "failed"}
  /\ calls' = calls \ {c}
  /\ UNCHANGED <<env, workspace, page, ops, arrivals>>

-----------------------------------------------------------------------------
User ==
  \/ Navigate \/ Ask \/ Dismiss \/ DeleteView \/ DeleteTable
  \/ CreateTable \/ ImportCsv \/ CheckIntegrity \/ NewView \/ DragTable
  \/ \E name \in Renames : RenameTable(name) \/ RenameView(name)
  \/ EditFilters \/ ResetBoard \/ ResetGrid \/ SaveFilters \/ SaveChanges \/ SaveAs
  \/ Regroup \/ Settings

Answer(c) ==
  \/ SidebarDone(c) \/ SidebarFailed(c) \/ OrderDone(c)
  \/ BoardDone(c) \/ ForkDone(c) \/ BoardFailed(c)

CatalogueNext ==
  RunEffects \/ GiveUp \/ Push \/ Arrive \/ User \/ \E c \in calls : Run(c) \/ Answer(c)

CatalogueSpec == CatalogueInit /\ [][CatalogueNext]_catalogueVars

-----------------------------------------------------------------------------
(* Properties.                                                             *)

Idle == ~due /\ ~unpushed /\ calls = {}

\* Once everything in flight has come back, the sidebar lists the tables and views
\* the tab reads, with their names, order and filters, whatever was shown ahead of
\* an answer, and the page is not left on a table that is gone. (A client in the
\* tab that finds the room unencrypted keeps a change no list is told of.)
ShellSettles ==
  Idle /\ ~(env.host = "tab" /\ env.unsealed) =>
    /\ shown = Listing(seen)
    /\ route.table # None => seen.tables[route.table].live

\* Renaming a view from the sidebar changes its name and nothing else in the tab's
\* own store, however long the prompt was open and whatever came in meanwhile.
RenameUndoesNothing ==
  [][env.host = "tab" =>
       \A c \in calls' : c.op = "renameView" /\ c.n = ops' /\ ops' # ops =>
         store' = [store EXCEPT !.views[c.id].name = c.cfg.name]]_catalogueVars

\* Conditions the user has typed into a saved view stay until he resets them or
\* opens another view: neither a sync nor the answer to a save takes them away.
DraftKept ==
  [][board'.draft # board.draft =>
       board'.on # board.on \/ (calls' = calls /\ due' = due)]_catalogueVars

=============================================================================
