---------------------------- MODULE TableEditing ----------------------------
(***************************************************************************)
(* A table open in a tab: the useTable hook with its optimistic rows       *)
(* (ui/src/hooks/useTable.ts) and the screens on top of it, the grid       *)
(* (views/table/TableView.tsx), the board (views/kanban/KanbanView.tsx)    *)
(* and the entry form (views/entry/EntryView.tsx).                         *)
(*                                                                         *)
(* A write is a call on the workspace handle that is applied and answered  *)
(* later: by the wasm client in this tab, or by the shared worker, whose   *)
(* pushed bundle then is what every read sees.  The rows on screen are     *)
(* patched at once.  Every push from the worker, and every remote change,  *)
(* bumps syncCount, on which an effect re-reads.                           *)
(***************************************************************************)
EXTENDS FractionalIndex, FiniteSets

CONSTANTS Rows,      \* row ids, integers as their order breaks ties
          Vals,      \* values of the table's one stored column
          Cols,      \* column ids; the last of them may be added
          MaxOps,    \* bound: things the user does
          MaxRemote, \* bound: changes made by others
          Envs       \* the surroundings a behaviour may run in

\* worker: the handle is the shared worker's; formula: a column is computed from
\* the stored one; edit, bulk, delete, drag, board, shadow, entry, columns: what
\* the user does; remote: others change cells and delete rows and columns; tie:
\* others drop a row into the gap another row was dropped into; fail: the handle
\* refuses a write.
Features == {"worker", "formula", "edit", "bulk", "delete", "drag", "board", "shadow",
             "entry", "columns", "remote", "tie", "fail"}

ASSUME EditingAssumption ==
  /\ Rows \subseteq Nat
  /\ {MaxOps, MaxRemote} \subseteq Nat
  /\ Envs \subseteq SUBSET Features

None == 0
ASSUME ValsAssumption == None \notin Vals /\ None \notin Rows

VARIABLES
  env,      \* fixed: the features of this behaviour
  core,     \* what the handle's reads answer: rows, values, order keys, columns
  grid,     \* on screen: rows in order, values, computed values, columns
  calls,    \* writes on the handle not yet answered, in call order
  recent,   \* recentEditsRef: the value this tab last gave a row's cell
  flagged,  \* conflictCells
  signal,   \* syncCount moved and its effect has not run
  sel,      \* selectedCells and the anchor of a range
  entry,    \* the entry form, when it is open: row and field shown
  ops,      \* how many things the user has done
  others,   \* how many changes others have made
  unseen,   \* history: a change by others is not on screen, and was not passed
            \* over ("new") or was passed over by the effect ("missed")
  foreign,  \* history: rows whose cell others wrote after this tab's last write
  aim       \* history: the order the last drop asked for, while nothing else
            \* happened; Thrown when computing it failed, Spoilt once a row
            \* was dropped on a screen that was behind the core

vars == <<env, core, grid, calls, recent, flagged, signal, sel, entry, ops, others,
          unseen, foreign, aim>>

Has(f) == f \in env
NoEntry == [row |-> None, shown |-> None]
OnGrid == entry = NoEntry
NoAim == <<>>
Spoilt == <<-2>>
NotAimed == IF aim = Spoilt THEN Spoilt ELSE NoAim

\* A row not deleted, sorted by key then id, the rows without a key last.
Before(c, a, b) ==
  \/ c.key[a] # NoKey /\ c.key[b] = NoKey
  \/ c.key[a] # NoKey /\ c.key[b] # NoKey /\ KeyLess(c.key[a], c.key[b])
  \/ c.key[a] = c.key[b] /\ a < b

Order(c) == SetToSortSeq({r \in Rows : c.row[r] = "live"}, LAMBDA a, b : Before(c, a, b))

\* columnsMeta: the columns not deleted, by their order, with their definition.
ReadCols(c) ==
  LET live == {k \in Cols : c.col[k].state = "live"}
      Left(a, b) == c.col[a].pos < c.col[b].pos \/ (c.col[a].pos = c.col[b].pos /\ a < b)
      ids == SetToSortSeq(live, Left)
  IN [i \in 1..Len(ids) |-> [id |-> ids[i], def |-> c.col[ids[i]].def]]

\* getTableRows: formula cells are computed from the stored ones as they are read.
Read(c) ==
  [order |-> Order(c), cols |-> ReadCols(c),
   val |-> [r \in Rows |-> IF c.row[r] = "live" THEN c.val[r] ELSE None],
   calc |-> [r \in Rows |-> IF c.row[r] = "live" /\ Has("formula") THEN c.val[r] ELSE None]]

\* A write as the core applies it: a cell makes an absent row, and no cell
\* brings a deleted one back.
Applied(c, w) ==
  CASE w.kind = "del" -> [c EXCEPT !.row[w.row] = "deleted"]
    [] w.kind = "key" -> [c EXCEPT !.key[w.row] = w.new,
                                   !.row[w.row] = IF @ = "absent" THEN "live" ELSE @]
    [] w.kind \in {"val", "first"} -> [c EXCEPT !.val[w.row] = w.new,
                                              !.row[w.row] = IF @ = "absent" THEN "live" ELSE @]
    [] w.kind = "default" -> [c EXCEPT !.row[w.row] = IF @ = "absent" THEN "live" ELSE @]
    [] w.kind = "reorder" -> [c EXCEPT !.col = [k \in Cols |->
                                IF k \in ToSet(w.new) THEN [@[k] EXCEPT !.pos = IndexIn(w.new, k)] ELSE @[k]]]
    [] w.kind = "dropcol" -> [c EXCEPT !.col[w.row].state = "deleted"]
    [] w.kind = "defcol" -> [c EXCEPT !.col[w.row].def = w.new]
    [] w.kind = "addcol" -> [c EXCEPT !.col[w.row].state = "live"]

Shown(g) == ToSet(g.order)

\* pendingMutationsRef: the entry form's writes are not counted by the hook.
Pending(cs) == Cardinality({i \in 1..Len(cs) : cs[i].counted})

Write(kind, row, new) ==
  [kind |-> kind, row |-> row, new |-> new, counted |-> TRUE, applied |-> FALSE]

InitCore ==
  LET shadow == {r \in Rows : Has("shadow") /\ \A s \in Rows : s <= r}
      keyed == GenerateNKeysBetween(NoKey, NoKey, Cardinality(Rows))
      ranked == SetToSortSeq(Rows, <)
  IN { [row |-> [r \in Rows |-> IF r \in shadow THEN "absent" ELSE "live"],
        val |-> [r \in Rows |-> CHOOSE v \in Vals : TRUE],
        col |-> [k \in Cols |-> [state |-> IF \E l \in Cols : l > k THEN "live" ELSE "absent",
                                  pos |-> k, def |-> 0]],
        key |-> [r \in Rows |-> IF ordered /\ r \notin shadow
                                THEN keyed[IndexIn(ranked, r)] ELSE NoKey]] :
       ordered \in BOOLEAN }

Init ==
  /\ env \in Envs
  /\ core \in InitCore
  /\ grid = Read(core)
  /\ calls = <<>>
  /\ recent = [r \in Rows |-> None]
  /\ flagged = {} /\ signal = FALSE
  /\ sel = [cells |-> {}, anchor |-> None]
  /\ entry = NoEntry
  /\ ops = 0 /\ others = 0
  /\ unseen = "no" /\ foreign = {} /\ aim = NoAim
-----------------------------------------------------------------------------
(* The hook. *)

\* flagConflicts: own recent edits the answer does not show, each flagged once.
Hits(g) == {r \in Rows : recent[r] # None /\ g.val[r] # recent[r]}

FlagConflicts(g) ==
  /\ flagged' = flagged \cup Hits(g)
  /\ recent' = [r \in Rows |-> IF r \in Hits(g) THEN None ELSE recent[r]]

FetchRows(c, isInitial) ==
  /\ grid' = Read(c)
  /\ IF isInitial THEN UNCHANGED <<flagged, recent>> ELSE FlagConflicts(Read(c))
  /\ unseen' = "no"

\* The flag goes out, and edits leave the conflict window.
FlashEnds ==
  /\ \/ flagged # {} /\ flagged' = {} /\ UNCHANGED recent
     \/ /\ \E r \in Rows : recent[r] # None
        /\ recent' = [r \in Rows |-> None]
        /\ UNCHANGED flagged
  /\ UNCHANGED <<env, core, grid, calls, signal, sel, entry, ops, others, unseen, foreign, aim>>

\* The client in this tab applies and answers updateCell in microtasks, before
\* the next event of the page; only deleteRow waits for the network.
NextEvent == Has("worker") \/ \A i \in 1..Len(calls) : calls[i].applied /\ calls[i].kind = "del"

\* Mutant: the effect does not wait for writes in flight.
EffectAlwaysReads ==
  /\ signal /\ NextEvent /\ OnGrid
  /\ signal' = FALSE
  /\ FetchRows(core, FALSE)
  /\ UNCHANGED <<env, core, calls, sel, entry, ops, others, foreign, aim>>

\* The effect on syncCount, of whichever screen is open.
SyncEffect ==
  /\ signal /\ NextEvent
  /\ signal' = FALSE
  /\ IF entry # NoEntry
     THEN /\ entry' = [entry EXCEPT !.shown = IF core.row[entry.row] = "live"
                                              THEN core.val[entry.row] ELSE @]
          /\ UNCHANGED <<grid, flagged, recent, unseen>>
     ELSE /\ IF Pending(calls) > 0
             THEN /\ unseen' = IF unseen = "new" THEN "missed" ELSE unseen
                  /\ UNCHANGED <<grid, flagged, recent>>
             ELSE FetchRows(core, FALSE)
          /\ UNCHANGED entry
  /\ UNCHANGED <<env, core, calls, sel, ops, others, foreign, aim>>

\* Mutant: a deleted row stays until the next read.
PatchesValuesOnly(g, w) ==
  IF w.kind = "val" /\ w.row \in Shown(g) THEN [g EXCEPT !.val[w.row] = w.new] ELSE g

\* The optimistic patch of a cell on screen, and of a row that is deleted.
Patched(g, w) ==
  CASE w.kind \in {"val", "first"} /\ w.row \in Shown(g) -> [g EXCEPT !.val[w.row] = w.new]
    [] w.kind = "del" -> [g EXCEPT !.order = SelectSeq(@, LAMBDA r : r # w.row),
                                   !.val[w.row] = None, !.calc[w.row] = None]
    [] OTHER -> g

\* Mutant: the first of several edits is the one remembered.
RemembersFirst(m, w) ==
  IF w.kind = "val" /\ m[w.row] = None THEN [m EXCEPT ![w.row] = w.new] ELSE m

\* updateCell and deleteRow up to their await: what is remembered of them.
Remembered(m, w) == IF w.kind \in {"val", "first"} THEN [m EXCEPT ![w.row] = w.new] ELSE m

Issue(ws) ==
  /\ calls' = calls \o ws
  /\ recent' = FoldSeq(LAMBDA w, m : Remembered(m, w), recent, ws)

\* The handle applies the oldest write it has not applied.  The worker's push
\* moves syncCount; the client in this tab does not report its own writes.
ApplyWrite ==
  \E i \in 1..Len(calls) :
    /\ ~calls[i].applied
    /\ \A j \in 1..(i - 1) : calls[j].applied
    /\ core' = Applied(core, calls[i])
    /\ calls' = [calls EXCEPT ![i].applied = TRUE]
    /\ signal' = (signal \/ Has("worker"))
    /\ foreign' = IF calls[i].kind \in {"val", "first"} THEN foreign \ {calls[i].row} ELSE foreign
    /\ UNCHANGED <<env, grid, recent, flagged, sel, entry, ops, others, unseen, aim>>

\* An answer: a table with formulas is read again by the last updateCell in
\* flight, deleteRow reads nothing, and a shadow row and a new column end in a
\* refresh.  (Mutant: the first of several reads, not the last.)
RereadsWhenFirst(w) == w.kind # "del" /\ Has("formula") /\ calls[1] = w /\ Pending(calls) > 1

Rereads(w) == w.kind # "del" /\ Has("formula") /\ Pending(calls) = 1

WriteLands ==
  \E i \in 1..Len(calls) :
    LET w == calls[i]
    IN /\ w.applied /\ w.kind # "default"
       /\ calls' = RemoveAt(calls, i)
       /\ IF (w.counted /\ (Rereads(w) \/ w.kind = "first")) \/ w.kind = "addcol"
          THEN FetchRows(core, w.kind \in {"first", "addcol"})
          ELSE UNCHANGED <<grid, flagged, recent, unseen>>
       /\ UNCHANGED <<env, core, signal, sel, entry, ops, others, foreign, aim>>

\* A shadow row's defaults are in: the cell the user edited is written next.
DefaultsLand ==
  \E i \in 1..Len(calls) :
    LET w == [calls[i] EXCEPT !.kind = "first", !.applied = FALSE]
        g == Read(core)
    IN /\ calls[i].applied /\ calls[i].kind = "default"
       /\ calls' = Append(RemoveAt(calls, i), w)
       /\ IF w.counted /\ Rereads(calls[i])
          THEN /\ grid' = Patched(g, w) /\ unseen' = "no"
               /\ flagged' = flagged \cup Hits(g)
               /\ recent' = Remembered([r \in Rows |-> IF r \in Hits(g) THEN None ELSE recent[r]], w)
          ELSE /\ grid' = IF w.counted THEN Patched(grid, w) ELSE grid
               /\ recent' = IF w.counted THEN Remembered(recent, w) ELSE recent
               /\ UNCHANGED <<flagged, unseen>>
       /\ UNCHANGED <<env, core, signal, sel, entry, ops, others, foreign, aim>>

\* The handle refuses a write: the hook rolls back by reading again, and a
\* shadow row goes no further.
WriteFails ==
  \E i \in 1..Len(calls) :
    /\ Has("fail") /\ ~calls[i].applied
    /\ calls' = RemoveAt(calls, i)
    /\ IF calls[i].counted THEN FetchRows(core, FALSE) ELSE UNCHANGED <<grid, flagged, recent, unseen>>
    /\ aim' = NotAimed
    /\ UNCHANGED <<env, core, signal, sel, entry, ops, others, foreign>>
-----------------------------------------------------------------------------
(* The grid. *)

UserActs == NextEvent /\ ops < MaxOps /\ ops' = ops + 1

\* A cell's editor commits.
UpdateCell ==
  \E r \in Shown(grid), v \in Vals :
    LET w == Write("val", r, v)
    IN /\ Has("edit") /\ OnGrid /\ UserActs
       /\ Issue(<<w>>)
       /\ grid' = Patched(grid, w)
       /\ aim' = NotAimed
       /\ UNCHANGED <<env, core, flagged, signal, sel, entry, others, unseen, foreign>>

DeleteRow ==
  \E r \in Shown(grid) :
    LET w == Write("del", r, None)
    IN /\ Has("delete") /\ OnGrid /\ UserActs
       /\ Issue(<<w>>)
       /\ grid' = Patched(grid, w)
       /\ aim' = NotAimed
       /\ UNCHANGED <<env, core, flagged, signal, sel, entry, others, unseen, foreign>>

\* Ctrl-click toggles a cell, shift-click takes the range from the anchor.
HandleCellSelect ==
  \E r \in Shown(grid), range \in BOOLEAN :
    LET from == IndexIn(grid.order, sel.anchor)
        to == IndexIn(grid.order, r)
        span == {grid.order[i] : i \in (from..to) \cup (to..from)}
    IN /\ Has("bulk") /\ OnGrid /\ UserActs
       /\ sel' = [cells |-> CASE range /\ sel.anchor \in Shown(grid) -> sel.cells \cup span
                             [] ~(range /\ sel.anchor \in Shown(grid)) /\ r \in sel.cells -> sel.cells \ {r}
                             [] OTHER -> sel.cells \cup {r},
                 anchor |-> IF range THEN sel.anchor ELSE r]
       /\ UNCHANGED <<env, core, grid, calls, recent, flagged, signal, entry, others, unseen, foreign, aim>>

\* An edit of a selected cell goes to every selected row, whether or not a
\* filter or somebody else has taken the row off the screen.
CommitToSelection ==
  \E v \in Vals :
    LET ws == [i \in 1..Cardinality(sel.cells) |-> Write("val", SetToSortSeq(sel.cells, <)[i], v)]
    IN /\ sel.cells \cap Shown(grid) # {} /\ OnGrid /\ UserActs
       /\ Issue(ws)
       /\ grid' = FoldSeq(LAMBDA w, g : Patched(g, w), grid, ws)
       /\ aim' = NotAimed
       /\ UNCHANGED <<env, core, flagged, signal, sel, entry, others, unseen, foreign>>

DeleteSelected ==
  LET ws == [i \in 1..Cardinality(sel.cells) |-> Write("del", SetToSortSeq(sel.cells, <)[i], None)]
  IN /\ sel.cells # {} /\ Has("delete") /\ OnGrid /\ UserActs
     /\ Issue(ws)
     /\ grid' = FoldSeq(LAMBDA w, g : Patched(g, w), grid, ws)
     /\ sel' = [cells |-> {}, anchor |-> None]
     /\ aim' = NotAimed
     /\ UNCHANGED <<env, core, flagged, signal, entry, others, unseen, foreign>>

\* The ghost row is promoted: its defaults are written first.
HandleShadowCommit ==
  \E r \in Rows, v \in Vals :
    /\ Has("shadow") /\ OnGrid /\ UserActs
    /\ core.row[r] = "absent" /\ \A i \in 1..Len(calls) : calls[i].row # r
    /\ Issue(<<Write("default", r, v)>>)
    /\ aim' = NotAimed
    /\ UNCHANGED <<env, core, grid, flagged, signal, sel, entry, others, unseen, foreign>>
-----------------------------------------------------------------------------
(* Drag and drop. *)

OrderWrites(a, o) ==
  LET ws == ComputeReorderWrites(grid.order, core.key, a, o)
  IN [i \in 1..Len(ws) |-> Write("key", ws[i].row, ws[i].key)]

Throws(ws) == \E i \in 1..Len(ws) : ws[i].new = Thrown

\* Nothing is under way, so that a drop should put the row where it was dropped.
Calm == calls = <<>> /\ ~signal /\ grid = Read(core)

Aim(a, o) ==
  CASE ~Calm \/ aim = Spoilt -> Spoilt
    [] Calm /\ aim # Spoilt /\ Throws(OrderWrites(a, o)) -> Thrown
    [] OTHER -> ArrayMove(grid.order, IndexIn(grid.order, a), IndexIn(grid.order, o))

\* The keys come from the core and the order from the screen; the refresh
\* reads before any of the writes is applied.
HandleRowDragEnd ==
  \E a, o \in Shown(grid) :
    LET ws == OrderWrites(a, o)
    IN /\ Has("drag") /\ a # o /\ OnGrid /\ UserActs
       /\ aim' = Aim(a, o)
       /\ IF Throws(ws) THEN UNCHANGED <<calls, recent, grid, flagged, unseen>>
          ELSE Issue(ws) /\ grid' = Read(core) /\ unseen' = "no" /\ UNCHANGED flagged
       /\ UNCHANGED <<env, core, signal, sel, entry, others, foreign>>

\* A card dropped on a card or on a lane: the lane's value, then the order.  An
\* exception leaves the lane written and skips the refresh.
HandleDragEnd ==
  \E a \in Shown(grid), o \in Shown(grid) \cup {None}, lane \in Vals :
    LET regroup == IF lane = grid.val[a] THEN <<>> ELSE <<Write("val", a, lane)>>
        ws == IF o \in {a, None} THEN <<>> ELSE OrderWrites(a, o)
        issued == regroup \o (IF Throws(ws) THEN <<>> ELSE ws)
    IN /\ Has("board") /\ OnGrid /\ UserActs
       /\ o # None => lane = grid.val[o]
       /\ aim' = IF ws = <<>> THEN NotAimed ELSE Aim(a, o)
       /\ Issue(issued)
       /\ CASE Throws(ws) -> /\ grid' = FoldSeq(LAMBDA w, g : Patched(g, w), grid, regroup)
                             /\ UNCHANGED unseen
            [] ~Throws(ws) /\ issued # <<>> -> grid' = Read(core) /\ unseen' = "no"
            [] OTHER -> UNCHANGED <<grid, unseen>>
       /\ UNCHANGED <<env, core, flagged, signal, sel, entry, others, foreign>>
-----------------------------------------------------------------------------
(* Columns.  Their writes are not counted by the hook. *)

ColumnWrite(kind, col, new) == [Write(kind, col, new) EXCEPT !.counted = FALSE]

\* The schema is read back at once, before the write is applied.
ChangeColumns(w) ==
  /\ Has("columns") /\ OnGrid /\ UserActs
  /\ calls' = Append(calls, w)
  /\ grid' = [grid EXCEPT !.cols = ReadCols(core)]
  /\ UNCHANGED <<env, core, recent, flagged, signal, sel, entry, others, unseen, foreign, aim>>

HandleColumnDragEnd ==
  \E i, j \in 1..Len(grid.cols) :
    LET ids == [k \in 1..Len(grid.cols) |-> grid.cols[k].id]
    IN i # j /\ ChangeColumns(ColumnWrite("reorder", None, ArrayMove(ids, i, j)))

HandleDeleteColumn ==
  \E i \in 1..Len(grid.cols) : ChangeColumns(ColumnWrite("dropcol", grid.cols[i].id, None))

\* Rename, retype and formula: a patch of the definition.
HandleUpdateColumn ==
  \E i \in 1..Len(grid.cols) : ChangeColumns(ColumnWrite("defcol", grid.cols[i].id, 1 - grid.cols[i].def))

\* Adding a column waits for the answer before it reads.
HandleAddColumn ==
  \E k \in Cols :
    /\ Has("columns") /\ OnGrid /\ UserActs
    /\ core.col[k].state = "absent"
    /\ calls' = Append(calls, ColumnWrite("addcol", k, None))
    /\ UNCHANGED <<env, core, grid, recent, flagged, signal, sel, entry, others, unseen, foreign, aim>>
-----------------------------------------------------------------------------
(* The entry form. *)

Detached == [i \in 1..Len(calls) |-> [calls[i] EXCEPT !.counted = FALSE]]

\* Opening an entry unmounts the grid and its hook.
OpenEntry ==
  \E r \in Shown(grid) :
    /\ Has("entry") /\ OnGrid /\ UserActs
    /\ entry' = [row |-> r, shown |-> IF core.row[r] = "live" THEN core.val[r] ELSE None]
    /\ calls' = Detached
    /\ recent' = [q \in Rows |-> None] /\ flagged' = {} /\ sel' = [cells |-> {}, anchor |-> None]
    /\ signal' = FALSE /\ aim' = NotAimed
    /\ UNCHANGED <<env, core, grid, others, unseen, foreign>>

\* The form writes past the hook, and does not wait.
HandleFieldChange ==
  \E v \in Vals :
    /\ ~OnGrid /\ UserActs
    /\ calls' = Append(calls, [Write("val", entry.row, v) EXCEPT !.counted = FALSE])
    /\ entry' = [entry EXCEPT !.shown = v]
    /\ UNCHANGED <<env, core, grid, recent, flagged, signal, sel, others, unseen, foreign, aim>>

\* Back to the grid, which mounts and reads.
HandleReturn ==
  /\ ~OnGrid /\ UserActs
  /\ entry' = NoEntry
  /\ FetchRows(core, TRUE)
  /\ signal' = FALSE
  /\ UNCHANGED <<env, core, calls, sel, others, foreign, aim>>
-----------------------------------------------------------------------------
(* Everybody else. *)

RemoteChange(c, r) ==
  /\ NextEvent /\ others < MaxRemote /\ others' = others + 1
  /\ core' = c /\ c # core
  /\ signal' = TRUE /\ unseen' = "new" /\ foreign' = foreign \cup ({r} \cap Rows)
  /\ aim' = NotAimed
  /\ UNCHANGED <<env, grid, calls, recent, flagged, sel, entry, ops>>

RemoteWrite ==
  \E r \in Rows : \E w \in {Write("val", r, v) : v \in Vals} \cup {Write("del", r, None)} :
    Has("remote") /\ core.row[r] = "live" /\ RemoteChange(Applied(core, w), r)

RemoteColumn ==
  \E k \in Cols : \E w \in {Write("dropcol", k, None), Write("defcol", k, 1)} :
    /\ {"remote", "columns"} \subseteq env /\ core.col[k].state = "live"
    /\ RemoteChange(Applied(core, w), None)

\* The tab comes back to the front, or a sibling tab says that something
\* changed: syncCount moves although nothing may have.
BumpSyncCount ==
  /\ Has("remote") /\ NextEvent /\ others < MaxRemote /\ others' = others + 1
  /\ signal' = TRUE
  /\ UNCHANGED <<env, core, grid, calls, recent, flagged, sel, entry, ops, unseen, foreign, aim>>

\* Somebody else's drop into the gap s was dropped into computes the same key.
RemoteDrop ==
  \E r, s \in Rows :
    Has("tie") /\ r # s /\ core.key[s] # NoKey
    /\ RemoteChange(Applied(core, Write("key", r, core.key[s])), r)

Next ==
  \/ FlashEnds \/ SyncEffect \/ ApplyWrite \/ WriteLands \/ DefaultsLand \/ WriteFails
  \/ UpdateCell \/ DeleteRow \/ HandleCellSelect \/ CommitToSelection \/ DeleteSelected
  \/ HandleShadowCommit \/ HandleRowDragEnd \/ HandleDragEnd
  \/ OpenEntry \/ HandleFieldChange \/ HandleReturn
  \/ HandleColumnDragEnd \/ HandleDeleteColumn \/ HandleUpdateColumn \/ HandleAddColumn
  \/ RemoteWrite \/ RemoteColumn \/ RemoteDrop \/ BumpSyncCount

Spec == Init /\ [][Next]_vars
-----------------------------------------------------------------------------
Quiet == calls = <<>> /\ ~signal

\* updateCell's promise to the typist ("a visible flicker back to the old
\* text"): whatever effects run and whichever other edits land, a cell on screen
\* shows the newest value typed into it until the core has that value.  Drops, a
\* shadow row's refresh and a refused write do read too early.
InFlightShown ==
  env \cap {"drag", "board", "shadow", "fail"} = {} =>
    \A i \in 1..Len(calls) :
      /\ calls[i].counted /\ calls[i].kind = "val" /\ ~calls[i].applied
      /\ calls[i].row \in Shown(grid)
      /\ \A j \in (i + 1)..Len(calls) : calls[j].row # calls[i].row
      => grid.val[calls[i].row] = calls[i].new

\* flagConflicts ("a concurrent remote write won LWW over the user's edit"): a
\* cell on screen is flagged only when somebody else wrote it, or deleted its
\* row, after this tab's last write to it, as long as no write is refused.
NoFalseConflict ==
  [][ ~Has("fail") => (flagged' \ flagged) \cap Shown(grid') \subseteq foreign ]_vars

\* Once nothing is in flight the grid shows the rows, values and columns the core
\* holds, unless the sync effect passed over a change while a write was in
\* flight.  Drops, refused writes, a shadow row under the worker, and columns
\* changed in this tab or along with cells do not have this property.
SettledGrid ==
  /\ env \cap {"drag", "board", "fail"} = {}
  /\ ~({"worker", "shadow"} \subseteq env)
  /\ Has("columns") => Has("worker") /\ env \cap {"edit", "bulk", "delete"} = {}
  /\ OnGrid /\ unseen # "missed"
  => [grid EXCEPT !.calc = <<>>] = [Read(core) EXCEPT !.calc = <<>>]

\* An entry form, which writes past the hook, shows the stored value.
SettledEntry ==
  ~OnGrid /\ ~Has("fail") /\ core.row[entry.row] = "live" => entry.shown = core.val[entry.row]

\* What a quiet screen shows is what is stored.
ScreenSettles == Quiet => SettledGrid /\ SettledEntry

\* A table with formulas also catches up with a change that was passed over,
\* drops included: the last write in flight reads again, so that stored and
\* computed cells agree with the core whenever nothing is in flight.  A deletion
\* landing last breaks it.
FormulaTablesCatchUp ==
  /\ Has("formula") /\ env \cap {"delete", "fail"} = {}
  /\ Quiet /\ OnGrid
  => grid = Read(core)

\* As long as every drop is made on a screen that is up to date, no drop fails
\* and each ends with the row where it was dropped and every other row in its
\* place: the keys midpoint finds lie strictly between their neighbours.
DropLands ==
  env \cap {"remote", "tie", "fail"} = {} =>
    /\ aim # Thrown
    /\ aim \notin {NoAim, Spoilt} /\ calls = <<>> => Order(core) = aim
=============================================================================
