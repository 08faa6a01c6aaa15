---------------------------- MODULE LayoutEditor ----------------------------
(***************************************************************************)
(* The layout of the displays through its life: found by the solver at     *)
(* boot, drawn by a person in the editor (server/layout_editor.go), kept   *)
(* in the override file, and met again by the configurations that are      *)
(* loaded later (config/lkgc.go, override.go).  Each operation holds the   *)
(* manager's reloadMu; ConfigManager models how they interleave.           *)
(***************************************************************************)
EXTENDS LayoutSolver

CONSTANTS
  Configs,    \* configurations: [grid, widgets]
  Edited,     \* bound: the configurations that are drawn on and reloaded
  Origins,    \* bound: where a widget is dropped
  MaxEdits    \* bound: drawings, resets and reloads

ASSUME ConfigsAssumption == Edited \subseteq Configs
ASSUME EditsAssumption == MaxEdits \in Nat

VARIABLES
  config,    \* the configuration in use (the one that was refused, if none is)
  override,  \* the override file: none, or ids -> [screen, origin, dim, pinned]
  drawn,     \* HasOverride: the layout in use is a drawn one
  layout,    \* the layout in use
  outcome,   \* of the last operation: [op, err, nodes, clash]
  edits

vars == <<config, override, drawn, layout, outcome, edits>>

\* As a set of at most one drawing.
NoOverride == {}

\* solveForConfigGrid
SolveForConfigGrid(c) == Solve(c.widgets, IF c.grid = <<3, 6>> THEN c.grid ELSE <<6, 2>>)

Grid == NormalizeGrid(config.grid)

\* drawn widgets of c that are on top of each other
Clash(c, ov) == Overlap(DrawnPlacements(c.widgets, ov), NormalizeGrid(c.grid))

Outcome(op, r, c, ovs) ==
  [op |-> op, err |-> r.err, nodes |-> IF "nodes" \in DOMAIN r THEN r.nodes ELSE 0,
   clash |-> \E ov \in ovs : Clash(c, ov)]

Edit == edits < MaxEdits /\ edits' = edits + 1 /\ config \in Edited /\ layout # <<>>

\* buildResponse: what the editor shows of a layout.  A pinned widget is listed with the
\* first screen, spacers are not listed.
Shown(l) ==
  LET on(id) == {n \in DOMAIN l : \E p \in l[n] : p.id = id}
      real == {p.id : p \in {q \in UNION Range(l) : ~q.spacer}}
      at(id) == CHOOSE p \in l[Min(on(id))] : p.id = id
  IN  [id \in real |-> [screen |-> Min(on(id)) - 1, origin |-> at(id).origin,
                        dim |-> at(id).dim, pinned |-> at(id).pinned]]

\* The drawings a person can send: what is shown, with one widget dropped somewhere,
\* resized or pinned, or left out.
Drawings ==
  LET shown == Shown(layout)
      sizes(id) == (CHOOSE w \in ToSet(config.widgets) : w.id = id).sizes
  IN  {shown}
      \cup {[i \in DOMAIN shown \ {id} |-> shown[i]] : id \in DOMAIN shown}
      \cup UNION {{[shown EXCEPT ![id] = [screen |-> s, origin |-> o, dim |-> d, pinned |-> b]] :
                     s \in 0..MaxScreens, o \in Origins, d \in sizes(id), b \in BOOLEAN} : id \in DOMAIN shown}

\* PutLayoutEditor and ApplyLayoutOverride: a drawing that cannot be shown is refused.
PutLayoutEditor(ov) ==
  /\ Edit
  /\ \E r \in {ApplyOverride(config.widgets, ov, Grid)} :
       /\ outcome' = Outcome("put", r, config, {ov})
       /\ IF r.err = "ok" THEN override' = {ov} /\ layout' = r.layout /\ drawn' = TRUE
          ELSE UNCHANGED <<override, layout, drawn>>
  /\ UNCHANGED config

\* DeleteLayoutEditor and ResetLayoutOverride
DeleteLayoutEditor ==
  /\ Edit
  /\ \E r \in {SolveForConfigGrid(config)} :
       layout' = r.layout /\ outcome' = Outcome("delete", r, config, NoOverride)
  /\ override' = NoOverride
  /\ drawn' = FALSE
  /\ UNCHANGED config

\* Reload: a configuration without a layout is refused; the drawing in the file is used
\* if it suits the new configuration, and stays in the file if not.
Reload(c) ==
  /\ Edit
  /\ \E r \in {SolveForConfigGrid(c)} :
     \E found \in {{ApplyOverride(c.widgets, ov, NormalizeGrid(c.grid)) : ov \in override}} :
       IF r.err # "ok" THEN outcome' = Outcome("reload", r, c, {}) /\ UNCHANGED <<config, layout, drawn>>
       ELSE /\ config' = c
            /\ \E d \in IF found = {} THEN {r} ELSE found :
                 /\ drawn' = (found # {} /\ d.err = "ok")
                 /\ layout' = IF drawn' THEN d.layout ELSE r.layout
                 /\ outcome' = Outcome("reload", d, c, override)
  /\ UNCHANGED override

\* Boot: without a layout the server does not start.
Init ==
  /\ config \in Configs
  /\ override = NoOverride
  /\ drawn = FALSE
  /\ \E r \in {SolveForConfigGrid(config)} :
       layout = r.layout /\ outcome = Outcome("boot", r, config, NoOverride)
  /\ edits = 0

Next ==
  \/ \E ov \in Drawings : PutLayoutEditor(ov)
  \/ DeleteLayoutEditor
  \/ \E c \in Edited : Reload(c)

Spec == Init /\ [][Next]_vars

-----------------------------------------------------------------------------
(* Properties.                                                             *)

PlacedWidgets == [id : Int, dim : Nat \X Nat, origin : Nat \X Nat, pinned : BOOLEAN, spacer : BOOLEAN]

\* A layout in use has at least one screen, and only the boot of a refused configuration
\* leaves the displays without a layout.
TypeOK ==
  /\ config \in Configs
  /\ layout = <<>> <=> (outcome.op = "boot" /\ outcome.err # "ok")
  /\ \A n \in DOMAIN layout : layout[n] \subseteq PlacedWidgets
  /\ outcome.err \in {"ok", "invalid", "pinned", "deficit", "untileable", "overlap", "no slot"}
  /\ drawn => override # NoOverride

ScreensWith(l, id) == {n \in DOMAIN l : \E p \in l[n] : p.id = id}

\* Every screen in use is covered without gaps and overlaps, a widget is on one screen and
\* a pinned one on all of them at the same place; of the configured widgets none but a
\* spacer is missing.  Holds for found and for drawn layouts, whose gaps spacers fill
\* (solver.go:464-533, 591-753).
Tiled ==
  /\ \A n \in DOMAIN layout :
       /\ UNION {Cells(p.dim, p.origin, Grid) : p \in layout[n]} = FullGrid(Grid)
       /\ FoldSet(LAMBDA p, sum : sum + Area(p.dim), 0, layout[n]) = Area(Grid)
  /\ \A n \in DOMAIN layout : \A p \in layout[n] :
       IF p.pinned THEN \A m \in DOMAIN layout : p \in layout[m]
       ELSE ScreensWith(layout, p.id) = {n} /\ \A q \in layout[n] : q.id = p.id => q = p
  /\ layout # <<>> =>
       \A i \in DOMAIN config.widgets : config.widgets[i].spacer \/ ScreensWith(layout, config.widgets[i].id) # {}

RECURSIVE Tileable(_, _, _)

\* The widgets ws can be put on the screens beside what is taken, whatever the order.
Tileable(ws, masks, g) ==
  \/ ws = <<>>
  \/ LET w == Head(ws) IN
     IF w.pinned
     THEN \E cell \in Slots(UNION Range(masks), w.dim, g) :
            Tileable(Tail(ws), [n \in DOMAIN masks |-> masks[n] \cup Cells(w.dim, OriginOf(cell, g), g)], g)
     ELSE \E n \in DOMAIN masks : \E cell \in Slots(masks[n], w.dim, g) :
            Tileable(Tail(ws), [masks EXCEPT ![n] = @ \cup Cells(w.dim, OriginOf(cell, g), g)], g)

\* A configuration that fills its screens is refused for its shapes only if they really
\* do not fit together, unless the search has used up its nodes: cutting the search in
\* the configured order short loses no layout (solver.go:426-449, 491-531).
SolverComplete ==
  outcome.op = "boot" /\ outcome.err = "untileable" /\ outcome.nodes < MaxSearchNodes
  => ~Tileable(config.widgets,
               [n \in 1..PartitionAndValidate(config.widgets, Grid).k |-> {}], Grid)

\* Widgets that are not drawn never get in the way of those that are: a drawing fails for
\* an overlap only if two of its own widgets overlap, pinned ones on any screen, and
\* a reload that adds widgets does not give up a drawing for that either
\* (override.go:173-210, 281-304).
AutoPlacedFit == outcome.err = "overlap" => outcome.clash

\* Every widget of the drawing in use is where it was drawn, as large and pinned as it
\* was drawn, and widgets that were drawn on the same screen, or on screens one after
\* the other, still are, whatever was reloaded since (override.go:250-279,
\* solver.go:650-661).
DrawnWhereAsked ==
  \A ov \in override : drawn =>
    LET known == {w.id : w \in ToSet(config.widgets)} \cap DOMAIN ov
        screen(i) == Min(ScreensWith(layout, i))
    IN  /\ \A i \in known : \E p \in layout[screen(i)] :
             /\ p.id = i /\ p.origin = ov[i].origin
             /\ p.dim = ov[i].dim /\ p.pinned = ov[i].pinned
        /\ \A i, j \in known :
             ~ov[i].pinned /\ ~ov[j].pinned
             => (screen(i) < screen(j) <=> ov[i].screen < ov[j].screen)

\* Sending back what the editor shows is accepted and moves nothing, also when the layout
\* was found by the solver and its spacers are not shown; only a layout with more screens
\* than a drawing may have is beyond the editor (layout_editor.go:170-217).
SaveIsStable ==
  Len(layout) \in 1..MaxScreens =>
    LET shown == Shown(layout)
        r == ApplyOverride(config.widgets, shown, Grid)
        again == Shown(r.layout)
    IN  /\ r.err = "ok"
        /\ DOMAIN again = DOMAIN shown
        /\ \A i \in DOMAIN shown : [again[i] EXCEPT !.screen = 0] = [shown[i] EXCEPT !.screen = 0]
        /\ \A i, j \in DOMAIN shown :
             ~shown[i].pinned /\ ~shown[j].pinned
             => (again[i].screen < again[j].screen <=> shown[i].screen < shown[j].screen)
=============================================================================
