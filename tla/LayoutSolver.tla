---------------------------- MODULE LayoutSolver ----------------------------
(***************************************************************************)
(* Where the widgets go: the search for a layout without gaps              *)
(* (internal/layout/solver.go, Solve), the layout a person has drawn in    *)
(* the editor with spacers in its gaps (SolveExplicit), and the places of  *)
(* the widgets the drawing does not mention (internal/config/override.go). *)
(*                                                                         *)
(* The cells of a screen are numbered row by row; a bit mask is a set of   *)
(* cells.  A grid and a size are <<columns, rows>>, an origin is           *)
(* <<column, row>>.  A widget is                                           *)
(*   [id, dim, pinned, spacer, sizes]                                      *)
(* where sizes is what its package supports; a placed widget is            *)
(*   [id, dim, origin, pinned, spacer]                                     *)
(* and a layout is a sequence of screens, each a set of placed widgets.    *)
(***************************************************************************)
EXTENDS Integers, Sequences, SequencesExt, FiniteSets, FiniteSetsExt

CONSTANTS
  SeqNodes,        \* nodes the search in the configured order may take (512)
  MaxSearchNodes,  \* nodes the whole search may take (100 000)
  MaxScreens       \* screens a drawing may have (16)

ASSUME NodesAssumption == SeqNodes \in Nat \ {0} /\ MaxSearchNodes \in Nat \ {0}
ASSUME ScreensAssumption == MaxScreens \in Nat \ {0}

-----------------------------------------------------------------------------
(* Grids and cells.                                                        *)

NormalizeGrid(g) == IF g \in {<<3, 6>>, <<2, 6>>} THEN g ELSE <<6, 2>>

FullGrid(g) == 0..(g[1] * g[2] - 1)

Area(dim) == dim[1] * dim[2]

IsValidForGrid(dim, g) == dim[1] \in 1..g[1] /\ dim[2] \in 1..g[2]

\* ComputeWidgetBitmaskForGrid
Cells(dim, origin, g) ==
  {(origin[2] + r) * g[1] + origin[1] + c : c \in 0..(dim[1] - 1), r \in 0..(dim[2] - 1)}

OriginOf(cell, g) == <<cell % g[1], cell \div g[1]>>

InBounds(dim, origin, g) ==
  /\ origin[1] >= 0 /\ origin[1] + dim[1] <= g[1]
  /\ origin[2] >= 0 /\ origin[2] + dim[2] <= g[2]

\* The origins at which a widget of a size does not touch mask, as cells: their order is
\* the one in which rows and columns are tried.
Slots(mask, dim, g) ==
  {cell \in FullGrid(g) : /\ InBounds(dim, OriginOf(cell, g), g)
                          /\ Cells(dim, OriginOf(cell, g), g) \cap mask = {}}

\* sortPlacedWidgets, and what of a widget is placed.
Placed(w, origin) ==
  [id |-> w.id, dim |-> w.dim, origin |-> origin, pinned |-> w.pinned, spacer |-> w.spacer]

AreaOf(ws) == FoldLeft(LAMBDA n, w : n + Area(w.dim), 0, ws)

Pinned(ws) == SelectSeq(ws, LAMBDA w : w.pinned)
Unpinned(ws) == SelectSeq(ws, LAMBDA w : ~w.pinned)

-----------------------------------------------------------------------------
(* The search for a layout.                                                *)

\* How many screens there have to be and how many cells are missing to fill them.
ComputeScreens(pinnedArea, unpinnedArea, total) ==
  LET capacity == total - pinnedArea
      k == IF unpinnedArea = 0 THEN 1 ELSE (unpinnedArea + capacity - 1) \div capacity
  IN  IF pinnedArea > total \/ (pinnedArea = total /\ unpinnedArea > 0) THEN [err |-> "pinned", k |-> 0]
      ELSE IF pinnedArea = total THEN [err |-> "ok", k |-> 1]
      ELSE [err |-> IF k * capacity > unpinnedArea THEN "deficit" ELSE "ok", k |-> k]

\* What is refused before any search.
PartitionAndValidate(ws, g) ==
  IF \E i \in DOMAIN ws : \/ ~IsValidForGrid(ws[i].dim, g) \/ ws[i].dim \notin ws[i].sizes
                          \/ \E j \in DOMAIN ws : j < i /\ ws[j].id = ws[i].id
  THEN [err |-> "invalid", k |-> 0]
  ELSE ComputeScreens(AreaOf(Pinned(ws)), AreaOf(Unpinned(ws)), Area(g))

\* Large before small, tall before wide.
Larger(d, e) == Area(d) > Area(e) \/ (Area(d) = Area(e) /\ d[2] > e[2])

SortedPinned(ws) ==
  SortSeq(Pinned(ws), LAMBDA v, w : Larger(v.dim, w.dim) \/ (v.dim = w.dim /\ v.id < w.id))

\* The widgets a search may place next, given those that are left in the configured
\* order: one of each shape, the first, by their order or by their shapes.
Candidates(left, byConfig) ==
  LET firsts == SelectSeq([i \in DOMAIN left |-> [w |-> left[i], i |-> i]],
                          LAMBDA e : \A j \in 1..(e.i - 1) : left[j].dim # e.w.dim)
      ws == [i \in DOMAIN firsts |-> firsts[i].w]
  IN  IF byConfig THEN ws ELSE SortSeq(ws, LAMBDA v, w : Larger(v.dim, w.dim))

\* The state of a search: the cells taken on each screen, the widgets left, where the
\* others are, the nodes so far, and the ceiling and the order of this part of it.
NewSearch(g, k, left) ==
  [g |-> g, masks |-> [s \in 1..k |-> {}], left |-> left, pinnedAt |-> <<>>, placed |-> <<>>,
   nodes |-> 0, ceiling |-> MaxSearchNodes, byConfig |-> FALSE, ok |-> FALSE]

Incomplete(s) == {i \in DOMAIN s.masks : s.masks[i] # FullGrid(s.g)}

RECURSIVE PlaceUnpinnedExactCover(_)

\* The first free cell of the first screen with one is covered with w, if it fits there,
\* and the search goes on; if it fails, only its nodes remain.
TryPlaceShapeGroup(s, w) ==
  LET screen == Min(Incomplete(s))
      cell == Min(FullGrid(s.g) \ s.masks[screen])
      origin == OriginOf(cell, s.g)
      cells == Cells(w.dim, origin, s.g)
      r == PlaceUnpinnedExactCover(
             [s EXCEPT !.masks[screen] = @ \cup cells,
                       !.left = SelectSeq(@, LAMBDA v : v.id # w.id),
                       !.placed = Append(@, [screen |-> screen, w |-> w, origin |-> origin])])
  IN  IF ~InBounds(w.dim, origin, s.g) \/ cells \cap s.masks[screen] # {} THEN s
      ELSE IF r.ok THEN r ELSE [s EXCEPT !.nodes = r.nodes]

PlaceUnpinnedExactCover(s) ==
  LET n == [s EXCEPT !.nodes = @ + 1]
      try(r, w) == IF r.ok THEN r ELSE TryPlaceShapeGroup(r, w)
  IN  IF n.nodes > n.ceiling THEN n
      ELSE IF Incomplete(n) = {} THEN [n EXCEPT !.ok = TRUE]
      ELSE FoldLeft(try, n, Candidates(n.left, n.byConfig))

\* Fault: the search by shapes is not made.
PlaceUnpinned_OnePhase(s) ==
  LET ceiling == s.nodes + Min({SeqNodes, Max({0, MaxSearchNodes - s.nodes})})
      first == PlaceUnpinnedExactCover([s EXCEPT !.byConfig = TRUE, !.ceiling = ceiling])
  IN  IF s.left = <<>> THEN [s EXCEPT !.ok = TRUE]
      ELSE IF first.ok THEN first ELSE [s EXCEPT !.nodes = first.nodes]

\* All pinned widgets have a place: a short search that prefers the configured order; if
\* it was cut short, and nodes are left, one by shapes.
PlaceUnpinned(s) ==
  LET ceiling == s.nodes + Min({SeqNodes, Max({0, MaxSearchNodes - s.nodes})})
      first == PlaceUnpinnedExactCover([s EXCEPT !.byConfig = TRUE, !.ceiling = ceiling])
      rest == [s EXCEPT !.nodes = first.nodes]
  IN  IF s.left = <<>> THEN [s EXCEPT !.ok = TRUE]
      ELSE IF first.ok THEN first
      ELSE IF first.nodes <= ceiling \/ first.nodes >= MaxSearchNodes THEN rest
      ELSE PlaceUnpinnedExactCover(rest)

RECURSIVE PlacePinned(_, _)

\* The pinned widgets ps take the same cells of all screens, one after the other, each at
\* every place until the rest works out.
PlacePinned(s, ps) ==
  LET w == Head(ps)
      slots == SelectSeq([i \in 1..Area(s.g) |-> i - 1], LAMBDA cell : cell \in Slots(s.masks[1], w.dim, s.g))
      at(r, cell) ==
        LET origin == OriginOf(cell, s.g)
            cells == Cells(w.dim, origin, s.g)
        IN  PlacePinned([r EXCEPT !.masks = [i \in DOMAIN @ |-> @[i] \cup cells],
                                  !.pinnedAt = Append(@, Placed(w, origin))], Tail(ps))
      try(r, cell) ==
        IF r.ok THEN r
        ELSE LET next == at(r, cell) IN IF next.ok THEN next ELSE [s EXCEPT !.nodes = next.nodes]
  IN  IF ps = <<>> THEN PlaceUnpinned(s) ELSE FoldLeft(try, s, slots)

\* The screens, ordered by the first of their widgets in the configuration.
AssembleSolvedLayout(ws, s) ==
  LET orders == {i \in DOMAIN ws : ~ws[i].pinned}
      screenOf(i) == (CHOOSE e \in ToSet(s.placed) : e.w.id = ws[i].id).screen
      minOrder(k) == Min({i \in orders : screenOf(i) = k})
      sorted == IF orders = {} THEN <<1>>
                ELSE SetToSortSeq(DOMAIN s.masks, LAMBDA k, l : minOrder(k) < minOrder(l))
  IN  [n \in DOMAIN sorted |->
         ToSet(s.pinnedAt) \cup {Placed(e.w, e.origin) : e \in {f \in ToSet(s.placed) : f.screen = sorted[n]}}]

\* SolveGridWithBudget
Solve(ws, g) ==
  LET v == PartitionAndValidate(ws, g)
      s == PlacePinned(NewSearch(g, v.k, Unpinned(ws)), SortedPinned(ws))
  IN  IF ws = <<>> THEN [err |-> "deficit", nodes |-> 0, layout |-> <<>>]
      ELSE IF v.err # "ok" THEN [err |-> v.err, nodes |-> 0, layout |-> <<>>]
      ELSE IF ~s.ok THEN [err |-> "untileable", nodes |-> s.nodes, layout |-> <<>>]
      ELSE [err |-> "ok", nodes |-> s.nodes, layout |-> AssembleSolvedLayout(ws, s)]

-----------------------------------------------------------------------------
(* Drawn layouts.  A placement is a placed widget with its screen.         *)

RECURSIVE FillRemainingWithSpacers(_, _, _)

\* Fault: a spacer may be as wide as the grid allows.
LargestSpacerAt_Wide(mask, origin, g) ==
  CHOOSE d \in (1..g[1]) \X (1..g[2]) :
    /\ InBounds(d, origin, g)
    /\ \A e \in (1..g[1]) \X (1..g[2]) : e # d /\ InBounds(e, origin, g) => Larger(d, e)

LargestSpacerAt(mask, origin, g) ==
  LET free == {d \in (1..g[1]) \X (1..g[2]) :
                 InBounds(d, origin, g) /\ Cells(d, origin, g) \cap mask = {}}
  IN  CHOOSE d \in free : \A e \in free : e # d => Larger(d, e)

\* The ids of widgets are positive.
AutoSpacer(s, cell, g) == -(1 + s * Area(g) + cell)

\* Screen s is filled up from its first free cell on.
FillRemainingWithSpacers(s, mask, g) ==
  LET cell == Min(FullGrid(g) \ mask)
      origin == OriginOf(cell, g)
      dim == LargestSpacerAt(mask, origin, g)
  IN  IF mask = FullGrid(g) THEN {}
      ELSE {[id |-> AutoSpacer(s, cell, g), dim |-> dim, origin |-> origin, pinned |-> FALSE, spacer |-> TRUE]}
           \cup FillRemainingWithSpacers(s, mask \cup Cells(dim, origin, g), g)

\* Fault: the bounds are one short.
ValidPlacement_Short(p, g) ==
  /\ IsValidForGrid(p.dim, g)
  /\ InBounds(<<p.dim[1] + 1, p.dim[2]>>, p.origin, g)
  /\ p.screen \in 0..(MaxScreens - 1)

ValidPlacement(p, g) ==
  /\ IsValidForGrid(p.dim, g)
  /\ InBounds(p.dim, p.origin, g)
  /\ p.screen \in 0..(MaxScreens - 1)

\* compactScreenIndices: the screens that are left when those without a widget of their
\* own are gone.
CompactScreens(ps) ==
  LET used == {p.screen : p \in {q \in ToSet(ps) : ~q.pinned}}
  IN  IF used = {} THEN <<0>> ELSE SetToSortSeq(used, LAMBDA i, j : i < j)

\* placeExplicitWidgets finds two widgets on one cell; a pinned one is on all screens.
Overlap(ps, g) ==
  \E i, j \in DOMAIN ps :
    /\ i # j
    /\ ps[i].pinned \/ ps[j].pinned \/ ps[i].screen = ps[j].screen
    /\ Cells(ps[i].dim, ps[i].origin, g) \cap Cells(ps[j].dim, ps[j].origin, g) # {}

SolveExplicit(ps, g) ==
  LET screens == CompactScreens(ps)
      own(n) == {p \in ToSet(ps) : p.pinned \/ p.screen = screens[n]}
      mask(n) == UNION {Cells(p.dim, p.origin, g) : p \in own(n)}
  IN  IF \E i \in DOMAIN ps : ~ValidPlacement(ps[i], g) THEN [err |-> "invalid", layout |-> <<>>]
      ELSE IF Overlap(ps, g) THEN [err |-> "overlap", layout |-> <<>>]
      ELSE [err |-> "ok",
            layout |-> [n \in DOMAIN screens |-> {Placed(p, p.origin) : p \in own(n)}
                                                 \cup FillRemainingWithSpacers(n - 1, mask(n), g)]]

-----------------------------------------------------------------------------
(* From a drawing to placements.  An override maps ids to                  *)
(* [screen, origin, dim, pinned].                                          *)

\* The cells taken on every screen so far, and those of pinned widgets.
NoMasks == [screens |-> <<{}>>, pinned |-> {}]

\* Fault: a pinned widget is not noted on the screens that exist already.
TrackScreenMask_LaterScreens(m, p, g) ==
  LET cells == Cells(p.dim, p.origin, g)
      n == IF p.screen < Len(m.screens) THEN Len(m.screens) ELSE p.screen + 1
      grown == [i \in 1..n |-> IF i <= Len(m.screens) THEN m.screens[i] ELSE m.pinned]
  IN  IF p.pinned THEN [screens |-> grown, pinned |-> m.pinned]
      ELSE [m EXCEPT !.screens = [grown EXCEPT ![p.screen + 1] = @ \cup cells \cup m.pinned]]

TrackScreenMask(m, p, g) ==
  LET cells == Cells(p.dim, p.origin, g)
      n == IF p.screen < Len(m.screens) THEN Len(m.screens) ELSE p.screen + 1
      grown == [i \in 1..n |-> IF i <= Len(m.screens) THEN m.screens[i] ELSE m.pinned]
  IN  IF p.pinned THEN [screens |-> [i \in 1..n |-> grown[i] \cup cells], pinned |-> m.pinned \cup cells]
      ELSE [m EXCEPT !.screens = [grown EXCEPT ![p.screen + 1] = @ \cup cells \cup m.pinned]]

NoSlot == [screen |-> -1, origin |-> <<0, 0>>]

SlotOn(screen, mask, dim, g) ==
  [screen |-> screen, origin |-> OriginOf(Min(Slots(mask, dim, g)), g)]

\* A pinned widget needs cells that are free on all screens, another one the first screen
\* with room for it, which may be a new one.
FindFirstOpenSlot(m, w, g) ==
  LET everywhere == m.pinned \cup UNION Range(m.screens)
      open == {i \in DOMAIN m.screens : Slots(m.screens[i] \cup m.pinned, w.dim, g) # {}}
  IN  IF w.pinned
      THEN IF Slots(everywhere, w.dim, g) = {} THEN NoSlot ELSE SlotOn(0, everywhere, w.dim, g)
      ELSE IF open # {} THEN SlotOn(Min(open) - 1, m.screens[Min(open)] \cup m.pinned, w.dim, g)
      ELSE IF Len(m.screens) < MaxScreens /\ Slots(m.pinned, w.dim, g) # {}
      THEN SlotOn(Len(m.screens), m.pinned, w.dim, g)
      ELSE NoSlot

Placement(w, at) ==
  [id |-> w.id, dim |-> w.dim, origin |-> at.origin, pinned |-> w.pinned, spacer |-> w.spacer,
   screen |-> at.screen]

\* Fault: the sizes are those of the configuration.
DrawnPlacements_ConfiguredSize(ws, ov) ==
  LET drawn == SelectSeq(ws, LAMBDA w : w.id \in DOMAIN ov)
  IN  [i \in DOMAIN drawn |->
         Placement([drawn[i] EXCEPT !.pinned = ov[drawn[i].id].pinned], ov[drawn[i].id])]

\* The widgets that are drawn; the drawing says their size and whether they are pinned.
DrawnPlacements(ws, ov) ==
  LET drawn == SelectSeq(ws, LAMBDA w : w.id \in DOMAIN ov)
  IN  [i \in DOMAIN drawn |->
         Placement([drawn[i] EXCEPT !.dim = ov[drawn[i].id].dim, !.pinned = ov[drawn[i].id].pinned],
                   ov[drawn[i].id])]

\* The others, spacers excepted, take the first open slots in turn.
AutoPlace(b, w, g) ==
  LET at == FindFirstOpenSlot(b.m, w, g)
      p == Placement(w, at)
  IN  IF b.err # "ok" THEN b
      ELSE IF at = NoSlot THEN [b EXCEPT !.err = "no slot"]
      ELSE [b EXCEPT !.ps = Append(@, p), !.m = TrackScreenMask(@, p, g)]

BuildPlacementsFromOverrides(ws, ov, g) ==
  LET drawn == DrawnPlacements(ws, ov)
      supported(p) == p.dim \in (CHOOSE w \in ToSet(ws) : w.id = p.id).sizes
      b == [err |-> "ok", ps |-> drawn, m |-> FoldLeft(LAMBDA m, p : TrackScreenMask(m, p, g), NoMasks, drawn)]
      others == SelectSeq(ws, LAMBDA w : w.id \notin DOMAIN ov /\ ~w.spacer)
  IN  IF \E i \in DOMAIN drawn : ~ValidPlacement(drawn[i], g) \/ ~supported(drawn[i])
      THEN [err |-> "invalid", ps |-> <<>>, m |-> NoMasks]
      ELSE FoldLeft(LAMBDA r, w : AutoPlace(r, w, g), b, others)

\* applyOverrideToSnapshot
ApplyOverride(ws, ov, g) ==
  LET b == BuildPlacementsFromOverrides(ws, ov, g)
  IN  IF b.err # "ok" THEN [err |-> b.err, layout |-> <<>>] ELSE SolveExplicit(b.ps, g)
=============================================================================
