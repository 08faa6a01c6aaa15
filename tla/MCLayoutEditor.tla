--------------------------- MODULE MCLayoutEditor ---------------------------
(* All ways to fill a screen of 6x2 with two to five widgets of seven shapes, one *)
(* of them pinned or none, and a few configurations that are drawn on.            *)
EXTENDS LayoutEditor

Shapes == {<<5, 1>>, <<4, 2>>, <<3, 2>>, <<3, 1>>, <<2, 2>>, <<2, 1>>, <<1, 2>>}

Widget(id, dim, pinned, spacer, others) ==
  [id |-> id, dim |-> dim, pinned |-> pinned, spacer |-> spacer, sizes |-> {dim} \cup others]

Filling ==
  UNION {{[grid |-> <<6, 2>>, widgets |-> [i \in 1..n |-> Widget(i, f[i], i = p, FALSE, {})]] :
            f \in {h \in [1..n -> Shapes] : FoldLeft(LAMBDA a, d : a + Area(d), 0, h) = 12}, p \in 0..1} : n \in 2..5}

Clock == Widget(1, <<2, 2>>, TRUE, FALSE, {<<2, 1>>})
Photos == Widget(2, <<4, 2>>, FALSE, FALSE, {<<2, 1>>})
Tasks == Widget(3, <<4, 1>>, FALSE, FALSE, {})
Gap == Widget(4, <<4, 1>>, FALSE, TRUE, {})
Weather == Widget(5, <<4, 2>>, FALSE, FALSE, {})

Landscape(ws) == [grid |-> <<6, 2>>, widgets |-> ws]

Home == Landscape(<<Clock, Photos, Tasks, Gap>>)
Crowded == Landscape(<<Clock, Weather, Photos, Tasks, Gap>>)
NoClock == Landscape(<<Widget(3, <<4, 1>>, TRUE, FALSE, {}), Photos>>)
Portrait ==
  [grid |-> <<3, 6>>, widgets |-> <<Widget(1, <<2, 6>>, TRUE, FALSE, {<<2, 2>>}),
                                    Widget(2, <<1, 4>>, FALSE, FALSE, {<<1, 2>>}), Widget(6, <<1, 2>>, FALSE, FALSE, {})>>]

MCEdited == {Home, Crowded, NoClock, Portrait}

MCConfigs ==
  MCEdited \cup Filling
  \cup {Landscape(<<>>), Landscape(<<Clock, Clock>>), Landscape(<<Widget(1, <<3, 3>>, FALSE, FALSE, {})>>),
        Landscape(<<Widget(1, <<6, 2>>, TRUE, FALSE, {}), Photos>>), Landscape(<<Widget(1, <<6, 2>>, TRUE, FALSE, {})>>)}

MCOrigins == {<<0, 0>>, <<1, 0>>, <<2, 0>>, <<4, 0>>, <<0, 1>>, <<2, 1>>, <<4, 1>>, <<2, 4>>, <<-1, 0>>}
=============================================================================
