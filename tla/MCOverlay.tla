----------------------------- MODULE MCOverlay ------------------------------
EXTENDS Overlay

\* Four edges a (top) to d (bottom) from u to v, of which b goes up in the
\* middle; a loop l at u, between a and b, that stands over the middle of b
\* on two legs; a loop m at w, between b and c, whose place is within the
\* envelope of l but not within l; a node x in the middle of b.
Lens ==
    [nodes  |-> <<"u", "w", "x", "v">>,
     edges  |-> <<"a", "b", "c", "d", "l", "m">>,
     star   |-> [n \in {"u", "v", "w", "x"} |->
         CASE n = "u" -> <<<<"b", TRUE>>, <<"l", TRUE>>, <<"l", FALSE>>,
                           <<"a", TRUE>>, <<"d", TRUE>>, <<"c", TRUE>>>>
           [] n = "v" -> <<<<"a", FALSE>>, <<"b", FALSE>>, <<"c", FALSE>>,
                           <<"d", FALSE>>>>
           [] n = "w" -> <<<<"m", TRUE>>, <<"m", FALSE>>>>
           [] n = "x" -> <<>>],
     path   |-> [a |-> << <<0, 0>>, <<0, 18>>, <<24, 18>>, <<24, 0>> >>,
                 b |-> << <<0, 0>>, <<6, 0>>, <<6, 10>>, <<18, 10>>, <<18, 0>>, <<24, 0>> >>,
                 c |-> << <<0, 0>>, <<4, -4>>, <<20, -4>>, <<24, 0>> >>,
                 d |-> << <<0, 0>>, <<0, -8>>, <<24, -8>>, <<24, 0>> >>,
                 l |-> << <<0, 0>>, <<5, 1>>, <<5, 12>>, <<19, 12>>, <<19, 1>>,
                          <<20, 1>>, <<20, 14>>, <<4, 14>>, <<0, 0>> >>,
                 m |-> << <<10, 4>>, <<14, 4>>, <<12, 8>>, <<10, 4>> >>],
     left   |-> [a |-> 0, b |-> 1, c |-> 2, d |-> 3, l |-> 4, m |-> 5],
     right  |-> [a |-> 1, b |-> 2, c |-> 3, d |-> 0, l |-> 1, m |-> 2],
     outer  |-> 0,
     around |-> [u |-> {0, 1, 2, 3, 4}, v |-> {0, 1, 2, 3}, w |-> {2, 5},
                 x |-> {1, 2}],
     on     |-> [u |-> "none", v |-> "none", w |-> "none", x |-> "b"],
     starts |-> {"u", "w"}]

\* Four squares, each inside the one before.
Square(low, high) ==
    << <<low, low>>, <<high, low>>, <<high, high>>, <<low, high>>, <<low, low>> >>
Onion ==
    [nodes  |-> <<"p1", "p2", "p3", "p4">>,
     edges  |-> <<"k4", "k3", "k2", "k1">>,
     star   |-> [p1 |-> <<<<"k1", TRUE>>, <<"k1", FALSE>>>>,
                 p2 |-> <<<<"k2", TRUE>>, <<"k2", FALSE>>>>,
                 p3 |-> <<<<"k3", TRUE>>, <<"k3", FALSE>>>>,
                 p4 |-> <<<<"k4", TRUE>>, <<"k4", FALSE>>>>],
     path   |-> [k1 |-> Square(1, 8), k2 |-> Square(2, 7),
                 k3 |-> Square(3, 6), k4 |-> Square(4, 5)],
     left   |-> [k1 |-> 1, k2 |-> 2, k3 |-> 3, k4 |-> 4],
     right  |-> [k1 |-> 0, k2 |-> 1, k3 |-> 2, k4 |-> 3],
     outer  |-> 0,
     around |-> [p1 |-> {0, 1}, p2 |-> {1, 2}, p3 |-> {2, 3}, p4 |-> {3, 4}],
     on     |-> [n \in {"p1", "p2", "p3", "p4"} |-> "none"],
     starts |-> {"p1", "p2", "p3", "p4"}]

MCMaps == [lens |-> Lens, onion |-> Onion]

Pair(a, b) == [g \in Geoms |-> IF g = 1 THEN a ELSE b]
Ways == {[g \in Geoms |-> g = 1], [g \in Geoms |-> TRUE]}

LensAreas  == {Area(fs, {}) : fs \in SUBSET {1, 2, 3, 4, 5}}
LensSpikes == {a \in {Area(fs, {e}) : fs \in SUBSET {1, 2, 4},
                                      e \in {"b", "c", "d", "l"}} :
                 WellFormed(Lens, a)}
LensLines  == {Line(es) : es \in SUBSET {"b", "c", "l", "m"}}
LensPoints == {Point({n}) : n \in {"u", "v", "w", "x"}}
OnionAreas == {Area(fs, {}) : fs \in SUBSET {1, 2, 3, 4}}

LensSome == {Area(fs, {}) : fs \in SUBSET {1, 2, 4}}

Pairs(S, T) == {Pair(a, b) : a \in S, b \in T}

MCInputs ==
    [map : {"lens"}, forward : Ways,
     geom : Pairs(LensAreas, LensAreas)
            \cup Pairs(LensSome \cup LensLines \cup LensPoints,
                       LensSpikes \cup LensLines \cup LensPoints)
            \cup Pairs(LensLines \cup LensPoints \cup LensSpikes,
                       LensSome \cup LensSpikes)]
    \cup [map : {"onion"}, forward : Ways, geom : Pairs(OnionAreas, OnionAreas)]
=============================================================================
