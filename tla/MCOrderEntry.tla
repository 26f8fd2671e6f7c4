---------------------------- MODULE MCOrderEntry ----------------------------
(* Two items, one modifier, 8-bit money; a catalog that changes in every way  *)
(* the properties tell apart.                                                *)
EXTENDS OrderEntry

CONSTANTS i1, i2, m1, m2, gone, q1

MCItemOf == [m \in {m1, m2} |-> IF m = m1 THEN i1 ELSE i2]

Line(item, qty, mods) == [item |-> item, qty |-> qty, mods |-> mods]

MCBodies ==
    {<<>>,
     <<Line(i1, 0, <<>>)>>,
     <<Line(i1, 2, <<m1>>)>>,
     <<Line(i2, 2, <<>>), Line(i1, 1, <<>>)>>,
     <<Line(i2, 2, <<>>), Line(i2, 2, <<>>)>>,
     <<Line(i2, 2, <<>>), Line(i2, 2, <<>>), Line(i2, 2, <<>>)>>,
     <<Line(i2, 2, <<>>), Line(i2, 2, <<>>), Line(i1, 1, <<m1, m1>>)>>,
     <<Line(i2, 2, <<m2>>)>>,
     <<Line(gone, 1, <<>>), Line(i1, 1, <<m2>>)>>,
     <<Line(i1, 1, <<gone>>)>>}

\* Prices 5 and 60; m1 adds 3, or takes off as much as i1 costs; m2 adds 60.
Usual ==
    [exists |-> TRUE, open |-> TRUE,
     price |-> [i \in {i1, i2} |-> IF i = i1 THEN 5 ELSE 60],
     available |-> [i \in {i1, i2} |-> TRUE], stopped |-> [i \in {i1, i2} |-> FALSE],
     delta |-> [m \in {m1, m2} |-> IF m = m1 THEN 3 ELSE 60],
     offered |-> [m \in {m1, m2} |-> TRUE]]

MCCatalogs ==
    {Usual,
     [Usual EXCEPT !.exists = FALSE, !.open = FALSE],
     [Usual EXCEPT !.open = FALSE],
     [Usual EXCEPT !.stopped[i2] = TRUE],
     [Usual EXCEPT !.available[i1] = FALSE],
     [Usual EXCEPT !.offered[m1] = FALSE],
     [Usual EXCEPT !.delta[m1] = -5],
     [Usual EXCEPT !.price[i1] = 9, !.price[i2] = 4]}
=============================================================================
