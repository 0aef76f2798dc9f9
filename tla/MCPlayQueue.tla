---------------------------- MODULE MCPlayQueue ----------------------------
(* Values for the constants of PlayQueue. *)
EXTENDS PlayQueue

Head2 == [NoSource EXCEPT !.head = <<"a", "b">>]
Head3 == [NoSource EXCEPT !.head = <<"a", "b", "c">>]
Head2From2 == [NoSource EXCEPT !.head = <<"a", "b">>, !.start = 2]
HeadGap == [NoSource EXCEPT !.head = <<"x", "a", "b">>, !.start = 3]
Wave == [NoSource EXCEPT !.own = TRUE, !.given = <<"a">>]

Item(i, t) == [item |-> i, track |-> t]
Items2 == {<<>>, <<Item("i1", "a"), Item("i2", "j")>>, <<Item("i2", "j")>>}

InOrder5 == <<1, 2, 3, 4, 5>>
Luck3 == {InOrder5, <<3, 1, 4, 2, 5>>, <<2, 4, 1, 5, 3>>}

\* A queue without a layer and every change of the modes.
Modes ==
  [sources |-> {NoSource, Head2, Head3, Wave, HeadGap}, trackLists |-> {<<"n">>},
   itemLists |-> {<<>>}, lucks |-> Luck3, modes |-> {"shuffle", "algorithm", "repeat"},
   lateAdds |-> FALSE, seeds |-> 0, rows |-> 3, bases |-> 1, jams |-> 0]

\* A jam's layer, and a base that is replaced below it.
Layer ==
  [sources |-> {Head2From2}, trackLists |-> {<<"n">>}, itemLists |-> Items2,
   lucks |-> {InOrder5}, modes |-> {}, lateAdds |-> FALSE, seeds |-> 1, rows |-> 3,
   bases |-> 1, jams |-> 1]

\* The base is replaced below the layer.
BaseBelow ==
  [Layer EXCEPT !.itemLists = {<<>>, <<Item("i2", "j")>>}, !.seeds = 0, !.rows = 3, !.bases = 2]

\* The head is shuffled while the new base waits below the layer.
ShuffledBelow ==
  [BaseBelow EXCEPT !.itemLists = {<<>>}, !.modes = {"shuffle", "algorithm"}]

ModesAndLayer == {Modes, Layer, BaseBelow, ShuffledBelow}
LateAdds == {[Layer EXCEPT !.lateAdds = TRUE]}
=============================================================================
