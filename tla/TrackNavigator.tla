--------------------------- MODULE TrackNavigator ---------------------------
(***************************************************************************)
(* The three orders in which a queue's head is played                      *)
(* (core/track_navigator.cpp): sequential, random, shuffled in passes.     *)
(* One record stands for the three classes: order is a permutation of the  *)
(* head's ordinals (the identity unless shuffled), position the place in   *)
(* it of the ordinal that is current, choice the candidate random drew.    *)
(* Ordinals and places count from 1; 0 is the code's -1.                   *)
(*                                                                         *)
(* The random generator is an argument: luck, a sequence of ordinals.      *)
(* Whatever is drawn from a set is its first member in luck.               *)
(***************************************************************************)
EXTENDS Integers, Sequences, FiniteSets

Endless == 2147483647   \* kEndlessTracks

Kinds == {"sequential", "random", "shuffled"}
Navigator == [kind : Kinds, order : Seq(Nat \ {0}), position : Nat,
              pinned : BOOLEAN, choice : Nat]

\* The members of a sequence at some places, in their order.
Picked(seq, places) ==
  [n \in 1..Cardinality(places) |->
     seq[CHOOSE i \in places : Cardinality({j \in places : j <= i}) = n]]

\* The same with more members from a place on.
Inserted(seq, at, more) == SubSeq(seq, 1, at - 1) \o more \o SubSeq(seq, at, Len(seq))

\* What the generator may draw: each ordinal up to some number, once.
Draws(luck, n) ==
  /\ luck \in Seq(Nat) /\ \A a, b \in DOMAIN luck : luck[a] = luck[b] => a = b
  /\ \A i \in 1..n : \E p \in DOMAIN luck : luck[p] = i

Drawn(S, luck) == Picked(luck, {p \in DOMAIN luck : luck[p] \in S})
InOrder(size) == [i \in 1..size |-> i]
Size(nav) == Len(nav.order)
PlaceOf(nav, ordinal) ==
  IF \E p \in 1..Size(nav) : nav.order[p] = ordinal
    THEN CHOOSE p \in 1..Size(nav) : nav.order[p] = ordinal
    ELSE 0

\* RandomNavigator::select draws from all ordinals but the current one.
Candidate(kind, size, current, luck) ==
  IF kind = "random" /\ size >= 2 THEN Head(Drawn((1..size) \ {current}, luck)) ELSE 0

NavSelect(nav, ordinal, luck) ==
  [nav EXCEPT !.position = PlaceOf(nav, ordinal), !.pinned = FALSE,
              !.choice = Candidate(nav.kind, Size(nav), ordinal, luck)]

\* reset(size, current): a shuffled pass begins with the current ordinal.
NavReset(kind, size, current, luck) ==
  LET first == IF current = 0 \/ size = 0 THEN <<>> ELSE <<current>>
      order == IF kind = "shuffled" THEN first \o Drawn((1..size) \ {current}, luck)
                                    ELSE InOrder(size)
  IN NavSelect([kind |-> kind, order |-> order, position |-> 0, pinned |-> FALSE,
                choice |-> 0], current, luck)

\* resetBefore(size, first): nothing current, and next() gives first.
NavResetBefore(kind, size, first, luck) ==
  LET nav == NavReset(kind, size, first, luck) IN
  CASE kind = "sequential" -> [nav EXCEPT !.position = first - 1]
    [] kind = "random" -> [nav EXCEPT !.position = 0, !.choice = first]
    [] kind = "shuffled" -> [nav EXCEPT !.position = 0, !.pinned = size > 0]

\* Mutant: a new ordinal may come anywhere in the pass.
JoinAnywhere(nav, ordinal, luck) ==
  Inserted(nav.order, IF luck[1] = 1 THEN 1 ELSE Size(nav) + 1, <<ordinal>>)

\* One new ordinal joins a shuffled pass among those still to come.
Join(nav, ordinal, luck) ==
  LET from == nav.position + (IF nav.pinned THEN 2 ELSE 1)
      rank(i) == CHOOSE p \in 1..Len(luck) : luck[p] = i
      later == {p \in from..Size(nav) : rank(nav.order[p]) > rank(ordinal)}
      at == IF later = {} THEN Size(nav) + 1 ELSE CHOOSE p \in later : \A r \in later : p <= r
  IN Inserted(nav.order, at, <<ordinal>>)

\* append(count)
NavAppend(nav, count, luck) ==
  LET size == Size(nav)
      hadChoice == size >= 2 \/ nav.choice # 0
      joined[n \in 0..count] ==
        IF n = 0 THEN nav
        ELSE [joined[n - 1] EXCEPT !.order = Join(joined[n - 1], size + n, luck)]
  IN CASE nav.kind = "sequential" -> [nav EXCEPT !.order = InOrder(size + count)]
       [] nav.kind = "random" ->
            [nav EXCEPT !.order = InOrder(size + count),
               !.choice = IF hadChoice THEN @
                          ELSE Candidate("random", size + count, nav.position, luck)]
       [] nav.kind = "shuffled" -> joined[count]

Roams(nav) == nav.kind = "random" /\ Size(nav) >= 2

NavNext(nav, repeat) ==
  IF Roams(nav) THEN nav.choice
  ELSE IF nav.position < Size(nav) THEN nav.order[nav.position + 1]
  ELSE IF repeat /\ Size(nav) > 0 THEN nav.order[1] ELSE 0

NavPrevious(nav, repeat) ==
  IF Size(nav) = 0 THEN 0
  ELSE IF nav.position > 1 THEN nav.order[nav.position - 1]
  ELSE nav.order[IF repeat THEN Size(nav) ELSE 1]

NavRemaining(nav, repeat) ==
  IF Roams(nav) \/ (repeat /\ Size(nav) > 0) THEN Endless ELSE Size(nav) - nav.position
=============================================================================
