---------------------------- MODULE MCBootstrap -----------------------------
(* Small instances of Bootstrap for TLC. *)
EXTENDS Bootstrap

CONSTANTS k1, k2, j1, j2, w1, w2

(* One joiner that takes over one of two keys. *)
OneOfTwo == [j \in Joiners |-> {k1}]

(* One joiner that takes over everything. *)
All == [j \in Joiners |-> Keys]

(* Two joiners, the first one's token is the lower. *)
Nested == [j \in Joiners |-> IF j = j1 THEN {k1} ELSE {k1, k2}]

One == {<<j1, 1>>}
Two == {<<j1, 1>>, <<j2, 1>>}
Twice == {<<j1, 1>>, <<j1, 2>>}

Three == Two \cup Twice

(* One stream and everything that can go wrong; streams of two joiners; two*)
(* handlers of one joiner.                                                 *)
Mixed ==
  {[loaded |-> {}, writes |-> 3, versions |-> {}, streams |-> One, faults |-> {"drop", "debug", "unknown"}],
   [loaded |-> {k1}, writes |-> 2, versions |-> {1, 2}, streams |-> One, faults |-> {}],
   [loaded |-> {k1}, writes |-> 1, versions |-> {}, streams |-> Two, faults |-> {}],
   [loaded |-> {k1}, writes |-> 1, versions |-> {}, streams |-> Twice, faults |-> {}]}

(* Two handlers of one joiner, nothing goes wrong. *)
Repeated == {[loaded |-> {k1}, writes |-> 1, versions |-> {}, streams |-> Twice, faults |-> {}]}

(* One stream and one write, nothing goes wrong. *)
Least == {[loaded |-> {}, writes |-> 1, versions |-> {}, streams |-> One, faults |-> {}]}

Sym == Permutations(Writers)
=============================================================================
