------------------------------- MODULE MCDaily -------------------------------
(* Two requests at once on two instances; a day has two of three lyrics, of  *)
(* which one begins inactive, so that the change may be either way.          *)
EXTENDS Daily, TLC

OneDown == {Lyrics \ {l} : l \in Lyrics}
Alike == Permutations(Requests) \cup Permutations(Processes) \cup Permutations(Lyrics)
============================================================================
