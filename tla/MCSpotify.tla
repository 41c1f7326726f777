----------------------------- MODULE MCSpotify -----------------------------
(* Small instances of Spotify: two threads or one, two accounts, a device. *)
EXTENDS Spotify, TLC

CONSTANTS t1, t2, one, two, d1, d2

Symmetry == Permutations({t1, t2}) \cup Permutations({d1, d2})

=============================================================================
