----------------------------- MODULE MCDataStore ----------------------------
(* Small instances of DataStore for TLC. *)
EXTENDS DataStore

CONSTANTS k1, k2, t1, t2, t3, h1, h2

AllKeys == {{k1, k2}}
OneKey == {{k1}}
Sym == Permutations(Threads)
=============================================================================
