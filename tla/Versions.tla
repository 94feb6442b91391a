------------------------------ MODULE Versions ------------------------------
(***************************************************************************)
(* The version history a store keeps under one key: a sequence of entries  *)
(* in ascending order of version, the newest last.  The operators are the  *)
(* data part of DataStore.PutRaw and of the two ways a history is read.    *)
(*                                                                         *)
(* A payload is abstracted to the number of the write that produced it, so *)
(* that two entries of different writes are never confused.  The field     *)
(* IsReplica of an entry is left out: no code reads it.  Versions are      *)
(* uint64 in the code; they are counters that start at 1, and the models   *)
(* stay far from the wrap.                                                 *)
(***************************************************************************)
EXTENDS Naturals, SequencesExt

CONSTANT NoVersion          \* the nil *uint64 that Put passes to PutRaw

ASSUME NoVersionAssumption == NoVersion \notin Nat

Entry == [val : Nat, ver : Nat]

History == Seq(Entry)

(* What a read of a missing key returns: nil and version 0. *)
NoEntry == [val |-> 0, ver |-> 0]

(* Mutant of Latest: the oldest entry is read. *)
Latest_oldest(es) == IF es = <<>> THEN NoEntry ELSE Head(es)

Latest(es) == IF es = <<>> THEN NoEntry ELSE Last(es)

(* Mutants of NewVersion: the new version is the newest one's again; the   *)
(* caller's version is ignored.                                            *)
NewVersion_noIncrement(es, version) ==
  IF es = <<>> THEN 1 ELSE IF version = NoVersion THEN Last(es).ver ELSE version
NewVersion_ignoresCaller(es, version) == IF es = <<>> THEN 1 ELSE Last(es).ver + 1

(***************************************************************************)
(* The version an entry is stored under.  A key without a history gets     *)
(* version 1 whatever version the caller supplied; otherwise a supplied    *)
(* version is kept, and a missing one is the newest stored version plus 1. *)
(***************************************************************************)
NewVersion(es, version) ==
  IF es = <<>> THEN 1
  ELSE IF version = NoVersion THEN Last(es).ver + 1
  ELSE version

Ascending(es) ==
  \A i, j \in DOMAIN es : i < j => es[i].ver <= es[j].ver

(* Mutant of Places: the slice is not sorted after the append. *)
Places_unsorted(es, e) == {Len(es) + 1}

(***************************************************************************)
(* The places an entry may be found at after it was appended to es and the *)
(* slice was sorted by version.  sort.Slice is not a stable sort: among    *)
(* entries of equal version the new one may end up anywhere.               *)
(***************************************************************************)
Places(es, e) ==
  {i \in 1..(Len(es) + 1) :
      /\ \A j \in 1..Len(es) : j < i  => es[j].ver <= e.ver
      /\ \A j \in 1..Len(es) : j >= i => e.ver <= es[j].ver}

(* Mutant of SortedInserts: the new slice starts without the loaded one. *)
SortedInserts_alone(es, e) == {<<e>>}

SortedInserts(es, e) == {InsertAt(es, i, e) : i \in Places(es, e)}

(* The entry PutRaw(key, val, version) adds to the history es. *)
NewEntry(es, val, version) == [val |-> val, ver |-> NewVersion(es, version)]

(* The histories PutRaw may leave behind. *)
PutRaw(es, val, version) == SortedInserts(es, NewEntry(es, val, version))
=============================================================================
