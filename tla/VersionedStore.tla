--------------------------- MODULE VersionedStore ---------------------------
(***************************************************************************)
(* What the Store interface promises its callers (src/store/store.go): the *)
(* operations of concurrent callers take effect one at a time.  A caller   *)
(* makes a call, at some later moment the call takes effect in one step on *)
(* the whole store and has its result, and later it returns.  Locks, hooks *)
(* and the steps of an operation are not part of the promise; DataStore    *)
(* has them and is shown to implement this module.                         *)
(***************************************************************************)
EXTENDS Versions

CONSTANTS Keys, Threads,
          Call,           \* the calls a caller may make, records with at least
                          \* the fields op, key, val, version and filter
          Nil             \* no call, no result

VARIABLES
  store,      \* [Keys -> History]: the entries stored under each key
  call,       \* [Threads -> Call \cup {Nil}]: the call each caller is in
  ret         \* [Threads -> result, or Nil before the call took effect]

vars == <<store, call, ret>>

EmptyStore == [k \in Keys |-> <<>>]

(* A write or a read of one key results in an entry, a snapshot in a copy. *)
EntryResult(e) == [entry |-> e, copy |-> EmptyStore]
CopyResult(c) == [entry |-> NoEntry, copy |-> c]

Init ==
  /\ store = EmptyStore
  /\ call = [t \in Threads |-> Nil]
  /\ ret = [t \in Threads |-> Nil]

Invoke(t) ==
  /\ call[t] = Nil
  /\ call' \in [Threads -> Call \cup {Nil}]
  /\ call'[t] # Nil
  /\ \A u \in Threads \ {t} : call'[u] = call[u]
  /\ UNCHANGED <<store, ret>>

(* The call of t takes effect, with result r. *)
TakesEffect(t, op, r) ==
  /\ call[t] # Nil
  /\ call[t].op = op
  /\ ret[t] = Nil
  /\ ret' = [ret EXCEPT ![t] = r]
  /\ UNCHANGED call

(* Put and PutRaw add one entry and return its version. *)
Write(t) ==
  LET k == call[t].key
      e == NewEntry(store[k], call[t].val, call[t].version)
  IN  /\ TakesEffect(t, "put", EntryResult(e))
      /\ \E es \in SortedInserts(store[k], e) : store' = [store EXCEPT ![k] = es]

(* Get and GetValAndVersion return the newest entry. *)
Read(t) ==
  /\ \E op \in {"get", "getver"} :
       TakesEffect(t, op, EntryResult(Latest(store[call[t].key])))
  /\ UNCHANGED store

(* Snapshot returns a copy of the filtered keys as they are together at    *)
(* one moment.                                                             *)
Snapshot(t) ==
  /\ TakesEffect(t, "snapshot",
       CopyResult([k \in Keys |-> IF k \in call[t].filter THEN store[k] ELSE <<>>]))
  /\ UNCHANGED store

Return(t) ==
  /\ ret[t] # Nil
  /\ call' = [call EXCEPT ![t] = Nil]
  /\ ret' = [ret EXCEPT ![t] = Nil]
  /\ UNCHANGED store

Next ==
  \E t \in Threads : Invoke(t) \/ Write(t) \/ Read(t) \/ Snapshot(t) \/ Return(t)

Spec == Init /\ [][Next]_vars
=============================================================================
