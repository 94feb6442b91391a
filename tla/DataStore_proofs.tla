-------------------------- MODULE DataStore_proofs --------------------------
(***************************************************************************)
(* The store, for any number of threads, keys, hooks and writes: its lock, *)
(* what that protects, snapshots and their hooks, and the refinement of    *)
(* VersionedStore.                                                         *)
(***************************************************************************)
EXTENDS DataStore, Lemmas

(* What a thread executes, by where it is. *)
CallInv ==
  \A t \in Threads :
    /\ pc[t] # "idle" => call[t] \in Call
    /\ pc[t] \in {"commit", "hook", "inhook", "panicked"} => call[t].op = "put"
    /\ pc[t] \in {"read", "rlockagain"} => call[t].op \in {"get", "getver"}
    /\ pc[t] = "rlockagain" => call[t].op = "getver"
    /\ pc[t] = "copy" => call[t].op = "snapshot"
    /\ pc[t] \in {"rlock", "return"} => call[t].op \in {"get", "getver", "snapshot"}
    /\ pc[t] = "hook" => ret[t].entry \in Entry

(* How many read locks a thread has asked for; the last one it may still   *)
(* be waiting for.                                                         *)
Asked(t) ==
  IF pc[t] \in {"rlockagain", "copy"} THEN 1
  ELSE IF pc[t] \in {"read", "return"} THEN IF call[t].op = "getver" THEN 2 ELSE 1
  ELSE 0

LockInv ==
  /\ \A t \in Threads : writer = t <=> pc[t] \in {"locking", "commit"}
  /\ \A t \in Threads : readers[t] + (IF t \in parked THEN 1 ELSE 0) = Asked(t)
  /\ \A t \in parked : pc[t] \in {"rlockagain", "read", "copy"}
  /\ parked # {} => writer # NoThread
  /\ \A t, u \in Threads : pc[t] = "commit" => readers[u] = 0

IInv == TypeOK /\ CallInv /\ LockInv

(* What a write or a snapshot carries out of one lock step into the next   *)
(* is still what the store holds.                                          *)
FreshInv ==
  /\ LoadFresh
  /\ \A t \in Threads : pc[t] = "rlock" /\ call[t].op = "snapshot" => todo[t] = call[t].filter
  /\ \A t \in parked : pc[t] = "copy" => todo[t] = call[t].filter
  /\ PointInTime
-----------------------------------------------------------------------------
(* Type correctness *)

(* The initial store and the missing entry are of their types. *)
LEMMA EmptyTypes == EmptyStore \in [Keys -> History] /\ NoEntry \in Entry
  BY DEF EmptyStore, History, NoEntry, Entry

(* A call of one key is a call. *)
LEMMA ArgsType ==
  ASSUME NEW op \in AllOps, NEW k \in Keys
  PROVE  Args(op, k) \in Call
  BY DEF Args, Call

(* There is a key to stand for none. *)
LEMMA AnyKeyType == AnyKey \in Keys
  BY KeysAssumption DEF AnyKey

(* The inductive invariant holds initially. *)
LEMMA InitIInv == Init => IInv
<1> SUFFICES ASSUME Init PROVE IInv
  OBVIOUS
<1>1. TypeOK
  BY EmptyTypes, MaxWritesAssumption, NoHookAssumption
     DEF Init, TypeOK, PCs, NoCopy, History
<1>2. CallInv
  BY DEF Init, CallInv
<1>3. LockInv
  BY NoThreadAssumption DEF Init, LockInv, Asked
<1> QED BY <1>1, <1>2, <1>3 DEF IInv

(* The arguments of every call are of their type. *)
LEMMA InvokeType ==
  ASSUME IInv, NEW t \in Threads, Invoke(t)
  PROVE  TypeOK' /\ pc[t] = "idle" /\ call'[t] \in Call
<1>1. TypeOK
  BY DEF IInv
<1>2. ASSUME NEW c \in Call, NEW place \in PCs, Begin(t, c, place), writes' \in 0..MaxWrites
      PROVE  TypeOK' /\ pc[t] = "idle" /\ call'[t] \in Call
  BY <1>1, <1>2 DEF TypeOK, Begin, Goto, mu, local
<1>3. CASE CallPut(t)
  <2>1. PICK k \in Keys, v \in RawVersions \cup {NoVersion} :
          Begin(t, [Args("put", k) EXCEPT !.val = writes', !.version = v], "lock")
    BY <1>3 DEF CallPut
  <2>2. writes' \in 0..MaxWrites
    BY <1>1, <1>3, MaxWritesAssumption DEF CallPut, TypeOK
  <2>3. [Args("put", k) EXCEPT !.val = writes', !.version = v] \in Call
    <3>1. writes' \in Nat /\ v \in Nat \cup {NoVersion}
      BY <2>2, RawVersionsAssumption, MaxWritesAssumption
    <3> QED BY <3>1 DEF Args, Call, AllOps
  <2>4. "lock" \in PCs
    BY DEF PCs
  <2> QED BY <1>2, <2>1, <2>2, <2>3, <2>4
<1>4. CASE CallRead(t)
  <2>1. PICK op \in {"get", "getver"}, k \in Keys : Begin(t, Args(op, k), "rlock")
    BY <1>4 DEF CallRead
  <2>2. Args(op, k) \in Call
    BY ArgsType DEF AllOps
  <2>3. "rlock" \in PCs /\ writes' \in 0..MaxWrites
    BY <1>1, <1>4 DEF PCs, CallRead, TypeOK
  <2> QED BY <1>2, <2>1, <2>2, <2>3
<1>5. CASE CallSnapshot(t)
  <2>1. PICK f \in Filters, h \in FreshHooks \cup {NoHook} :
          Begin(t, [Args("snapshot", AnyKey) EXCEPT !.filter = f, !.hook = h], "lock")
    BY <1>5 DEF CallSnapshot
  <2>2. [Args("snapshot", AnyKey) EXCEPT !.filter = f, !.hook = h] \in Call
    <3>1. f \in SUBSET Keys /\ h \in Hooks \cup {NoHook}
      BY FiltersAssumption DEF FreshHooks
    <3> QED BY <3>1, AnyKeyType DEF Args, Call, AllOps
  <2>3. "lock" \in PCs /\ writes' \in 0..MaxWrites
    BY <1>1, <1>5 DEF PCs, CallSnapshot, TypeOK
  <2> QED BY <1>2, <2>1, <2>2, <2>3
<1>6. CASE CallReset(t)
  <2>1. Begin(t, Args("reset", AnyKey), "lock")
    BY <1>6 DEF CallReset
  <2>2. Args("reset", AnyKey) \in Call
    BY ArgsType, AnyKeyType DEF AllOps
  <2>3. "lock" \in PCs /\ writes' \in 0..MaxWrites
    BY <1>1, <1>6 DEF PCs, CallReset, TypeOK
  <2> QED BY <1>2, <2>1, <2>2, <2>3
<1> QED BY <1>3, <1>4, <1>5, <1>6 DEF Invoke

(* A step of a thread in an operation keeps the types. *)
LEMMA StepType ==
  ASSUME IInv, NEW t \in Threads, Lock(t) \/ Work(t) \/ HookReturn(t)
  PROVE  TypeOK'
<1> USE DEF Goto, mu, local, history
<1>1. TypeOK /\ CallInv /\ LockInv
  BY DEF IInv
<1>2. pc[t] # "idle" => /\ call[t] \in Call /\ call[t].key \in Keys /\ call[t].val \in Nat
                        /\ call[t].version \in Nat \cup {NoVersion}
                        /\ call[t].filter \in SUBSET Keys
                        /\ call[t].hook \in Hooks \cup {NoHook}
  BY <1>1 DEF CallInv, Call
<1>3. Unlock => /\ writer' \in Threads \cup {NoThread}
                /\ readers' \in [Threads -> 0..2]
                /\ parked' \in SUBSET Threads
  <2>1. ASSUME NEW u \in parked PROVE readers[u] + 1 \in 0..2
    BY <1>1 DEF TypeOK, LockInv, Asked
  <2> QED BY <1>1, <2>1 DEF Unlock, TypeOK
<1>4. CASE Lock(t)
  BY <1>1, <1>4 DEF Lock, TypeOK, PCs
<1>5. CASE PutLoad(t)
  BY <1>1, <1>2, <1>5 DEF PutLoad, Locked, TypeOK, PCs
<1>6. CASE PutCommit(t)
  <2> DEFINE k == call[t].key
             e == NewEntry(loaded[t], call[t].val, call[t].version)
  <2>1. pc[t] = "commit" /\ loaded[t] \in History
    BY <1>1, <1>6 DEF PutCommit, TypeOK
  <2>2. e \in Entry
    BY <1>2, <2>1, NewEntryType
  <2>3. PICK es \in SortedInserts(loaded[t], e) : store' = [store EXCEPT ![k] = es]
    BY <1>6 DEF PutCommit
  <2>4. es \in History
    BY <2>1, <2>2, <2>3, SortedInsertsType
  <2>5. EntryResult(e) \in Result
    BY <2>2, EmptyTypes DEF EntryResult, Result
  <2>6. ret' = [ret EXCEPT ![t] = EntryResult(e)]
    BY <1>6 DEF PutCommit
  <2>7. <<>> \in History
    BY DEF History
  <2> HIDE DEF e
  <2> QED BY <1>1, <1>2, <1>3, <1>6, <2>3, <2>4, <2>5, <2>6, <2>7 DEF PutCommit, TypeOK, PCs
<1>7. CASE HookCall(t)
  <2>1. pc[t] = "hook" /\ call[t].key \in Keys /\ ret[t].entry \in Entry
    BY <1>1, <1>2, <1>7 DEF HookCall, CallInv
  <2> QED BY <1>1, <1>7, <2>1 DEF HookCall, TypeOK, PCs
<1>8. CASE PutReturn(t)
  BY <1>1, <1>8 DEF PutReturn, Return, TypeOK, PCs
<1>9. CASE HookReturn(t)
  BY <1>1, <1>9 DEF HookReturn, Return, TypeOK, PCs
<1>10. ASSUME pc[t] \in {"rlock", "rlockagain"}, t \notin parked, RLock(t)
       PROVE  /\ writer' \in Threads \cup {NoThread}
              /\ readers' \in [Threads -> 0..2]
              /\ parked' \in SUBSET Threads
  <2>1. readers[t] + 1 \in 0..2
    BY <1>1, <1>10 DEF TypeOK, LockInv, Asked
  <2> QED BY <1>1, <1>10, <2>1 DEF RLock, TypeOK
<1>11. CASE ReadLock(t)
  <2>1. pc[t] = "rlock" /\ t \notin parked /\ call[t].op \in {"get", "getver", "snapshot"}
    BY <1>1, <1>11 DEF ReadLock, CallInv, LockInv
  <2>2. pc' \in [Threads -> PCs]
    BY <1>1, <1>11, <2>1 DEF ReadLock, TypeOK, PCs
  <2>3. RLock(t)
    BY <1>11 DEF ReadLock
  <2> QED BY <1>1, <1>10, <1>11, <2>1, <2>2, <2>3 DEF ReadLock, TypeOK
<1>12. CASE ReadLockAgain(t)
  BY <1>1, <1>10, <1>12 DEF ReadLockAgain, TypeOK, PCs
<1>13. CASE ReadLatest(t)
  <2>1. store[call[t].key] \in History
    BY <1>1, <1>2, <1>13 DEF ReadLatest, TypeOK
  <2>2. EntryResult(Latest(store[call[t].key])) \in Result
    BY <2>1, LatestType, EmptyTypes DEF EntryResult, Result
  <2> QED BY <1>1, <1>13, <2>2 DEF ReadLatest, TypeOK, PCs
<1>14. CASE ReadReturn(t)
  BY <1>1, <1>14 DEF ReadReturn, RUnlock, Return, TypeOK, PCs
<1>15. CASE SnapshotInstall(t)
  <2>1. NoCopy \in [filter : SUBSET Keys, copy : [Keys -> History]]
    BY EmptyTypes DEF NoCopy
  <2> QED BY <1>1, <1>2, <1>3, <1>15, <2>1 DEF SnapshotInstall, Locked, TypeOK, PCs
<1>16. CASE CopyKey(t)
  BY <1>1, <1>16 DEF CopyKey, TypeOK
<1>17. CASE SnapshotCopied(t)
  <2>1. CopyResult(copied[t]) \in Result
    BY <1>1, EmptyTypes DEF CopyResult, Result, TypeOK
  <2>2. [filter |-> call[t].filter, copy |-> copied[t]] \in [filter : SUBSET Keys, copy : [Keys -> History]]
    BY <1>1, <1>2, <1>17 DEF SnapshotCopied, TypeOK
  <2> QED BY <1>1, <1>17, <2>1, <2>2, EmptyTypes DEF SnapshotCopied, TypeOK, PCs
<1>18. CASE ResetHook(t)
  <2>1. NoCopy \in [filter : SUBSET Keys, copy : [Keys -> History]]
    BY EmptyTypes DEF NoCopy
  <2> QED BY <1>1, <1>3, <1>18, <2>1 DEF ResetHook, Locked, Return, TypeOK, PCs
<1> QED
  BY <1>4, <1>5, <1>6, <1>7, <1>8, <1>9, <1>11, <1>12, <1>13, <1>14, <1>15, <1>16, <1>17, <1>18
     DEF Work, PutRawSteps, ReadSteps, SnapshotSteps

-----------------------------------------------------------------------------
(* What a thread executes follows from where it is. *)

(* A new call leaves an idle thread at the entrance of its operation. *)
LEMMA InvokeBegins ==
  ASSUME IInv, NEW t \in Threads, Invoke(t)
  PROVE  \E c \in Call, place \in {"lock", "rlock"} :
           /\ Begin(t, c, place)
           /\ place = "rlock" => c.op \in {"get", "getver"}
<1>1. ASSUME NEW c, NEW place \in {"lock", "rlock"}, Begin(t, c, place)
      PROVE  c \in Call
  <2>1. TypeOK /\ call'[t] \in Call
    BY InvokeType DEF IInv
  <2> QED BY <1>1, <2>1 DEF Begin, TypeOK
<1>2. CASE CallPut(t)
  BY <1>1, <1>2 DEF CallPut
<1>3. CASE CallRead(t)
  <2>1. PICK op \in {"get", "getver"}, k \in Keys : Begin(t, Args(op, k), "rlock")
    BY <1>3 DEF CallRead
  <2>2. Args(op, k).op = op
    BY DEF Args
  <2> QED BY <1>1, <2>1, <2>2
<1>4. CASE CallSnapshot(t)
  BY <1>1, <1>4 DEF CallSnapshot
<1>5. CASE CallReset(t)
  BY <1>1, <1>5 DEF CallReset
<1> QED BY <1>2, <1>3, <1>4, <1>5 DEF Invoke

(* A new call keeps CallInv. *)
LEMMA InvokeCallInv ==
  ASSUME IInv, NEW t \in Threads, Invoke(t)
  PROVE  CallInv'
<1>1. TypeOK /\ CallInv
  BY DEF IInv
<1>2. PICK c \in Call, place \in {"lock", "rlock"} :
        /\ Begin(t, c, place)
        /\ place = "rlock" => c.op \in {"get", "getver"}
  BY InvokeBegins
<1> QED
  BY <1>1, <1>2 DEF Begin, Goto, TypeOK, CallInv, local

(* Every other step keeps CallInv. *)
LEMMA StepCallInv ==
  ASSUME IInv, NEW t \in Threads, Lock(t) \/ Work(t) \/ HookReturn(t)
  PROVE  CallInv'
<1> USE DEF Goto, mu, local, history
<1>1. TypeOK /\ CallInv
  BY DEF IInv
<1>2. CASE Lock(t)
  BY <1>1, <1>2 DEF Lock, TypeOK, CallInv
<1>3. CASE PutLoad(t)
  BY <1>1, <1>3 DEF PutLoad, Locked, TypeOK, CallInv
<1>4. CASE PutCommit(t)
  <2> DEFINE e == NewEntry(loaded[t], call[t].val, call[t].version)
  <2>1. pc[t] = "commit" /\ loaded[t] \in History
    BY <1>1, <1>4 DEF PutCommit, TypeOK
  <2>2. e \in Entry
    BY <1>1, <2>1, NewEntryType DEF CallInv, Call
  <2>3. ret' = [ret EXCEPT ![t] = EntryResult(e)]
    BY <1>4 DEF PutCommit
  <2>4. EntryResult(e).entry = e
    BY DEF EntryResult
  <2> HIDE DEF e
  <2> QED BY <1>1, <1>4, <2>2, <2>3, <2>4 DEF PutCommit, TypeOK, CallInv
<1>5. CASE HookCall(t)
  BY <1>1, <1>5 DEF HookCall, TypeOK, CallInv
<1>6. CASE PutReturn(t)
  BY <1>1, <1>6 DEF PutReturn, Return, TypeOK, CallInv
<1>7. CASE HookReturn(t)
  BY <1>1, <1>7 DEF HookReturn, Return, TypeOK, CallInv
<1>8. CASE ReadLock(t)
  BY <1>1, <1>8 DEF ReadLock, RLock, TypeOK, CallInv
<1>9. CASE ReadLockAgain(t)
  BY <1>1, <1>9 DEF ReadLockAgain, RLock, TypeOK, CallInv
<1>10. CASE ReadLatest(t)
  BY <1>1, <1>10 DEF ReadLatest, TypeOK, CallInv
<1>11. CASE ReadReturn(t)
  BY <1>1, <1>11 DEF ReadReturn, Return, TypeOK, CallInv
<1>12. CASE SnapshotInstall(t)
  BY <1>1, <1>12 DEF SnapshotInstall, Locked, TypeOK, CallInv
<1>13. CASE CopyKey(t)
  BY <1>1, <1>13 DEF CopyKey, TypeOK, CallInv
<1>14. CASE SnapshotCopied(t)
  BY <1>1, <1>14 DEF SnapshotCopied, TypeOK, CallInv
<1>15. CASE ResetHook(t)
  BY <1>1, <1>15 DEF ResetHook, Locked, Return, TypeOK, CallInv
<1> QED
  BY <1>2, <1>3, <1>4, <1>5, <1>6, <1>7, <1>8, <1>9, <1>10, <1>11, <1>12, <1>13, <1>14, <1>15
     DEF Work, PutRawSteps, ReadSteps, SnapshotSteps

-----------------------------------------------------------------------------
(* Who holds the lock. *)

(* A new call does not touch the lock. *)
LEMMA InvokeLockInv ==
  ASSUME IInv, NEW t \in Threads, Invoke(t)
  PROVE  LockInv'
<1>1. TypeOK /\ LockInv /\ pc[t] = "idle"
  BY InvokeType DEF IInv
<1>2. /\ UNCHANGED mu
      /\ pc' = [pc EXCEPT ![t] = "lock"] \/ pc' = [pc EXCEPT ![t] = "rlock"]
      /\ \A u \in Threads : u # t => call'[u] = call[u]
  BY <1>1 DEF Invoke, CallPut, CallRead, CallSnapshot, CallReset, Begin, Goto, TypeOK
<1>3. \A u \in Threads : Asked(u)' = Asked(u)
  BY <1>1, <1>2 DEF Asked, TypeOK
<1> QED
  BY <1>1, <1>2, <1>3 DEF LockInv, TypeOK, mu

(* Every other step keeps LockInv. *)
LEMMA StepLockInv ==
  ASSUME IInv, NEW t \in Threads, Lock(t) \/ Work(t) \/ HookReturn(t)
  PROVE  LockInv'
<1> USE NoThreadAssumption DEF Goto, mu, local, history
<1>1. TypeOK /\ CallInv /\ LockInv
  BY DEF IInv
<1>2. CASE Lock(t)
  BY <1>1, <1>2 DEF Lock, TypeOK, CallInv, LockInv, Asked
<1>3. CASE PutLoad(t)
  BY <1>1, <1>3 DEF PutLoad, Locked, TypeOK, CallInv, LockInv, Asked
<1>4. CASE PutCommit(t)
  BY <1>1, <1>4 DEF PutCommit, Unlock, TypeOK, CallInv, LockInv, Asked
<1>5. CASE HookCall(t)
  <2>1. PICK place \in {"panicked", "inhook"} : pc' = [pc EXCEPT ![t] = place]
    BY <1>5 DEF HookCall
  <2>2. pc[t] = "hook" /\ UNCHANGED <<mu, call>>
    BY <1>5 DEF HookCall
  <2> QED BY <1>1, <2>1, <2>2 DEF TypeOK, LockInv, Asked
<1>6. CASE PutReturn(t)
  BY <1>1, <1>6 DEF PutReturn, Return, TypeOK, CallInv, LockInv, Asked
<1>7. CASE HookReturn(t)
  BY <1>1, <1>7 DEF HookReturn, Return, TypeOK, CallInv, LockInv, Asked
<1>8. ASSUME pc[t] \in {"rlock", "rlockagain"}, t \notin parked, RLock(t), UNCHANGED call,
             pc'[t] \in {"rlockagain", "read", "copy"}, Asked(t)' = Asked(t) + 1,
             \A u \in Threads : u # t => pc'[u] = pc[u]
      PROVE  LockInv'
  <2>1. writer' = writer /\ \A u \in Threads : pc'[u] \in {"locking", "commit"} => pc'[u] = pc[u]
    BY <1>8 DEF RLock
  <2>2. \A u \in Threads : writer' = u <=> pc'[u] \in {"locking", "commit"}
    BY <1>1, <1>8, <2>1 DEF LockInv
  <2>3. \A u \in Threads : u # t => Asked(u)' = Asked(u)
    BY <1>8 DEF Asked
  <2>4. CASE writer = NoThread
    <3>1. readers' = [readers EXCEPT ![t] = @ + 1] /\ parked' = parked
      BY <1>8, <2>4 DEF RLock
    <3>2. ASSUME NEW u \in Threads
          PROVE  readers'[u] + (IF u \in parked' THEN 1 ELSE 0) = Asked(u)'
      <4>1. readers[u] + (IF u \in parked THEN 1 ELSE 0) = Asked(u) /\ readers[u] \in 0..2
        BY <1>1 DEF TypeOK, LockInv
      <4>2. CASE u = t
        <5>1. t \notin parked /\ t \notin parked' /\ readers'[u] = readers[u] + 1
          BY <1>1, <1>8, <3>1, <4>2 DEF TypeOK
        <5> QED BY <1>8, <4>1, <4>2, <5>1
      <4>3. CASE u # t
        <5>1. readers'[u] = readers[u] /\ (u \in parked' <=> u \in parked)
          BY <1>1, <3>1, <4>3 DEF TypeOK
        <5> QED BY <2>3, <4>1, <4>3, <5>1
      <4> QED BY <4>2, <4>3
    <3>3. \A u \in Threads : pc'[u] # "commit"
      BY <2>1, <2>2, <2>4
    <3>4. parked' = {}
      BY <1>1, <2>4, <3>1 DEF LockInv
    <3> QED BY <2>2, <3>2, <3>3, <3>4 DEF LockInv
  <2>5. CASE writer # NoThread
    <3>1. readers' = readers /\ parked' = parked \cup {t}
      BY <1>8, <2>5 DEF RLock
    <3>2. ASSUME NEW u \in Threads
          PROVE  readers'[u] + (IF u \in parked' THEN 1 ELSE 0) = Asked(u)'
      <4>1. readers[u] + (IF u \in parked THEN 1 ELSE 0) = Asked(u) /\ readers[u] \in 0..2
        BY <1>1 DEF TypeOK, LockInv
      <4>2. CASE u = t
        <5>1. t \notin parked /\ t \in parked' /\ readers'[u] = readers[u]
          BY <1>1, <1>8, <3>1, <4>2 DEF TypeOK
        <5> QED BY <1>8, <4>1, <4>2, <5>1
      <4>3. CASE u # t
        <5>1. readers'[u] = readers[u] /\ (u \in parked' <=> u \in parked)
          BY <1>1, <3>1, <4>3 DEF TypeOK
        <5> QED BY <2>3, <4>1, <4>3, <5>1
      <4> QED BY <4>2, <4>3
    <3>3. \A u, x \in Threads : pc'[u] = "commit" => readers'[x] = 0
      BY <1>1, <2>1, <3>1 DEF LockInv
    <3>4. \A u \in parked' : pc'[u] \in {"rlockagain", "read", "copy"}
      BY <1>1, <1>8, <3>1 DEF LockInv, TypeOK
    <3>5. writer' # NoThread
      BY <2>1, <2>5
    <3> QED BY <2>2, <3>2, <3>3, <3>4, <3>5 DEF LockInv
  <2> QED BY <2>4, <2>5
<1>9. CASE ReadLock(t) \/ ReadLockAgain(t)
  <2>1. CASE ReadLock(t)
    <3>1. pc[t] = "rlock" /\ RLock(t) /\ UNCHANGED call
      BY <2>1 DEF ReadLock
    <3>2. t \notin parked /\ call[t].op \in {"get", "getver", "snapshot"}
      BY <1>1, <3>1 DEF CallInv, LockInv
    <3>3. pc' = [pc EXCEPT ![t] =
                   [get |-> "read", getver |-> "rlockagain", snapshot |-> "copy"][call[t].op]]
      BY <2>1 DEF ReadLock
    <3>4. /\ pc'[t] \in {"rlockagain", "read", "copy"}
          /\ pc'[t] = "read" => call[t].op = "get"
          /\ \A u \in Threads : u # t => pc'[u] = pc[u]
      BY <1>1, <3>2, <3>3 DEF TypeOK
    <3>5. Asked(t)' = 1 /\ Asked(t) = 0
      BY <3>1, <3>4 DEF Asked
    <3> QED BY <1>8, <3>1, <3>2, <3>4, <3>5
  <2>2. CASE ReadLockAgain(t)
    <3>1. pc[t] = "rlockagain" /\ RLock(t) /\ UNCHANGED call /\ t \notin parked
      BY <2>2 DEF ReadLockAgain
    <3>2. call[t].op = "getver"
      BY <1>1, <3>1 DEF CallInv
    <3>3. pc'[t] = "read" /\ \A u \in Threads : u # t => pc'[u] = pc[u]
      BY <1>1, <2>2 DEF ReadLockAgain, TypeOK
    <3>4. Asked(t)' = 2 /\ Asked(t) = 1
      BY <3>1, <3>2, <3>3 DEF Asked
    <3> QED BY <1>8, <3>1, <3>3, <3>4
  <2> QED BY <1>9, <2>1, <2>2
<1>10. CASE ReadLatest(t)
  BY <1>1, <1>10 DEF ReadLatest, TypeOK, CallInv, LockInv, Asked
<1>11. CASE ReadReturn(t)
  BY <1>1, <1>11 DEF ReadReturn, RUnlock, Return, TypeOK, CallInv, LockInv, Asked
<1>12. CASE SnapshotInstall(t)
  BY <1>1, <1>12 DEF SnapshotInstall, Locked, Unlock, TypeOK, CallInv, LockInv, Asked
<1>13. CASE CopyKey(t)
  BY <1>1, <1>13 DEF CopyKey, TypeOK, CallInv, LockInv, Asked
<1>14. CASE SnapshotCopied(t)
  BY <1>1, <1>14 DEF SnapshotCopied, TypeOK, CallInv, LockInv, Asked
<1>15. CASE ResetHook(t)
  BY <1>1, <1>15 DEF ResetHook, Locked, Unlock, Return, TypeOK, CallInv, LockInv, Asked
<1> QED
  BY <1>2, <1>3, <1>4, <1>5, <1>6, <1>7, <1>9, <1>10, <1>11, <1>12, <1>13, <1>14, <1>15
     DEF Work, PutRawSteps, ReadSteps, SnapshotSteps

-----------------------------------------------------------------------------
(* What is loaded or copied under the lock stays what is stored. *)

(* Nothing is loaded or copied initially. *)
LEMMA InitFresh == Init => FreshInv
  BY DEF Init, FreshInv, LoadFresh, PointInTime

(* A new call loads and copies nothing. *)
LEMMA InvokeFresh ==
  ASSUME IInv, FreshInv, NEW t \in Threads, Invoke(t)
  PROVE  FreshInv'
<1>1. TypeOK /\ LockInv /\ pc[t] = "idle"
  BY InvokeType DEF IInv
<1>2. PICK c \in Call, place \in {"lock", "rlock"} :
        /\ Begin(t, c, place)
        /\ place = "rlock" => c.op \in {"get", "getver"}
  BY InvokeBegins
<1> QED
  BY <1>1, <1>2 DEF Begin, Goto, TypeOK, LockInv, FreshInv, LoadFresh, PointInTime, mu, local

(* The commit changes one history; the thread that commits is the only one *)
(* to have loaded one, and every snapshot has yet to begin its copy.       *)
LEMMA CommitFresh ==
  ASSUME IInv, FreshInv, NEW t \in Threads, PutCommit(t)
  PROVE  FreshInv'
<1>1. TypeOK /\ LockInv /\ pc[t] = "commit"
  BY DEF IInv, PutCommit
<1>2. /\ pc' = [pc EXCEPT ![t] = "hook"] /\ parked' = {}
      /\ UNCHANGED <<call, todo, copied>>
  BY DEF PutCommit, Goto, Unlock
<1>3. \A u \in Threads : pc'[u] # "commit"
  BY <1>1, <1>2 DEF TypeOK, LockInv
<1>4. ASSUME NEW u \in Threads, pc'[u] = "copy" PROVE todo[u] = call[u].filter
  <2>1. pc[u] = "copy" /\ readers[u] = 0
    BY <1>1, <1>2, <1>4 DEF TypeOK, LockInv
  <2>2. Asked(u) = 1
    BY <2>1 DEF Asked
  <2>3. u \in parked
    BY <1>1, <2>1, <2>2 DEF LockInv
  <2> QED BY <2>1, <2>3 DEF FreshInv
<1>5. LoadFresh'
  BY <1>3 DEF LoadFresh
<1>6. PointInTime'
  BY <1>2, <1>4 DEF PointInTime
<1>7. \A u \in Threads : pc'[u] = "rlock" => pc[u] = "rlock"
  BY <1>1, <1>2 DEF TypeOK
<1> QED
  BY <1>2, <1>5, <1>6, <1>7 DEF FreshInv

(* Every other step keeps FreshInv. *)
LEMMA StepFresh ==
  ASSUME IInv, FreshInv, NEW t \in Threads, Lock(t) \/ Work(t) \/ HookReturn(t)
  PROVE  FreshInv'
<1> USE DEF Goto, mu, local, history
<1>1. TypeOK /\ CallInv /\ LockInv
  BY DEF IInv
<1> USE DEF FreshInv, LoadFresh, PointInTime
<1>2. CASE Lock(t)
  BY <1>1, <1>2 DEF Lock, TypeOK, CallInv, LockInv
<1>3. CASE PutLoad(t)
  BY <1>1, <1>3 DEF PutLoad, Locked, TypeOK, CallInv, LockInv
<1>4. CASE PutCommit(t)
  BY <1>4, CommitFresh
<1>5. CASE HookCall(t)
  BY <1>1, <1>5 DEF HookCall, TypeOK, CallInv, LockInv
<1>6. CASE PutReturn(t)
  BY <1>1, <1>6 DEF PutReturn, Return, TypeOK, CallInv, LockInv
<1>7. CASE HookReturn(t)
  BY <1>1, <1>7 DEF HookReturn, Return, TypeOK, CallInv, LockInv
<1>8. CASE ReadLock(t)
  BY <1>1, <1>8 DEF ReadLock, RLock, TypeOK, CallInv, LockInv
<1>9. CASE ReadLockAgain(t)
  BY <1>1, <1>9 DEF ReadLockAgain, RLock, TypeOK, CallInv, LockInv
<1>10. CASE ReadLatest(t)
  BY <1>1, <1>10 DEF ReadLatest, TypeOK, CallInv, LockInv
<1>11. CASE ReadReturn(t)
  BY <1>1, <1>11 DEF ReadReturn, RUnlock, Return, TypeOK, CallInv, LockInv
<1>12. CASE SnapshotInstall(t)
  BY <1>1, <1>12 DEF SnapshotInstall, Locked, Unlock, TypeOK, CallInv, LockInv
<1>13. CASE CopyKey(t)
  BY <1>1, <1>13 DEF CopyKey, TypeOK, CallInv, LockInv
<1>14. CASE SnapshotCopied(t)
  BY <1>1, <1>14 DEF SnapshotCopied, TypeOK, CallInv, LockInv
<1>15. CASE ResetHook(t)
  BY <1>1, <1>15 DEF ResetHook, Locked, Unlock, Return, TypeOK, CallInv, LockInv
<1> QED
  BY <1>2, <1>3, <1>4, <1>5, <1>6, <1>7, <1>8, <1>9, <1>10, <1>11, <1>12, <1>13, <1>14, <1>15
     DEF Work, PutRawSteps, ReadSteps, SnapshotSteps

(* The step of the induction. *)
LEMMA StepInv ==
  ASSUME IInv, FreshInv, [Next]_vars
  PROVE  IInv' /\ FreshInv'
<1>1. CASE UNCHANGED vars
  BY <1>1 DEF vars, mu, local, history, IInv, TypeOK, CallInv, LockInv, Asked,
              FreshInv, LoadFresh, PointInTime
<1>2. ASSUME NEW t \in Threads, Invoke(t) PROVE IInv' /\ FreshInv'
  BY <1>2, InvokeType, InvokeCallInv, InvokeLockInv, InvokeFresh DEF IInv
<1>3. ASSUME NEW t \in Threads, Lock(t) \/ Work(t) \/ HookReturn(t) PROVE IInv' /\ FreshInv'
  BY <1>3, StepType, StepCallInv, StepLockInv, StepFresh DEF IInv
<1> QED BY <1>1, <1>2, <1>3 DEF Next

-----------------------------------------------------------------------------
(* The histories change by PutRaw's commit alone, and what it inserts into *)
(* is the history as it is stored at that moment.                          *)

(* What a commit does to the histories. *)
LEMMA CommitStore ==
  ASSUME IInv, FreshInv, NEW t \in Threads, PutCommit(t)
  PROVE  \E k \in Keys, e \in Entry : \E es \in SortedInserts(store[k], e) :
           /\ store' = [store EXCEPT ![k] = es]
           /\ e = NewEntry(store[k], call[t].val, call[t].version)
<1> DEFINE k == call[t].key
           e == NewEntry(store[k], call[t].val, call[t].version)
<1>1. pc[t] = "commit" /\ call[t] \in Call /\ TypeOK
  BY DEF PutCommit, IInv, CallInv
<1>2. k \in Keys /\ store[k] \in History /\ loaded[t] = store[k]
  BY <1>1 DEF Call, TypeOK, FreshInv, LoadFresh
<1>3. e \in Entry
  BY <1>1, <1>2, NewEntryType DEF Call
<1>4. \E es \in SortedInserts(store[k], e) : store' = [store EXCEPT ![k] = es]
  BY <1>2 DEF PutCommit
<1> QED BY <1>2, <1>3, <1>4

(* No other step changes a history. *)
LEMMA OnlyCommitStores ==
  ASSUME IInv, [Next]_vars
  PROVE  UNCHANGED store \/ \E t \in Threads : PutCommit(t)
  BY DEF Next, vars, Invoke, CallPut, CallRead, CallSnapshot, CallReset, Begin, Lock, Work,
         PutRawSteps, ReadSteps, SnapshotSteps, PutLoad, HookCall, PutReturn, HookReturn,
         ReadLock, ReadLockAgain, ReadLatest, ReadReturn, SnapshotInstall, CopyKey,
         SnapshotCopied, ResetHook

(* One history at most changes, by an insertion. *)
LEMMA StoreStep ==
  ASSUME IInv, FreshInv, [Next]_vars, NEW k \in Keys
  PROVE  \/ store'[k] = store[k]
         \/ \E e \in Entry : store'[k] \in SortedInserts(store[k], e)
<1>1. CASE UNCHANGED store
  BY <1>1
<1>2. ASSUME NEW t \in Threads, PutCommit(t)
      PROVE  \/ store'[k] = store[k]
             \/ \E e \in Entry : store'[k] \in SortedInserts(store[k], e)
  <2>1. PICK key \in Keys, e \in Entry : \E es \in SortedInserts(store[key], e) :
          store' = [store EXCEPT ![key] = es]
    BY <1>2, CommitStore
  <2> QED BY <2>1 DEF IInv, TypeOK
<1> QED BY <1>1, <1>2, OnlyCommitStores

(* A step keeps the histories ascending. *)
LEMMA StepNewestLast ==
  ASSUME IInv, FreshInv, NewestLast, [Next]_vars
  PROVE  NewestLast'
<1> SUFFICES ASSUME NEW k \in Keys PROVE Ascending(store'[k])
  BY DEF NewestLast
<1>1. Ascending(store[k]) /\ store[k] \in History
  BY DEF NewestLast, IInv, TypeOK
<1> QED BY <1>1, StoreStep, SortedInsertsAscending

(* Empty histories are ascending. *)
LEMMA InitNewestLast == Init => NewestLast
  BY DEF Init, NewestLast, Ascending, EmptyStore

-----------------------------------------------------------------------------
(* Everything so far holds in every reachable state. *)
LEMMA Invariance == Spec => [](IInv /\ FreshInv /\ NewestLast)
<1>1. Init => IInv /\ FreshInv /\ NewestLast
  BY InitIInv, InitFresh, InitNewestLast
<1>2. IInv /\ FreshInv /\ NewestLast /\ [Next]_vars => (IInv /\ FreshInv /\ NewestLast)'
  BY StepInv, StepNewestLast
<1> QED BY <1>1, <1>2, PTL DEF Spec

(* Every variable keeps its type: no thread ever holds more than the two   *)
(* read locks of GetValAndVersion, and every stored entry has a version.   *)
THEOREM TypeCorrect == Spec => []TypeOK
<1>1. IInv => TypeOK
  BY DEF IInv
<1> QED BY <1>1, Invariance, PTL

(* PutRaw's critical section excludes every other writer and every reader, *)
(* for any number of concurrent callers.                                   *)
THEOREM MutualExclusion == Spec => []LockExcludes
<1>1. IInv => LockExcludes
  <2> SUFFICES ASSUME IInv PROVE LockExcludes
    OBVIOUS
  <2>1. ASSUME NEW t \in Threads PROVE pc[t] \in {"locking", "commit"} => writer = t
    BY DEF IInv, LockInv
  <2>2. ASSUME NEW t \in Threads, NEW u \in Threads, pc[t] = "commit" PROVE ~Reading(u)
    <3>1. readers[u] = 0
      BY <2>2 DEF IInv, LockInv
    <3>2. u \in parked \/ Asked(u) = 0
      BY <3>1 DEF IInv, LockInv
    <3> QED BY <3>2 DEF Reading, Asked
  <2> QED BY <2>1, <2>2 DEF LockExcludes
<1> QED BY <1>1, Invariance, PTL

(* No write is lost between PutRaw's load and its store.                   *)
THEOREM NoLostUpdate == Spec => []LoadFresh
<1>1. FreshInv => LoadFresh
  BY DEF FreshInv
<1> QED BY <1>1, Invariance, PTL

(* The keys Snapshot copies one by one belong to one moment.               *)
THEOREM SnapshotIsPointInTime == Spec => []PointInTime
<1>1. FreshInv => PointInTime
  BY DEF FreshInv
<1> QED BY <1>1, Invariance, PTL

(* The last entry of a slice has the highest version, whatever versions    *)
(* PutRaw is given and however the unstable sort orders equal ones.        *)
THEOREM NewestIsLast == Spec => []NewestLast
  BY Invariance, PTL

(* The newest version of a key never goes back.                            *)
THEOREM NoRegress == Spec => LatestNeverRegresses
<1>1. IInv /\ FreshInv /\ [Next]_vars
      => [\A k \in Keys : Latest(store'[k]).ver >= Latest(store[k]).ver]_vars
  <2> SUFFICES ASSUME IInv, FreshInv, [Next]_vars, NEW k \in Keys
               PROVE  Latest(store'[k]).ver >= Latest(store[k]).ver
    OBVIOUS
  <2>1. store[k] \in History
    BY DEF IInv, TypeOK
  <2>2. Latest(store[k]).ver \in Nat
    BY <2>1, LatestType DEF Entry
  <2>3. CASE store'[k] = store[k]
    BY <2>2, <2>3
  <2> QED BY <2>1, <2>3, StoreStep, SortedInsertsLatest
<1> QED BY <1>1, Invariance, PTL DEF Spec, LatestNeverRegresses

(* No entry a key ever had is dropped.                                     *)
THEOREM NoLoss == Spec => NothingForgotten
<1>1. IInv /\ FreshInv /\ [Next]_vars
      => [\A k \in Keys : ToSet(store[k]) \subseteq ToSet(store'[k])]_vars
  <2> SUFFICES ASSUME IInv, FreshInv, [Next]_vars, NEW k \in Keys
               PROVE  ToSet(store[k]) \subseteq ToSet(store'[k])
    OBVIOUS
  <2>1. store[k] \in History
    BY DEF IInv, TypeOK
  <2> QED BY <2>1, StoreStep, SortedInsertsKeep
<1> QED BY <1>1, Invariance, PTL DEF Spec, NothingForgotten
-----------------------------------------------------------------------------
(* Put alone numbers the writes. *)

(* The version of a call is one a caller may pass. *)
VersionInv == \A t \in Threads : pc[t] # "idle" => call[t].version \in RawVersions \cup {NoVersion}

(* Only an idle thread gets a new call, and it is no longer idle then. *)
LEMMA CallsChange ==
  ASSUME IInv, [Next]_vars, NEW t \in Threads
  PROVE  \/ pc'[t] = "idle"
         \/ pc[t] # "idle" /\ call'[t] = call[t]
         \/ Invoke(t)
<1>1. TypeOK
  BY DEF IInv
<1>2. ASSUME NEW u \in Threads, Invoke(u), u # t
      PROVE  pc'[t] = pc[t] /\ call'[t] = call[t]
  BY <1>1, <1>2 DEF Invoke, CallPut, CallRead, CallSnapshot, CallReset, Begin, Goto, TypeOK
<1> DEFINE Step(u) == Lock(u) \/ Work(u) \/ HookReturn(u)
<1>3. ASSUME NEW u \in Threads, Step(u), u # t
      PROVE  pc'[t] = pc[t] /\ call'[t] = call[t]
  BY <1>1, <1>3
     DEF TypeOK, Lock, Work, PutRawSteps, ReadSteps, SnapshotSteps, PutLoad, PutCommit,
         HookCall, PutReturn, HookReturn, ReadLock, ReadLockAgain, ReadLatest, ReadReturn,
         SnapshotInstall, CopyKey, SnapshotCopied, ResetHook, Return, Goto, Locked
<1>4. CASE Step(t)
  BY <1>1, <1>4
     DEF TypeOK, Lock, Work, PutRawSteps, ReadSteps, SnapshotSteps, PutLoad, PutCommit,
         HookCall, PutReturn, HookReturn, ReadLock, ReadLockAgain, ReadLatest, ReadReturn,
         SnapshotInstall, CopyKey, SnapshotCopied, ResetHook, Return, Goto, Locked
<1>5. CASE UNCHANGED vars
  BY <1>5 DEF vars
<1> QED BY <1>2, <1>3, <1>4, <1>5 DEF Next

(* A step keeps VersionInv. *)
LEMMA StepVersionInv ==
  ASSUME IInv, VersionInv, [Next]_vars
  PROVE  VersionInv'
<1> SUFFICES ASSUME NEW t \in Threads, pc'[t] # "idle"
             PROVE  call'[t].version \in RawVersions \cup {NoVersion}
  BY DEF VersionInv
<1>1. TypeOK
  BY DEF IInv
<1>2. ASSUME NEW c, NEW place, Begin(t, c, place), c.version \in RawVersions \cup {NoVersion}
      PROVE  call'[t].version \in RawVersions \cup {NoVersion}
  BY <1>1, <1>2 DEF Begin, TypeOK
<1>3. CASE Invoke(t)
  BY <1>2, <1>3 DEF Invoke, CallPut, CallRead, CallSnapshot, CallReset, Args
<1> QED BY <1>3, CallsChange DEF VersionInv

(* The entry of a write without a version gets the next number. *)
LEMMA StepVersionsCount ==
  ASSUME IInv, FreshInv, VersionInv, VersionsCount, [Next]_vars
  PROVE  VersionsCount'
<1> SUFFICES ASSUME RawVersions = {}, NEW k \in Keys, NEW i \in DOMAIN store'[k]
             PROVE  store'[k][i].ver = i
  BY DEF VersionsCount
<1>1. /\ store \in [Keys -> History] /\ store[k] \in History
      /\ DOMAIN store[k] = 1..Len(store[k]) /\ Len(store[k]) \in Nat
      /\ \A j \in DOMAIN store[k] : store[k][j].ver = j
  BY LenProperties DEF IInv, TypeOK, VersionsCount, History
<1>2. CASE store'[k] = store[k]
  BY <1>1, <1>2
<1>3. ASSUME NEW t \in Threads, PutCommit(t), store'[k] # store[k]
      PROVE  store'[k][i].ver = i
  <2>1. PICK key \in Keys, e \in Entry : \E es \in SortedInserts(store[key], e) :
          /\ store' = [store EXCEPT ![key] = es]
          /\ e = NewEntry(store[key], call[t].val, call[t].version)
    BY <1>3, CommitStore
  <2>2. key = k /\ store'[k] \in SortedInserts(store[k], e)
    BY <1>1, <1>3, <2>1
  <2>3. call[t].version = NoVersion
    BY <1>3 DEF PutCommit, VersionInv
  <2>4. e.ver = Len(store[k]) + 1
    <3>1. e.ver = NewVersion(store[k], NoVersion)
      BY <2>1, <2>2, <2>3 DEF NewEntry
    <3>2. CASE store[k] = <<>>
      BY <3>1, <3>2 DEF NewVersion
    <3>3. CASE store[k] # <<>>
      <4>1. Len(store[k]) \in DOMAIN store[k]
        BY <1>1, <3>3, EmptySeq DEF History
      <4>2. Last(store[k]).ver = Len(store[k])
        BY <1>1, <4>1 DEF Last
      <4> QED BY <3>1, <3>3, <4>2 DEF NewVersion
    <3> QED BY <3>2, <3>3
  <2>5. \A j \in DOMAIN store[k] : store[k][j].ver < e.ver
    BY <1>1, <2>4
  <2>6. /\ Len(store'[k]) = Len(store[k]) + 1
        /\ store'[k][Len(store[k]) + 1] = e
        /\ \A j \in 1..Len(store[k]) : store'[k][j] = store[k][j]
    BY <1>1, <2>2, <2>5, SortedInsertsLast
  <2>7. DOMAIN store'[k] = 1..(Len(store[k]) + 1)
    <3>1. store'[k] \in Seq(Entry)
      BY <1>1, <2>2, SortedInsertsType DEF History
    <3> QED BY <3>1, <2>6, LenProperties
  <2> QED BY <1>1, <2>4, <2>6, <2>7
<1> QED BY <1>2, <1>3, OnlyCommitStores

(* Concurrent Puts of a key are numbered 1, 2, 3, ... in the order of      *)
(* their commits, for any number of callers.                               *)
THEOREM PutsAreNumbered == Spec => []VersionsCount
<1>1. Init => VersionInv /\ VersionsCount
  BY DEF Init, VersionInv, VersionsCount, EmptyStore
<1>2. IInv /\ FreshInv /\ VersionInv /\ VersionsCount /\ [Next]_vars
      => (VersionInv /\ VersionsCount)'
  BY StepVersionInv, StepVersionsCount
<1> QED BY <1>1, <1>2, Invariance, PTL DEF Spec

-----------------------------------------------------------------------------
(* No write falls between a snapshot and its hook. *)

(* A finished snapshot is only remembered while a hook is installed. *)
GapInv == SnapshotNoGap /\ (taken.filter # {} => hook # NoHook)

(* What is accounted for stays so, as long as the hook does. *)
LEMMA AccountedStays ==
  ASSUME IInv, [Next]_vars, taken' = taken, told \subseteq told', hook # NoHook,
         NEW k \in Keys, NEW e \in Entry, Accounted(k, e)
  PROVE  Accounted(k, e)'
<1>1. TypeOK
  BY DEF IInv
<1>2. CASE ~ToBeTold(k, e)
  BY <1>2 DEF Accounted
<1>3. CASE ToBeTold(k, e)
  <2>1. PICK t \in Threads : /\ pc[t] = "hook" /\ caught[t] # NoHook
                             /\ call[t].key = k /\ ret[t].entry = e
    BY <1>3 DEF ToBeTold
  <2>2. CASE HookCall(t)
    BY <2>1, <2>2 DEF HookCall, Accounted
  <2>3. CASE ~HookCall(t)
    <3>1. /\ pc'[t] = pc[t] /\ caught'[t] = caught[t]
          /\ call'[t] = call[t] /\ ret'[t] = ret[t]
      <4>1. ASSUME NEW u \in Threads, Invoke(u)
            PROVE  pc'[t] = pc[t] /\ caught'[t] = caught[t] /\ call'[t] = call[t] /\ ret'[t] = ret[t]
        BY <1>1, <2>1, <4>1
           DEF Invoke, CallPut, CallRead, CallSnapshot, CallReset, Begin, Goto, local, TypeOK
      <4>2. ASSUME NEW u \in Threads, Lock(u) \/ Work(u) \/ HookReturn(u)
            PROVE  pc'[t] = pc[t] /\ caught'[t] = caught[t] /\ call'[t] = call[t] /\ ret'[t] = ret[t]
        BY <1>1, <2>1, <2>3, <4>2
           DEF Lock, Work, PutRawSteps, ReadSteps, SnapshotSteps, PutLoad, PutCommit, HookCall,
               PutReturn, HookReturn, ReadLock, ReadLockAgain, ReadLatest, ReadReturn,
               SnapshotInstall, CopyKey, SnapshotCopied, ResetHook, Return, Goto, Locked,
               local, TypeOK
      <4> QED BY <4>1, <4>2 DEF Next, vars, local
    <3> QED BY <2>1, <3>1 DEF Accounted, ToBeTold
  <2> QED BY <2>2, <2>3
<1> QED BY <1>2, <1>3

(* What the steps do to the installed hook and its history. *)
LEMMA HookSteps ==
  ASSUME IInv, [Next]_vars
  PROVE  \/ taken' = taken /\ hook' = hook /\ told \subseteq told'
         \/ taken' = NoCopy
         \/ \E t \in Threads : SnapshotCopied(t)
  BY DEF Next, vars, Invoke, CallPut, CallRead, CallSnapshot, CallReset, Begin, Lock, Work,
         PutRawSteps, ReadSteps, SnapshotSteps, PutLoad, PutCommit, HookCall, PutReturn,
         HookReturn, ReadLock, ReadLockAgain, ReadLatest, ReadReturn, SnapshotInstall,
         CopyKey, ResetHook, history

(* A step keeps GapInv. *)
LEMMA StepGap ==
  ASSUME IInv, FreshInv, GapInv, [Next]_vars
  PROVE  GapInv'
<1>1. TypeOK
  BY DEF IInv
<1>2. CASE taken' = NoCopy
  BY <1>2 DEF GapInv, SnapshotNoGap, NoCopy
<1>3. ASSUME NEW t \in Threads, SnapshotCopied(t), taken' # taken
      PROVE  GapInv'
  <2>1. /\ taken' = [filter |-> call[t].filter, copy |-> copied[t]]
        /\ hook' = hook /\ hook # NoHook /\ UNCHANGED store
        /\ pc[t] = "copy" /\ todo[t] = {}
    BY <1>3 DEF SnapshotCopied
  <2>2. \A k \in call[t].filter : copied[t][k] = store[k]
    BY <2>1 DEF FreshInv, PointInTime
  <2>3. ASSUME NEW k \in taken'.filter, NEW i \in DOMAIN store'[k]
        PROVE  Accounted(k, store[k][i])'
    <3>1. store[k][i] \in ToSet(taken'.copy[k]) /\ store' = store
      BY <2>1, <2>2, <2>3 DEF ToSet
    <3> QED BY <3>1 DEF Accounted
  <2> QED BY <2>1, <2>3 DEF GapInv, SnapshotNoGap
<1>4. CASE taken' = taken /\ hook' = hook /\ told \subseteq told'
  <2> SUFFICES ASSUME NEW k \in taken.filter, NEW i \in DOMAIN store'[k]
               PROVE  Accounted(k, store[k][i])'
    BY <1>4 DEF GapInv, SnapshotNoGap
  <2>1. k \in Keys /\ hook # NoHook /\ store[k] \in History
    BY <1>1 DEF TypeOK, GapInv
  <2>2. ASSUME NEW e \in ToSet(store[k])
        PROVE  Accounted(k, e)'
    <3>1. PICK j \in DOMAIN store[k] : e = store[k][j]
      BY DEF ToSet
    <3>2. e \in Entry
      BY <2>1, <3>1 DEF History
    <3>3. Accounted(k, e)
      BY <3>1 DEF GapInv, SnapshotNoGap
    <3> QED BY <1>4, <2>1, <3>2, <3>3, AccountedStays
  <2>3. CASE store'[k] = store[k]
    <3>1. store'[k][i] \in ToSet(store[k])
      BY <2>3 DEF ToSet
    <3> QED BY <2>2, <3>1
  <2>4. ASSUME NEW t \in Threads, PutCommit(t), store'[k] # store[k]
        PROVE  Accounted(k, store[k][i])'
    <3>1. PICK key \in Keys, e \in Entry : \E es \in SortedInserts(store[key], e) :
            /\ store' = [store EXCEPT ![key] = es]
            /\ e = NewEntry(store[key], call[t].val, call[t].version)
      BY <2>4, CommitStore
    <3>2. key = k /\ store'[k] \in SortedInserts(store[k], e)
      BY <1>1, <2>1, <2>4, <3>1 DEF TypeOK
    <3>3. store'[k][i] \in ToSet(store[k]) \cup {e}
      <4>1. ToSet(store'[k]) = ToSet(store[k]) \cup {e}
        BY <2>1, <3>2, SortedInsertsAdd
      <4> QED BY <4>1 DEF ToSet
    <3>4. Accounted(k, e)'
      <4>1. call[t].key = k /\ loaded[t] = store[k]
        <5>1. pc[t] = "commit" /\ call[t] \in Call
          BY <2>4 DEF PutCommit, IInv, CallInv
        <5>2. call[t].key \in Keys
          BY <5>1 DEF Call
        <5>3. call[t].key = k
          BY <1>1, <2>1, <2>4, <5>2 DEF PutCommit, TypeOK
        <5> QED BY <5>1, <5>3 DEF FreshInv, LoadFresh
      <4>2. ret'[t] = EntryResult(e) /\ call'[t] = call[t]
        BY <1>1, <2>4, <3>1, <3>2, <4>1 DEF PutCommit, TypeOK
      <4>3. pc'[t] = "hook" /\ caught'[t] = hook
        BY <1>1, <2>4 DEF PutCommit, Goto, TypeOK
      <4>4. EntryResult(e).entry = e
        BY DEF EntryResult
      <4> QED BY <2>1, <4>1, <4>2, <4>3, <4>4 DEF Accounted, ToBeTold
    <3> QED BY <2>2, <3>3, <3>4
  <2> QED BY <2>3, <2>4, OnlyCommitStores
<1>5. CASE \E t \in Threads : SnapshotCopied(t) /\ taken' = taken
  BY <1>4, <1>5 DEF SnapshotCopied
<1> QED BY <1>2, <1>3, <1>4, <1>5, HookSteps

(* Between the installation of a hook and the copy the lock is released,   *)
(* and the hook runs outside the lock; yet every entry of a snapshot's     *)
(* keys is in its copy or goes to its hook.                                *)
THEOREM NoGapInSnapshot == Spec => []SnapshotNoGap
<1>1. Init => GapInv
  BY DEF Init, GapInv, SnapshotNoGap, NoCopy
<1>2. IInv /\ FreshInv /\ GapInv /\ [Next]_vars => GapInv'
  BY StepGap
<1>3. GapInv => SnapshotNoGap
  BY DEF GapInv
<1> QED BY <1>1, <1>2, <1>3, Invariance, PTL DEF Spec
-----------------------------------------------------------------------------
(* The store implements VersionedStore. *)

(* A thread that is in no call has no result, and has one from the moment  *)
(* its call takes effect.                                                  *)
RetInv ==
  \A t \in Threads :
    /\ pc[t] = "idle" <=> call[t] = Nil
    /\ ret[t] # Nil <=> pc[t] \in {"hook", "inhook", "panicked", "return"}

(* A snapshot has copied none but the keys it has ticked off. *)
CopyInv ==
  \A t \in Threads :
    /\ pc[t] = "copy" => todo[t] \subseteq call[t].filter
    /\ \A k \in Keys : copied[t][k] # <<>> => pc[t] = "copy" /\ k \in call[t].filter \ todo[t]

(* No thread is in a call at first. *)
LEMMA InitRef == Init => RetInv /\ CopyInv
  BY DEF Init, RetInv, CopyInv, EmptyStore

(* Nil is not taken for a result. *)
LEMMA ResultTypes ==
  /\ \A e \in Entry : EntryResult(e) \in Result /\ EntryResult(e) # Nil
  /\ \A c \in [Keys -> History] : CopyResult(c) \in Result /\ CopyResult(c) # Nil
  BY EmptyTypes, NilAssumption DEF EntryResult, CopyResult, Result

(* A step keeps RetInv. *)
LEMMA StepRet ==
  ASSUME IInv, RetInv, [Next]_vars
  PROVE  RetInv'
<1> USE DEF Goto, mu, local, history
<1>1. TypeOK /\ CallInv
  BY DEF IInv
<1>2. CASE UNCHANGED vars
  BY <1>2 DEF vars, RetInv
<1>3. ASSUME NEW t \in Threads, Invoke(t) PROVE RetInv'
  <2>1. PICK c \in Call, place \in {"lock", "rlock"} : Begin(t, c, place)
    BY <1>3, InvokeBegins
  <2> QED BY <1>1, <2>1, NilAssumption DEF Begin, TypeOK, RetInv
<1>4. ASSUME NEW t \in Threads, Lock(t) \/ Work(t) \/ HookReturn(t) PROVE RetInv'
  <2>1. CASE Lock(t)
    BY <1>1, <2>1 DEF Lock, TypeOK, RetInv
  <2>2. CASE PutLoad(t)
    BY <1>1, <2>2 DEF PutLoad, Locked, TypeOK, RetInv
  <2>3. CASE PutCommit(t)
    <3>1. pc[t] = "commit" /\ loaded[t] \in History /\ call[t] \in Call
      BY <1>1, <2>3 DEF PutCommit, TypeOK, CallInv
    <3>2. NewEntry(loaded[t], call[t].val, call[t].version) \in Entry
      BY <3>1, NewEntryType DEF Call
    <3>3. PICK r \in Result : r # Nil /\ ret' = [ret EXCEPT ![t] = r]
      BY <2>3, <3>2, ResultTypes DEF PutCommit
    <3> QED BY <1>1, <2>3, <3>1, <3>3 DEF PutCommit, TypeOK, RetInv
  <2>4. CASE HookCall(t)
    BY <1>1, <2>4 DEF HookCall, TypeOK, RetInv
  <2>5. CASE PutReturn(t)
    BY <1>1, <2>5 DEF PutReturn, Return, TypeOK, RetInv
  <2>6. CASE HookReturn(t)
    BY <1>1, <2>6 DEF HookReturn, Return, TypeOK, RetInv
  <2>7. CASE ReadLock(t)
    <3>1. pc[t] = "rlock" /\ call[t].op \in {"get", "getver", "snapshot"}
      BY <1>1, <2>7 DEF ReadLock, CallInv
    <3>2. /\ pc'[t] \in {"read", "rlockagain", "copy"}
          /\ \A u \in Threads : u # t => pc'[u] = pc[u]
      BY <1>1, <2>7, <3>1 DEF ReadLock, TypeOK
    <3> QED BY <1>1, <2>7, <3>1, <3>2 DEF ReadLock, TypeOK, RetInv
  <2>8. CASE ReadLockAgain(t)
    BY <1>1, <2>8 DEF ReadLockAgain, TypeOK, RetInv
  <2>9. CASE ReadLatest(t)
    <3>1. pc[t] = "read" /\ store[call[t].key] \in History
      BY <1>1, <2>9 DEF ReadLatest, TypeOK, CallInv, Call
    <3>2. PICK r \in Result : r # Nil /\ ret' = [ret EXCEPT ![t] = r]
      BY <2>9, <3>1, LatestType, ResultTypes DEF ReadLatest
    <3> QED BY <1>1, <2>9, <3>1, <3>2 DEF ReadLatest, TypeOK, RetInv
  <2>10. CASE ReadReturn(t)
    BY <1>1, <2>10 DEF ReadReturn, Return, TypeOK, RetInv
  <2>11. CASE SnapshotInstall(t)
    BY <1>1, <2>11 DEF SnapshotInstall, Locked, TypeOK, RetInv
  <2>12. CASE CopyKey(t)
    BY <1>1, <2>12 DEF CopyKey, TypeOK, RetInv
  <2>13. CASE SnapshotCopied(t)
    <3>1. PICK r \in Result : r # Nil /\ ret' = [ret EXCEPT ![t] = r]
      BY <1>1, <2>13, ResultTypes DEF SnapshotCopied, TypeOK
    <3> QED BY <1>1, <2>13, <3>1 DEF SnapshotCopied, TypeOK, RetInv
  <2>14. CASE ResetHook(t)
    BY <1>1, <2>14 DEF ResetHook, Locked, Return, TypeOK, RetInv
  <2> QED
    BY <1>4, <2>1, <2>2, <2>3, <2>4, <2>5, <2>6, <2>7, <2>8, <2>9, <2>10, <2>11, <2>12, <2>13, <2>14
       DEF Work, PutRawSteps, ReadSteps, SnapshotSteps
<1> QED BY <1>2, <1>3, <1>4 DEF Next

(* A step keeps CopyInv. *)
LEMMA StepCopy ==
  ASSUME IInv, FreshInv, CopyInv, [Next]_vars
  PROVE  CopyInv'
<1> USE DEF Goto, mu, local, history
<1>1. TypeOK /\ CallInv /\ LockInv
  BY DEF IInv
<1>2. CASE UNCHANGED vars
  BY <1>2 DEF vars, CopyInv
<1>3. ASSUME NEW t \in Threads, Invoke(t) PROVE CopyInv'
  <2>1. pc[t] = "idle" /\ \E c \in Call, place \in {"lock", "rlock"} : Begin(t, c, place)
    BY <1>3, InvokeBegins, InvokeType
  <2> QED BY <1>1, <2>1 DEF Begin, TypeOK, CopyInv
<1>4. ASSUME NEW t \in Threads, ~CopyKey(t), ~SnapshotCopied(t), ~ReadLock(t), ~Invoke(t),
             Lock(t) \/ Work(t) \/ HookReturn(t)
      PROVE  CopyInv'
  <2>1. /\ UNCHANGED copied /\ pc[t] # "copy" /\ pc'[t] # "copy"
        /\ \A u \in Threads : u # t => pc'[u] = pc[u] /\ call'[u] = call[u] /\ todo'[u] = todo[u]
    BY <1>1, <1>4
       DEF Lock, Work, PutRawSteps, ReadSteps, SnapshotSteps, PutLoad, PutCommit, HookCall,
           PutReturn, HookReturn, ReadLockAgain, ReadLatest, ReadReturn, SnapshotInstall,
           ResetHook, Return, Locked, TypeOK
  <2> QED BY <2>1 DEF CopyInv
<1>5. ASSUME NEW t \in Threads, ReadLock(t) PROVE CopyInv'
  <2>1. /\ pc[t] = "rlock" /\ UNCHANGED <<copied, call, todo>>
        /\ \A u \in Threads : u # t => pc'[u] = pc[u]
        /\ pc'[t] = "copy" => call[t].op = "snapshot"
    <3>1. pc[t] = "rlock" /\ call[t].op \in {"get", "getver", "snapshot"}
      BY <1>1, <1>5 DEF ReadLock, CallInv
    <3> QED BY <1>1, <1>5, <3>1 DEF ReadLock, TypeOK
  <2>2. pc'[t] = "copy" => todo[t] = call[t].filter
    BY <2>1 DEF FreshInv
  <2> QED BY <2>1, <2>2 DEF CopyInv
<1>6. ASSUME NEW t \in Threads, CopyKey(t) PROVE CopyInv'
  BY <1>1, <1>6 DEF CopyKey, TypeOK, CopyInv
<1>7. ASSUME NEW t \in Threads, SnapshotCopied(t) PROVE CopyInv'
  BY <1>1, <1>7 DEF SnapshotCopied, TypeOK, CopyInv, EmptyStore
<1> QED BY <1>2, <1>3, <1>4, <1>5, <1>6, <1>7 DEF Next, Work, ReadSteps, SnapshotSteps

(* What the abstract store sees of a call; a reset is none of its own. *)
Visible(c) == IF c # Nil /\ c.op = "reset" THEN Nil ELSE c

(* Both modules compute with the same histories and results. *)
LEMMA SameOperators ==
  /\ VS!EmptyStore = EmptyStore
  /\ \A es, val, version : VS!NewEntry(es, val, version) = NewEntry(es, val, version)
  /\ \A es, e : VS!SortedInserts(es, e) = SortedInserts(es, e)
  /\ \A es : VS!Latest(es) = Latest(es)
  /\ \A e : VS!EntryResult(e) = EntryResult(e)
  /\ \A c : VS!CopyResult(c) = CopyResult(c)
  BY DEF VS!EmptyStore, EmptyStore, VS!NewEntry, NewEntry, VS!NewVersion, NewVersion,
         VS!SortedInserts, SortedInserts, VS!Places, Places, VS!InsertAt, InsertAt,
         VS!Latest, Latest, VS!Last, Last,
         VS!NoEntry, NoEntry, VS!EntryResult, EntryResult, VS!CopyResult, CopyResult

(* The first state maps to a first state. *)
LEMMA InitRefines == Init => VS!Init
  BY SameOperators DEF Init, VS!Init

(* A new call is a call of the abstract store, or a reset and no step. *)
LEMMA InvokeRefines ==
  ASSUME IInv, RetInv, NEW t \in Threads, Invoke(t)
  PROVE  VS!Invoke(t) \/ UNCHANGED VS!vars
<1> DEFINE abs == [u \in Threads |-> Visible(call[u])]
<1>1. TypeOK /\ CallInv
  BY DEF IInv
<1>2. PICK c \in Call, place \in {"lock", "rlock"} : Begin(t, c, place)
  BY InvokeBegins
<1>3. /\ pc[t] = "idle" /\ call[t] = Nil /\ UNCHANGED <<store, ret>>
      /\ call' = [call EXCEPT ![t] = c]
  BY <1>2 DEF Begin, RetInv
<1>4. \A u \in Threads : call[u] \in Call \cup {Nil}
  BY <1>1 DEF TypeOK
<1>5. CASE c.op = "reset"
  <2>1. \A u \in Threads : Visible(call'[u]) = Visible(call[u])
    BY <1>1, <1>3, <1>5 DEF Visible, TypeOK
  <2> QED BY <1>3, <2>1 DEF VS!vars, Visible
<1>6. CASE c.op # "reset"
  <2> DEFINE VCall == [op : AllOps \ {"reset"}, key : Keys, val : Nat,
                       version : Nat \cup {NoVersion}, filter : SUBSET Keys,
                       hook : Hooks \cup {NoHook}]
  <2>1. \A u \in Threads : Visible(call'[u]) \in VCall \cup {Nil}
    <3>1. \A d \in Call : d.op # "reset" => d \in VCall
      BY DEF Call
    <3>2. \A u \in Threads : call'[u] \in Call \cup {Nil}
      BY <1>1, <1>3, <1>4 DEF TypeOK
    <3> QED BY <3>1, <3>2 DEF Visible
  <2>2. Visible(call[t]) = Nil /\ Visible(call'[t]) # Nil
    BY <1>1, <1>3, <1>6, NilAssumption DEF Visible, TypeOK
  <2>3. \A u \in Threads \ {t} : Visible(call'[u]) = Visible(call[u])
    BY <1>1, <1>3 DEF TypeOK
  <2> QED BY <1>3, <2>1, <2>2, <2>3 DEF VS!Invoke, Visible
<1> QED BY <1>5, <1>6

(* A step that leaves store, calls and results alone is no step. *)
LEMMA HiddenRefines ==
  ASSUME UNCHANGED <<store, call, ret>>
  PROVE  UNCHANGED VS!vars
  BY DEF VS!vars

(* PutRaw takes effect at its commit. *)
LEMMA CommitRefines ==
  ASSUME IInv, FreshInv, RetInv, NEW t \in Threads, PutCommit(t)
  PROVE  VS!Write(t)
<1>1. TypeOK /\ pc[t] = "commit" /\ call[t] \in Call /\ call[t].op = "put"
  BY DEF IInv, CallInv, PutCommit
<1>2. loaded[t] = store[call[t].key] /\ ret[t] = Nil /\ call[t] # Nil
  BY <1>1, NilAssumption DEF FreshInv, LoadFresh, RetInv
<1>3. Visible(call[t]) = call[t]
  BY <1>1 DEF Visible
<1>4. [u \in Threads |-> Visible(call[u])][t] = call[t]
  BY <1>3
<1> DEFINE k == call[t].key
           e == NewEntry(store[k], call[t].val, call[t].version)
<1>5. /\ ret' = [ret EXCEPT ![t] = EntryResult(e)] /\ UNCHANGED call
      /\ \E es \in SortedInserts(store[k], e) : store' = [store EXCEPT ![k] = es]
  BY <1>2 DEF PutCommit
<1>6. VS!Write(t) <=>
        /\ VS!TakesEffect(t, "put", EntryResult(e))
        /\ \E es \in SortedInserts(store[k], e) : store' = [store EXCEPT ![k] = es]
  BY <1>4, SameOperators DEF VS!Write, Visible
<1>7. VS!TakesEffect(t, "put", EntryResult(e))
  BY <1>1, <1>2, <1>4, <1>5 DEF VS!TakesEffect, Visible
<1> QED BY <1>5, <1>6, <1>7

(* A read takes effect at its lookup. *)
LEMMA ReadRefines ==
  ASSUME IInv, RetInv, NEW t \in Threads, ReadLatest(t)
  PROVE  VS!Read(t)
<1>1. pc[t] = "read" /\ call[t] \in Call /\ call[t].op \in {"get", "getver"}
  BY DEF IInv, CallInv, ReadLatest
<1>2. ret[t] = Nil /\ call[t] # Nil
  BY <1>1, NilAssumption DEF RetInv
<1>3. [u \in Threads |-> Visible(call[u])][t] = call[t]
  BY <1>1 DEF Visible
<1>4. /\ ret' = [ret EXCEPT ![t] = EntryResult(Latest(store[call[t].key]))]
      /\ UNCHANGED <<store, call>>
  BY DEF ReadLatest
<1> QED
  BY <1>1, <1>2, <1>3, <1>4, SameOperators DEF VS!Read, VS!TakesEffect, Visible

(* A snapshot takes effect as a whole when its last key is copied. *)
LEMMA SnapshotRefines ==
  ASSUME IInv, FreshInv, RetInv, CopyInv, NEW t \in Threads, SnapshotCopied(t)
  PROVE  VS!Snapshot(t)
<1>1. /\ pc[t] = "copy" /\ todo[t] = {} /\ TypeOK
      /\ call[t] \in Call /\ call[t].op = "snapshot"
  BY DEF IInv, CallInv, SnapshotCopied
<1>2. ret[t] = Nil /\ call[t] # Nil
  BY <1>1, NilAssumption DEF RetInv
<1>3. [u \in Threads |-> Visible(call[u])][t] = call[t]
  BY <1>1 DEF Visible
<1>4. copied[t] = [k \in Keys |-> IF k \in call[t].filter THEN store[k] ELSE <<>>]
  <2>1. copied[t] \in [Keys -> History]
    BY <1>1 DEF TypeOK
  <2>2. \A k \in Keys : copied[t][k] = IF k \in call[t].filter THEN store[k] ELSE <<>>
    BY <1>1 DEF FreshInv, PointInTime, CopyInv
  <2> QED BY <2>1, <2>2
<1>5. ret' = [ret EXCEPT ![t] = CopyResult(copied[t])] /\ UNCHANGED <<store, call>>
  BY DEF SnapshotCopied
<1> QED
  BY <1>1, <1>2, <1>3, <1>4, <1>5, SameOperators DEF VS!Snapshot, VS!TakesEffect, Visible

(* An operation returns, one without a visible call without a visible step.*)
LEMMA ReturnRefines ==
  ASSUME IInv, RetInv, NEW t \in Threads, Return(t), UNCHANGED store,
         call[t].op = "reset" \/ ret[t] # Nil
  PROVE  VS!Return(t) \/ UNCHANGED VS!vars
<1>1. call' = [call EXCEPT ![t] = Nil] /\ ret' = [ret EXCEPT ![t] = Nil] /\ TypeOK
  BY DEF Return, IInv
<1>2. \A u \in Threads : Visible(call'[u]) = IF u = t THEN Nil ELSE Visible(call[u])
  BY <1>1 DEF Visible, TypeOK
<1>3. CASE ret[t] # Nil
  <2>1. [u \in Threads |-> Visible(call'[u])]
        = [[u \in Threads |-> Visible(call[u])] EXCEPT ![t] = Nil]
    BY <1>2
  <2> QED BY <1>1, <1>3, <2>1 DEF VS!Return, Visible
<1>4. CASE ret[t] = Nil
  <2>1. ret' = ret
    BY <1>1, <1>4 DEF TypeOK
  <2>2. Visible(call[t]) = Nil
    BY <1>4 DEF Visible
  <2>3. [u \in Threads |-> Visible(call'[u])] = [u \in Threads |-> Visible(call[u])]
    BY <1>2, <2>2
  <2> QED BY <2>1, <2>3 DEF VS!vars, Visible
<1> QED BY <1>3, <1>4

(* Every step is a step of the abstract store, or none. *)
LEMMA StepRefines ==
  ASSUME IInv, FreshInv, RetInv, CopyInv, [Next]_vars
  PROVE  [VS!Next]_VS!vars
<1>1. CASE UNCHANGED vars
  BY <1>1, HiddenRefines DEF vars
<1>2. ASSUME NEW t \in Threads, Invoke(t) PROVE [VS!Next]_VS!vars
  BY <1>2, InvokeRefines DEF VS!Next
<1>3. ASSUME NEW t \in Threads, Lock(t) \/ Work(t) \/ HookReturn(t) PROVE [VS!Next]_VS!vars
  <2>1. CASE PutCommit(t)
    BY <2>1, CommitRefines DEF VS!Next
  <2>2. CASE ReadLatest(t)
    BY <2>2, ReadRefines DEF VS!Next
  <2>3. CASE SnapshotCopied(t)
    BY <2>3, SnapshotRefines DEF VS!Next
  <2>4. CASE ResetHook(t)
    <3>1. Return(t) /\ UNCHANGED store /\ call[t].op = "reset"
      BY <2>4 DEF ResetHook
    <3> QED BY <3>1, ReturnRefines DEF VS!Next
  <2>5. CASE PutReturn(t) \/ HookReturn(t) \/ ReadReturn(t)
    <3>1. Return(t) /\ UNCHANGED store /\ pc[t] \in {"hook", "inhook", "return"}
      BY <2>5 DEF PutReturn, HookReturn, ReadReturn
    <3> QED BY <3>1, ReturnRefines DEF VS!Next, RetInv
  <2>6. CASE \/ Lock(t) \/ PutLoad(t) \/ HookCall(t) \/ ReadLock(t) \/ ReadLockAgain(t)
             \/ SnapshotInstall(t) \/ CopyKey(t)
    <3>1. UNCHANGED <<store, call, ret>>
      BY <2>6 DEF Lock, PutLoad, HookCall, ReadLock, ReadLockAgain, SnapshotInstall, CopyKey
    <3> QED BY <3>1, HiddenRefines
  <2> QED
    BY <1>3, <2>1, <2>2, <2>3, <2>4, <2>5, <2>6 DEF Work, PutRawSteps, ReadSteps, SnapshotSteps
<1> QED BY <1>1, <1>2, <1>3 DEF Next

(* The operations of any number of concurrent callers take effect one at a *)
(* time, each as a whole: PutRaw at its commit, a read at its lookup, a    *)
(* snapshot although its lock is released between hook and copy.           *)
THEOREM Refinement == Spec => Linearizable
<1>1. Init => RetInv /\ CopyInv /\ VS!Init
  BY InitRef, InitRefines
<1>2. IInv /\ FreshInv /\ RetInv /\ CopyInv /\ [Next]_vars
      => RetInv' /\ CopyInv' /\ [VS!Next]_VS!vars
  BY StepRet, StepCopy, StepRefines
<1> QED BY <1>1, <1>2, Invariance, PTL DEF Spec, Linearizable, VS!Spec
=============================================================================
