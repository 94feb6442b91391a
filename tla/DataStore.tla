----------------------------- MODULE DataStore ------------------------------
(***************************************************************************)
(* The in-memory store of a node (src/store/data_store.go) under concurrent *)
(* callers: its read-write lock, the steps each operation takes inside and *)
(* outside that lock, and the post-write hook a snapshot installs.         *)
(*                                                                         *)
(* The lock is a Go sync.RWMutex.  Lock first announces the writer, which  *)
(* from then on keeps new readers out, and then waits for the readers that *)
(* are already in.  RLock enters when no writer is announced and otherwise *)
(* parks until the writer unlocks.  It is not reentrant: a reader's second *)
(* RLock parks behind a writer like any other.                             *)
(*                                                                         *)
(* A hook is an opaque name here: what the one hook of the program does is *)
(* in module Bootstrap.  Running it is a step of its own that may take     *)
(* forever.                                                                *)
(***************************************************************************)
EXTENDS Versions

CONSTANTS
  Keys, Threads,
  Hooks, NoHook,          \* hook functions, and the nil function
  NoThread,
  Nil,                    \* no call, no result
  Ops,                    \* the operations the callers use
  RawVersions,            \* versions supplied to PutRaw
  Filters,                \* key filters given to Snapshot, as sets of keys
  MaxWrites               \* bound: how many writes are invoked in all

AllOps == {"put", "get", "getver", "snapshot", "reset"}

ASSUME OpsAssumption == Ops \subseteq AllOps
ASSUME RawVersionsAssumption == RawVersions \subseteq Nat
ASSUME FiltersAssumption == Filters \subseteq SUBSET Keys
ASSUME MaxWritesAssumption == MaxWrites \in Nat
ASSUME KeysAssumption == Keys # {}
ASSUME NoThreadAssumption == NoThread \notin Threads
ASSUME NoHookAssumption == NoHook \notin Hooks

VARIABLES
  store,      \* DataStore.store: the history of each key, <<>> if it has none
  hook,       \* DataStore.postWriteHook
  writer,     \* the thread that announced Lock on DataStore.mu, or NoThread
  readers,    \* how many read locks on DataStore.mu each thread holds
  parked,     \* the threads whose RLock waits for the writer to unlock
  pc,         \* where each thread is in its operation
  call,       \* the operation each thread executes, with its arguments
  loaded,     \* PutRaw's local entries
  caught,     \* PutRaw's local hook
  todo,       \* Snapshot's keys that are still to be copied
  copied,     \* Snapshot's deepCopy
  ret,        \* the result of that operation once it took effect
  taken,      \* history: the snapshot returned with the installed hook
  told,       \* history: the calls of the installed hook, as <<key, entry>>
  writes      \* history: how many writes were invoked

mu == <<writer, readers, parked>>
local == <<loaded, caught, todo, copied>>
history == <<taken, told, writes>>
vars == <<store, hook, mu, pc, call, local, ret, history>>

-----------------------------------------------------------------------------
Call == [op : AllOps, key : Keys, val : Nat, version : Nat \cup {NoVersion},
         filter : SUBSET Keys, hook : Hooks \cup {NoHook}]

PCs == {"idle", "lock", "locking", "commit", "hook", "inhook", "panicked",
        "rlock", "rlockagain", "read", "copy", "return"}

EmptyStore == [k \in Keys |-> <<>>]

Result == [entry : Entry, copy : [Keys -> History]]

ASSUME NilAssumption == Nil \notin Call /\ Nil \notin Result

(* The installed hook's snapshot has not returned. *)
NoCopy == [filter |-> {}, copy |-> EmptyStore]

(* A write or a read of one key results in an entry, a snapshot in a copy. *)
EntryResult(e) == [entry |-> e, copy |-> EmptyStore]
CopyResult(c) == [entry |-> NoEntry, copy |-> c]

TypeOK ==
  /\ store \in [Keys -> History]
  /\ hook \in Hooks \cup {NoHook}
  /\ writer \in Threads \cup {NoThread}
  /\ readers \in [Threads -> 0..2]
  /\ parked \in SUBSET Threads
  /\ pc \in [Threads -> PCs]
  /\ call \in [Threads -> Call \cup {Nil}]
  /\ loaded \in [Threads -> History]
  /\ caught \in [Threads -> Hooks \cup {NoHook}]
  /\ todo \in [Threads -> SUBSET Keys]
  /\ copied \in [Threads -> [Keys -> History]]
  /\ ret \in [Threads -> Result \cup {Nil}]
  /\ taken \in [filter : SUBSET Keys, copy : [Keys -> History]]
  /\ told \subseteq (Keys \X Entry)
  /\ writes \in 0..MaxWrites

Init ==
  /\ store = EmptyStore
  /\ hook = NoHook
  /\ writer = NoThread
  /\ readers = [t \in Threads |-> 0]
  /\ parked = {}
  /\ pc = [t \in Threads |-> "idle"]
  /\ call = [t \in Threads |-> Nil]
  /\ loaded = [t \in Threads |-> <<>>]
  /\ caught = [t \in Threads |-> NoHook]
  /\ todo = [t \in Threads |-> {}]
  /\ copied = [t \in Threads |-> EmptyStore]
  /\ ret = [t \in Threads |-> Nil]
  /\ taken = NoCopy
  /\ told = {}
  /\ writes = 0

-----------------------------------------------------------------------------
(* sync.RWMutex *)

Goto(t, place) == pc' = [pc EXCEPT ![t] = place]

(* Lock, first half: wait for the previous writer, then announce. *)
Lock(t) ==
  /\ pc[t] = "lock"
  /\ writer = NoThread
  /\ writer' = t
  /\ Goto(t, "locking")
  /\ UNCHANGED <<store, hook, readers, parked, call, local, ret, history>>

(* Lock, second half: no reader is left, so Lock has returned. *)
Locked(t) ==
  /\ pc[t] = "locking"
  /\ writer = t
  /\ \A u \in Threads : readers[u] = 0

(* Unlock lets every parked reader in at once. *)
Unlock ==
  /\ writer' = NoThread
  /\ readers' = [u \in Threads |-> IF u \in parked THEN readers[u] + 1 ELSE readers[u]]
  /\ parked' = {}

(* Mutant of RLock: a reader does not wait for the announced writer. *)
RLock_barges(t) ==
  /\ readers' = [readers EXCEPT ![t] = @ + 1]
  /\ UNCHANGED <<writer, parked>>

RLock(t) ==
  \/ /\ writer = NoThread
     /\ readers' = [readers EXCEPT ![t] = @ + 1]
     /\ UNCHANGED <<writer, parked>>
  \/ /\ writer # NoThread
     /\ parked' = parked \cup {t}
     /\ UNCHANGED <<writer, readers>>

(* All of t's read locks are released together by its deferred RUnlocks. *)
RUnlock(t) ==
  /\ readers' = [readers EXCEPT ![t] = 0]
  /\ UNCHANGED <<writer, parked>>

-----------------------------------------------------------------------------
(* Callers *)

Begin(t, c, place) ==
  /\ pc[t] = "idle"
  /\ call' = [call EXCEPT ![t] = c]
  /\ Goto(t, place)
  /\ UNCHANGED <<store, hook, mu, local, ret, taken, told>>

Args(op, key) == [op |-> op, key |-> key, val |-> 0, version |-> NoVersion,
                  filter |-> {}, hook |-> NoHook]

(* Put passes no version; PutRaw's other caller passes one. *)
CallPut(t) ==
  /\ "put" \in Ops
  /\ writes < MaxWrites
  /\ writes' = writes + 1
  /\ \E k \in Keys, v \in RawVersions \cup {NoVersion} :
       Begin(t, [Args("put", k) EXCEPT !.val = writes', !.version = v], "lock")

CallRead(t) ==
  /\ \E op \in Ops \cap {"get", "getver"}, k \in Keys : Begin(t, Args(op, k), "rlock")
  /\ UNCHANGED writes

(* Every snapshot comes with a function of its own; a name of Hooks is     *)
(* used again when nothing refers to the function it named.                *)
FreshHooks ==
  {h \in Hooks : /\ hook # h
                 /\ \A t \in Threads : caught[t] # h
                 /\ \A t \in Threads : call[t] # Nil => call[t].hook # h}

(* What stands for the key of a call that has none. *)
AnyKey == CHOOSE k \in Keys : TRUE

(* A snapshot comes with a new hook, or with none (getSnapShot). *)
CallSnapshot(t) ==
  /\ "snapshot" \in Ops
  /\ \E f \in Filters, h \in FreshHooks \cup {NoHook} :
       Begin(t, [Args("snapshot", AnyKey) EXCEPT !.filter = f, !.hook = h], "lock")
  /\ UNCHANGED writes

(* The callback a snapshot returned is called, once or again. *)
CallReset(t) ==
  /\ "reset" \in Ops
  /\ Begin(t, Args("reset", AnyKey), "lock")
  /\ UNCHANGED writes

Invoke(t) == CallPut(t) \/ CallRead(t) \/ CallSnapshot(t) \/ CallReset(t)

(* The operation is over, its deferred RUnlocks have run. *)
Return(t) ==
  /\ call' = [call EXCEPT ![t] = Nil]
  /\ ret' = [ret EXCEPT ![t] = Nil]
  /\ Goto(t, "idle")

-----------------------------------------------------------------------------
(* PutRaw *)

(* Mutant of PutLoad: the lock is released after the load. *)
PutLoad_unlocks(t) ==
  /\ Locked(t)
  /\ call[t].op = "put"
  /\ loaded' = [loaded EXCEPT ![t] = store[call[t].key]]
  /\ Goto(t, "commit")
  /\ Unlock
  /\ UNCHANGED <<store, hook, call, caught, todo, copied, ret, history>>

PutLoad(t) ==
  /\ Locked(t)
  /\ call[t].op = "put"
  /\ loaded' = [loaded EXCEPT ![t] = store[call[t].key]]
  /\ Goto(t, "commit")
  /\ UNCHANGED <<store, hook, mu, call, caught, todo, copied, ret, history>>

(* The entry is appended to what was loaded, the slice is sorted, the hook *)
(* is read and the lock released.                                          *)
PutCommit(t) ==
  /\ pc[t] = "commit"
  /\ LET k == call[t].key
         e == NewEntry(loaded[t], call[t].val, call[t].version)
     IN  /\ \E es \in SortedInserts(loaded[t], e) :
               store' = [store EXCEPT ![k] = es]
         /\ ret' = [ret EXCEPT ![t] = EntryResult(e)]
  /\ caught' = [caught EXCEPT ![t] = hook]
  /\ loaded' = [loaded EXCEPT ![t] = <<>>]
  /\ Unlock
  /\ Goto(t, "hook")
  /\ UNCHANGED <<hook, call, todo, copied, history>>

(* Outside the lock.  The hook that was read decides whether there is a    *)
(* call; the hook that is called is the one the field holds now, and a nil *)
(* function panics.                                                        *)
HookCall(t) ==
  /\ pc[t] = "hook"
  /\ caught[t] # NoHook
  /\ caught' = [caught EXCEPT ![t] = NoHook]
  /\ \/ /\ hook = NoHook
        /\ Goto(t, "panicked")
        /\ UNCHANGED told
     \/ /\ hook # NoHook
        /\ told' = told \cup {<<call[t].key, ret[t].entry>>}
        /\ Goto(t, "inhook")
  /\ UNCHANGED <<store, hook, mu, call, loaded, todo, copied, ret, taken, writes>>

(* Mutant of PutReturn: the call of the hook may be left out. *)
PutReturn_early(t) ==
  /\ pc[t] = "hook"
  /\ Return(t)
  /\ UNCHANGED <<store, hook, mu, local, history>>

PutReturn(t) ==
  /\ pc[t] = "hook"
  /\ caught[t] = NoHook
  /\ Return(t)
  /\ UNCHANGED <<store, hook, mu, local, history>>

HookReturn(t) ==
  /\ pc[t] = "inhook"
  /\ Return(t)
  /\ UNCHANGED <<store, hook, mu, local, history>>

-----------------------------------------------------------------------------
(* Get, GetValAndVersion, Size *)

(* Size reads under the lock exactly as Get does. *)
ReadLock(t) ==
  /\ pc[t] = "rlock"
  /\ RLock(t)
  /\ Goto(t, [get |-> "read", getver |-> "rlockagain", snapshot |-> "copy"][call[t].op])
  /\ UNCHANGED <<store, hook, call, local, ret, history>>

(* GetValAndVersion takes the read lock it already holds once more. *)
ReadLockAgain(t) ==
  /\ pc[t] = "rlockagain"
  /\ t \notin parked
  /\ RLock(t)
  /\ Goto(t, "read")
  /\ UNCHANGED <<store, hook, call, local, ret, history>>

ReadLatest(t) ==
  /\ pc[t] = "read"
  /\ t \notin parked
  /\ ret' = [ret EXCEPT ![t] = EntryResult(Latest(store[call[t].key]))]
  /\ Goto(t, "return")
  /\ UNCHANGED <<store, hook, mu, call, local, history>>

(* Mutant of ReadReturn: the RUnlock is missing. *)
ReadReturn_locked(t) ==
  /\ pc[t] = "return"
  /\ Return(t)
  /\ UNCHANGED <<store, hook, mu, local, history>>

(* The deferred RUnlocks of a read or of a snapshot. *)
ReadReturn(t) ==
  /\ pc[t] = "return"
  /\ RUnlock(t)
  /\ Return(t)
  /\ UNCHANGED <<store, hook, local, history>>

-----------------------------------------------------------------------------
(* Snapshot *)

(* Under the write lock only the options run. *)
SnapshotInstall(t) ==
  /\ Locked(t)
  /\ call[t].op = "snapshot"
  /\ \/ /\ call[t].hook = NoHook
        /\ UNCHANGED <<hook, taken, told>>
     \/ /\ call[t].hook # NoHook
        /\ hook' = call[t].hook
        /\ taken' = NoCopy
        /\ told' = {}
  /\ todo' = [todo EXCEPT ![t] = call[t].filter]
  /\ Unlock
  /\ Goto(t, "rlock")
  /\ UNCHANGED <<store, call, loaded, caught, copied, ret, writes>>

(* One key of the map is cloned; map iteration has no order. *)
CopyKey(t) ==
  /\ pc[t] = "copy"
  /\ t \notin parked
  /\ \E k \in todo[t] :
       /\ copied' = [copied EXCEPT ![t][k] = store[k]]
       /\ todo' = [todo EXCEPT ![t] = @ \ {k}]
  /\ UNCHANGED <<store, hook, mu, pc, call, loaded, caught, ret, history>>

SnapshotCopied(t) ==
  /\ pc[t] = "copy"
  /\ t \notin parked
  /\ todo[t] = {}
  /\ ret' = [ret EXCEPT ![t] = CopyResult(copied[t])]
  /\ copied' = [copied EXCEPT ![t] = EmptyStore]
  /\ taken' = IF hook # NoHook /\ call[t].hook = hook
              THEN [filter |-> call[t].filter, copy |-> copied[t]]
              ELSE taken
  /\ Goto(t, "return")
  /\ UNCHANGED <<store, hook, mu, call, loaded, caught, todo, told, writes>>

(* resetPostWriteHook: whichever snapshot the callback came from, the one  *)
(* hook field becomes nil.                                                 *)
ResetHook(t) ==
  /\ Locked(t)
  /\ call[t].op = "reset"
  /\ hook' = NoHook
  /\ taken' = NoCopy
  /\ told' = {}
  /\ Unlock
  /\ Return(t)
  /\ UNCHANGED <<store, local, writes>>

-----------------------------------------------------------------------------
PutRawSteps(t) == PutLoad(t) \/ PutCommit(t) \/ HookCall(t) \/ PutReturn(t)
ReadSteps(t) == ReadLock(t) \/ ReadLockAgain(t) \/ ReadLatest(t) \/ ReadReturn(t)
SnapshotSteps(t) == SnapshotInstall(t) \/ CopyKey(t) \/ SnapshotCopied(t)

(* What a thread does once it has made a call. *)
Work(t) == PutRawSteps(t) \/ ReadSteps(t) \/ SnapshotSteps(t) \/ ResetHook(t)

Next == \E t \in Threads : Invoke(t) \/ Lock(t) \/ Work(t) \/ HookReturn(t)

Spec == Init /\ [][Next]_vars

(* A goroutine that can run eventually runs.  sync.Mutex hands the lock to *)
(* a waiter that has waited for a millisecond, so a repeated Lock attempt  *)
(* succeeds.  Nothing makes a caller call or a hook return.                *)
Fairness == \A t \in Threads : WF_vars(Work(t)) /\ SF_vars(Lock(t))

FairSpec == Spec /\ Fairness

-----------------------------------------------------------------------------
(* Safety *)

(* At most one thread is between Lock and Unlock, and then no thread reads:*)
(* data_store.go:28-34, "any read and write operation in store must take   *)
(* lock before operations begins".  A thread that is parked in RLock has   *)
(* not entered.                                                            *)
Reading(t) == pc[t] \in {"rlockagain", "read", "copy", "return"} /\ t \notin parked

LockExcludes ==
  \A t \in Threads :
    /\ pc[t] \in {"locking", "commit"} => writer = t
    /\ pc[t] = "commit" => \A u \in Threads : ~Reading(u)

(* PutRaw computes the new slice from the history it loaded, so the loaded *)
(* history must still be the stored one when it is written back; a write   *)
(* by another thread in between would be lost.                             *)
LoadFresh ==
  \A t \in Threads : pc[t] = "commit" => loaded[t] = store[call[t].key]

(* "Most recent verions are always stored in end of slice"                 *)
(* (data_store.go:40): GetValAndVersion reads the last entry and must get  *)
(* the highest version, whatever versions PutRaw was given in which order. *)
NewestLast == \A k \in Keys : Ascending(store[k])

(* Put alone numbers the writes of a key 1, 2, 3, ... without gap or       *)
(* repetition, however many callers write the key at once.                 *)
VersionsCount ==
  RawVersions = {} =>
    \A k \in Keys : \A i \in DOMAIN store[k] : store[k][i].ver = i

(* "point-in-time view" (data_store.go:149): the keys a snapshot copied    *)
(* one after the other are as they are together now, until it returns.     *)
PointInTime ==
  \A t \in Threads : pc[t] = "copy" =>
    \A k \in call[t].filter \ todo[t] : copied[t][k] = store[k]

(* A write whose hook call is still to come. *)
ToBeTold(k, e) ==
  \E t \in Threads : /\ pc[t] = "hook" /\ caught[t] # NoHook
                     /\ call[t].key = k /\ ret[t].entry = e

Accounted(k, e) ==
  e \in ToSet(taken.copy[k]) \/ <<k, e>> \in told \/ ToBeTold(k, e)

(* Snapshot unlocks after installing the hook and only then takes the read *)
(* lock.  "all the new writes are being replicated" (data_store.go:158-160)*)
(* needs that no write slips between copy and hook: while the hook stays   *)
(* installed every entry of a filtered key is in the returned copy, was    *)
(* given to the hook, or is about to be.                                   *)
SnapshotNoGap ==
  \A k \in taken.filter : \A i \in DOMAIN store[k] : Accounted(k, store[k][i])

(* A reader that got a version of a key never finds a lower one later: no  *)
(* PutRaw, whatever version it is given, takes the newest entry back.      *)
LatestNeverRegresses ==
  [][\A k \in Keys : Latest(store'[k]).ver >= Latest(store[k]).ver]_vars

(* Entries are only ever added: every history keeps what it held.          *)
NothingForgotten ==
  [][\A k \in Keys : ToSet(store[k]) \subseteq ToSet(store'[k])]_vars

-----------------------------------------------------------------------------
(* The store implements the abstract store. *)

(* A reset has no effect on the entries and is not one of its calls.       *)
VS == INSTANCE VersionedStore
        WITH Call <- [op : AllOps \ {"reset"}, key : Keys, val : Nat,
                      version : Nat \cup {NoVersion}, filter : SUBSET Keys,
                      hook : Hooks \cup {NoHook}],
             call <- [t \in Threads |->
                        IF call[t] # Nil /\ call[t].op = "reset" THEN Nil ELSE call[t]]

(* Every operation takes effect at one moment between its call and its     *)
(* return: PutRaw at its commit, a read at its lookup, a snapshot as a     *)
(* whole although its lock is released between hook and copy.              *)
Linearizable == VS!Spec

-----------------------------------------------------------------------------
(* Liveness *)

(* "slow hook execution wont bog down the performance of Put"              *)
(* (data_store.go:135-139): every call takes effect, even if the hooks that*)
(* other threads are in never return.                                      *)
Waiting(t) == call[t] # Nil /\ ret[t] = Nil

EveryCallTakesEffect == \A t \in Threads : Waiting(t) ~> ~Waiting(t)

-----------------------------------------------------------------------------
(* What the comments promise and the code does not keep. *)

(* learnings/design_thoughts.md:67, "the snapshot must be created in such a*)
(* way that read and write traffic isn't affected": no writer waits for a  *)
(* reader that waits for this writer.  Once they do, every later call      *)
(* waits behind them for ever.                                             *)
NoWaitCycle ==
  ~ \E t, u \in Threads : pc[t] = "locking" /\ u \in parked /\ readers[u] > 0
=============================================================================
