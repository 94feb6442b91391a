# A TLA+ model of distributed_storage_nodes

This directory models the key-value store in `src/`: nodes that share a token
ring, learn of each other by gossip, route requests to the owner of a key,
replicate writes, and hand part of their data to nodes that join. Paths and
line numbers refer to `src/`. `PROJECT.json` lists for every definition the
lines it stands for.

## 1. Inventory

| Component | State | Operations | Interacts with |
|---|---|---|---|
| Store (`store/data_store.go`) | `store`, `postWriteHook`, `mu` | Get, GetValAndVersion, Put, PutRaw, Snapshot, reset callback, Size | handlers of a node call it concurrently; a put calls the hook |
| Bootstrap (`nodes/main.go` 353-417, 1085-1275; `RequestSnapshot`) | two channels, two flags and a reset function per stream; the joiner's `State` | handleBootstrapping, getSnapshotStream (handler, ticker, snapshot goroutine), getSnapShot | reads gossip, installs the store's hook, streams events to the joiner |
| Gossip (`gossip/gossip.go`; `nodes/main.go` 166-266, 333-351, 424-506) | entries, `stateCount`, `gossipMeta`, `State` | NewNode, BroadcastGossip, postGossip, changeStateToBootStrappingIfReady | posts between nodes; starts the bootstrap |
| Ring (`helper/helper.go` 31-158) | none | HashKey, GetNode, GetNNode, GetNodeByToken, MapToArr, SortNodeInPlace | read by routing, replication and bootstrap |
| Requests (`nodes/main.go` 525-1058) | none beyond the request | postData, postReplicaData, getData | gossip, ring, store, fan-out |
| Fan-out (`helper/helper.go` 177-241) | counter, context, channel of one call | RunUntilMinSuccessOrTimeout | requests to replicas |
| API client (`nodes/api_client`) | none | PostRawKeyValue, PostKeyValue, GetKeyValue, GetNodeMeta, RequestSnapshot | the network |
| Coordinator (`cluster/`), deprecated | sorted list of nodes | addnode, removenode, AddNode, FindInsertIndex, InitNode, BroadCastNode, RemoveNode | posts to nodes; nothing calls it |
| Tracing, WAL stub, errors, scripts | none | none | none |

What is hard in this code, and which properties are about it:

* *Store*: steps of one operation on both sides of an unlock (Snapshot installs
  the hook, unlocks, and copies later; a put calls its hook outside the lock);
  a lock that is taken twice; versions that come from callers in any order.
  Correct means: no update is lost, a snapshot is of one moment, no write is in
  neither the copy nor the hook, readers never go back, calls do not block for
  ever, and concurrent operations are linearizable.
* *Bootstrap*: three goroutines per stream without a lock, one hook for all
  streams, live mutations that overtake the snapshot, connections that break,
  two handlers of a joiner that both start a bootstrap.
  Correct means: no write of the range is missed, a joiner is AVAILABLE only
  with its snapshot, the stream ends and its hook does not outlive it, and puts
  of the source that run a hook end.
* *Gossip*: compare and store are two locked steps, two broadcasts of a node
  run at once, posts are lost. Correct means: counts and entries agree, entries
  are what their node announced, views settle.
* *Routing*: each node decides by its own view, there is no hop limit, and a
  node's state or its own entry may go back after others have learned of it.
  Correct means: every token has an owner, a request goes down but from nodes
  that fell back, it ends, and it ends at the owner.
* *Requests and fan-out*: a request that timed out may still be carried out,
  results are dropped once the context is done, an error is taken for an answer.
  Correct means: the count in an answer is true, no write is stored twice, reads
  from the owner or from an overlapping quorum are fresh, the caller returns.
* *Coordinator*: a slice that handlers change and broadcasts read without a lock.
  Correct means: the list is sorted up to the largest token, holds the nodes it
  was given, and a broadcast reaches them.

`PROJECT.json` lists the single hazards with their lines under "hazards".

## 2. Modules

```
Versions                 histories of one key, PutRaw as an operator
 |- VersionedStore       abstract: calls that take effect one at a time
 |- DataStore            the store with lock, steps and hook  -- implements VersionedStore
 |   |- MCDataStore
 |   `- DataStore_proofs
 |- Bootstrap            source, streams and joiners
 |   |- MCBootstrap
 |   `- Bootstrap_proofs
 `- Requests (with Ring) writes and reads of one key in a cluster
     |- MCRequests
     `- Requests_proofs
Ring                     owner and replica lookup, with reference definitions
 `- Redirect             a request among nodes with different views
     |- MCRedirect
     `- Redirect_proofs
Lemmas                   about the operators of Versions and Ring, for the proofs
Confirmations            abstract: a fan-out as one answer with a true count
 `- Fanout               RunUntilMinSuccessOrTimeout  -- implements Confirmations
     |- MCFanout
     `- Fanout_proofs
Gossip      - MCGossip, Gossip_proofs             membership and node states
Coordinator - MCCoordinator, Coordinator_proofs   the deprecated list of nodes
```

The coarser modules use what the finer ones show: `Bootstrap` and `Requests`
take a store operation as one step because `DataStore` implements
`VersionedStore`; `Requests` takes the fan-out as "some replicas stored, at most
those confirmed" (its `PostReplicaData` and `Accept` are the `Store` and the
`Answer` of `Confirmations`) because `Fanout` implements `Confirmations`;
`Bootstrap` takes gossip as `Learn`, which `Gossip` has in full.

An operator whose name is that of another one with a suffix (`Sorted_not`
before `Sorted`) is a deliberately wrong variant. Replacing the operator by it
must make the property named in "mutants" of `PROJECT.json` fail. Nothing else
uses these variants.

### Versions, VersionedStore, DataStore

A history is a sequence of `[val, ver]`; `val` is the number of the write. A
missing key is the empty history. `Places` admits every position among equal
versions, since `sort.Slice` is not stable. `NewVersion` has the rule that a key
without history gets version 1 whatever version the caller gave.

`DataStore` has one `pc` per thread. The lock is a `sync.RWMutex` as its users
see it: `Lock` announces (from then on new readers park) and then waits until no
reader is left; `Unlock` lets all parked readers in. One operation of the code is:

| Code | Actions |
|---|---|
| `PutRaw` 107-147 | `CallPut`, `Lock`, `PutLoad`, `PutCommit` (append, sort, read the hook, unlock), `HookCall` (through the field, nil panics), `PutReturn` or `HookReturn` |
| `Get` 61-70, `Size` 193-197 | `CallRead`, `ReadLock`, `ReadLatest`, `ReadReturn` |
| `GetValAndVersion` 72-90 | the same with `ReadLockAgain` |
| `Snapshot` 154-191 | `CallSnapshot`, `Lock`, `SnapshotInstall`, `ReadLock`, `CopyKey` per key, `SnapshotCopied`, `ReadReturn` |
| reset callback 167-172 | `CallReset`, `Lock`, `ResetHook` |

`taken`, `told` and `writes` are history variables. A hook is a name; the
model says when it is called, not what it does.

`VersionedStore` has only calls, effects and returns. `Linearizable` says that
`DataStore` implements it, with the reset callback mapped to a stuttering step.

### Bootstrap

One source, any number of joiners. A stream is a pair of a joiner and the
handler of postGossip that started it, since `Ready` (the test for JOINING),
`ChangeState` (the change to BOOTSTRAPPING) and `Request` (made by a goroutine
of its own) are separate steps and several handlers may pass the test. `snap`,
`tick` and `stream` are the three goroutines of getSnapshotStream and the
variables they share; channels are unbuffered, so send and receive are one step
(`StreamSnapshot`, `StreamLive`). A put is `Route` (routing decided) or
`Replicate` (postReplicaData, which looks no owner up and has a version
already), then `Commit`, `CallHook` and then either done, sending, or panicked.
`wire` is the SSE connection, `Consume` the joiner's loop. `Limits` are the
bounds: each behaviour has one member, which says what the source may hold to
begin with, how many writes there are, which versions other nodes give to
theirs, which streams and which faults: `drop` (connection), `debug` (GET
/v1/snapshot, whose reset callback clears the hook), `unknown` (the source has
not heard of the joiner, so no reset function is assigned and the ticker's call
ends the process). `Covers[j]` stands for the keys hashed at or below the
joiner's token.

`ResetAssigned` is about a variable that one goroutine assigns and another
calls: only the chain "assigned, channel closed, snapshotComplete, AVAILABLE"
keeps the call behind the assignment. `PutEnds` has one exception, which the
code has too: the handler sets its channel variable to nil when it sees the
close, and a put that evaluates the variable after that sends on nil for ever.

### Gossip

A broadcast posts to one node after the other and waits for each answer, so a
broadcast together with the handler it currently runs is one `sender`; a node
has two, its ticker and the one started on a state change. `Compare` and `Store`
are the separate `Get` and `Upsert` of postGossip; `CountNodes`, `Record`,
`Test` and `ChangeState` are the read of `gossipMeta` that append makes, its
assignment, the test and the change of state, between which another handler may
come. `Own` and `Read` are the two locked calls of BroadcastGossip. `Begin`
takes the time and the state (434-435) in one step: between the two the state
could change, so that one broadcast carries an older state under a newer stamp;
the next tick stamps the state anew, and what a node announces as a pair stays a
pair. Stamps are counters per node, as only stamps of the same node are
compared; a broadcast of an unchanged state may reuse its last stamp, which
keeps the state space finite and only makes updates rarer.

### Ring, Redirect, Requests, Fanout

`Ring` takes lists because the code does; `MapToArr` yields every order and
`Sorted` every order that is sorted. `IsOwner` and `Distance` are the reference
definitions.

`Redirect` follows one request through nodes whose states and views change. A
node starts as `NewNode` lets it: with its seed's entry and JOINING, or, if the
seed is unreachable (`Cutoff`), AVAILABLE and knowing only itself. `ChangeState`
and `CopyComplete` take its state forward; `ChangeStateLate` is the second
handler that takes AVAILABLE back (334-344). `Own` and `Tell` store what is true
of a node, `OwnLate` and `TellLate` what was true before (`been`): an own entry
built before the state changed and stored unconditionally (438), a message that
was on its way, or one stored over a newer entry since compare and store are two
steps. So entries go back as they do in the code, stamps being abstracted to
"true now" or "true once". `late` bounds how often something outdated takes
effect (`MaxLate`, 1 in the run, any number in the theorems), and after the
request has ended nothing more is followed (`NotEnded`). `SeedEokrs` are the
values the conversion `uint64(float64)` of the seed's token may give;
`TokensRight` marks behaviours in which every node got the right one. `hops`
counts how often a request was sent on since it came, or since a node sent it on
whose own entry did not show it AVAILABLE, which the code does not do; it stops
at one more than there are nodes (`MaxHops`). A request may go up only from such
a node; in between, the code relies on its going down. `BootstrapSources` are
the answers of a joiner's lookup, with `None` for "no node found".

`Requests` has one key and fixed node
states; `settled` marks behaviours that began with complete views. A forward may
be lost; a forwarding node takes an error of the owner for an entry of version 0
(`ReadFails`), as a reader takes that of a replica. `RouteRead` decides by the view,
and `AnswerHere` reads the store in a step of its own; `ReplicaAnswers` does both in
one, since there the lookup only decides between the entry and an error, however
the view changes before the read. `StoredAsIs` is the premise
of `QuorumReadFresh` that no replica gave an entry another version.

`Fanout` has a goroutine per worker, the caller, the closing goroutine, the
context and the network; `Fail` covers a lost request, a lost response and the
end of the context, after which the other node may still act (`Serve`,
postReplicaData there). `PostRawKeyValue` takes any answer for a confirmation,
whatever its status. What it counts was stored all the same: `PutRaw` returns no
error, a panic in its hook comes after the entry is stored, and a body that does
not bind is not sent by `postData`.
`Confirmations` is what `postData` may rely on: replicas store the write one at a
time, before and after the answer, and the answer comes once, with a number that
the replicas have reached by then. `CountsTruly` says that `Fanout` implements
it, the return of the caller being the answer and `ReplicaCount`, the loop of
`postData` over the list it gets, its number.

### Coordinator

The list is a Go slice: `heap` holds the arrays, `nodes` says which array and
how much of it. `append` reuses the array while there is room, so insertion and
removal move elements under the eyes of a broadcast that walks its own slice of
the same array. Every statement that writes the list is a step, an append two.
`members` is what the calls mean as operations on a set, `serial` whether no two
changes have overlapped so far, `quiet` whether a broadcast ran undisturbed, `told`
the nodes it posted to (a post that fails is only logged).
`TopReads` are the values `uint64(float64)` of the largest token may give.
An unused place of an array holds `Blank`, a node without host (`NoHost`).

## 3. Runs

| Run | Bounds | What it shows |
|---|---|---|
| `datastore_safety` | 2 threads, 2 keys, 2 hooks, 3 writes, version 1 from callers; 1.0 million states | lost update, torn snapshot, gap between copy and hook, order and growth of histories, refinement |
| `datastore_live` | 3 threads, 1 key, 2 writes, put/get/snapshot; 75 000 states | versions count the writes; every call takes effect although hooks may never return |
| `bootstrap_safety` | 2 keys, 2 writers; one stream of a joiner that takes 1 key, 3 writes, all faults; or streams of 2 joiners, or 2 streams of one, with 1 write to a loaded source; or 2 writes with versions 1 and 2 from other nodes; 1.7 million states | no write between copy and live events, order of the stream, versions at the joiner, no hook left over, reset function assigned before it is called |
| `bootstrap_live` | 2 handlers of one joiner, 1 key, 1 writer, 1 write, a source with and without data, no faults; 125 000 states | the joiner ends up AVAILABLE, both streams end, puts in a hook end |
| `gossip` | 2 nodes, lost posts, unreachable seed; 107 000 states | counts, provenance of entries, convergence |
| `redirect` | 3 nodes with tokens 4, 3, 1 of 4, of which the second may read the seed's as 2 or not reach the seed, replica count 1, one outdated change of a state or entry; 298 000 states | ownership of every token, descending and bounded hops, end of a request, a source for every joiner, GetNNode |
| `fanout` | 3 workers, minSuccess 0 to 3; 220 000 states | quorum, honest count, return, refinement of `Confirmations` |
| `requests` | 3 nodes, replica count 2, 2 writes, 1 read, read quorums -1 to 3, 4 clusters (one whose previous owner is behind); 1.9 million states | true counts, one copy per node, fresh reads from the owner and from overlapping quorums |
| `coordinator` | 2 goroutines, 4 requests, 3 nodes with tokens 1, 2, 3 of 3; 2.7 million states | order, content, broadcasts |
| `datastore_blocked`, `bootstrap_gap`, `redirect_source` | smallest that show it | section 5 |

Why the bounds suffice. In the store every hazard is between two operations,
with a third write needed to tell "newest" from "last arrived": two threads,
three writes. Two keys make a snapshot that copies key by key distinguishable
from one of a moment, two hooks make a replaced hook distinguishable from a
reset one. In a bootstrap one key in and one outside the range, and a second
writer, give all the overlaps of put, snapshot and close; two streams share the
hook, and one write to a source that has data already is enough to reach it. In
the ring three nodes give an owner, a successor and a wrap, and tokens of 4
slots include the first, an inner, and the last one of a range. One outdated
change is enough to send a request back up and to take a joiner's source out of
service; `MaxLate` 0 leaves these cases out. In the fan-out three workers have
one below, at and above every quorum. Two gossip nodes give two concurrent
handlers at one node, since each node has two senders; what needs three nodes is
listed in section 5. Replica count 2 lets read and write quorums overlap (1+2,
2+1, 2+2) or not (1+1). Four requests to the coordinator fill an array of four
places and empty it again: a first node, two insertions, and a removal at either
end. Where the theorems of section 4 apply the bounds do not matter.

Deadlock is only checked in `gossip`, whose tickers never stop. Elsewhere the
bound on writes or the single request ends a behaviour, and the lock of the
store can really block (`datastore_blocked`).

Fairness. Goroutines that can run do (weak fairness of their steps).
`Lock` is strongly fair: a `sync.Mutex` hands itself to a waiter that has waited
for a millisecond. Nothing is assumed of callers and of hooks in `DataStore`,
nor of the network and other nodes in `Fanout`, where only the timer fires.
In `Gossip` a post of the ticker from one node to another, attempted again and
again, is not lost every time. In `Bootstrap` broadcasts reach the source. In
`Redirect` handlers decide and `GossipArrives`, as long as some node can be told the
present state of another one or put its own entry right: the tickers broadcast for
ever and what they say wins by its stamp, which `Converges` of `Gossip` shows on the
level of messages. Without it `RequestEnds` fails, with a request that two nodes
send to and fro. Nothing is assumed of the changes that go back.

## 4. Proofs

The theorems hold for every value of the constants that satisfies the named
assumptions of the modules: any keys, threads, hooks, joiners, streams, nodes,
tokens, views and bounds. The assumptions say that constants are of their kinds,
that the values for "nothing" are none of the things they stand for
(`NoVersion`, `NoHook`, `NoHost`, `NoThread`, `NoStream`, `None`, `Nil`,
`Unknown`), that there is a key, and that the nodes and the workers of a fan-out
are finite. A theorem with a hypothesis of its own shows it below.

Each is proved from an inductive invariant `IInv` of its module, which TLC has
checked on the instance of the runs before it was proved for all. `Lemmas` has
the facts about histories and lookups that several of the proofs need.

| Component | Theorem | Property |
|---|---|---|
| `DataStore` | `TypeCorrect` | `TypeOK` |
| | `MutualExclusion` | `LockExcludes` |
| | `NoLostUpdate` | `LoadFresh` |
| | `SnapshotIsPointInTime` | `PointInTime` |
| | `NewestIsLast` | `NewestLast` |
| | `NoRegress` | `LatestNeverRegresses` |
| | `NoLoss` | `NothingForgotten` |
| | `PutsAreNumbered` | `VersionsCount` |
| | `NoGapInSnapshot` | `SnapshotNoGap` |
| | `Refinement` | `Linearizable`: it implements `VersionedStore` |
| `Bootstrap` | `TypeCorrect` | `TypeOK` |
| | `WritesAccounted` | `WriteAccounted` |
| | `AvailableIsFull` | `AvailableHasSnapshot` |
| | `OnlyFirstRestamped` | `RestampsAtMostFirst` |
| | `InOrder` | `StreamInOrder` |
| | `HookGone` | `NoHookAfterStop` |
| | `ResetWasAssigned` | `ResetAssigned` |
| `Requests` | `CopiesAreThere` | `CountedCopies` |
| | `StoredOnce` | `WrittenOnce` |
| | `NumbersDiffer` | `TokensDiffer`: `VersionsDiffer` |
| | `OwnerReadsAreFresh` | `TokensDiffer`: `OwnerReadFresh` |
| | `QuorumReadsAreFresh` | `TokensDiffer`: `QuorumReadFresh` |
| `Redirect` | `HopsGoDown` | `NoTokenTwice`: `HopsDescend` |
| | `HopsAreBounded` | `NoTokenTwice`: `HopsBounded` |
| | `AlwaysAnOwner` | `SeedAtTop`: `AlwaysOwned` |
| | `OwnerServes` | `SeedAtTop`: `ServedByOwner` |
| | `SourceIsFound` | `SeedAtTop`: `SourceFound` |
| | `ReplicasInOrder` | `NoTokenTwice`: `ReplicasFollowOwner` |
| `Fanout` | `TypeCorrect` | `TypeOK` |
| | `HonestCount` | `CountHonest` |
| | `QuorumReached` | `QuorumInOutput` |
| | `Refinement` | `CountsTruly`: it implements `Confirmations` |
| `Gossip` | `TypeCorrect` | `TypeOK` |
| | `CountsAreRight` | `CountsMatch` |
| | `NothingIsInvented` | `NothingInvented` |
| `Coordinator` | `TypeCorrect` | `TypeOK` |
| | `AscendingList` | `AscendingToTop` |
| | `ListIsRequested` | `ListAsRequested` |
| | `BroadcastReaches` | `BroadcastInforms` |

**Hypotheses.** The code relies on two things it does not check. `SeedAtTop`: the
seed is started with the largest token, as `Makefile` 2 does; without it tokens
above all nodes have no owner. `TokensDiffer`, and `NoTokenTwice` for what nodes
read the tokens as: no two nodes were given one token. `sort.Slice` leaves nodes
of one token in either order, so that two of them pass a request to and fro, and
take each other for owner or replica; with two equal tokens TLC refutes
`HopsDescend`, `ReplicasFollowOwner`, `VersionsDiffer`, `OwnerReadFresh` and
`QuorumReadFresh`. `CountedCopies` and `WrittenOnce` need neither.

**Store.** `LoadFresh` needs that nobody else commits between load and commit,
that needs the lock, and the lock needs to know how many read locks a thread has
asked for at each place of its program (`Asked`). So `IInv` is the conjunction of
`TypeOK`, `CallInv` (which call a thread is in, by its `pc`) and `LockInv`
(`writer`, `readers` and `parked` agree with the `pc`s). `FreshInv` is inductive
relative to it: what a put loaded is stored still, a parked snapshot has copied
nothing, a copying one has copied what is stored. `StoreStep` reduces every step
to "one history changes by a sorted insertion of one entry", and the lemmas of
`Lemmas` about that insertion give the properties of histories. For
`SnapshotNoGap` every entry committed while a snapshot is between hook and copy is
followed to the hook. For the refinement each action is mapped to the call, the
effect or the return of `VersionedStore`, or to a stutter: the lemmas before
`Refinement` take the actions one by one, and the effect of a snapshot is its
last copied key, since no writer gets in while it copies.

**Bootstrap.** The properties rest on one another. `ControlInv`: the goroutines of
a stream end in one order (copy sent, its channel closed, snapshotComplete
written, ticker, live channel), and the hook is a stream's only from installation
to reset. Hence `ResetAssigned` and `NoHookAfterStop`. `WireInv`: what the
connection holds agrees with that order. `CopyInv`: each value of a copy is still
to be sent, on the wire (before the mark, if that is there), or has arrived.
`AvailInv` follows when the mark is consumed: a joiner that became AVAILABLE has
the copy of that stream. `AccountInv` is `WriteAccounted` with the hook's put
pinned to the stream: it starts with the copy, which takes all there is, and a
put that commits later finds the hook. `SourceInv` and `RoutedInv` say that
events hold entries of the source, that the source has each value once, and that
a put not yet committed has a value nobody has; only with these can an entry of
the joiner that keeps its version be known not to differ from the source's, and
`RestampsAtMostFirst` follows through `PutRaw` of one entry after the other.
`PutAll` folds over an event; `PutAllWithin` is its induction, from the
well-foundedness of the subset order on finite sets.

**Ring, Redirect, Requests.** `Lemmas` shows that `GetNode` finds the
reference owner whatever the unstable sort did, that `GetNNode` returns different
nodes beginning with the owner, and that they follow each other.

In `Redirect` states and entries go back, so the invariant says only what never
does. `BeenInv`: the seed has only ever been AVAILABLE, and a node that joins
knows it. `ViewInv`: a view has its own node, and the seed unless the node
started alone, in which case nobody knows of it and nobody tells it anything
(`Alone`); an entry shows a state its node was in. `HopInv`: a request that was
sent on is at a node whose token is above its own. Hence, if that node's own
entry shows it AVAILABLE, the owner it finds is itself or one below: nothing is
asked of the other entries (`HopsGoDown`). `hops` plus the number of nodes below
the request's node never exceeds the number of nodes (`HopsLeft`): the hop from
a node that fell back, like the first one, may lead anywhere, each further one
uses up a node below (`HopsAreBounded`). `AlwaysAnOwner` follows as every view
but that of a lone node has the seed as AVAILABLE and with the largest token. A
joiner's lookup has the seed to stop at for the same reason, in any order of the
list, and what it stops at was AVAILABLE when the entry was made.
`SourceIsFound` includes the joiner whose next token wraps to 0, which the run
does not: one with the largest token, beside the seed, that may find itself once
its entry shows it AVAILABLE.

`Requests`: `WriteInv` says where the copies of a write are by how far its handler
has come, `StoreInv` that no store has it twice. In settled
views `OneOwner` makes all handlers of the key the same node, whose newest
version bounds all versions, and `ReadMeets` says of a read that is collecting
that it has a fresh answer already or is still to ask a replica with the write:
that is the overlap of the quorums, counted once when the read picks its nodes.

**Fan-out and gossip.** `Fanout`: `success` is the number of good results that
have passed the counter, each good result is of a worker whose request was
carried out, and no worker drops its result before the quorum or the timeout.
For the refinement `OnceInv` adds that no worker's result is twice in list and
channel, so that the length of the good part of the list is a number of
different replicas; the return maps to `Answer`, a request that is carried out to
`Store`, everything else to a stutter.
`Gossip`: every entry in a view, in a message or half-way through a handler is
`Sound`, that is, was announced by a node that runs; the counts follow because
an upsert changes entry and count in one step, however old what it upserts is.

**Coordinator.** `TypeInv` holds whatever changes overlap: arrays never shrink,
so a slice that a handler goes on with stays within its array, and so does the
list, however stale the index it is cut by (an index out of range is a panic).
While no two changes have overlapped, `SerialInv` has one call at most between
its first and its last write, and says for every place of it what the array
holds and how that relates to the set the calls mean (`Progress`): an ascending
list and a copy of the new node behind it (`Adding`, `Copied`), a list whose
tail has moved up and left a gap (`Gap`), a list cut short whose new last node
is still to get the largest token (`Cut`), a list that has lost one and has its
last node twice. Each action takes one such place to the next, and the call's
last write gives back `Listed`: ascending, up to the largest token, and of the
requested nodes. `CastInv` says that a broadcast nobody has disturbed walks the
list that is there, has told the nodes before its index, and finds no call
midway; at the end of its slice it has told them all.

Only model-checked: liveness (`EveryCallTakesEffect`; `JoinerServes`,
`StreamTerminates`, `PutEnds`; `Converges`; `RequestEnds`; `CallerReturns`),
which needs fairness and ENABLED and so is beyond the prover, and the runs that
must fail (`SourceIsOwner`, `NoWaitCycle`, `ReplicationIsComplete`).
`HopsBounded` is the safety half of `RequestEnds`, between two nodes that do not
see themselves as available. The configurations leave the type invariants out
and check what could go wrong; TLC has checked them with the inductive
invariants they are part of, and with these they are proved.

## 5. Where the code and its documents disagree

Kept as runs that must fail:

* `datastore_blocked`: GetValAndVersion takes the read lock twice
  (`store/data_store.go` 79-82). A writer that comes in between and the reader
  wait for each other, and every later call behind them.
* `bootstrap_gap`: an empty source installs no hook (`nodes/main.go` 1153-1157);
  writes until it learns of the joiner are lost to the joiner.
* `redirect_source`: the bootstrap's source is looked up in an unsorted list
  (`nodes/main.go` 356-358), against `helper/helper.go` 122.

Seen with TLC while modelling, without a run of their own:

* The seed's token goes through a float64 (`nodes/main.go` 177); the largest
  uint64 does not survive, and Go leaves the result to the implementation. A node
  that sees half of it for good finds no owner for tokens of the seed's range,
  and requests can be passed round in circles for ever, against `readme.md` 65,
  "Any node can handle requests and route to the correct owner". `redirect`
  includes such nodes; `AlwaysOwned`, `HopsDescend` and `RequestEnds` fail
  without their premise `TokensRight`.
* A put whose hook is reset between its check and its call panics
  (`store/data_store.go` 140-145); the entry is stored, the request gets a 500.
* A live event that overtakes the snapshot of its key is stored as version 1 at
  the joiner (`store/data_store.go` 111-112), so the newest entry there can
  differ from the source's, against `learnings/design_thoughts.md` 63. The same
  holds for two writes that reach a replica in the opposite order, against
  `nodes/main.go` 567, "Replica nodes store the key, value & version pair as is
  with no modifications": the newer write is stored as version 1, and
  `QuorumReadFresh` fails without its premise `StoredAsIs`.
  `RestampsAtMostFirst` states what is left.
* With two joiners, or after GET /v1/snapshot, the hook of a running stream is
  replaced or removed, against `store/data_store.go` 152.
* The live channel is closed as soon as the joiner is known to be AVAILABLE; the
  pause of 10 seconds in the comment at `nodes/main.go` 1130-1134 is not in the
  condition, and puts that are between routing and hook then panic, block or are
  not streamed.
* A dropped stream leaves its hook behind: puts of the range block for ever, and
  the joiner stays BOOTSTRAPPING.
* A source that has not heard of the joiner ends its process when the ticker
  calls the unassigned reset function (`nodes/main.go` 1139, 1162).
* With three nodes two handlers can both start the bootstrap and the later one
  can take an AVAILABLE state back (`nodes/main.go` 334-344; reached in `Gossip`
  with three nodes). `bootstrap_live` shows that this heals. An older gossip
  entry can replace a newer one for a while (489-494), and a delayed broadcast puts
  an older state over a node's own entry (430-438).
* While a node that others take for an owner does not see itself as available, it
  sends a request back up, and the request goes to and fro between the two until
  gossip has told one of them, against `readme.md` 65. `redirect` includes such
  nodes: `RequestEnds` needs the fairness of gossip, and `HopsDescend` and
  `HopsBounded` are stated for the stretches between them. TLC refutes both
  without that.
* The source a joiner finds may have gone back to BOOTSTRAPPING itself, with all
  the data of its first copy but not necessarily what came since; `SourceFound`
  says that it was AVAILABLE. A joiner started with the largest token, beside the
  seed, may find itself, as the sum wraps (`nodes/main.go` 358).
* A node that could not reach its seeds starts AVAILABLE and knows only itself
  (`nodes/main.go` 172-174, 217-222). It has no owner for tokens at or above its
  own and answers them with an error, against `readme.md` 65; nobody tells it of
  the others unless a node takes it for its seed later. `AlwaysOwned` states
  this exception and shows that it is the only one.
* `postData` requires as many available nodes as there are replicas, not one
  more (`nodes/main.go` 738), so a write can be stored and then answered with an
  error at 774; a write is accepted without its quorum (819).
* A node that forwards a read answers OK without a value when the owner answers
  an error (`nodes/api_client/api_client.go` 188-204 ignores the status), so with
  lagging views a written key can read as absent.
* A node that could not reach its seeds starts with replica count 0, and then
  refuses the default read quorum of 1 (`nodes/main.go` 834-843, 889).
* Two changes of the coordinator's list that overlap break its order, leave blank
  nodes in it or lose nodes, against `cluster/coordinator/coordinator.go` 30-31;
  a broadcast during a change misses nodes, against 114-115. Its first node can
  only be added where the conversion of the largest token gives that token, and
  `nodedetail` never finds an owner, because no node of the list has a state.
* Nothing keeps two nodes from having one token (`helper/helper.go` 152-157 sorts
  them unstably); routing between them can go in circles and both may own the key,
  see the hypotheses in section 4.
* With lagging views two nodes may both accept writes of a key, and a read from
  the owner need not be fresh; `OwnerReadFresh` and `VersionsDiffer` are stated
  for complete views.

## 6. Not modelled

Payloads, `IsReplica` (never read), JSON, HTTP status and headers, malformed
requests, tracing, logging, flags. Version wrap-around at 2^64. The difference
between the bootstrap's filter (`<=` the token) and ownership (`<`). The version
that is answered when no replica responds. `wal` is a stub and nothing is
persisted, so there is no recovery: a restarted node has a new id and an empty
store and is a new node to this model. That its old entry stays in everybody's
gossip, AVAILABLE for ever, so that one host is counted and chosen twice, has no
handling in the code whose correctness could be stated. NewNode has one seed in
`Gossip`: with several the code takes the union of what it reaches, and the
replica count only matters at the start, where a conflict ends the process.
Chains of bootstraps (a source that is copying itself) are in no module. Node
states that change, or go back, while a request is on its way are in `Redirect`
without stores; composed with `Requests` they are beyond TLC.

## 7. Plan

Done: every component that keeps state, its safety and liveness runs, and the
theorems of section 4, which state every safety and action property that a
passing run checks. What a continuation would add:

1. `NewNode` with several seeds, and the replica count it takes from them.
2. Chains of bootstraps: a source that is a joiner itself, whose events are put
   outside any handler (`nodes/main.go` 404).
3. `Redirect` and `Requests` composed, with one key but changing node states, on
   an instance TLC can still cover.
