------------------------------ MODULE Bootstrap -----------------------------
(***************************************************************************)
(* How a joining node copies its part of the data from the node that owns  *)
(* it (handleBootstrapping, RequestSnapshot and getSnapshotStream), while  *)
(* clients write to both.                                                  *)
(*                                                                         *)
(* At the source every snapshot request starts three goroutines that share *)
(* variables without a lock: the handler that writes the stream, one that  *)
(* takes the snapshot and feeds it to the handler, and a ticker that ends  *)
(* the live mutations.  A put of the source runs the hook of one stream    *)
(* and blocks in it until the handler receives.  The channels are          *)
(* unbuffered, so a send and its receive are one step.  Single operations  *)
(* of a store are atomic here, which DataStore justifies, except Snapshot, *)
(* whose hook is installed before its copy is made.                        *)
(*                                                                         *)
(* A joiner's handlers of gossip test the state and change it in separate  *)
(* steps, so more than one of them may start a bootstrap: a stream is      *)
(* known by its joiner and by the handler that started it.                 *)
(*                                                                         *)
(* Keys are known by the joiners they concern: Covers[j] are the keys the  *)
(* filter of j's stream lets through, those hashed at or below j's token.  *)
(***************************************************************************)
EXTENDS Versions

CONSTANTS
  Keys, Joiners,
  Streams,                \* pairs of a joiner and one of its gossip handlers
  Covers,                 \* [Joiners -> SUBSET Keys]
  NoStream,               \* no hook
  Writers,                \* request goroutines of the source
  Limits                  \* bounds: what a behaviour may do, see below

ASSUME CoversAssumption ==
  /\ Covers \in [Joiners -> SUBSET Keys]
  /\ \A i, j \in Joiners : Covers[i] \subseteq Covers[j] \/ Covers[j] \subseteq Covers[i]
ASSUME StreamsAssumption == Streams \subseteq Joiners \X (Nat \ {0})
ASSUME KeysAssumption == Keys # {}
ASSUME NoStreamAssumption == NoStream \notin Streams

(* Which keys the source may have to begin with, how many writes there may *)
(* be, which versions owners give to replicas, which streams and faults.   *)
ASSUME LimitsAssumption ==
  Limits \subseteq [loaded : SUBSET Keys, writes : Nat, versions : SUBSET (Nat \ {0}),
                    streams : SUBSET Streams,
                    faults : SUBSET {"drop", "debug", "unknown"}]

VARIABLES
  store,      \* the source's store
  hook,       \* the stream whose hook the source's store has, or NoStream
  put,        \* the put each writer executes
  known,      \* the state of each joiner in the source's gossip
  snap,       \* the snapshot goroutine of each stream
  tick,       \* the ticker goroutine of each stream
  stream,     \* what the goroutines of a stream share, and the handler
  wire,       \* the events between handler and joiner
  conn,       \* whether each stream's connection is up
  asked,      \* how far the handler that starts each stream has come
  state,      \* the state of each joiner
  jstore,     \* the store of each joiner
  ended,      \* how each stream's replication loop ended, "no" before it did
  writes,     \* how many writes there were
  crashed,    \* the source's process has ended
  limits      \* the bounds of this behaviour

source == <<store, hook, put, known, snap, tick, stream, crashed>>
joiner == <<asked, state, jstore, ended>>
system == <<source, wire, conn, joiner, writes>>
vars == <<system, limits>>

-----------------------------------------------------------------------------
JoinerStates == {"JOINING", "BOOTSTRAPPING", "AVAILABLE"}

Of(s) == s[1]

EmptyStore == [k \in Keys |-> <<>>]

Put == [pc : {"idle", "routed", "hook", "sending", "panicked"},
        key : Keys, entry : Entry, caught : Streams \cup {NoStream}]

Snap == [pc : {"off", "size", "get", "install", "copy", "send", "end"},
         copy : [Keys -> History], todo : SUBSET Keys]

Stream == [handler : {"off", "on", "done"},
           ss : {"open", "closed", "nil"}, live : {"open", "closed", "nil"},
           ssSent : BOOLEAN, liveSent : BOOLEAN, reset : {"unset", "noop", "real"}]

Event == [kind : {"snapshot", "live", "snapshotComplete", "liveComplete"},
          key : Keys \cup {NoStream}, entries : History]

TypeOK ==
  /\ store \in [Keys -> History]
  /\ hook \in Streams \cup {NoStream}
  /\ put \in [Writers -> Put]
  /\ known \in [Joiners -> JoinerStates \cup {"UNKNOWN"}]
  /\ snap \in [Streams -> Snap]
  /\ tick \in [Streams -> {"off", "running", "closed", "stopped"}]
  /\ stream \in [Streams -> Stream]
  /\ wire \in [Streams -> Seq(Event)]
  /\ conn \in [Streams -> BOOLEAN]
  /\ asked \in [Streams -> {"no", "ready", "changed", "yes"}]
  /\ state \in [Joiners -> JoinerStates]
  /\ jstore \in [Joiners -> [Keys -> History]]
  /\ ended \in [Streams -> {"no", "complete", "broken"}]
  /\ writes \in 0..limits.writes
  /\ crashed \in BOOLEAN
  /\ limits \in Limits

NoPut == [pc |-> "idle", key |-> CHOOSE k \in Keys : TRUE, entry |-> NoEntry,
          caught |-> NoStream]

Init ==
  /\ limits \in Limits
  /\ \E S \in SUBSET limits.loaded :
       store = [k \in Keys |-> IF k \in S THEN <<[val |-> 0, ver |-> 1]>> ELSE <<>>]
  /\ hook = NoStream
  /\ put = [w \in Writers |-> NoPut]
  /\ known = [j \in Joiners |-> IF "unknown" \in limits.faults THEN "UNKNOWN" ELSE "JOINING"]
  /\ snap = [s \in Streams |-> [pc |-> "off", copy |-> EmptyStore, todo |-> {}]]
  /\ tick = [s \in Streams |-> "off"]
  /\ stream = [s \in Streams |->
       [handler |-> "off", ss |-> "open", live |-> "open", ssSent |-> FALSE,
        liveSent |-> FALSE, reset |-> "unset"]]
  /\ wire = [s \in Streams |-> <<>>]
  /\ conn = [s \in Streams |-> FALSE]
  /\ asked = [s \in Streams |-> "no"]
  /\ state = [j \in Joiners |-> "JOINING"]
  /\ jstore = [j \in Joiners |-> EmptyStore]
  /\ ended = [s \in Streams |-> "no"]
  /\ writes = 0
  /\ crashed = FALSE

-----------------------------------------------------------------------------
(* Writes at the source *)

(* The source owns a key unless a joiner it knows to be AVAILABLE does. *)
OwnedBySource(k) ==
  \A j \in Joiners : k \in Covers[j] => known[j] # "AVAILABLE"

(* The request has passed the routing decision and goes on to Put. *)
Route(w) ==
  /\ put[w].pc = "idle"
  /\ writes < limits.writes
  /\ writes' = writes + 1
  /\ \E k \in Keys :
       /\ OwnedBySource(k)
       /\ put' = [put EXCEPT ![w].pc = "routed", ![w].key = k,
                             ![w].entry = [val |-> writes', ver |-> 0]]
  /\ UNCHANGED <<store, hook, known, snap, tick, stream, wire, conn, joiner, crashed>>

(* postReplicaData: another node sends a write it owns, with its version.  *)
(* No owner is looked up, so a copy for a joiner has its replicas as well. *)
Replicate(w) ==
  /\ put[w].pc = "idle"
  /\ writes < limits.writes
  /\ writes' = writes + 1
  /\ \E k \in Keys, version \in limits.versions :
       put' = [put EXCEPT ![w].pc = "routed", ![w].key = k,
                          ![w].entry = [val |-> writes', ver |-> version]]
  /\ UNCHANGED <<store, hook, known, snap, tick, stream, wire, conn, joiner, crashed>>

(* The version the caller of PutRaw gives: none if it is Put. *)
Given(entry) == IF entry.ver = 0 THEN NoVersion ELSE entry.ver

(* PutRaw up to its unlock. *)
Commit(w) ==
  /\ put[w].pc = "routed"
  /\ LET k == put[w].key
         e == NewEntry(store[k], put[w].entry.val, Given(put[w].entry))
     IN  /\ \E es \in SortedInserts(store[k], e) : store' = [store EXCEPT ![k] = es]
         /\ put' = [put EXCEPT ![w].pc = "hook", ![w].entry = e, ![w].caught = hook]
  /\ UNCHANGED <<hook, known, snap, tick, stream, wire, conn, joiner, writes, crashed>>

PutDone(w) == put' = [put EXCEPT ![w] = NoPut]
PutPanics(w) == put' = [put EXCEPT ![w] = [NoPut EXCEPT !.pc = "panicked"]]

(* Mutant of CallHook: the send gives up when nobody receives yet. *)
CallHook_nonBlocking(w) ==
  /\ put[w].pc = "hook"
  /\ PutDone(w)
  /\ UNCHANGED <<store, hook, known, snap, tick, stream, wire, conn, joiner, writes, crashed>>

(* The hook is nil-checked on the copy and called through the field, where *)
(* it may be nil by now or that of another stream.  A panic ends only the  *)
(* request: gin recovers it.                                               *)
CallHook(w) ==
  /\ put[w].pc = "hook"
  /\ \/ put[w].caught = NoStream /\ PutDone(w)
     \/ put[w].caught # NoStream /\ hook = NoStream /\ PutPanics(w)
     \/ /\ put[w].caught # NoStream
        /\ hook # NoStream
        /\ put[w].key \notin Covers[Of(hook)]
        /\ PutDone(w)
     \/ /\ put[w].caught # NoStream
        /\ hook # NoStream
        /\ put[w].key \in Covers[Of(hook)]
        /\ put' = [put EXCEPT ![w].pc = "sending", ![w].caught = hook]
  /\ UNCHANGED <<store, hook, known, snap, tick, stream, wire, conn, joiner, writes, crashed>>

(* A send on a closed channel panics; on a nil channel it blocks for ever, *)
(* as it does on an open one when the handler is gone.                     *)
SendOnClosed(w) ==
  /\ put[w].pc = "sending"
  /\ stream[put[w].caught].live = "closed"
  /\ PutPanics(w)
  /\ UNCHANGED <<store, hook, known, snap, tick, stream, wire, conn, joiner, writes, crashed>>

-----------------------------------------------------------------------------
(* The snapshot goroutine of stream s *)

SnapGoto(s, place) == snap' = [snap EXCEPT ![s].pc = place]

(* Mutant of SnapEnd: replSSCh is not closed. *)
SnapEnd_open(s, reset) ==
  /\ SnapGoto(s, "end")
  /\ stream' = [stream EXCEPT ![s].reset = reset]

(* The goroutine returns; its deferred close(replSSCh) has run. *)
SnapEnd(s, reset) ==
  /\ SnapGoto(s, "end")
  /\ stream' = [stream EXCEPT ![s].ss = "closed", ![s].reset = reset]

(* An empty store gets neither a snapshot nor a hook. *)
SnapSize(s) ==
  /\ snap[s].pc = "size"
  /\ IF store = EmptyStore
     THEN SnapEnd(s, "noop")
     ELSE SnapGoto(s, "get") /\ UNCHANGED stream
  /\ UNCHANGED <<store, hook, put, known, tick, wire, conn, joiner, writes, crashed>>

(* A joiner that gossip has not announced gets nothing, and no reset       *)
(* function is assigned.                                                   *)
SnapGet(s) ==
  /\ snap[s].pc = "get"
  /\ IF known[Of(s)] = "UNKNOWN"
     THEN SnapEnd(s, "unset")
     ELSE SnapGoto(s, "install") /\ UNCHANGED stream
  /\ UNCHANGED <<store, hook, put, known, tick, wire, conn, joiner, writes, crashed>>

(* Snapshot, first under the write lock, then under the read lock. *)
SnapInstall(s) ==
  /\ snap[s].pc = "install"
  /\ hook' = s
  /\ SnapGoto(s, "copy")
  /\ UNCHANGED <<store, put, known, tick, stream, wire, conn, joiner, writes, crashed>>

SnapCopy(s) ==
  /\ snap[s].pc = "copy"
  /\ LET copy == [k \in Keys |-> IF k \in Covers[Of(s)] THEN store[k] ELSE <<>>]
     IN  snap' = [snap EXCEPT ![s] = [pc |-> "send", copy |-> copy,
                                      todo |-> {k \in Keys : copy[k] # <<>>}]]
  /\ stream' = [stream EXCEPT ![s].reset = "real"]
  /\ UNCHANGED <<store, hook, put, known, tick, wire, conn, joiner, writes, crashed>>

(* Mutant of SnapSent: the channel is closed before all was sent. *)
SnapSent_early(s) ==
  /\ snap[s].pc = "send"
  /\ SnapEnd(s, stream[s].reset)
  /\ UNCHANGED <<store, hook, put, known, tick, wire, conn, joiner, writes, crashed>>

SnapSent(s) ==
  /\ snap[s].pc = "send"
  /\ snap[s].todo = {}
  /\ SnapEnd(s, stream[s].reset)
  /\ UNCHANGED <<store, hook, put, known, tick, wire, conn, joiner, writes, crashed>>

-----------------------------------------------------------------------------
(* The stream handler of stream s: one case of its select per step *)

Emit(s, event) ==
  wire' = IF conn[s] THEN [wire EXCEPT ![s] = Append(@, event)] ELSE wire

Mark(kind) == [kind |-> kind, key |-> NoStream, entries |-> <<>>]

(* The test at the top of the stream function. *)
Finished(s) == stream[s].ssSent /\ stream[s].liveSent

Selecting(s) == stream[s].handler = "on" /\ ~Finished(s)

StreamSnapshot(s) ==
  /\ Selecting(s)
  /\ stream[s].ss = "open"
  /\ snap[s].pc = "send"
  /\ \E k \in snap[s].todo :
       /\ Emit(s, [kind |-> "snapshot", key |-> k, entries |-> snap[s].copy[k]])
       /\ snap' = [snap EXCEPT ![s].todo = @ \ {k}]
  /\ UNCHANGED <<store, hook, put, known, tick, stream, conn, joiner, writes, crashed>>

(* Mutant of StreamSnapshotClosed: the handler returns at the close. *)
StreamSnapshotClosed_returns(s) ==
  /\ Selecting(s)
  /\ stream[s].ss = "closed"
  /\ stream' = [stream EXCEPT ![s].handler = "done"]
  /\ conn' = [conn EXCEPT ![s] = FALSE]
  /\ UNCHANGED <<store, hook, put, known, snap, tick, wire, joiner, writes, crashed>>

StreamSnapshotClosed(s) ==
  /\ Selecting(s)
  /\ stream[s].ss = "closed"
  /\ stream' = [stream EXCEPT ![s].ss = "nil", ![s].ssSent = TRUE]
  /\ Emit(s, Mark("snapshotComplete"))
  /\ UNCHANGED <<store, hook, put, known, snap, tick, conn, joiner, writes, crashed>>

StreamLive(s) ==
  /\ Selecting(s)
  /\ stream[s].live = "open"
  /\ \E w \in Writers :
       /\ put[w].pc = "sending"
       /\ put[w].caught = s
       /\ Emit(s, [kind |-> "live", key |-> put[w].key, entries |-> <<put[w].entry>>])
       /\ PutDone(w)
  /\ UNCHANGED <<store, hook, known, snap, tick, stream, conn, joiner, writes, crashed>>

(* Mutant of StreamLiveClosed: liveComplete is not sent. *)
StreamLiveClosed_silent(s) ==
  /\ Selecting(s)
  /\ stream[s].live = "closed"
  /\ stream' = [stream EXCEPT ![s].live = "nil", ![s].liveSent = TRUE]
  /\ UNCHANGED <<store, hook, put, known, snap, tick, wire, conn, joiner, writes, crashed>>

StreamLiveClosed(s) ==
  /\ Selecting(s)
  /\ stream[s].live = "closed"
  /\ stream' = [stream EXCEPT ![s].live = "nil", ![s].liveSent = TRUE]
  /\ Emit(s, Mark("liveComplete"))
  /\ UNCHANGED <<store, hook, put, known, snap, tick, conn, joiner, writes, crashed>>

(* The stream is complete, or the request's context is done. *)
StreamReturn(s) ==
  /\ stream[s].handler = "on"
  /\ Finished(s) \/ ~conn[s]
  /\ stream' = [stream EXCEPT ![s].handler = "done"]
  /\ conn' = [conn EXCEPT ![s] = FALSE]
  /\ UNCHANGED <<store, hook, put, known, snap, tick, wire, joiner, writes, crashed>>

-----------------------------------------------------------------------------
(* The ticker goroutine of stream s *)

(* Mutant of TickClose: the live mutations end at any tick. *)
TickClose_early(s) ==
  /\ tick[s] = "running"
  /\ stream' = [stream EXCEPT ![s].live = "closed"]
  /\ tick' = [tick EXCEPT ![s] = "closed"]
  /\ UNCHANGED <<store, hook, put, known, snap, wire, conn, joiner, writes, crashed>>

TickClose(s) ==
  /\ tick[s] = "running"
  /\ stream[s].ssSent
  /\ known[Of(s)] = "AVAILABLE"
  /\ stream' = [stream EXCEPT ![s].live = "closed"]
  /\ tick' = [tick EXCEPT ![s] = "closed"]
  /\ UNCHANGED <<store, hook, put, known, snap, wire, conn, joiner, writes, crashed>>

(* Mutant of TickReset: the hook stays. *)
TickReset_leaves(s) ==
  /\ tick[s] = "closed"
  /\ tick' = [tick EXCEPT ![s] = "stopped"]
  /\ UNCHANGED <<store, hook, put, known, snap, stream, wire, conn, joiner, writes, crashed>>

(* Calling a reset function that was never assigned panics outside any     *)
(* request, which ends the process.                                        *)
TickReset(s) ==
  /\ tick[s] = "closed"
  /\ tick' = [tick EXCEPT ![s] = "stopped"]
  /\ hook' = IF stream[s].reset = "real" THEN NoStream ELSE hook
  /\ crashed' = (stream[s].reset = "unset")
  /\ UNCHANGED <<store, put, known, snap, stream, wire, conn, joiner, writes>>

-----------------------------------------------------------------------------
(* The rest of the source *)

(* Gossip from the joiner reaches the source. *)
Learn(j) ==
  /\ known[j] # state[j]
  /\ known' = [known EXCEPT ![j] = state[j]]
  /\ UNCHANGED <<store, hook, put, snap, tick, stream, wire, conn, joiner, writes, crashed>>

(* GET /v1/snapshot: a snapshot without a hook, whose cancel is called. *)
DebugSnapshot ==
  /\ "debug" \in limits.faults
  /\ hook' = NoStream
  /\ UNCHANGED <<store, put, known, snap, tick, stream, wire, conn, joiner, writes, crashed>>

-----------------------------------------------------------------------------
(* The joiner *)

(* changeStateToBootStrappingIfReady at one of the joiner's handlers finds *)
(* the state to be JOINING.  Handlers are numbered as they do.             *)
Ready(s) ==
  /\ asked[s] = "no"
  /\ \A t \in Streams : Of(t) = Of(s) /\ t[2] < s[2] => asked[t] # "no"
  /\ s \in limits.streams
  /\ state[Of(s)] = "JOINING"
  /\ asked' = [asked EXCEPT ![s] = "ready"]
  /\ UNCHANGED <<source, wire, conn, state, jstore, ended, writes>>

(* It changes the state, whatever that is by now... *)
ChangeState(s) ==
  /\ asked[s] = "ready"
  /\ asked' = [asked EXCEPT ![s] = "changed"]
  /\ state' = [state EXCEPT ![Of(s)] = "BOOTSTRAPPING"]
  /\ UNCHANGED <<source, wire, conn, jstore, ended, writes>>

(* ...and the request of its handleBootstrapping, which runs in a goroutine*)
(* of its own, reaches the source.                                         *)
Request(s) ==
  /\ asked[s] = "changed"
  /\ asked' = [asked EXCEPT ![s] = "yes"]
  /\ conn' = [conn EXCEPT ![s] = TRUE]
  /\ stream' = [stream EXCEPT ![s].handler = "on"]
  /\ snap' = [snap EXCEPT ![s].pc = "size"]
  /\ tick' = [tick EXCEPT ![s] = "running"]
  /\ UNCHANGED <<store, hook, put, known, wire, state, jstore, ended, writes, crashed>>

(* RequestSnapshot returned an error: handleBootstrapping returns. *)
RequestFails(s) ==
  /\ "drop" \in limits.faults \/ crashed
  /\ asked[s] = "changed"
  /\ asked' = [asked EXCEPT ![s] = "yes"]
  /\ ended' = [ended EXCEPT ![s] = "broken"]
  /\ UNCHANGED <<source, wire, conn, state, jstore, writes>>

(* PutRaw of the entries one after the other, in the order of the event. *)
PutAll(es, entries) ==
  LET after[n \in 0..Len(entries)] ==
        IF n = 0 THEN {es}
        ELSE UNION {PutRaw(h, entries[n].val, entries[n].ver) : h \in after[n - 1]}
  IN  after[Len(entries)]

Consume(s) ==
  /\ ended[s] = "no"
  /\ wire[s] # <<>>
  /\ LET event == Head(wire[s])
     IN  \/ /\ event.kind \in {"snapshot", "live"}
            /\ \E es \in PutAll(jstore[Of(s)][event.key], event.entries) :
                 jstore' = [jstore EXCEPT ![Of(s)][event.key] = es]
            /\ UNCHANGED <<state, ended>>
         \/ /\ event.kind = "snapshotComplete"
            /\ state' = [state EXCEPT ![Of(s)] = "AVAILABLE"]
            /\ UNCHANGED <<jstore, ended>>
         \/ /\ event.kind = "liveComplete"
            /\ ended' = [ended EXCEPT ![s] = "complete"]
            /\ UNCHANGED <<state, jstore>>
  /\ wire' = [wire EXCEPT ![s] = Tail(@)]
  /\ UNCHANGED <<source, conn, asked, writes>>

(* The connection closed before the last event: the loop ends as well. *)
ConsumeBroken(s) ==
  /\ ended[s] = "no"
  /\ asked[s] = "yes"
  /\ wire[s] = <<>>
  /\ ~conn[s]
  /\ ended' = [ended EXCEPT ![s] = "broken"]
  /\ UNCHANGED <<source, wire, conn, asked, state, jstore, writes>>

(* A client write that a node with newer gossip sends to the joiner, or a  *)
(* replica of one.                                                         *)
JoinerPut(j) ==
  /\ state[j] = "AVAILABLE"
  /\ writes < limits.writes
  /\ writes' = writes + 1
  /\ \E k \in Covers[j], version \in {NoVersion} \cup limits.versions :
       \E es \in PutRaw(jstore[j][k], writes', version) :
         jstore' = [jstore EXCEPT ![j][k] = es]
  /\ UNCHANGED <<source, wire, conn, asked, state, ended>>

(* The connection breaks, what was not received yet is lost from some      *)
(* point on.                                                               *)
Drop(s) ==
  /\ "drop" \in limits.faults \/ crashed
  /\ conn[s]
  /\ conn' = [conn EXCEPT ![s] = FALSE]
  /\ \E n \in 0..Len(wire[s]) : wire' = [wire EXCEPT ![s] = SubSeq(@, 1, n)]
  /\ UNCHANGED <<source, joiner, writes>>

-----------------------------------------------------------------------------
PutSteps(w) == Commit(w) \/ CallHook(w) \/ SendOnClosed(w)

SnapSteps(s) == SnapSize(s) \/ SnapGet(s) \/ SnapInstall(s) \/ SnapCopy(s) \/ SnapSent(s)

StreamSteps(s) ==
  \/ StreamSnapshot(s) \/ StreamSnapshotClosed(s)
  \/ StreamLive(s) \/ StreamLiveClosed(s) \/ StreamReturn(s)

TickSteps(s) == TickClose(s) \/ TickReset(s)

JoinerSteps(s) == Consume(s) \/ ConsumeBroken(s)

Next ==
  /\ \/ /\ ~crashed
        /\ \/ \E w \in Writers : Route(w) \/ Replicate(w) \/ PutSteps(w)
           \/ \E s \in Streams : SnapSteps(s) \/ StreamSteps(s) \/ TickSteps(s) \/ Request(s)
           \/ \E j \in Joiners : Learn(j)
           \/ DebugSnapshot
     \/ \E s \in Streams :
          Ready(s) \/ ChangeState(s) \/ RequestFails(s) \/ JoinerSteps(s) \/ Drop(s)
     \/ \E j \in Joiners : JoinerPut(j)
  /\ UNCHANGED limits

Spec == Init /\ [][Next]_vars

(* Goroutines that can run do, the ticker ticks, broadcast gossip arrives. *)
Fairness ==
  /\ \A w \in Writers : WF_system(~crashed /\ PutSteps(w))
  /\ \A j \in Joiners : WF_system(~crashed /\ Learn(j))
  /\ \A s \in Streams :
       /\ WF_system(ChangeState(s))
       /\ WF_system(~crashed /\ Request(s))
       /\ WF_system(~crashed /\ SnapSteps(s))
       /\ WF_system(~crashed /\ StreamSteps(s))
       /\ WF_system(~crashed /\ TickSteps(s))
       /\ WF_system(JoinerSteps(s))

FairSpec == Spec /\ Fairness

-----------------------------------------------------------------------------
(* Safety *)

Vals(es) == {es[i].val : i \in DOMAIN es}

(* Where the write v of key k is on its way from the source in stream s. *)
InSnapshot(s, k, v) == k \in snap[s].todo /\ v \in Vals(snap[s].copy[k])
OnWire(s, k, v) ==
  \E i \in DOMAIN wire[s] : wire[s][i].key = k /\ v \in Vals(wire[s][i].entries)
InHook(k, v) ==
  \E w \in Writers : /\ put[w].pc \in {"hook", "sending"}
                     /\ put[w].key = k /\ put[w].entry.val = v
                     /\ put[w].caught # NoStream
Arrived(j, k, v) == v \in Vals(jstore[j][k])

(* data_store.go:158-160, "all the new writes are being replicated":       *)
(* from the copy on, and as long as the stream has its hook and its        *)
(* channel, every write of the source that concerns the joiner has reached *)
(* it or is on its way, in the snapshot, in a hook or on the wire.         *)
WriteAccounted ==
  \A s \in Streams :
    hook = s /\ snap[s].pc \in {"send", "end"} /\ stream[s].live = "open" /\ conn[s] =>
      \A k \in Covers[Of(s)] : \A v \in Vals(store[k]) :
        InSnapshot(s, k, v) \/ InHook(k, v) \/ OnWire(s, k, v) \/ Arrived(Of(s), k, v)

(* A node is AVAILABLE (and reads are routed to it) only when it holds all *)
(* of a snapshot it was sent: handleBootstrapping changes the state on an  *)
(* event that shares stream and store with live mutations.                 *)
AvailableHasSnapshot ==
  \A j \in Joiners : state[j] = "AVAILABLE" =>
    \E s \in Streams :
      /\ Of(s) = j /\ stream[s].ssSent
      /\ \A k \in Covers[j] : Vals(snap[s].copy[k]) \subseteq Vals(jstore[j][k])

(* Only the first entry of a key that reaches a joiner can be stored under *)
(* another version than the source gave it (PutRaw restamps it with 1);    *)
(* all others keep theirs, in whatever order the events come.              *)
Restamped(j, k) ==
  {i \in DOMAIN jstore[j][k] :
     \E n \in DOMAIN store[k] : /\ store[k][n].val = jstore[j][k][i].val
                               /\ store[k][n].ver # jstore[j][k][i].ver}

RestampsAtMostFirst ==
  \A j \in Joiners, k \in Keys : \A i, n \in Restamped(j, k) :
    i = n /\ jstore[j][k][i].ver = 1

(* The ticker goroutine closes the live channel while the snapshot's own   *)
(* channel may still be in use: the stream nevertheless says               *)
(* snapshotComplete once, after all of the snapshot, and liveComplete once,*)
(* as its last event; and a node is AVAILABLE only past a snapshotComplete.*)
AfterSnapshot == {"live", "liveComplete"}

StreamInOrder ==
  /\ \A s \in Streams :
       /\ \A i \in DOMAIN wire[s] :
            /\ wire[s][i].kind = "liveComplete" => i = Len(wire[s])
            /\ wire[s][i].kind = "snapshotComplete" =>
                 \A n \in DOMAIN wire[s] : n > i => wire[s][n].kind \in AfterSnapshot
       /\ ended[s] = "complete" => wire[s] = <<>> /\ Finished(s)
  /\ \A j \in Joiners : state[j] = "AVAILABLE" =>
       \E s \in Streams :
         /\ Of(s) = j /\ stream[s].ssSent
         /\ \A i \in DOMAIN wire[s] : wire[s][i].kind \in AfterSnapshot

(* A stream that was ended leaves no hook behind: no later put of the      *)
(* source can block in a channel nobody reads.                             *)
NoHookAfterStop == \A s \in Streams : tick[s] = "stopped" => hook # s

(* The ticker calls a function that another goroutine assigns, without a   *)
(* lock between them.  It calls it too early only if it was never going to *)
(* be assigned, because the source had not heard of the joiner: otherwise  *)
(* the end of the snapshot, which it waits for, comes after the assignment.*)
ResetAssigned ==
  crashed => \E s \in Streams : snap[s].pc = "end" /\ stream[s].reset = "unset"

-----------------------------------------------------------------------------
(* Liveness *)

(* readme.md:138-144: a node that starts bootstrapping becomes AVAILABLE,  *)
(* and the stream between the two nodes comes to its end, even if a second *)
(* handler starts a second stream and takes the state back.                *)
JoinerServes == \A j \in Joiners : state[j] = "BOOTSTRAPPING" ~> state[j] = "AVAILABLE"
StreamTerminates == \A s \in Streams : stream[s].handler = "on" ~> ended[s] = "complete"

(* data_store.go:135-139, "slow hook execution wont bog down the           *)
(* performance of Put": a put that runs a stream's hook comes to its end,  *)
(* if the handler has not seen the channel's close in the meantime; then   *)
(* the put is left with a channel variable that is nil.                    *)
PutEnds ==
  \A w \in Writers :
    put[w].pc # "idle" ~>
      \/ put[w].pc \in {"idle", "panicked"}
      \/ (put[w].pc = "sending" /\ stream[put[w].caught].live = "nil")

-----------------------------------------------------------------------------
(* What the comments promise and the code does not keep. *)

(* learnings/design_thoughts.md:67, "once replication ends, we can be sure *)
(* that new node is ready to serve traffic": it has every write of its     *)
(* keys that the source has.                                               *)
ReplicationIsComplete ==
  \A s \in Streams : ended[s] = "complete" =>
    \A k \in Covers[Of(s)] : Vals(store[k]) \subseteq Vals(jstore[Of(s)][k])
=============================================================================
