------------------------------- MODULE Gossip -------------------------------
(***************************************************************************)
(* How the nodes learn of each other and of each other's state: the gossip *)
(* container of a node, BroadcastGossip, the postGossip handler with the   *)
(* switch from JOINING to BOOTSTRAPPING, and the start of a node.          *)
(*                                                                         *)
(* A broadcast posts to the known nodes one after the other and waits for  *)
(* each answer, so a broadcast and the handler that serves its current     *)
(* post are one thread of control here, a sender.  A node has two: its     *)
(* ticker, and the one it starts when it changes state.  The handlers that *)
(* run at a node at the same time are those of several senders.            *)
(*                                                                         *)
(* LastUpdate is only compared between entries of the same node, whose own *)
(* clock stamped both, so stamps are counters per node.  A broadcast of an *)
(* unchanged state may reuse the last stamp, which keeps them finite.      *)
(***************************************************************************)
EXTENDS Naturals, Sequences, FiniteSets

CONSTANTS
  Nodes,
  Seed,                   \* the first node, it starts without seed nodes
  Cutoff,                 \* nodes that may find their seed unreachable
  Unknown,                \* no gossip entry
  MaxRestamps,            \* bound: stamps a node uses beyond its state changes
  Lossy                   \* whether a post may fail

ASSUME NodesAssumption == IsFiniteSet(Nodes)
ASSUME SeedAssumption == Seed \in Nodes
ASSUME MaxRestampsAssumption == MaxRestamps \in Nat
ASSUME LossyAssumption == Lossy \in BOOLEAN

States == {"JOINING", "BOOTSTRAPPING", "AVAILABLE"}

Senders == Nodes \X {"ticker", "change"}

VARIABLES
  state,      \* Node.State
  view,       \* Gossip.store of each node
  count,      \* Gossip.stateCount of each node
  meta,       \* the end of Node.gossipMeta, as far as it is read
  sender,     \* the broadcasts
  change,     \* the nodes whose state-change broadcast is still to start
  copying,    \* how many handleBootstrapping run at each node
  announced   \* history: the state each node announced under each stamp

vars == <<state, view, count, meta, sender, change, copying, announced>>

-----------------------------------------------------------------------------
Entry == [state : States, stamp : Nat]

ASSUME UnknownAssumption == Unknown \notin Entry

Views == [Nodes -> Entry \cup {Unknown}]

Sender == [pc : {"idle", "own", "read", "post", "entries", "upsert",
                 "count", "record", "test", "change"},
           payload : Views, dests : SUBSET Nodes, at : Nodes,
           todo : SUBSET Nodes, id : Nodes, sizes : Seq(1..Cardinality(Nodes))]

TypeOK ==
  /\ state \in [Nodes -> States]
  /\ view \in [Nodes -> Views]
  /\ count \in [Nodes -> [States -> 0..Cardinality(Nodes)]]
  /\ meta \in [Nodes -> Seq(1..Cardinality(Nodes))]
  /\ \A n \in Nodes : Len(meta[n]) <= 3
  /\ sender \in [Senders -> Sender]
  /\ change \subseteq Nodes
  /\ copying \in [Nodes -> 0..Cardinality(Senders)]
  /\ announced \in [Nodes -> Seq(States)]

Nothing == [m \in Nodes |-> Unknown]

Knows(v) == {m \in Nodes : v[m] # Unknown}

Up(n) == view[n] # Nothing

(* Mutant of Recount: the entry that is replaced stays counted. *)
Recount_keepsOld(c, old, entry) == [c EXCEPT ![entry.state] = @ + 1]

(* The counts Upsert leaves behind when entry replaces old. *)
Recount(c, old, entry) ==
  LET less == IF old = Unknown THEN c ELSE [c EXCEPT ![old.state] = @ - 1]
  IN  [less EXCEPT ![entry.state] = @ + 1]

Upsert(n, m, entry) ==
  /\ view' = [view EXCEPT ![n][m] = entry]
  /\ count' = [count EXCEPT ![n] = Recount(@, view[n][m], entry)]

Idle(n) == [pc |-> "idle", payload |-> Nothing, dests |-> {}, at |-> n,
            todo |-> {}, id |-> n, sizes |-> <<>>]

NoCount == [s \in States |-> 0]

Init ==
  /\ state = [n \in Nodes |-> "JOINING"]
  /\ view = [n \in Nodes |-> Nothing]
  /\ count = [n \in Nodes |-> NoCount]
  /\ meta = [n \in Nodes |-> <<>>]
  /\ sender = [s \in Senders |-> Idle(s[1])]
  /\ change = {}
  /\ copying = [n \in Nodes |-> 0]
  /\ announced = [n \in Nodes |-> <<>>]

-----------------------------------------------------------------------------
(* NewNode *)

StartsAs(n, st, seeds) ==
  LET own == [state |-> st, stamp |-> 1]
      v == [m \in Nodes |-> IF m = n THEN own ELSE seeds[m]]
  IN  /\ state' = [state EXCEPT ![n] = st]
      /\ view' = [view EXCEPT ![n] = v]
      /\ count' = [count EXCEPT ![n] =
                     [s \in States |-> Cardinality({m \in Knows(v) : v[m].state = s})]]
      /\ announced' = [announced EXCEPT ![n] = <<st>>]
      /\ UNCHANGED <<meta, sender, change, copying>>

(* Without a seed, or with one it could not reach, a node is the first of  *)
(* a cluster and available at once.                                        *)
StartAlone(n) ==
  /\ ~Up(n)
  /\ n = Seed \/ n \in Cutoff
  /\ StartsAs(n, "AVAILABLE", Nothing)

(* The seed's metadata holds its present state and the time it was made.   *)
StartWithSeed(n) ==
  /\ ~Up(n)
  /\ n # Seed
  /\ Up(Seed)
  /\ StartsAs(n, "JOINING", [Nothing EXCEPT ![Seed] = [state |-> state[Seed], stamp |-> 0]])

-----------------------------------------------------------------------------
(* BroadcastGossip *)

Become(s, r) == sender' = [sender EXCEPT ![s] = r]

Stamps(n) ==
  LET now == Len(announced[n])
  IN  IF announced[n][now] # state[n] THEN {now + 1}
      ELSE IF now <= MaxRestamps THEN {now, now + 1} ELSE {now}

(* The node's own entry is made up from the node's state. *)
Begin(s) ==
  LET n == s[1]
  IN  /\ sender[s].pc = "idle"
      /\ Up(n)
      /\ s[2] = "change" => n \in change
      /\ change' = IF s[2] = "change" THEN change \ {n} ELSE change
      /\ \E stamp \in Stamps(n) :
           /\ announced' = [announced EXCEPT ![n] =
                IF stamp > Len(@) THEN Append(@, state[n]) ELSE @]
           /\ Become(s, [Idle(n) EXCEPT !.pc = "own",
                !.payload = [Nothing EXCEPT ![n] = [state |-> state[n], stamp |-> stamp]]])
      /\ UNCHANGED <<state, view, count, meta, copying>>

(* Mutant of Own: the state is read again after the stamp was taken. *)
Own_rereads(s) ==
  LET n == s[1]
  IN  /\ sender[s].pc = "own"
      /\ Upsert(n, n, [sender[s].payload[n] EXCEPT !.state = state[n]])
      /\ Become(s, [Idle(n) EXCEPT !.pc = "read"])
      /\ UNCHANGED <<state, meta, change, copying, announced>>

(* The own entry is stored... *)
Own(s) ==
  LET n == s[1]
  IN  /\ sender[s].pc = "own"
      /\ Upsert(n, n, sender[s].payload[n])
      /\ Become(s, [Idle(n) EXCEPT !.pc = "read"])
      /\ UNCHANGED <<state, meta, change, copying, announced>>

(* ...then everything known is read, by now perhaps another own entry. *)
Read(s) ==
  LET n == s[1]
  IN  /\ sender[s].pc = "read"
      /\ Become(s, [sender[s] EXCEPT !.pc = "post", !.payload = view[n],
                                     !.dests = Knows(view[n]) \ {n}])
      /\ UNCHANGED <<state, view, count, meta, change, copying, announced>>

(* The next post, whose handler starts at its destination. *)
Post(s, d) ==
  /\ sender[s].pc = "post"
  /\ d \in sender[s].dests
  /\ Become(s, [sender[s] EXCEPT !.pc = "entries", !.at = d, !.dests = @ \ {d},
                                 !.todo = Knows(sender[s].payload)])
  /\ UNCHANGED <<state, view, count, meta, change, copying, announced>>

PostFails(s) ==
  /\ Lossy
  /\ sender[s].pc = "post"
  /\ \E d \in sender[s].dests : Become(s, [sender[s] EXCEPT !.dests = @ \ {d}])
  /\ UNCHANGED <<state, view, count, meta, change, copying, announced>>

BroadcastEnds(s) ==
  /\ sender[s].pc = "post"
  /\ sender[s].dests = {}
  /\ Become(s, Idle(s[1]))
  /\ UNCHANGED <<state, view, count, meta, change, copying, announced>>

-----------------------------------------------------------------------------
(* postGossip at the node sender[s].at *)

(* Mutant of Compare: a known node's entry is never updated. *)
Compare_onlyNew(s) ==
  /\ sender[s].pc = "entries"
  /\ \E m \in sender[s].todo :
       Become(s, [sender[s] EXCEPT !.todo = @ \ {m}, !.id = m,
                    !.pc = IF view[sender[s].at][m] = Unknown THEN "upsert" ELSE "entries"])
  /\ UNCHANGED <<state, view, count, meta, change, copying, announced>>

(* Get: the entry is stored when it is new or later than the one found. *)
Compare(s) ==
  /\ sender[s].pc = "entries"
  /\ \E m \in sender[s].todo :
       LET old == view[sender[s].at][m]
           newer == old = Unknown \/ sender[s].payload[m].stamp > old.stamp
       IN  Become(s, [sender[s] EXCEPT !.todo = @ \ {m}, !.id = m,
                        !.pc = IF newer THEN "upsert" ELSE "entries"])
  /\ UNCHANGED <<state, view, count, meta, change, copying, announced>>

(* Upsert: whatever the container holds by now. *)
Store(s) ==
  /\ sender[s].pc = "upsert"
  /\ Upsert(sender[s].at, sender[s].id, sender[s].payload[sender[s].id])
  /\ Become(s, [sender[s] EXCEPT !.pc = "entries"])
  /\ UNCHANGED <<state, meta, change, copying, announced>>

(* changeStateToBootStrappingIfReady, first its test of the state. *)
Check(s) ==
  /\ sender[s].pc = "entries"
  /\ sender[s].todo = {}
  /\ Become(s, [sender[s] EXCEPT
                  !.pc = IF state[sender[s].at] = "JOINING" THEN "count" ELSE "post"])
  /\ UNCHANGED <<state, view, count, meta, change, copying, announced>>

LastThree(sizes) == IF Len(sizes) <= 3 THEN sizes ELSE Tail(sizes)

(* The list of numbers with the present one: append reads it... *)
CountNodes(s) ==
  LET n == sender[s].at
  IN  /\ sender[s].pc = "count"
      /\ Become(s, [sender[s] EXCEPT !.pc = "record",
                      !.sizes = LastThree(Append(meta[n], Cardinality(Knows(view[n]))))])
      /\ UNCHANGED <<state, view, count, meta, change, copying, announced>>

(* ...and it is assigned, over what another handler has appended meanwhile.*)
Record(s) ==
  /\ sender[s].pc = "record"
  /\ meta' = [meta EXCEPT ![sender[s].at] = sender[s].sizes]
  /\ Become(s, [sender[s] EXCEPT !.pc = "test", !.sizes = <<>>])
  /\ UNCHANGED <<state, view, count, change, copying, announced>>

(* The third gossip in a row that finds the same number of nodes... *)
Test(s) ==
  LET sizes == meta[sender[s].at]
      ready == Len(sizes) = 3 /\ sizes[1] = sizes[2] /\ sizes[2] = sizes[3]
  IN  /\ sender[s].pc = "test"
      /\ Become(s, [sender[s] EXCEPT !.pc = IF ready THEN "change" ELSE "post"])
      /\ UNCHANGED <<state, view, count, meta, change, copying, announced>>

(* ...starts the bootstrap, whatever the state is by now. *)
ChangeState(s) ==
  LET n == sender[s].at
  IN  /\ sender[s].pc = "change"
      /\ state' = [state EXCEPT ![n] = "BOOTSTRAPPING"]
      /\ change' = change \cup {n}
      /\ copying' = [copying EXCEPT ![n] = @ + 1]
      /\ Become(s, [sender[s] EXCEPT !.pc = "post"])
      /\ UNCHANGED <<view, count, meta, announced>>

-----------------------------------------------------------------------------
(* The stream of handleBootstrapping says that the snapshot is complete. *)
CopyComplete(n) ==
  /\ copying[n] > 0
  /\ copying' = [copying EXCEPT ![n] = @ - 1]
  /\ state' = [state EXCEPT ![n] = "AVAILABLE"]
  /\ UNCHANGED <<view, count, meta, sender, change, announced>>

Broadcast(s) == Begin(s) \/ Own(s) \/ Read(s) \/ (\E d \in Nodes : Post(s, d)) \/ BroadcastEnds(s)
Handle(s) ==
  \/ Compare(s) \/ Store(s) \/ Check(s)
  \/ CountNodes(s) \/ Record(s) \/ Test(s) \/ ChangeState(s)
Start(n) == StartAlone(n) \/ StartWithSeed(n)

Next ==
  \/ \E n \in Nodes : Start(n) \/ CopyComplete(n)
  \/ \E s \in Senders : Broadcast(s) \/ PostFails(s) \/ Handle(s)

Spec == Init /\ [][Next]_vars

(* Started nodes keep running and the ticker ticks.  A post may be lost,   *)
(* but not every one of those a node's ticker makes to another node.       *)
Fairness ==
  /\ \A n \in Nodes : WF_vars(Start(n)) /\ WF_vars(CopyComplete(n))
  /\ \A s \in Senders : WF_vars(Broadcast(s) \/ Handle(s))
  /\ \A n \in Nodes : \A d \in Nodes \ {n} : SF_vars(Post(<<n, "ticker">>, d))

FairSpec == Spec /\ Fairness

-----------------------------------------------------------------------------
(* postData decides by stateCount whether there are enough nodes: the      *)
(* counts are those of the entries, however handlers and broadcasts        *)
(* interleave their upserts.                                               *)
CountsMatch ==
  \A n \in Nodes, st \in States :
    count[n][st] = Cardinality({m \in Knows(view[n]) : view[n][m].state = st})

(* An entry travels through other nodes, and an Upsert may come late, yet  *)
(* an entry is always one its node announced, state and stamp together.    *)
(* Stamp 0 is a seed's creation time, read with its state at that moment.  *)
NothingInvented ==
  \A n, m \in Nodes : view[n][m] # Unknown /\ view[n][m].stamp > 0 =>
    /\ view[n][m].stamp <= Len(announced[m])
    /\ announced[m][view[n][m].stamp] = view[n][m].state

(* A node that found its seed unreachable formed a cluster of its own.     *)
SplitOff == \E n \in Nodes \ {Seed} : announced[n] # <<>> /\ announced[n][1] = "AVAILABLE"

(* readme.md:137, "ensuring all nodes have a consistent view of the        *)
(* topology": although posts are lost, in the end every node knows every   *)
(* node to be AVAILABLE, unless one could not reach its seed at its start. *)
Converges ==
  <>[](\/ SplitOff
       \/ \A n, m \in Nodes : view[n][m] # Unknown /\ view[n][m].state = "AVAILABLE")
=============================================================================
