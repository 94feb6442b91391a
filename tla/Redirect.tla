------------------------------ MODULE Redirect ------------------------------
(***************************************************************************)
(* How a request finds its owner.  Every node looks the token up in its    *)
(* own gossip and, when the owner it finds is another node, sends the      *)
(* request there, where the same handler decides again (postData, and      *)
(* getData with readquorum -1).  Views differ: a node may not know of      *)
(* another one yet, not know what state it is in by now, or go back to an  *)
(* older state of it.  Gossip has the messages and stamps; what is left of *)
(* them here is that an entry shows a state its node was in, and how often *)
(* one arrives that is no longer true.                                     *)
(***************************************************************************)
EXTENDS Ring

CONSTANTS
  Eokr,               \* the token each node was started with
  Seed,
  SeedEokrs,          \* what NewNode of each node may read the seed's token as
  Cutoff,             \* nodes that may find their seed unreachable
  Replicas,           \* REPLICA_COUNT
  MaxLate             \* bound: how often something outdated takes effect

ASSUME EokrAssumption == Eokr \in [Ids -> 1..TotalSlots]
ASSUME SeedsAssumption == Seed \in Ids /\ SeedEokrs \in [Ids -> SUBSET (0..TotalSlots)]
ASSUME ReplicasAssumption == Replicas \in Nat
ASSUME MaxLateAssumption == MaxLate \in Nat

VARIABLES
  state,      \* Node.State
  been,       \* history: the states each node has been in
  view,       \* the gossip entries of each node
  late,       \* how often something outdated took effect
  request,    \* the request: its token, where it is, and how often it was sent on
  settled     \* history: all views have been complete since the request came

vars == <<state, been, view, late, request, settled>>

Truth == {[id |-> m, eokr |-> Eokr[m], state |-> state[m]] : m \in Ids}

Known(n) == {e.id : e \in view[n]}

AllKnowAll == \A n \in Ids : {[id |-> e.id, state |-> e.state] : e \in view[n]}
                             = {[id |-> m, state |-> state[m]] : m \in Ids}

(* What a node's own entry says of it. *)
SeesItselfAvailable(n) == \E e \in view[n] : e.id = n /\ e.state = "AVAILABLE"

NoRequest == [pc |-> "none", token |-> 0, at |-> Seed, hops |-> 0]

(* Bound: hops are counted to one more than there are nodes. *)
MaxHops == Cardinality(Ids) + 1

Request == [pc : {"none", "routing", "served", "failed"}, token : Tokens, at : Ids, hops : 0..MaxHops]

TypeOK ==
  /\ state \in [Ids -> States]
  /\ been \in [Ids -> SUBSET States]
  /\ view \in [Ids -> SUBSET Node]
  /\ \A n \in Ids : \A d, e \in view[n] : d.id = e.id => d = e
  /\ late \in 0..MaxLate
  /\ request \in Request
  /\ settled \in BOOLEAN

(* A node that reaches its seed starts with its entry, whose token it may  *)
(* read wrong.  One that does not starts a cluster of its own, as the seed *)
(* does: it knows only itself and is available at once.                    *)
Init ==
  \E alone \in {{Seed} \cup cut : cut \in SUBSET Cutoff} :
    /\ state = [n \in Ids |-> IF n \in alone THEN "AVAILABLE" ELSE "JOINING"]
    /\ \E seen \in [Ids -> 0..TotalSlots] :
         /\ \A n \in Ids : seen[n] \in SeedEokrs[n]
         /\ view = [n \in Ids |->
                      {[id |-> n, eokr |-> Eokr[n], state |-> state[n]]} \cup
                      (IF n \in alone THEN {}
                       ELSE {[id |-> Seed, eokr |-> seen[n], state |-> "AVAILABLE"]})]
    /\ been = [n \in Ids |-> {state[n]}]
    /\ late = 0
    /\ request = NoRequest
    /\ settled = FALSE

-----------------------------------------------------------------------------
(* A client's request reaches some node. *)
Submit(n, token) ==
  /\ request.pc = "none"
  /\ request' = [pc |-> "routing", token |-> token, at |-> n, hops |-> 0]
  /\ settled' = AllKnowAll
  /\ UNCHANGED <<state, been, view, late>>

(* The owner is looked up in the entries, sorted by token.  Hops are       *)
(* counted since the request came, or since a node sent it on that did not *)
(* see itself as available.                                                *)
Decide ==
  /\ request.pc = "routing"
  /\ UNCHANGED <<state, been, view, late, settled>>
  /\ \E nodes \in Sorted(view[request.at]) :
       LET owner == GetNode(nodes, request.token)
       IN  \/ /\ owner = None
              /\ request' = [request EXCEPT !.pc = "failed"]
           \/ /\ owner # None
              /\ owner.id = request.at
              /\ request' = [request EXCEPT !.pc = "served"]
           \/ /\ owner # None
              /\ owner.id # request.at
              /\ request' = [request EXCEPT !.at = owner.id,
                   !.hops = IF ~SeesItselfAvailable(request.at) THEN 1
                            ELSE IF @ < MaxHops THEN @ + 1 ELSE @]

-----------------------------------------------------------------------------
(* The state of a node *)

(* Bound: nothing is followed beyond the end of the request. *)
NotEnded == request.pc \in {"none", "routing"}

Outdated == late < MaxLate /\ late' = late + 1

ChangeTo(n, s) ==
  /\ NotEnded
  /\ state' = [state EXCEPT ![n] = s]
  /\ been' = [been EXCEPT ![n] = @ \cup {s}]
  /\ UNCHANGED <<view, request>>
  /\ settled' = (settled /\ AllKnowAll')

(* changeStateToBootStrappingIfReady *)
ChangeState(n) ==
  /\ state[n] = "JOINING"
  /\ ChangeTo(n, "BOOTSTRAPPING")
  /\ UNCHANGED late

(* Another handler passed the test for JOINING at the time and changes the *)
(* state when a copy is complete already.                                  *)
ChangeStateLate(n) ==
  /\ state[n] = "AVAILABLE"
  /\ "JOINING" \in been[n]
  /\ Outdated
  /\ ChangeTo(n, "BOOTSTRAPPING")

(* handleBootstrapping has a whole snapshot. *)
CopyComplete(n) ==
  /\ state[n] = "BOOTSTRAPPING"
  /\ ChangeTo(n, "AVAILABLE")
  /\ UNCHANGED late

-----------------------------------------------------------------------------
(* The entries of a node *)

(* A new entry is kept whole, of a known node only the state is taken. *)
Stored(V, new) ==
  IF \E e \in V : e.id = new.id
  THEN {IF e.id = new.id THEN [e EXCEPT !.state = new.state] ELSE e : e \in V}
  ELSE V \cup {new}

(* One that is the same as before changes nothing and is left out. *)
Store(n, entry) ==
  /\ NotEnded
  /\ UNCHANGED <<state, been, request>>
  /\ Stored(view[n], entry) # view[n]
  /\ view' = [view EXCEPT ![n] = Stored(@, entry)]
  /\ settled' = (settled /\ AllKnowAll')

Upsert(n, s) == Store(n, [id |-> n, eokr |-> Eokr[n], state |-> s])

(* BroadcastGossip stores the entry it has made up of the node's state... *)
Own(n) == UNCHANGED late /\ Upsert(n, state[n])

(* ...which by then may be an older one, whatever the entry shows. *)
OwnLate(n) == Outdated /\ \E s \in been[n] \ {state[n]} : Upsert(n, s)

(* What the nodes that know of n may tell it in their broadcasts. *)
ToldTo(n) == UNION {view[k] : k \in {j \in Ids \ {n} : n \in Known(j)}}

(* postGossip: n is told the state of a node, as it is. *)
Tell(n) ==
  /\ UNCHANGED late
  /\ \E entry \in ToldTo(n) : entry.state = state[entry.id] /\ Store(n, entry)

(* What n is told is no longer true, or stored over a newer entry, since   *)
(* comparison and store are two steps.  The entry may be n's own.          *)
TellLate(n) ==
  /\ Outdated
  /\ \E entry \in ToldTo(n) : \E s \in been[entry.id] \ {state[entry.id]} :
       Store(n, [entry EXCEPT !.state = s])

(* The node handleBootstrapping of n asks for its data, or None: the list  *)
(* comes out of the map unsorted.  TotalSlots is the largest uint64, and   *)
(* the sum wraps after it.                                                 *)
BootstrapSources(n) ==
  {GetNodeByToken(nodes, (Eokr[n] + 1) % (TotalSlots + 1)) : nodes \in MapToArr(view[n])}

GossipArrives == \E n \in Ids : Own(n) \/ Tell(n)

Next ==
  \/ \E n \in Ids, token \in Tokens : Submit(n, token)
  \/ Decide
  \/ \E n \in Ids : ChangeState(n) \/ ChangeStateLate(n) \/ CopyComplete(n)
  \/ \E n \in Ids : OwnLate(n) \/ TellLate(n)
  \/ GossipArrives

Spec == Init /\ [][Next]_vars

(* Handlers run and redirected requests arrive.  The tickers tick and tell *)
(* what is true by then, which Converges of Gossip shows of the messages.  *)
FairSpec == Spec /\ WF_vars(Decide) /\ WF_vars(GossipArrives)

-----------------------------------------------------------------------------
(* Every node has read the seed's token right: float64 and back does that  *)
(* to the largest uint64 on some machines only.                            *)
TokensRight == \A n \in Ids : \A e \in view[n] : e.eokr = Eokr[e.id]

(* A redirected request goes up again only from a node that does not see   *)
(* itself as available, because its state or its own entry went back after *)
(* others had learned of it: any other node sends it on to a lower token,  *)
(* however different the views are.  postData has no hop limit and relies  *)
(* on it.  Nodes of one token, which nothing in the code rules out, may    *)
(* send it to and fro.                                                     *)
HopsDescend ==
  [][TokensRight /\ request.pc = "routing" /\ request.hops > 0
     /\ SeesItselfAvailable(request.at) /\ request'.at # request.at
       => Eokr[request'.at] < Eokr[request.at]]_vars

(* So between two nodes that do not see themselves as available a request  *)
(* is sent on at most as often as there are nodes, although each of them   *)
(* may learn of better owners, or forget them, while it is on its way.     *)
HopsBounded == TokensRight => request.hops <= Cardinality(Ids)

(* While the views were complete, only the owner of a token serves it, even*)
(* if tokens were read wrong: two nodes would number the versions of one   *)
(* key independently.                                                      *)
ServedByOwner ==
  settled /\ request.pc = "served" =>
    IsOwner(Truth, request.token, [id |-> request.at, eokr |-> Eokr[request.at], state |-> state[request.at]])

(* The largest token belongs to a node that is available from the start,   *)
(* and HashKey never yields it: no request is without an owner, although   *)
(* an owner's range excludes its own token and states go back.  Only at a  *)
(* node that did not reach the seed at its start, and knows only itself,   *)
(* a request can fail.                                                     *)
AlwaysOwned == TokensRight /\ request.pc = "failed" => Seed \notin Known(request.at)

(* GetNNode, the replicas the handler of a request picks: as many different*)
(* nodes as asked for, the owner first, the others as they follow it on the*)
(* ring.                                                                   *)
ReplicasFollowOwner ==
  request.pc = "routing" =>
    LET known == view[request.at]
    IN  \A nodes \in Sorted(known) :
          LET chosen == GetNNode(nodes, request.token, Replicas + 1)
          IN  chosen # None =>
                /\ IsOwner(known, request.token, chosen[1])
                /\ \A i \in DOMAIN chosen : Distance(known, chosen[1], chosen[i]) = i - 1

(* From when a node starts to bootstrap it finds a source, in every state  *)
(* of its entries and in any order of the list, although the token after   *)
(* the largest one is the lowest (nodes/main.go:358).  Its source has been *)
(* available, that is, has had all its data once; it may have gone back to *)
(* BOOTSTRAPPING since.  A node whose entry went AVAILABLE before a second *)
(* handler looks is not its own source, unless the sum wraps.              *)
SourceFound ==
  \A n \in Ids : "BOOTSTRAPPING" \in been[n] =>
    \A source \in BootstrapSources(n) :
      IF source = None THEN ~TokensRight
      ELSE /\ "AVAILABLE" \in been[source.id]
           /\ source.id # n \/ Eokr[n] = TotalSlots

(* A redirected request comes to its end, although nodes whose states or   *)
(* entries went back may send it to and fro until gossip has told them.    *)
RequestEnds == TokensRight /\ request.pc = "routing" ~> request.pc \in {"served", "failed"}

-----------------------------------------------------------------------------
(* What the comments promise and the code does not keep. *)

(* helper.go:122, "nodes must be in increases order of EndOfKeyRange", and *)
(* main.go:354-355, "find node just to the right": handleBootstrapping     *)
(* asks the owner of the tokens the joining node takes over for its data.  *)
(* The lookup is made on the list as it comes out of the map.              *)
SourceIsOwner ==
  \A n \in Ids : state[n] = "BOOTSTRAPPING" /\ Eokr[n] < TotalSlots =>
    \A source \in BootstrapSources(n) \ {None} : IsOwner(view[n], Eokr[n], source)
=============================================================================
