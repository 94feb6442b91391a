--------------------------- MODULE Redirect_proofs --------------------------
(***************************************************************************)
(* Where a request ends, for any number of nodes, any tokens, any start    *)
(* and any way the nodes hear of one another, late entries and states that *)
(* go back included.                                                       *)
(***************************************************************************)
EXTENDS Redirect, Lemmas

(* What node n may have been told the token of m is. *)
EokrsSeenBy(n, m) == IF m = Seed /\ n # Seed THEN SeedEokrs[n] ELSE {Eokr[m]}

(* Only a node that has reached the seed joins, and the seed never does.   *)
BeenInv ==
  /\ been[Seed] = {"AVAILABLE"}
  /\ \A n \in Ids : /\ state[n] \in been[n]
                    /\ been[n] \cap {"JOINING", "BOOTSTRAPPING"} # {} => Seed \in Known(n)

(* A node without the seed is not told anything, as no other knows of it.  *)
Alone(n) == Known(n) = {n} /\ \A k \in Ids \ {n} : n \notin Known(k)

(* What every node knows: itself, the tokens of others as they may be read,*)
(* and of each node a state it was in.                                     *)
ViewInv ==
  \A n \in Ids :
    /\ n \in Known(n)
    /\ Seed \in Known(n) \/ Alone(n)
    /\ \A e \in view[n] : e.eokr \in EokrsSeenBy(n, e.id) /\ e.state \in been[e.id]

(* A request that was sent on is where some node saw a token above it.     *)
HopInv == TokensRight /\ request.hops > 0 => request.token < Eokr[request.at]

SettledInv == settled => AllKnowAll

IInv == TypeOK /\ BeenInv /\ ViewInv /\ HopInv /\ SettledInv

(* The seed is started with the largest token, as Makefile:2 does: the     *)
(* entry of every view that no token is above.                             *)
SeedAtTop == Eokr[Seed] = TotalSlots

(* No two nodes were given one token, nor is the seed's read as another's. *)
NoTokenTwice ==
  \A n \in Ids : \A a, b \in Ids : a # b => EokrsSeenBy(n, a) \cap EokrsSeenBy(n, b) = {}

-----------------------------------------------------------------------------
(* What a stored entry leaves of a view *)

(* Entries keep their node and its token, whatever is stored. *)
LEMMA StoredKeeps ==
  ASSUME NEW V \in SUBSET Node, NEW entry
  PROVE  \A e \in V : \E d \in Stored(V, entry) : d.id = e.id /\ d.eokr = e.eokr
<1> SUFFICES ASSUME NEW e \in V
             PROVE  \E d \in Stored(V, entry) : d.id = e.id /\ d.eokr = e.eokr
  OBVIOUS
<1> DEFINE d == IF e.id = entry.id THEN [e EXCEPT !.state = entry.state] ELSE e
<1>1. d.id = e.id /\ d.eokr = e.eokr
  BY DEF Node
<1>2. CASE \E c \in V : c.id = entry.id
  <2>1. d \in Stored(V, entry)
    BY <1>2 DEF Stored
  <2> QED BY <2>1, <1>1
<1>3. CASE ~ \E c \in V : c.id = entry.id
  <2>1. e \in Stored(V, entry)
    BY <1>3 DEF Stored
  <2> QED BY <2>1
<1> QED BY <1>2, <1>3

(* A stored entry is the new one, or an old one in the new one's state. *)
LEMMA StoredEntries ==
  ASSUME NEW V \in SUBSET Node, \A d, e \in V : d.id = e.id => d = e, NEW entry \in Node
  PROVE  /\ Stored(V, entry) \in SUBSET Node
         /\ \A d, e \in Stored(V, entry) : d.id = e.id => d = e
         /\ \A d \in Stored(V, entry) :
              \/ d \in V
              \/ d = entry /\ \A e \in V : e.id # entry.id
              \/ /\ d.id = entry.id /\ d.state = entry.state
                 /\ \E e \in V : e.id = entry.id /\ d.eokr = e.eokr
<1>1. CASE \E c \in V : c.id = entry.id
  <2> DEFINE f(e) == IF e.id = entry.id THEN [e EXCEPT !.state = entry.state] ELSE e
  <2>1. Stored(V, entry) = {f(e) : e \in V}
    BY <1>1 DEF Stored
  <2>2. ASSUME NEW e \in V
        PROVE  /\ f(e) \in Node /\ f(e).id = e.id /\ f(e).eokr = e.eokr
               /\ e.id # entry.id => f(e) = e
               /\ e.id = entry.id => f(e).state = entry.state
    BY DEF Node
  <2> HIDE DEF f
  <2>3. \A d \in Stored(V, entry) : \E e \in V : d = f(e)
    BY <2>1
  <2>4. \A d, e \in Stored(V, entry) : d.id = e.id => d = e
    BY <2>2, <2>3
  <2> QED BY <2>2, <2>3, <2>4
<1>2. CASE ~ \E c \in V : c.id = entry.id
  <2>1. Stored(V, entry) = V \cup {entry}
    BY <1>2 DEF Stored
  <2> QED BY <2>1, <1>2
<1> QED BY <1>1, <1>2

-----------------------------------------------------------------------------
(* The inductive invariant *)

(* The hops of a request, counted to MaxHops. *)
OneMore(h) == IF h < MaxHops THEN h + 1 ELSE h

LEMMA HopsType ==
  /\ Cardinality(Ids) \in Nat /\ MaxHops \in Nat /\ MaxHops = Cardinality(Ids) + 1
  /\ 0 \in 0..MaxHops /\ 1 \in 0..MaxHops
  /\ \A h \in 0..MaxHops : OneMore(h) \in 0..MaxHops /\ OneMore(h) > 0
<1>1. Cardinality(Ids) \in Nat
  BY IdsAssumption, FS_CardinalityType
<1> QED BY <1>1 DEF MaxHops, OneMore

(* A step submits the request, decides on it, changes one node's state, or *)
(* stores one entry.                                                       *)
LEMMA Steps ==
  ASSUME [Next]_vars
  PROVE  \/ UNCHANGED vars
         \/ \E n \in Ids, token \in Tokens : Submit(n, token)
         \/ Decide
         \/ \E n \in Ids : ChangeTo(n, "BOOTSTRAPPING") \/ ChangeTo(n, "AVAILABLE")
         \/ \E n \in Ids : \E entry : Store(n, entry)
BY DEF Next, ChangeState, ChangeStateLate, CopyComplete, GossipArrives, Own, OwnLate,
       Tell, TellLate, Upsert

(* At the start a node knows itself, and the seed if it reached it. *)
LEMMA InitInv == Init => IInv
<1> SUFFICES ASSUME Init PROVE IInv
  OBVIOUS
<1>1. PICK alone \in {{Seed} \cup cut : cut \in SUBSET Cutoff} :
        /\ state = [n \in Ids |-> IF n \in alone THEN "AVAILABLE" ELSE "JOINING"]
        /\ \E seen \in [Ids -> 0..TotalSlots] :
             /\ \A n \in Ids : seen[n] \in SeedEokrs[n]
             /\ view = [n \in Ids |->
                          {[id |-> n, eokr |-> Eokr[n], state |-> state[n]]} \cup
                          (IF n \in alone THEN {}
                           ELSE {[id |-> Seed, eokr |-> seen[n], state |-> "AVAILABLE"]})]
        /\ been = [n \in Ids |-> {state[n]}]
        /\ late = 0 /\ request = NoRequest /\ settled = FALSE
  BY DEF Init
<1>2. PICK seen \in [Ids -> 0..TotalSlots] :
        /\ \A n \in Ids : seen[n] \in SeedEokrs[n]
        /\ view = [n \in Ids |->
                     {[id |-> n, eokr |-> Eokr[n], state |-> state[n]]} \cup
                     (IF n \in alone THEN {}
                      ELSE {[id |-> Seed, eokr |-> seen[n], state |-> "AVAILABLE"]})]
  BY <1>1
<1>3. Seed \in alone
  OBVIOUS
<1>4. /\ state \in [Ids -> States] /\ been \in [Ids -> SUBSET States]
      /\ \A n \in Ids : been[n] = {state[n]} /\ (n \in alone <=> state[n] = "AVAILABLE")
      /\ been[Seed] = {"AVAILABLE"}
      /\ \A n \in Ids : n \notin alone => state[n] = "JOINING"
  BY <1>1, <1>3, SeedsAssumption DEF States
<1>5. ASSUME NEW n \in Ids
      PROVE  /\ view[n] \in SUBSET Node
             /\ \A d, e \in view[n] : d.id = e.id => d = e
             /\ \A e \in view[n] : e.eokr \in EokrsSeenBy(n, e.id) /\ e.state \in been[e.id]
             /\ Known(n) = IF n \in alone THEN {n} ELSE {n, Seed}
  <2> DEFINE own == [id |-> n, eokr |-> Eokr[n], state |-> state[n]]
             seed == [id |-> Seed, eokr |-> seen[n], state |-> "AVAILABLE"]
  <2>1. own \in Node /\ own.id = n /\ own.eokr = Eokr[n] /\ own.state = state[n]
    BY <1>4, EokrAssumption, TotalSlotsAssumption DEF Node
  <2>2. /\ seed \in Node /\ seed.id = Seed /\ seed.eokr = seen[n] /\ seed.state = "AVAILABLE"
        /\ seed.eokr \in SeedEokrs[n]
    BY <1>2, SeedsAssumption DEF Node, States
  <2>3. view[n] = {own} \cup (IF n \in alone THEN {} ELSE {seed})
    BY <1>2
  <2> HIDE DEF own, seed
  <2>4. CASE n \in alone
    <3>1. view[n] = {own}
      BY <2>3, <2>4
    <3>2. Eokr[n] \in EokrsSeenBy(n, n)
      BY DEF EokrsSeenBy
    <3>3. Known(n) = {n}
      BY <3>1, <2>1 DEF Known
    <3> QED BY <3>1, <3>2, <3>3, <2>1, <2>4, <1>4
  <2>5. CASE n \notin alone
    <3>1. view[n] = {own, seed} /\ n # Seed
      BY <2>3, <2>5, <1>3
    <3>2. Eokr[n] \in EokrsSeenBy(n, n) /\ EokrsSeenBy(n, Seed) = SeedEokrs[n]
      BY <3>1 DEF EokrsSeenBy
    <3>3. Known(n) = {n, Seed}
      BY <3>1, <2>1, <2>2 DEF Known
    <3> QED BY <3>1, <3>2, <3>3, <2>1, <2>2, <2>5, <1>4
  <2> QED BY <2>4, <2>5
<1>6. view \in [Ids -> SUBSET Node]
  BY <1>2, <1>5
<1>7. request \in Request /\ request.hops = 0 /\ settled = FALSE /\ late \in 0..MaxLate
  <2>1. 0 \in Tokens
    BY TotalSlotsAssumption DEF Tokens
  <2> QED BY <2>1, <1>1, HopsType, SeedsAssumption, MaxLateAssumption DEF NoRequest, Request
<1>8. TypeOK
  BY <1>4, <1>5, <1>6, <1>7 DEF TypeOK
<1>9. BeenInv
  BY <1>4, <1>5 DEF BeenInv
<1>10. ViewInv
  <2> SUFFICES ASSUME NEW n \in Ids, Seed \notin Known(n) PROVE Alone(n)
    BY <1>5 DEF ViewInv
  <2>1. n \in alone /\ n # Seed
    BY <1>5, <1>3
  <2> QED BY <2>1, <1>5 DEF Alone
<1>11. HopInv /\ SettledInv
  BY <1>7 DEF HopInv, SettledInv
<1> QED BY <1>8, <1>9, <1>10, <1>11 DEF IInv

(* A request is accepted by any node. *)
LEMMA SubmitInv ==
  ASSUME IInv, NEW n \in Ids, NEW token \in Tokens, Submit(n, token)
  PROVE  IInv'
<1>1. /\ request' = [pc |-> "routing", token |-> token, at |-> n, hops |-> 0]
      /\ settled' = AllKnowAll /\ state' = state /\ view' = view
      /\ been' = been /\ late' = late
  BY DEF Submit
<1>2. TypeOK'
  <2>1. request' \in Request
    BY <1>1, HopsType DEF Request
  <2>2. settled' \in BOOLEAN
    BY <1>1 DEF AllKnowAll
  <2> QED BY <2>1, <2>2, <1>1 DEF IInv, TypeOK
<1>3. ViewInv' /\ BeenInv'
  BY <1>1 DEF IInv, ViewInv, BeenInv, Alone, Known
<1>4. HopInv'
  <2>1. request'.hops = 0
    BY <1>1
  <2> QED BY <2>1 DEF HopInv
<1>5. SettledInv'
  <2>1. AllKnowAll' = AllKnowAll
    BY <1>1 DEF AllKnowAll
  <2> QED BY <2>1, <1>1 DEF SettledInv
<1> QED BY <1>2, <1>3, <1>4, <1>5 DEF IInv

(* What is known of the owner a node finds. *)
LEMMA OwnerKnown ==
  ASSUME IInv, NEW n \in Ids, NEW nodes \in Sorted(view[n]), NEW token \in Tokens,
         NEW owner, owner = GetNode(nodes, token), owner # None
  PROVE  /\ IsOwner(view[n], token, owner) /\ owner \in Node /\ owner \in view[n]
         /\ owner.id \in Ids /\ owner.state = "AVAILABLE"
         /\ token \in Nat /\ token < owner.eokr
<1>1. view[n] \in SUBSET Node /\ \A d, e \in view[n] : d.id = e.id => d = e
  BY DEF IInv, TypeOK
<1>2. IsFiniteSet(view[n]) /\ token \in Nat
  BY <1>1, ViewFinite, TotalSlotsAssumption DEF Tokens
<1>3. IsOwner(view[n], token, owner)
  BY <1>1, <1>2, GetNodeOwner
<1>4. owner \in view[n] /\ owner \in Node /\ owner.state = "AVAILABLE" /\ token < owner.eokr
  BY <1>1, <1>3 DEF IsOwner, Serves
<1> QED BY <1>1, <1>2, <1>3, <1>4 DEF Node

(* What a handler makes of a request: it fails, is served where it is, or  *)
(* goes to the owner the node sees.                                        *)
LEMMA Decided ==
  ASSUME IInv, Decide
  PROVE  /\ request \in Request /\ request.at \in Ids /\ request.token \in Tokens
         /\ request.pc = "routing" /\ request.hops \in 0..MaxHops
         /\ state' = state /\ been' = been /\ view' = view /\ late' = late
         /\ settled' = settled
         /\ request' \in Request /\ request'.token = request.token
         /\ \E nodes \in Sorted(view[request.at]) : \E owner :
              /\ owner = GetNode(nodes, request.token)
              /\ \/ /\ owner = None /\ request'.pc = "failed"
                    /\ request'.at = request.at /\ request'.hops = request.hops
                 \/ /\ owner # None /\ owner.id = request.at /\ request'.pc = "served"
                    /\ request'.at = request.at /\ request'.hops = request.hops
                 \/ /\ owner # None /\ owner.id # request.at /\ request'.pc = "routing"
                    /\ request'.at = owner.id
                    /\ request'.hops = IF ~SeesItselfAvailable(request.at) THEN 1
                                       ELSE OneMore(request.hops)
<1> DEFINE hops == IF ~SeesItselfAvailable(request.at) THEN 1 ELSE OneMore(request.hops)
<1>1. /\ request \in Request /\ request.at \in Ids /\ request.token \in Tokens
      /\ request.pc = "routing" /\ request.hops \in 0..MaxHops
      /\ state' = state /\ been' = been /\ view' = view /\ late' = late
      /\ settled' = settled
  BY DEF IInv, TypeOK, Request, Decide
<1>2. PICK nodes \in Sorted(view[request.at]) : \E owner :
        /\ owner = GetNode(nodes, request.token)
        /\ \/ /\ owner = None
              /\ request' = [request EXCEPT !.pc = "failed"]
           \/ /\ owner # None
              /\ owner.id = request.at
              /\ request' = [request EXCEPT !.pc = "served"]
           \/ /\ owner # None
              /\ owner.id # request.at
              /\ request' = [request EXCEPT !.at = owner.id, !.hops = hops]
  BY DEF Decide, OneMore
<1>3. PICK owner :
        /\ owner = GetNode(nodes, request.token)
        /\ \/ /\ owner = None
              /\ request' = [request EXCEPT !.pc = "failed"]
           \/ /\ owner # None
              /\ owner.id = request.at
              /\ request' = [request EXCEPT !.pc = "served"]
           \/ /\ owner # None
              /\ owner.id # request.at
              /\ request' = [request EXCEPT !.at = owner.id, !.hops = hops]
  BY <1>2
<1>4. owner # None => owner.id \in Ids
  BY <1>1, <1>3, OwnerKnown
<1>5. hops \in 0..MaxHops
  BY <1>1, HopsType
<1> HIDE DEF hops
<1>6. /\ request' \in Request /\ request'.token = request.token
      /\ \/ /\ owner = None /\ request'.pc = "failed"
            /\ request'.at = request.at /\ request'.hops = request.hops
         \/ /\ owner # None /\ owner.id = request.at /\ request'.pc = "served"
            /\ request'.at = request.at /\ request'.hops = request.hops
         \/ /\ owner # None /\ owner.id # request.at /\ request'.pc = "routing"
            /\ request'.at = owner.id /\ request'.hops = hops
  BY <1>1, <1>3, <1>4, <1>5 DEF Request
<1> QED BY <1>1, <1>3, <1>6 DEF hops

(* A handler sends the request to a node it sees with a higher token. *)
LEMMA DecideInv ==
  ASSUME IInv, Decide
  PROVE  IInv'
<1>1. /\ request.at \in Ids /\ request.token \in Tokens
      /\ state' = state /\ been' = been /\ view' = view /\ late' = late
      /\ settled' = settled
      /\ request' \in Request /\ request'.token = request.token
  BY Decided
<1>2. TypeOK'
  BY <1>1 DEF IInv, TypeOK
<1>3. ViewInv' /\ BeenInv' /\ SettledInv'
  BY <1>1 DEF IInv, ViewInv, BeenInv, Alone, Known, SettledInv, AllKnowAll
<1>4. HopInv'
  <2>1. TokensRight' = TokensRight
    BY <1>1 DEF TokensRight
  <2>2. PICK nodes \in Sorted(view[request.at]) : \E owner :
          /\ owner = GetNode(nodes, request.token)
          /\ \/ request'.at = request.at /\ request'.hops = request.hops
             \/ owner # None /\ request'.at = owner.id
    BY Decided
  <2>3. CASE request'.at = request.at /\ request'.hops = request.hops
    BY <2>1, <2>3, <1>1 DEF IInv, HopInv
  <2>4. ASSUME NEW owner, owner = GetNode(nodes, request.token), owner # None,
               request'.at = owner.id
        PROVE  HopInv'
    <3>1. owner.id \in Ids /\ owner \in view[request.at] /\ request.token < owner.eokr
      BY <1>1, <2>4, OwnerKnown
    <3>2. TokensRight => owner.eokr = Eokr[owner.id]
      BY <1>1, <3>1 DEF TokensRight
    <3> QED BY <3>1, <3>2, <2>1, <2>4, <1>1 DEF HopInv
  <2> QED BY <2>2, <2>3, <2>4
<1> QED BY <1>2, <1>3, <1>4 DEF IInv

(* Gossip keeps what it has been told of a token. *)
LEMMA TokensStay ==
  ASSUME TypeOK, [Next]_vars
  PROVE  /\ TokensRight' => TokensRight
         /\ \A k \in Ids : Known(k) \subseteq Known(k)'
<1>1. view \in [Ids -> SUBSET Node]
  BY DEF TypeOK
<1>2. ASSUME NEW k \in Ids, NEW e \in view[k]
      PROVE  \E d \in view'[k] : d.id = e.id /\ d.eokr = e.eokr
  <2>1. CASE view' = view
    BY <2>1
  <2>2. ASSUME NEW n \in Ids, NEW entry, Store(n, entry)
        PROVE  \E d \in view'[k] : d.id = e.id /\ d.eokr = e.eokr
    <3>1. view'[k] = view[k] \/ view'[k] = Stored(view[k], entry)
      BY <1>1, <2>2 DEF Store
    <3> QED BY <3>1, <1>1, StoredKeeps
  <2> QED BY <2>1, <2>2, Steps DEF vars, Submit, Decide, ChangeTo
<1> QED BY <1>2 DEF TokensRight, Known

(* A node that joins knows the seed; it changes its state alone. *)
LEMMA ChangeInv ==
  ASSUME IInv, NEW n \in Ids, NEW s \in {"BOOTSTRAPPING", "AVAILABLE"}, ChangeTo(n, s),
         late' \in 0..MaxLate, Seed \in Known(n), n # Seed
  PROVE  IInv'
<1>1. /\ state \in [Ids -> States] /\ been \in [Ids -> SUBSET States] /\ s \in States
  BY DEF IInv, TypeOK, States
<1>2. /\ state' \in [Ids -> States] /\ been' \in [Ids -> SUBSET States]
      /\ view' = view /\ request' = request /\ settled' = (settled /\ AllKnowAll')
      /\ state'[n] = s /\ been'[n] = been[n] \cup {s}
      /\ \A m \in Ids \ {n} : state'[m] = state[m] /\ been'[m] = been[m]
  BY <1>1 DEF ChangeTo
<1>3. TypeOK'
  <2>1. settled' \in BOOLEAN
    BY <1>2
  <2> QED BY <2>1, <1>2 DEF IInv, TypeOK
<1>4. BeenInv'
  <2>1. \A m \in Ids : Known(m)' = Known(m)
    BY <1>2 DEF Known
  <2> QED BY <2>1, <1>2, SeedsAssumption DEF IInv, BeenInv
<1>5. ViewInv'
  <2>1. \A m \in Ids : Known(m)' = Known(m) /\ Alone(m)' = Alone(m)
    BY <1>2 DEF Known, Alone
  <2>2. \A m \in Ids : \A e \in view[m] : e.id \in Ids
    BY DEF IInv, TypeOK, Node
  <2>3. \A m \in Ids : been[m] \subseteq been'[m]
    BY <1>2
  <2> QED BY <2>1, <2>2, <2>3, <1>2 DEF IInv, ViewInv
<1>6. HopInv'
  BY <1>2 DEF IInv, HopInv, TokensRight
<1>7. SettledInv'
  BY <1>2 DEF SettledInv
<1> QED BY <1>3, <1>4, <1>5, <1>6, <1>7 DEF IInv

(* An entry of the node itself, or one that a node has that knows of it,   *)
(* in a state its node was in: a node that knows of no other hears nothing,*)
(* and one that knows the seed keeps the token it has read of it.          *)
LEMMA StoreInv ==
  ASSUME IInv, NEW n \in Ids, NEW entry \in Node, Store(n, entry), late' \in 0..MaxLate,
         entry.state \in been[entry.id],
         \/ entry.id = n /\ entry.eokr = Eokr[n]
         \/ \E k \in Ids \ {n} : /\ n \in Known(k)
                                 /\ \E e \in view[k] : e.id = entry.id /\ e.eokr = entry.eokr
  PROVE  IInv'
<1>1. /\ view \in [Ids -> SUBSET Node] /\ view[n] \in SUBSET Node
      /\ \A d, e \in view[n] : d.id = e.id => d = e
  BY DEF IInv, TypeOK
<1>2. /\ state' = state /\ been' = been /\ request' = request
      /\ settled' = (settled /\ AllKnowAll')
      /\ view'[n] = Stored(view[n], entry)
      /\ \A m \in Ids \ {n} : view'[m] = view[m]
  BY <1>1 DEF Store
<1>3. /\ view'[n] \in SUBSET Node
      /\ \A d, e \in view'[n] : d.id = e.id => d = e
      /\ \A d \in view'[n] :
           \/ d \in view[n]
           \/ d = entry /\ \A e \in view[n] : e.id # entry.id
           \/ /\ d.id = entry.id /\ d.state = entry.state
              /\ \E e \in view[n] : e.id = entry.id /\ d.eokr = e.eokr
  BY <1>1, <1>2, StoredEntries
<1>4. TypeOK'
  <2>1. view' \in [Ids -> SUBSET Node]
    BY <1>1, <1>2, <1>3 DEF Store
  <2>2. \A m \in Ids : \A d, e \in view'[m] : d.id = e.id => d = e
    BY <1>2, <1>3 DEF IInv, TypeOK
  <2>3. settled' \in BOOLEAN
    BY <1>2
  <2> QED BY <2>1, <2>2, <2>3, <1>2 DEF IInv, TypeOK
<1>5. \A m \in Ids : Known(m) \subseteq Known(m)' /\ (m # n => Known(m)' = Known(m))
  <2>1. Known(n) \subseteq Known(n)'
    BY <1>1, <1>2, StoredKeeps DEF Known
  <2> QED BY <2>1, <1>2 DEF Known
<1>6. Known(n)' \subseteq Known(n) \cup {entry.id}
  BY <1>3 DEF Known
<1>7. BeenInv'
  BY <1>2, <1>5 DEF IInv, BeenInv
<1>8. (TokensRight' => TokensRight) /\ entry.id \in Ids
  <2>1. ASSUME NEW k \in Ids, NEW e \in view[k]
        PROVE  \E d \in view'[k] : d.id = e.id /\ d.eokr = e.eokr
    BY <1>1, <1>2, StoredKeeps
  <2> QED BY <2>1 DEF TokensRight, Node
<1>9. ASSUME NEW m \in Ids, Seed \notin Known(m), Alone(m)
      PROVE  Known(m)' = Known(m) /\ Alone(m)'
  <2>1. \A k \in Ids \ {m} : m \notin Known(k)
    BY <1>9 DEF Alone
  <2>2. CASE m = n
    <3>1. entry.id = n
      BY <2>1, <2>2
    <3>2. Known(n)' = Known(n)
      BY <3>1, <2>2, <1>5, <1>6, <1>9 DEF Alone
    <3> QED BY <3>2, <2>1, <2>2, <1>5, <1>9 DEF Alone
  <2>3. CASE m # n
    <3>1. entry.id # m
      <4> SUFFICES ASSUME entry.id = m PROVE FALSE
        OBVIOUS
      <4>1. PICK k \in Ids \ {n} : n \in Known(k) /\ \E e \in view[k] : e.id = m
        BY <2>3
      <4>2. m \in Known(k)
        BY <4>1 DEF Known
      <4>3. k = m /\ n \in Known(m)
        BY <4>1, <4>2, <2>1
      <4> QED BY <4>3, <2>3, <1>9 DEF Alone
    <3>2. m \notin Known(n)'
      BY <3>1, <2>1, <2>3, <1>6
    <3> QED BY <3>2, <2>1, <2>3, <1>5, <1>9 DEF Alone
  <2> QED BY <2>2, <2>3
<1>10. ASSUME \A e \in view[n] : e.id # entry.id
       PROVE  entry.eokr \in EokrsSeenBy(n, entry.id)
  <2>1. entry.id # n
    BY <1>10 DEF IInv, ViewInv, Known
  <2>2. PICK k \in Ids \ {n} : /\ n \in Known(k)
                               /\ \E e \in view[k] : e.id = entry.id /\ e.eokr = entry.eokr
    BY <2>1
  <2>3. Seed \in Known(n)
    BY <2>2 DEF IInv, ViewInv, Alone
  <2>4. entry.id # Seed
    BY <2>3, <1>10 DEF Known
  <2>5. entry.eokr \in EokrsSeenBy(k, entry.id)
    BY <2>2 DEF IInv, ViewInv
  <2> QED BY <2>4, <2>5 DEF EokrsSeenBy
<1>11. ViewInv'
  <2> SUFFICES ASSUME NEW m \in Ids
               PROVE  /\ m \in Known(m)'
                      /\ Seed \in Known(m)' \/ Alone(m)'
                      /\ \A d \in view'[m] : d.eokr \in EokrsSeenBy(m, d.id) /\ d.state \in been[d.id]
    BY <1>2 DEF ViewInv
  <2>1. m \in Known(m)' /\ (Seed \in Known(m)' \/ Alone(m)')
    BY <1>5, <1>9 DEF IInv, ViewInv
  <2>2. ASSUME m # n
        PROVE  \A d \in view'[m] : d.eokr \in EokrsSeenBy(m, d.id) /\ d.state \in been[d.id]
    BY <2>2, <1>2 DEF IInv, ViewInv
  <2>3. ASSUME m = n, NEW d \in view'[m]
        PROVE  d.eokr \in EokrsSeenBy(m, d.id) /\ d.state \in been[d.id]
    <3>1. \A e \in view[n] : e.eokr \in EokrsSeenBy(n, e.id) /\ e.state \in been[e.id]
      BY DEF IInv, ViewInv
    <3>2. \/ d \in view[n]
          \/ d = entry /\ \A e \in view[n] : e.id # entry.id
          \/ /\ d.id = entry.id /\ d.state = entry.state
             /\ \E e \in view[n] : e.id = entry.id /\ d.eokr = e.eokr
      BY <2>3, <1>3
    <3> QED BY <3>1, <3>2, <2>3, <1>10
  <2> QED BY <2>1, <2>2, <2>3
<1>12. HopInv' /\ SettledInv'
  BY <1>2, <1>8 DEF IInv, HopInv, SettledInv
<1> QED BY <1>4, <1>7, <1>11, <1>12 DEF IInv

(* What a broadcast may tell a node is an entry of one that knows of it. *)
LEMMA Told ==
  ASSUME IInv, NEW n \in Ids, NEW e \in ToldTo(n), NEW s \in been[e.id]
  PROVE  /\ [e EXCEPT !.state = s] \in Node
         /\ [e EXCEPT !.state = s].state = s /\ [e EXCEPT !.state = s].id = e.id
         /\ \E k \in Ids \ {n} : /\ n \in Known(k)
                                 /\ \E d \in view[k] : d.id = e.id /\ d.eokr = [e EXCEPT !.state = s].eokr
<1>1. PICK k \in Ids \ {n} : n \in Known(k) /\ e \in view[k]
  BY DEF ToldTo
<1>2. e \in Node /\ s \in States
  BY <1>1 DEF IInv, TypeOK, Node
<1> QED BY <1>1, <1>2 DEF Node

LEMMA StepInv == IInv /\ [Next]_vars => IInv'
<1> SUFFICES ASSUME IInv, [Next]_vars PROVE IInv'
  OBVIOUS
<1>1. ASSUME NEW n \in Ids, NEW token \in Tokens, Submit(n, token) PROVE IInv'
  BY <1>1, SubmitInv
<1>2. CASE Decide
  BY <1>2, DecideInv
<1>3. late \in 0..MaxLate /\ (Outdated => late' \in 0..MaxLate)
  BY MaxLateAssumption DEF IInv, TypeOK, Outdated
<1>4. ASSUME NEW n \in Ids, {"JOINING", "BOOTSTRAPPING"} \cap been[n] # {}
      PROVE  Seed \in Known(n) /\ n # Seed
  BY <1>4 DEF IInv, BeenInv
<1>5. ASSUME NEW n \in Ids PROVE state[n] \in been[n]
  BY DEF IInv, BeenInv
<1>6. ASSUME NEW n \in Ids, ChangeState(n) PROVE IInv'
  BY <1>3, <1>4, <1>5, <1>6, ChangeInv DEF ChangeState
<1>7. ASSUME NEW n \in Ids, ChangeStateLate(n) PROVE IInv'
  BY <1>3, <1>4, <1>7, ChangeInv DEF ChangeStateLate
<1>8. ASSUME NEW n \in Ids, CopyComplete(n) PROVE IInv'
  BY <1>3, <1>4, <1>5, <1>8, ChangeInv DEF CopyComplete
<1>9. ASSUME NEW n \in Ids, NEW s \in been[n], Upsert(n, s), late' \in 0..MaxLate PROVE IInv'
  <2> DEFINE entry == [id |-> n, eokr |-> Eokr[n], state |-> s]
  <2>1. s \in States
    BY <1>9 DEF IInv, TypeOK
  <2>2. entry \in Node /\ entry.id = n /\ entry.eokr = Eokr[n] /\ entry.state = s
    BY <2>1, EokrAssumption, TotalSlotsAssumption DEF Node
  <2>3. Store(n, entry)
    BY <1>9 DEF Upsert
  <2> HIDE DEF entry
  <2> QED BY <2>2, <2>3, <1>9, StoreInv
<1>10. ASSUME NEW n \in Ids, Own(n) PROVE IInv'
  BY <1>3, <1>5, <1>9, <1>10 DEF Own
<1>11. ASSUME NEW n \in Ids, OwnLate(n) PROVE IInv'
  BY <1>3, <1>9, <1>11 DEF OwnLate
<1>12. ASSUME NEW n \in Ids, NEW e \in ToldTo(n), NEW s \in been[e.id],
              Store(n, [e EXCEPT !.state = s]), late' \in 0..MaxLate
       PROVE  IInv'
  <2> DEFINE entry == [e EXCEPT !.state = s]
  <2>1. /\ entry \in Node /\ entry.state = s /\ entry.id = e.id
        /\ \E k \in Ids \ {n} : /\ n \in Known(k)
                                /\ \E d \in view[k] : d.id = e.id /\ d.eokr = entry.eokr
    BY Told
  <2>2. Store(n, entry)
    BY <1>12
  <2> HIDE DEF entry
  <2> QED BY <2>1, <2>2, <1>12, StoreInv
<1>13. ASSUME NEW n \in Ids, Tell(n) PROVE IInv'
  <2>1. PICK e \in ToldTo(n) : e.state = state[e.id] /\ Store(n, e)
    BY <1>13 DEF Tell
  <2>2. e \in Node /\ e.id \in Ids
    BY DEF IInv, TypeOK, ToldTo, Node
  <2>3. e = [e EXCEPT !.state = state[e.id]]
    BY <2>1, <2>2 DEF Node
  <2> QED BY <2>1, <2>2, <2>3, <1>3, <1>5, <1>12, <1>13 DEF Tell
<1>14. ASSUME NEW n \in Ids, TellLate(n) PROVE IInv'
  BY <1>3, <1>12, <1>14 DEF TellLate
<1>15. CASE UNCHANGED vars
  <2>1. /\ state' = state /\ been' = been /\ view' = view /\ late' = late
        /\ request' = request /\ settled' = settled
    BY <1>15 DEF vars
  <2>2. TypeOK'
    BY <2>1 DEF IInv, TypeOK
  <2>3. BeenInv' /\ ViewInv'
    BY <2>1 DEF IInv, BeenInv, ViewInv, Alone, Known
  <2>4. HopInv' /\ SettledInv'
    BY <2>1 DEF IInv, HopInv, TokensRight, SettledInv, AllKnowAll
  <2> QED BY <2>2, <2>3, <2>4 DEF IInv
<1> QED BY <1>1, <1>2, <1>6, <1>7, <1>8, <1>10, <1>11, <1>13, <1>14, <1>15 DEF Next, GossipArrives

LEMMA Invariance == Spec => []IInv
BY InitInv, StepInv, PTL DEF Spec

-----------------------------------------------------------------------------
(* What requests are promised *)

(* A request that was sent on before only goes on to a lower token, but    *)
(* for a node that does not see itself as available.                       *)
LEMMA HopDown ==
  ASSUME NoTokenTwice, IInv, [Next]_vars, TokensRight,
         request.pc = "routing", request.hops > 0, SeesItselfAvailable(request.at),
         request'.at # request.at
  PROVE  Eokr[request'.at] < Eokr[request.at]
<1>1. Decide
  BY Steps DEF Submit, ChangeTo, Store, vars
<1>2. request.at \in Ids /\ request.token \in Tokens
  BY <1>1, Decided
<1>3. PICK nodes \in Sorted(view[request.at]) : \E owner :
        /\ owner = GetNode(nodes, request.token) /\ owner # None
        /\ owner.id # request.at /\ request'.at = owner.id
  BY <1>1, Decided
<1>4. PICK owner :
        /\ owner = GetNode(nodes, request.token) /\ owner # None
        /\ owner.id # request.at /\ request'.at = owner.id
  BY <1>3
<1>5. /\ IsOwner(view[request.at], request.token, owner) /\ owner \in view[request.at]
      /\ owner.id \in Ids
  BY <1>2, <1>4, OwnerKnown
<1>6. PICK own \in view[request.at] : own.id = request.at /\ own.state = "AVAILABLE"
  BY DEF SeesItselfAvailable
<1>7. own.eokr = Eokr[request.at] /\ request.token < Eokr[request.at]
  BY <1>2, <1>6 DEF TokensRight, IInv, HopInv
<1>8. owner.eokr <= Eokr[request.at]
  BY <1>5, <1>6, <1>7 DEF IsOwner, Serves
<1>9. owner.eokr = Eokr[owner.id]
  BY <1>2, <1>5 DEF TokensRight
<1>10. Eokr[owner.id] # Eokr[request.at]
  <2>1. EokrsSeenBy(request.at, owner.id) \cap EokrsSeenBy(request.at, request.at) = {}
    BY <1>2, <1>4, <1>5 DEF NoTokenTwice
  <2>2. /\ owner.eokr \in EokrsSeenBy(request.at, owner.id)
        /\ Eokr[request.at] \in EokrsSeenBy(request.at, request.at)
    BY <1>2, <1>5 DEF IInv, ViewInv, EokrsSeenBy
  <2> QED BY <2>1, <2>2, <1>9
<1> QED BY <1>2, <1>4, <1>5, <1>8, <1>9, <1>10, EokrAssumption, TotalSlotsAssumption

(* Between nodes of one token the order in which a sort leaves them        *)
(* decides, and a request may go to and fro.  Where no two nodes have the  *)
(* same token, a request that was sent on once goes on to a lower token,   *)
(* unless the node it reaches does not see itself as available, because    *)
(* its state or its own entry went back (nodes/main.go:334-344, 438).      *)
THEOREM HopsGoDown ==
  ASSUME NoTokenTwice
  PROVE  Spec => HopsDescend
<1>1. IInv /\ [Next]_vars =>
        [TokensRight /\ request.pc = "routing" /\ request.hops > 0
         /\ SeesItselfAvailable(request.at) /\ request'.at # request.at
           => Eokr[request'.at] < Eokr[request.at]]_vars
  BY HopDown
<1> QED BY Invariance, <1>1, PTL DEF Spec, HopsDescend

(* Each further hop uses up one of the nodes whose token is lower than     *)
(* that of the node the request is at.                                     *)
Below(n) == {k \in Ids : Eokr[k] < Eokr[n]}

HopsLeft ==
  TokensRight /\ request.hops > 0 => request.hops + Cardinality(Below(request.at)) <= Cardinality(Ids)

LEMMA BelowCounts ==
  /\ \A n \in Ids : Cardinality(Below(n)) \in Nat /\ 1 + Cardinality(Below(n)) <= Cardinality(Ids)
  /\ \A n, m \in Ids : Eokr[m] < Eokr[n] => 1 + Cardinality(Below(m)) <= Cardinality(Below(n))
<1>1. \A n \in Ids : Eokr[n] \in Nat
  BY EokrAssumption, TotalSlotsAssumption
<1>2. \A n \in Ids : /\ Below(n) \subseteq Ids /\ n \notin Below(n)
                     /\ IsFiniteSet(Below(n)) /\ Cardinality(Below(n)) \in Nat
  <2> SUFFICES ASSUME NEW n \in Ids
               PROVE  /\ Below(n) \subseteq Ids /\ n \notin Below(n)
                      /\ IsFiniteSet(Below(n)) /\ Cardinality(Below(n)) \in Nat
    OBVIOUS
  <2>1. Below(n) \subseteq Ids /\ n \notin Below(n)
    BY <1>1 DEF Below
  <2>2. IsFiniteSet(Below(n))
    BY <2>1, IdsAssumption, FS_Subset
  <2> QED BY <2>1, <2>2, FS_CardinalityType
<1>3. ASSUME NEW n \in Ids, NEW S, IsFiniteSet(S), n \in S, Below(n) \subseteq S
      PROVE  1 + Cardinality(Below(n)) <= Cardinality(S)
  <2>1. Cardinality(Below(n) \cup {n}) = Cardinality(Below(n)) + 1
    BY <1>2, FS_AddElement
  <2>2. Cardinality(Below(n) \cup {n}) <= Cardinality(S) /\ Cardinality(S) \in Nat
    BY <1>3, FS_Subset, FS_CardinalityType
  <2> QED BY <2>1, <2>2, <1>2
<1>4. ASSUME NEW n \in Ids PROVE 1 + Cardinality(Below(n)) <= Cardinality(Ids)
  BY <1>2, <1>3, IdsAssumption
<1>5. ASSUME NEW n \in Ids, NEW m \in Ids, Eokr[m] < Eokr[n]
      PROVE  1 + Cardinality(Below(m)) <= Cardinality(Below(n))
  <2>1. m \in Below(n) /\ Below(m) \subseteq Below(n)
    BY <1>1, <1>5 DEF Below
  <2> QED BY <2>1, <1>2, <1>3
<1> QED BY <1>2, <1>4, <1>5

(* The first hop, and one from a node that does not see itself as          *)
(* available, lead to any node, each further one down: from one of these   *)
(* to the next a request is sent on at most as often as there are nodes,   *)
(* although nodes learn of one another, and forget, while it is on its way.*)
THEOREM HopsAreBounded ==
  ASSUME NoTokenTwice
  PROVE  Spec => []HopsBounded
<1>1. Init => HopsLeft
  BY DEF Init, NoRequest, HopsLeft
<1>2. ASSUME IInv, HopsLeft, [Next]_vars PROVE HopsLeft'
  <2>0. TokensRight' => TokensRight
    BY <1>2, TokensStay DEF IInv
  <2>1. CASE ~ Decide
    <3>1. request' = request \/ request'.hops = 0
      BY <1>2, <2>1, Steps DEF Submit, ChangeTo, Store, vars
    <3> QED BY <3>1, <2>0, <1>2 DEF HopsLeft, Below
  <2>2. CASE Decide
    <3> SUFFICES ASSUME TokensRight', request'.hops > 0
                 PROVE  request'.hops + Cardinality(Below(request'.at)) <= Cardinality(Ids)
      BY DEF HopsLeft, Below
    <3>1. TokensRight
      BY <2>0
    <3>2. /\ request.at \in Ids /\ request'.at \in Ids /\ request.pc = "routing"
          /\ request.hops \in 0..MaxHops
          /\ \/ request'.at = request.at /\ request'.hops = request.hops
             \/ request'.at # request.at
                /\ request'.hops = IF ~SeesItselfAvailable(request.at) THEN 1
                                   ELSE OneMore(request.hops)
      BY <1>2, <2>2, Decided DEF Request
    <3>3. CASE request'.at = request.at /\ request'.hops = request.hops
      BY <3>1, <3>3, <1>2 DEF HopsLeft
    <3>4. CASE request'.at # request.at /\ request'.hops = 1
      BY <3>2, <3>4, BelowCounts
    <3>5. CASE request'.at # request.at /\ SeesItselfAvailable(request.at)
               /\ request'.hops = OneMore(request.hops)
      <4>1. Cardinality(Ids) \in Nat /\ MaxHops = Cardinality(Ids) + 1
        BY HopsType
      <4>2. CASE request.hops = 0
        <5>1. request'.hops = 1
          BY <4>1, <4>2, <3>5 DEF OneMore
        <5> QED BY <5>1, <3>4, <3>5
      <4>3. CASE request.hops > 0
        <5>1. Eokr[request'.at] < Eokr[request.at]
          BY <1>2, <3>1, <3>2, <3>5, <4>3, HopDown
        <5>2. 1 + Cardinality(Below(request'.at)) <= Cardinality(Below(request.at))
          BY <5>1, <3>2, BelowCounts
        <5>3. request.hops + Cardinality(Below(request.at)) <= Cardinality(Ids)
          BY <1>2, <3>1, <4>3 DEF HopsLeft
        <5>4. request'.hops <= request.hops + 1 /\ request'.hops \in Nat
          BY <3>2, <3>5, <4>1 DEF OneMore
        <5>5. /\ Cardinality(Below(request.at)) \in Nat
              /\ Cardinality(Below(request'.at)) \in Nat
          BY <3>2, BelowCounts
        <5> QED BY <5>2, <5>3, <5>4, <5>5, <4>1, <3>2
      <4> QED BY <4>2, <4>3, <3>2, <4>1
    <3> QED BY <3>2, <3>3, <3>4, <3>5
  <2> QED BY <2>1, <2>2
<1>3. IInv /\ HopsLeft => HopsBounded
  <2> SUFFICES ASSUME IInv, HopsLeft, TokensRight PROVE request.hops <= Cardinality(Ids)
    BY DEF HopsBounded
  <2>1. request.at \in Ids /\ request.hops \in 0..MaxHops
    BY DEF IInv, TypeOK, Request
  <2> QED BY <2>1, HopsType, BelowCounts DEF HopsLeft
<1> QED BY <1>1, <1>2, <1>3, Invariance, PTL DEF Spec

(* What an entry of the seed says, wherever there is one: it is available. *)
LEMMA SeedKnown ==
  ASSUME IInv, NEW n \in Ids, Seed \in Known(n)
  PROVE  \E e \in view[n] : e \in Node /\ e.id = Seed /\ e.state = "AVAILABLE"
BY DEF IInv, TypeOK, BeenInv, ViewInv, Known

(* Every request finds an owner where the seed is known and its token was  *)
(* read right: the seed is available from the start, and no token is above *)
(* its.  A request fails at a node that did not reach the seed, or not at  *)
(* all, whatever the states of the other nodes.                            *)
THEOREM AlwaysAnOwner ==
  ASSUME SeedAtTop
  PROVE  Spec => []AlwaysOwned
<1>1. Init => AlwaysOwned
  BY DEF Init, NoRequest, AlwaysOwned
<1>2. ASSUME IInv, AlwaysOwned, [Next]_vars PROVE AlwaysOwned'
  <2>1. CASE ~ Decide
    <3>1. \/ request'.pc # "failed"
          \/ UNCHANGED vars
      BY <1>2, <2>1, Steps DEF Submit, ChangeTo, Store, NotEnded
    <3> QED BY <3>1, <1>2 DEF AlwaysOwned, TokensRight, Known, vars
  <2>2. CASE Decide
    <3>1. view' = view /\ TokensRight' = TokensRight
      BY <2>2 DEF Decide, TokensRight
    <3>2. request \in Request /\ request.at \in Ids /\ request.token \in Tokens /\ request.pc = "routing"
      BY <1>2, <2>2 DEF IInv, TypeOK, Request, Decide
    <3>3. ASSUME TokensRight, Seed \in Known(request.at), NEW nodes \in Sorted(view[request.at])
          PROVE  GetNode(nodes, request.token) # None
      <4>1. PICK e \in view[request.at] : e.id = Seed /\ e.state = "AVAILABLE"
        BY <1>2, <3>2, <3>3, SeedKnown
      <4>2. e.eokr = TotalSlots
        BY <4>1, <3>2, <3>3 DEF TokensRight, SeedAtTop
      <4>3. Serves(e, request.token) /\ request.token \in Nat
        BY <4>1, <4>2, <3>2, TotalSlotsAssumption DEF Serves, Tokens
      <4>4. view[request.at] \in SUBSET Node /\ IsFiniteSet(view[request.at])
        BY <1>2, <3>2, ViewFinite DEF IInv, TypeOK
      <4> QED BY <4>1, <4>3, <4>4, GetNodeOwner
    <3>4. ASSUME TokensRight, request'.pc = "failed"
          PROVE  request'.at = request.at /\ Seed \notin Known(request.at)
      BY <1>2, <2>2, <3>3, <3>4, Decided
    <3> QED BY <3>1, <3>4 DEF AlwaysOwned, Known
  <2> QED BY <2>1, <2>2
<1> QED BY <1>1, <1>2, Invariance, PTL DEF Spec

(* Who has begun to bootstrap knows the seed, whose token none is above,   *)
(* not even the one after its own: a source is found in every state.  It   *)
(* has been available, which is all that its entry in the joiner's view    *)
(* shows: its state may have gone back since.  That the sum wraps to zero  *)
(* does no harm but in the source of the node with the largest token, and  *)
(* the order of the list only changes which source it is.                  *)
THEOREM SourceIsFound ==
  ASSUME SeedAtTop
  PROVE  Spec => []SourceFound
<1>1. ASSUME IInv PROVE SourceFound
  <2> SUFFICES ASSUME NEW n \in Ids, "BOOTSTRAPPING" \in been[n],
                      NEW source \in BootstrapSources(n)
               PROVE  IF source = None THEN ~TokensRight
                      ELSE /\ "AVAILABLE" \in been[source.id]
                           /\ source.id # n \/ Eokr[n] = TotalSlots
    BY DEF SourceFound
  <2> DEFINE token == (Eokr[n] + 1) % (TotalSlots + 1)
  <2>1. token \in 0..TotalSlots /\ token \in Nat
    BY EokrAssumption, TotalSlotsAssumption
  <2>2. Eokr[n] # TotalSlots => token = Eokr[n] + 1
    BY EokrAssumption, TotalSlotsAssumption
  <2>3. /\ view[n] \in SUBSET Node /\ IsFiniteSet(view[n])
        /\ \A e \in view[n] : e.eokr \in EokrsSeenBy(n, e.id) /\ e.state \in been[e.id]
    BY <1>1, ViewFinite DEF IInv, TypeOK, ViewInv
  <2>4. PICK nodes \in MapToArr(view[n]) : source = GetNodeByToken(nodes, token)
    BY DEF BootstrapSources
  <2> HIDE DEF token
  <2>5. CASE source = None
    <3>1. Seed \in Known(n)
      BY <1>1 DEF IInv, BeenInv
    <3>2. PICK e \in view[n] : e.id = Seed /\ e.state = "AVAILABLE"
      BY <1>1, <3>1, SeedKnown
    <3>3. ~(token <= e.eokr)
      BY <2>1, <2>3, <2>4, <2>5, <3>2, GetNodeByTokenAvailable
    <3>4. e.eokr # TotalSlots
      BY <2>1, <3>3, TotalSlotsAssumption
    <3> QED BY <2>5, <3>2, <3>4 DEF TokensRight, SeedAtTop
  <2>6. CASE source # None
    <3>1. source \in view[n] /\ source.state = "AVAILABLE" /\ token <= source.eokr
      BY <2>1, <2>3, <2>4, <2>6, GetNodeByTokenAvailable
    <3>2. ASSUME source.id = n PROVE source.eokr = Eokr[n]
      BY <2>3, <3>1, <3>2 DEF EokrsSeenBy
    <3>3. ASSUME source.id = n PROVE Eokr[n] = TotalSlots
      BY <2>2, <3>1, <3>2, <3>3, EokrAssumption, TotalSlotsAssumption
    <3> QED BY <2>3, <2>6, <3>1, <3>3
  <2> QED BY <2>5, <2>6
<1> QED BY <1>1, Invariance, PTL

(* The node that serves a request while the views are complete owns its    *)
(* token.  Only the seed's token may have been read wrong, and no owner    *)
(* comes after the seed.                                                   *)
THEOREM OwnerServes ==
  ASSUME SeedAtTop
  PROVE  Spec => []ServedByOwner
<1> DEFINE Self(n) == [id |-> n, eokr |-> Eokr[n], state |-> state[n]]
<1>1. Init => ServedByOwner
  BY DEF Init, ServedByOwner
<1>2. ASSUME IInv, ServedByOwner, [Next]_vars PROVE ServedByOwner'
  <2>1. CASE ~ Decide
    <3>1. request'.pc # "served" \/ UNCHANGED vars
      BY <1>2, <2>1, Steps DEF Submit, ChangeTo, Store, NotEnded
    <3> QED BY <3>1, <1>2 DEF ServedByOwner, Truth, vars
  <2>2. CASE Decide
    <3>1. view' = view /\ state' = state /\ settled' = settled
      BY <2>2 DEF Decide
    <3>2. /\ request \in Request /\ request.at \in Ids /\ request.token \in Tokens
          /\ request.pc = "routing"
      BY <1>2, <2>2 DEF IInv, TypeOK, Request, Decide
    <3> SUFFICES ASSUME settled, request'.pc = "served"
                 PROVE  IsOwner(Truth, request.token, Self(request.at))
                        /\ request'.at = request.at /\ request'.token = request.token
      <4>1. Truth' = Truth
        BY <3>1 DEF Truth
      <4> QED BY <3>1, <4>1 DEF ServedByOwner
    <3>3. PICK nodes \in Sorted(view[request.at]) :
            /\ GetNode(nodes, request.token) # None
            /\ GetNode(nodes, request.token).id = request.at
            /\ request'.at = request.at /\ request'.token = request.token
      BY <1>2, <2>2, Decided
    <3> DEFINE owner == GetNode(nodes, request.token)
    <3>4. /\ IsOwner(view[request.at], request.token, owner) /\ owner.id = request.at
          /\ owner \in view[request.at] /\ owner \in Node
          /\ owner.state = "AVAILABLE" /\ request.token < owner.eokr
      BY <1>2, <3>2, <3>3, OwnerKnown
    <3> HIDE DEF owner
    <3>5. {[id |-> e.id, state |-> e.state] : e \in view[request.at]}
            = {[id |-> k, state |-> state[k]] : k \in Ids}
      BY <1>2, <3>2 DEF IInv, SettledInv, AllKnowAll
    <3>6. owner.state = state[request.at] /\ owner.eokr = Eokr[request.at]
      <4>1. PICK k \in Ids : [id |-> owner.id, state |-> owner.state] = [id |-> k, state |-> state[k]]
        BY <3>4, <3>5
      <4>2. owner.eokr \in EokrsSeenBy(request.at, request.at)
        BY <1>2, <3>2, <3>4 DEF IInv, ViewInv
      <4> QED BY <4>1, <4>2, <3>4 DEF EokrsSeenBy
    <3>7. Self(request.at) = owner
      BY <3>4, <3>6 DEF Node
    <3>8. ASSUME NEW m \in Ids, Serves(Self(m), request.token)
          PROVE  owner.eokr <= Self(m).eokr
      <4>1. PICK e \in view[request.at] :
              [id |-> m, state |-> state[m]] = [id |-> e.id, state |-> e.state]
        BY <3>5
      <4>2. e.id = m /\ e.state = state[m]
        BY <4>1
      <4>3. e.eokr \in EokrsSeenBy(request.at, m)
        BY <1>2, <3>2, <4>2 DEF IInv, ViewInv
      <4>4. CASE m = Seed
        <5>1. owner.eokr <= TotalSlots
          BY <3>4, TotalSlotsAssumption DEF Node
        <5> QED BY <5>1, <4>4 DEF SeedAtTop
      <4>5. CASE m # Seed
        <5>1. e.eokr = Self(m).eokr /\ Serves(e, request.token)
          BY <4>2, <4>3, <4>5, <3>8 DEF EokrsSeenBy, Serves
        <5> QED BY <5>1, <4>2, <3>4 DEF IsOwner
      <4> QED BY <4>4, <4>5
    <3>9. Serves(owner, request.token) /\ Self(request.at) \in Truth
      BY <3>2, <3>4 DEF IsOwner, Truth
    <3>10. IsOwner(Truth, request.token, Self(request.at))
      BY <3>7, <3>8, <3>9 DEF IsOwner, Truth
    <3> QED BY <3>10, <3>3
  <2> QED BY <2>1, <2>2
<1> QED BY <1>1, <1>2, Invariance, PTL DEF Spec

(* The replicas a handler picks, whatever the node knows at the time: the  *)
(* owner first, then the nodes that follow it, none left out, however the  *)
(* views differ.  Between nodes of one token there is no such order.       *)
THEOREM ReplicasInOrder ==
  ASSUME NoTokenTwice
  PROVE  Spec => []ReplicasFollowOwner
<1>1. ASSUME IInv PROVE ReplicasFollowOwner
  <2>0. request.at \in Ids /\ request.token \in Tokens
    BY <1>1 DEF IInv, TypeOK, Request
  <2> SUFFICES ASSUME NEW n \in Ids, NEW token \in Tokens, NEW nodes \in Sorted(view[n]),
                      NEW chosen, chosen = GetNNode(nodes, token, Replicas + 1), chosen # None
               PROVE  /\ IsOwner(view[n], token, chosen[1])
                      /\ \A i \in DOMAIN chosen : Distance(view[n], chosen[1], chosen[i]) = i - 1
    BY <2>0 DEF ReplicasFollowOwner
  <2>1. view[n] \in SUBSET Node /\ \A d, e \in view[n] : d.id = e.id => d = e
    BY <1>1, <2>0 DEF IInv, TypeOK
  <2>2. IsFiniteSet(view[n])
    BY <2>1, ViewFinite
  <2>3. token \in Nat /\ Replicas + 1 \in Nat \ {0}
    BY <2>0, ReplicasAssumption, TotalSlotsAssumption DEF Tokens
  <2>4. ASSUME NEW d \in view[n], NEW e \in view[n], d.eokr = e.eokr PROVE d = e
    <3>1. d.id \in Ids /\ e.id \in Ids
      BY <2>1 DEF Node
    <3>2. d.eokr \in EokrsSeenBy(n, d.id) /\ e.eokr \in EokrsSeenBy(n, e.id)
      BY <1>1, <2>0 DEF IInv, ViewInv
    <3>3. d.id = e.id
      BY <2>0, <3>1, <3>2, <2>4 DEF NoTokenTwice
    <3> QED BY <3>3, <2>1
  <2>5. chosen \in [1..(Replicas + 1) -> view[n]] /\ IsOwner(view[n], token, chosen[1])
    BY <2>1, <2>2, <2>3, GetNNodeOwner
  <2>6. \A i \in 1..(Replicas + 1) : Distance(view[n], chosen[1], chosen[i]) = i - 1
    BY <2>1, <2>2, <2>3, <2>4, GetNNodeFollows
  <2> QED BY <2>5, <2>6
<1> QED BY <1>1, Invariance, PTL
=============================================================================
