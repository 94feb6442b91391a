---------------------------- MODULE Gossip_proofs ----------------------------
(***************************************************************************)
(* What the nodes know of one another is what was announced, and their     *)
(* counts are right, for any number of nodes, whether posts are lost or    *)
(* not, and however many stamps a node uses.                               *)
(***************************************************************************)
EXTENDS Gossip, FiniteSetTheorems, SequenceTheorems, TLAPS

(* A node that runs has announced something and knows itself; another is   *)
(* as it was made.                                                         *)
UpInv ==
  \A n \in Nodes : /\ announced[n] # <<>> <=> Up(n)
                   /\ Up(n) => view[n][n] # Unknown
                   /\ ~ Up(n) => state[n] = "JOINING"

(* An entry of m, wherever it is, stands for a node that runs and for what *)
(* that node announced.                                                    *)
Sound(m, e) ==
  e # Unknown =>
    /\ Up(m)
    /\ e.stamp > 0 => e.stamp <= Len(announced[m]) /\ announced[m][e.stamp] = e.state

ViewInv == \A n, m \in Nodes : Sound(m, view[n][m])

(* Where a handler is that has found its node JOINING. *)
Counting == {"count", "record", "test", "change"}

(* The entries on their way are sound too; only nodes that run are posted  *)
(* to, and what a handler works through is what it was sent.               *)
SenderInvOf(s, r) ==
  /\ \A m \in Nodes : Sound(m, r.payload[m])
  /\ r.pc # "idle" => Up(s[1])
  /\ \A d \in r.dests : Up(d)
  /\ r.pc \in {"entries", "upsert"} => Up(r.at)
  /\ r.pc \in Counting => Up(r.at)
  /\ Len(r.sizes) <= 3
  /\ r.todo \subseteq Knows(r.payload)
  /\ r.pc = "own" => s[1] \in Knows(r.payload)
  /\ r.pc = "read" => r.todo = {}
  /\ r.pc = "upsert" => r.id \in Knows(r.payload)

SenderInv == \A s \in Senders : SenderInvOf(s, sender[s])

(* Each handler that has found a node JOINING starts one bootstrap at most,*)
(* and none is found JOINING after the first.                              *)
CountingAt(n) == {s \in Senders : sender[s].pc \in Counting /\ sender[s].at = n}

CopyInv ==
  \A n \in Nodes : /\ state[n] = "JOINING" => copying[n] = 0
                   /\ copying[n] + Cardinality(CountingAt(n)) <= Cardinality(Senders)

(* The entries of a view in a state. *)
InState(v, st) == {m \in Knows(v) : v[m].state = st}

IInv == TypeOK /\ UpInv /\ ViewInv /\ SenderInv /\ CopyInv /\ CountsMatch
-----------------------------------------------------------------------------
(* Counting *)

LEMMA Sizes ==
  /\ IsFiniteSet(Nodes) /\ Cardinality(Nodes) \in Nat
  /\ IsFiniteSet(Senders) /\ Cardinality(Senders) \in Nat
<1>1. IsFiniteSet(Nodes) /\ Cardinality(Nodes) \in Nat
  BY NodesAssumption, FS_CardinalityType
<1>2. IsFiniteSet({"ticker", "change"})
  <2>1. IsFiniteSet({"ticker"}) /\ {"ticker", "change"} = {"ticker"} \cup {"change"}
    BY FS_Singleton
  <2> QED BY <2>1, FS_AddElement
<1>3. IsFiniteSet(Senders)
  BY <1>1, <1>2, FS_Product DEF Senders
<1> QED BY <1>1, <1>3, FS_CardinalityType

LEMMA SomeNodes ==
  ASSUME NEW S \in SUBSET Nodes
  PROVE  /\ IsFiniteSet(S) /\ Cardinality(S) \in 0..Cardinality(Nodes)
         /\ S # {} => Cardinality(S) \in 1..Cardinality(Nodes)
<1>1. IsFiniteSet(S) /\ Cardinality(S) <= Cardinality(Nodes) /\ Cardinality(S) \in Nat
  BY NodesAssumption, FS_Subset, FS_CardinalityType
<1>2. S # {} => Cardinality(S) # 0
  BY <1>1, FS_EmptySet
<1> QED BY <1>1, <1>2, Sizes

LEMMA InStateSize ==
  ASSUME NEW v \in Views, NEW st
  PROVE  /\ IsFiniteSet(InState(v, st)) /\ Cardinality(InState(v, st)) \in 0..Cardinality(Nodes)
         /\ Knows(v) \in SUBSET Nodes
<1>1. InState(v, st) \in SUBSET Nodes /\ Knows(v) \in SUBSET Nodes
  BY DEF InState, Knows
<1> QED BY <1>1, SomeNodes

With(v, m, e) == [v EXCEPT ![m] = e]
Counts(v, c) == \A st \in States : c[st] = Cardinality(InState(v, st))

(* The counts are right again after an entry was replaced. *)
LEMMA RecountRight ==
  ASSUME NEW v \in Views, NEW m \in Nodes, NEW e \in Entry,
         NEW c \in [States -> 0..Cardinality(Nodes)], Counts(v, c)
  PROVE  /\ With(v, m, e) \in Views
         /\ Recount(c, v[m], e) \in [States -> 0..Cardinality(Nodes)]
         /\ Counts(With(v, m, e), Recount(c, v[m], e))
<1> DEFINE new == With(v, m, e)
<1>1. /\ new \in Views /\ new[m] = e /\ e # Unknown /\ e.state \in States
      /\ \A k \in Nodes : k # m => new[k] = v[k]
  BY UnknownAssumption DEF Views, Entry, With
<1> HIDE DEF new
<1>2. v[m] # Unknown => v[m] \in Entry /\ v[m].state \in States
  BY DEF Views, Entry
<1> DEFINE c2 == Recount(c, v[m], e)
<1>3. ASSUME NEW st \in States
      PROVE  c2[st] = Cardinality(InState(new, st))
  <2> DEFINE A == InState(v, st)
             B == InState(new, st)
  <2> SUFFICES c2[st] = Cardinality(B)
    OBVIOUS
  <2>1. /\ IsFiniteSet(A) /\ Cardinality(A) \in Nat /\ c[st] = Cardinality(A)
    BY InStateSize, Sizes DEF Counts
  <2>2. m \in A <=> v[m] # Unknown /\ v[m].state = st
    BY DEF InState, Knows
  <2>3. m \in B <=> e.state = st
    BY <1>1 DEF InState, Knows
  <2>4. \A k : k # m => (k \in A <=> k \in B)
    BY <1>1 DEF InState, Knows
  <2>5. c2[st] = LET less == IF v[m] # Unknown /\ v[m].state = st THEN c[st] - 1 ELSE c[st]
                 IN  IF e.state = st THEN less + 1 ELSE less
    BY <1>1, <1>2 DEF Recount
  <2> HIDE DEF A, B, c2
  <2>6. CASE m \in A /\ m \in B
    <3>1. A = B
      BY <2>4, <2>6
    <3> QED BY <3>1, <2>1, <2>2, <2>3, <2>5, <2>6
  <2>7. CASE m \in A /\ m \notin B
    <3>1. B = A \ {m}
      BY <2>4, <2>7
    <3>2. Cardinality(B) = Cardinality(A) - 1
      BY <3>1, <2>1, <2>7, FS_RemoveElement
    <3> QED BY <3>2, <2>1, <2>2, <2>3, <2>5, <2>7
  <2>8. CASE m \notin A /\ m \in B
    <3>1. B = A \cup {m}
      BY <2>4, <2>8
    <3>2. Cardinality(B) = Cardinality(A) + 1
      BY <3>1, <2>1, <2>8, FS_AddElement
    <3> QED BY <3>2, <2>1, <2>2, <2>3, <2>5, <2>8
  <2>9. CASE m \notin A /\ m \notin B
    <3>1. A = B
      BY <2>4, <2>9
    <3> QED BY <3>1, <2>1, <2>2, <2>3, <2>5, <2>9
  <2> QED BY <2>6, <2>7, <2>8, <2>9
<1>4. DOMAIN c2 = States /\ c2 = [st \in States |-> c2[st]]
  BY DEF Recount
<1>5. \A st \in States : c2[st] \in 0..Cardinality(Nodes)
  BY <1>1, <1>3, InStateSize
<1> HIDE DEF c2
<1>6. c2 \in [States -> 0..Cardinality(Nodes)]
  BY <1>4, <1>5
<1> QED BY <1>1, <1>3, <1>6 DEF c2, new, Counts

-----------------------------------------------------------------------------
(* What stays *)

(* A node that runs keeps running and only adds to what it announced. *)
KeepsUp == \A m \in Nodes : Up(m) =>
  /\ Up(m)'
  /\ announced'[m] = announced[m] \/ \E st \in States : announced'[m] = Append(announced[m], st)

LEMMA SoundStays ==
  ASSUME TypeOK, KeepsUp, NEW m \in Nodes, NEW e \in Entry \cup {Unknown}, Sound(m, e)
  PROVE  Sound(m, e)'
<1>1. announced[m] \in Seq(States)
  BY DEF TypeOK
<1> SUFFICES ASSUME e # Unknown
             PROVE  /\ Up(m)'
                    /\ e.stamp > 0 => e.stamp <= Len(announced'[m]) /\ announced'[m][e.stamp] = e.state
  BY DEF Sound
<1>2. /\ Up(m) /\ Up(m)'
      /\ e.stamp > 0 => e.stamp <= Len(announced[m]) /\ announced[m][e.stamp] = e.state
      /\ e.stamp \in Nat
  BY DEF Sound, KeepsUp, Entry
<1>3. CASE announced'[m] = announced[m]
  BY <1>2, <1>3
<1>4. ASSUME NEW st \in States, announced'[m] = Append(announced[m], st)
      PROVE  e.stamp > 0 => e.stamp <= Len(announced'[m]) /\ announced'[m][e.stamp] = e.state
  BY <1>1, <1>2, <1>4, AppendProperties
<1> QED BY <1>2, <1>3, <1>4 DEF KeepsUp

(* Everything on its way stays sound. *)
LEMMA SenderStays ==
  ASSUME IInv, KeepsUp, NEW s \in Senders, NEW r \in Sender, SenderInvOf(s, r)
  PROVE  SenderInvOf(s, r)'
<1>1. /\ r.payload \in Views /\ r.dests \in SUBSET Nodes /\ r.at \in Nodes /\ s[1] \in Nodes
  BY DEF Sender, Senders
<1>2. \A m \in Nodes : Sound(m, r.payload[m])'
  <2> SUFFICES ASSUME NEW m \in Nodes PROVE Sound(m, r.payload[m])'
    OBVIOUS
  <2> DEFINE e == r.payload[m]
  <2>1. e \in Entry \cup {Unknown} /\ Sound(m, e)
    BY <1>1 DEF Views, SenderInvOf
  <2> HIDE DEF e
  <2>2. Sound(m, e)'
    BY <2>1, SoundStays DEF IInv
  <2> QED BY <2>2 DEF e
<1>3. \A m \in Nodes : Up(m) => Up(m)'
  BY DEF KeepsUp
<1>4. /\ r.pc # "idle" => Up(s[1])'
      /\ r.pc \in {"entries", "upsert"} => Up(r.at)'
      /\ r.pc \in Counting => Up(r.at)'
  BY <1>1, <1>3 DEF SenderInvOf, Up
<1>5. \A d \in r.dests : Up(d)'
  BY <1>1, <1>3 DEF SenderInvOf
<1> QED BY <1>2, <1>4, <1>5 DEF SenderInvOf

(* The senders after a step of one of them. *)
LEMMA SendersInv ==
  ASSUME IInv, KeepsUp, NEW s \in Senders, NEW r \in Sender, Become(s, r), SenderInvOf(s, r)'
  PROVE  sender' \in [Senders -> Sender] /\ SenderInv'
<1>1. sender \in [Senders -> Sender] /\ sender' = [sender EXCEPT ![s] = r]
  BY DEF IInv, TypeOK, Become
<1>2. /\ sender' \in [Senders -> Sender] /\ sender'[s] = r
      /\ \A q \in Senders : q # s => sender'[q] = sender[q]
  BY <1>1
<1>3. SenderInv'
  <2> SUFFICES ASSUME NEW q \in Senders, NEW x, x = sender'[q] PROVE SenderInvOf(q, x)'
    BY DEF SenderInv
  <2>1. CASE q = s
    BY <2>1, <1>2
  <2>2. CASE q # s
    <3>1. x \in Sender /\ SenderInvOf(q, x)
      BY <1>1, <1>2, <2>2 DEF IInv, SenderInv
    <3> QED BY <3>1, SenderStays
  <2> QED BY <2>1, <2>2
<1> QED BY <1>2, <1>3

(* The bootstraps, after a step that starts and ends none. *)
LEMMA CopyStays ==
  ASSUME IInv, NEW s \in Senders, NEW r \in Sender, Become(s, r), UNCHANGED <<state, copying>>,
         r.pc \in Counting => state[r.at] = "JOINING" \/ s \in CountingAt(r.at)
  PROVE  CopyInv'
<1>1. /\ sender \in [Senders -> Sender] /\ sender' = [sender EXCEPT ![s] = r]
      /\ copying \in [Nodes -> 0..Cardinality(Senders)]
  BY DEF IInv, TypeOK, Become
<1> SUFFICES ASSUME NEW n \in Nodes
             PROVE  /\ state'[n] = "JOINING" => copying'[n] = 0
                    /\ copying'[n] + Cardinality(CountingAt(n)') <= Cardinality(Senders)
  BY DEF CopyInv
<1>2. /\ state[n] = "JOINING" => copying[n] = 0
      /\ copying[n] + Cardinality(CountingAt(n)) <= Cardinality(Senders)
  BY DEF IInv, CopyInv
<1> DEFINE A == CountingAt(n)
           B == CountingAt(n)'
<1>3. A \in SUBSET Senders /\ B \in SUBSET Senders
  BY DEF CountingAt
<1>4. B \subseteq A \/ state[n] = "JOINING"
  <2>1. \A q \in Senders : q # s => sender'[q] = sender[q]
    BY <1>1
  <2>2. sender'[s] = r
    BY <1>1
  <2> QED BY <2>1, <2>2 DEF CountingAt
<1> HIDE DEF A, B
<1>5. /\ IsFiniteSet(A) /\ Cardinality(A) \in Nat /\ Cardinality(B) \in Nat
      /\ Cardinality(B) <= Cardinality(Senders)
      /\ B \subseteq A => Cardinality(B) <= Cardinality(A)
  BY <1>3, Sizes, FS_Subset, FS_CardinalityType
<1>6. copying[n] \in Nat /\ copying' = copying /\ state' = state /\ Cardinality(Senders) \in Nat
  BY <1>1, Sizes
<1>7. copying[n] + Cardinality(B) <= Cardinality(Senders)
  <2>1. CASE B \subseteq A
    <3>1. copying[n] + Cardinality(A) <= Cardinality(Senders)
      BY <1>2 DEF A
    <3> QED BY <2>1, <3>1, <1>5, <1>6
  <2>2. CASE state[n] = "JOINING"
    BY <2>2, <1>2, <1>5, <1>6
  <2> QED BY <1>4, <2>1, <2>2
<1> QED BY <1>2, <1>6, <1>7 DEF B

-----------------------------------------------------------------------------
(* The steps *)

(* A sender that has nothing to do. *)
LEMMA IdleSender ==
  ASSUME NEW s \in Senders
  PROVE  /\ Idle(s[1]) \in Sender /\ Idle(s[1]).pc = "idle" /\ Idle(s[1]).sizes = <<>>
         /\ Len(Idle(s[1]).sizes) = 0 /\ SenderInvOf(s, Idle(s[1]))
<1>1. s[1] \in Nodes /\ Nothing \in Views
  BY DEF Senders, Nothing, Views
<1>2. <<>> \in Seq(1..Cardinality(Nodes)) /\ Len(<<>>) = 0
  BY EmptySeq
<1>3. Idle(s[1]) \in Sender
  BY <1>1, <1>2 DEF Idle, Sender
<1>4. /\ Idle(s[1]).pc = "idle" /\ Idle(s[1]).sizes = <<>> /\ Idle(s[1]).payload = Nothing
      /\ Idle(s[1]).dests = {} /\ Idle(s[1]).todo = {}
  BY DEF Idle
<1> QED BY <1>2, <1>3, <1>4 DEF SenderInvOf, Counting, Sound, Nothing

LEMMA InitInv == Init => IInv
<1> SUFFICES ASSUME Init PROVE IInv
  OBVIOUS
<1>1. /\ Nothing \in Views /\ \A m \in Nodes : Nothing[m] = Unknown
  BY DEF Nothing, Views
<1>2. Knows(Nothing) = {}
  BY <1>1 DEF Knows
<1>3. \A s \in Senders : Idle(s[1]) \in Sender /\ SenderInvOf(s, Idle(s[1]))
  BY IdleSender
<1>4. /\ state = [n \in Nodes |-> "JOINING"] /\ view = [n \in Nodes |-> Nothing]
      /\ count = [n \in Nodes |-> NoCount] /\ meta = [n \in Nodes |-> <<>>]
      /\ sender = [s \in Senders |-> Idle(s[1])] /\ change = {}
      /\ copying = [n \in Nodes |-> 0] /\ announced = [n \in Nodes |-> <<>>]
  BY DEF Init
<1>5. TypeOK
  <2>1. count \in [Nodes -> [States -> 0..Cardinality(Nodes)]]
    BY <1>4, Sizes DEF NoCount
  <2>2. /\ meta \in [Nodes -> Seq(1..Cardinality(Nodes))] /\ announced \in [Nodes -> Seq(States)]
        /\ \A n \in Nodes : Len(meta[n]) <= 3
    BY <1>4, EmptySeq
  <2>3. copying \in [Nodes -> 0..Cardinality(Senders)]
    BY <1>4, Sizes
  <2> QED BY <1>1, <1>3, <1>4, <2>1, <2>2, <2>3 DEF TypeOK, States
<1>6. UpInv
  BY <1>4 DEF UpInv, Up
<1>7. ViewInv
  BY <1>1, <1>4 DEF ViewInv, Sound
<1>8. SenderInv
  BY <1>3, <1>4 DEF SenderInv
<1>9. CopyInv
  <2> SUFFICES ASSUME NEW n \in Nodes PROVE copying[n] = 0 /\ CountingAt(n) = {}
    BY Sizes, FS_EmptySet DEF CopyInv
  <2> QED BY <1>4 DEF CountingAt, Counting, Idle
<1>10. CountsMatch
  <2> SUFFICES ASSUME NEW n \in Nodes, NEW st \in States
               PROVE  count[n][st] = Cardinality({m \in Knows(view[n]) : view[n][m].state = st})
    BY DEF CountsMatch
  <2>1. {m \in Knows(view[n]) : view[n][m].state = st} = {}
    BY <1>2, <1>4
  <2> QED BY <1>4, <2>1, FS_EmptySet DEF NoCount
<1> QED BY <1>5, <1>6, <1>7, <1>8, <1>9, <1>10 DEF IInv

(* A step of a sender that stores nothing. *)
LEMMA SenderStep ==
  ASSUME IInv, NEW s \in Senders, NEW r \in Sender, Become(s, r),
         UNCHANGED <<state, view, count, meta, change, copying, announced>>,
         SenderInvOf(s, r),
         r.pc \in Counting => state[r.at] = "JOINING" \/ s \in CountingAt(r.at)
  PROVE  IInv'
<1>1. KeepsUp
  BY DEF KeepsUp, Up
<1>2. SenderInvOf(s, r)'
  BY <1>1, SenderStays
<1>3. sender' \in [Senders -> Sender] /\ SenderInv'
  BY <1>1, <1>2, SendersInv
<1>4. TypeOK'
  BY <1>3 DEF IInv, TypeOK
<1>5. UpInv' /\ ViewInv' /\ CountsMatch'
  BY DEF IInv, UpInv, ViewInv, CountsMatch, Up, Sound
<1>6. CopyInv'
  BY CopyStays
<1> QED BY <1>3, <1>4, <1>5, <1>6 DEF IInv

(* An upsert of a sound entry. *)
LEMMA UpsertInv ==
  ASSUME IInv, NEW s \in Senders, NEW n \in Nodes, NEW m \in Nodes, NEW e \in Entry,
         Up(n), Sound(m, e), Upsert(n, m, e), UNCHANGED <<state, meta, change, copying, announced>>
  PROVE  /\ view' \in [Nodes -> Views] /\ view'[n] = [view[n] EXCEPT ![m] = e]
         /\ count' \in [Nodes -> [States -> 0..Cardinality(Nodes)]]
         /\ KeepsUp /\ UpInv' /\ ViewInv' /\ CountsMatch'
<1> DEFINE v == view[n]
           new == [v EXCEPT ![m] = e]
           c == count[n]
<1>1. /\ view \in [Nodes -> Views] /\ count \in [Nodes -> [States -> 0..Cardinality(Nodes)]]
      /\ v \in Views /\ c \in [States -> 0..Cardinality(Nodes)]
  BY DEF IInv, TypeOK
<1>2. \A k \in Nodes, st \in States : count[k][st] = Cardinality(InState(view[k], st))
  BY DEF IInv, CountsMatch, InState
<1>3. /\ new \in Views
      /\ Recount(c, v[m], e) \in [States -> 0..Cardinality(Nodes)]
      /\ \A st \in States : Recount(c, v[m], e)[st] = Cardinality(InState(new, st))
  <2>1. Counts(v, c) /\ new = With(v, m, e)
    BY <1>2 DEF Counts, With
  <2> HIDE DEF new, v, c
  <2> QED BY <2>1, <1>1, RecountRight DEF Counts
<1>4. view' = [view EXCEPT ![n] = new] /\ count' = [count EXCEPT ![n] = Recount(c, v[m], e)]
  BY <1>1 DEF Upsert
<1>5. new[m] = e /\ e # Unknown /\ \A k \in Nodes : k # m => new[k] = v[k]
  BY <1>1, UnknownAssumption DEF Views
<1> HIDE DEF new, v, c
<1>6. /\ view' \in [Nodes -> Views] /\ view'[n] = new
      /\ count' \in [Nodes -> [States -> 0..Cardinality(Nodes)]] /\ count'[n] = Recount(c, v[m], e)
      /\ \A k \in Nodes : k # n => view'[k] = view[k] /\ count'[k] = count[k]
  BY <1>1, <1>3, <1>4
<1>7. \A k \in Nodes : Up(k)' <=> Up(k)
  <2>1. new # Nothing
    BY <1>5 DEF Nothing
  <2> QED BY <2>1, <1>6 DEF Up
<1>8. KeepsUp
  BY <1>7 DEF KeepsUp
<1>9. UpInv'
  <2>1. view[n][n] # Unknown => new[n] # Unknown
    BY <1>5 DEF v
  <2> QED BY <2>1, <1>6, <1>7 DEF IInv, UpInv
<1>10. ViewInv'
  <2> SUFFICES ASSUME NEW k \in Nodes, NEW j \in Nodes, NEW d, d = view'[k][j] PROVE Sound(j, d)'
    BY DEF ViewInv
  <2>1. d \in Entry \cup {Unknown}
    BY <1>6 DEF Views
  <2>2. Sound(j, d)
    <3>1. CASE k = n /\ j = m
      BY <3>1, <1>5, <1>6
    <3>2. CASE ~ (k = n /\ j = m)
      <4>1. d = view[k][j]
        BY <3>2, <1>5, <1>6 DEF v
      <4> QED BY <4>1 DEF IInv, ViewInv
    <3> QED BY <3>1, <3>2
  <2> QED BY <2>1, <2>2, <1>8, SoundStays DEF IInv
<1>11. CountsMatch'
  <2> SUFFICES ASSUME NEW k \in Nodes, NEW st \in States
               PROVE  count'[k][st] = Cardinality(InState(view'[k], st))
    BY DEF CountsMatch, InState
  <2> QED BY <1>2, <1>3, <1>6
<1> QED BY <1>6, <1>8, <1>9, <1>10, <1>11 DEF new, v

(* A node starts with its own entry, and its seed's if it has one. *)
LEMMA StartsAsInv ==
  ASSUME IInv, NEW n \in Nodes, ~ Up(n), NEW st \in States, NEW seeds \in Views,
         \A m \in Nodes : seeds[m] # Unknown => Up(m) /\ seeds[m].stamp = 0,
         StartsAs(n, st, seeds)
  PROVE  IInv'
<1> DEFINE own == [state |-> st, stamp |-> 1]
           v == [m \in Nodes |-> IF m = n THEN own ELSE seeds[m]]
           c == [s \in States |-> Cardinality({m \in Knows(v) : v[m].state = s})]
<1>1. /\ state' = [state EXCEPT ![n] = st] /\ view' = [view EXCEPT ![n] = v]
      /\ count' = [count EXCEPT ![n] = c] /\ announced' = [announced EXCEPT ![n] = <<st>>]
      /\ UNCHANGED <<meta, sender, change, copying>>
  BY DEF StartsAs
<1>2. /\ state \in [Nodes -> States] /\ view \in [Nodes -> Views]
      /\ count \in [Nodes -> [States -> 0..Cardinality(Nodes)]]
      /\ announced \in [Nodes -> Seq(States)] /\ sender \in [Senders -> Sender]
  BY DEF IInv, TypeOK
<1>3. own \in Entry /\ own # Unknown /\ own.stamp = 1 /\ own.state = st
  BY UnknownAssumption DEF Entry
<1>4. v \in Views /\ v[n] = own /\ \A m \in Nodes : m # n => v[m] = seeds[m]
  BY <1>3 DEF Views
<1>5. \A s \in States : c[s] = Cardinality(InState(v, s)) /\ c[s] \in 0..Cardinality(Nodes)
  <2> HIDE DEF v
  <2> QED BY <1>4, InStateSize DEF InState
<1>6. c \in [States -> 0..Cardinality(Nodes)]
  BY <1>5
<1> HIDE DEF own, v, c
<1>7. /\ view'[n] = v /\ state'[n] = st /\ count'[n] = c /\ announced'[n] = <<st>>
      /\ \A m \in Nodes : m # n => /\ view'[m] = view[m] /\ state'[m] = state[m]
                                 /\ count'[m] = count[m] /\ announced'[m] = announced[m]
  BY <1>1, <1>2
<1>8. v # Nothing
  BY <1>3, <1>4 DEF Nothing
<1>9. Up(n)' /\ \A m \in Nodes : m # n => (Up(m)' <=> Up(m))
  BY <1>7, <1>8 DEF Up
<1>10. KeepsUp
  BY <1>7, <1>9 DEF KeepsUp
<1>11. <<st>> \in Seq(States) /\ Len(<<st>>) = 1 /\ <<st>>[1] = st /\ <<st>> # <<>>
  OBVIOUS
<1>12. TypeOK'
  BY <1>1, <1>2, <1>4, <1>6, <1>11 DEF IInv, TypeOK
<1>13. UpInv'
  BY <1>3, <1>4, <1>7, <1>9, <1>11 DEF IInv, UpInv
<1>14. ViewInv'
  <2> SUFFICES ASSUME NEW k \in Nodes, NEW j \in Nodes, NEW d, d = view'[k][j] PROVE Sound(j, d)'
    BY DEF ViewInv
  <2>1. CASE k = n /\ j = n
    <3>1. d = own
      BY <2>1, <1>4, <1>7
    <3> QED BY <2>1, <3>1, <1>3, <1>7, <1>9, <1>11 DEF Sound
  <2>2. CASE ~ (k = n /\ j = n)
    <3>1. d \in Entry \cup {Unknown}
      BY <1>2, <1>4, <1>7 DEF Views
    <3>2. Sound(j, d)
      <4>1. CASE k = n
        BY <2>2, <4>1, <1>4, <1>7 DEF Sound
      <4>2. CASE k # n
        BY <4>2, <1>7 DEF IInv, ViewInv
      <4> QED BY <4>1, <4>2
    <3> QED BY <3>1, <3>2, <1>10, SoundStays DEF IInv
  <2> QED BY <2>1, <2>2
<1>15. SenderInv'
  <2> SUFFICES ASSUME NEW q \in Senders, NEW x, x = sender'[q] PROVE SenderInvOf(q, x)'
    BY DEF SenderInv
  <2>1. x \in Sender /\ SenderInvOf(q, x)
    BY <1>1, <1>2 DEF IInv, SenderInv
  <2> QED BY <2>1, <1>10, SenderStays
<1>16. CopyInv'
  <2>1. \A m \in Nodes : CountingAt(m)' = CountingAt(m)
    BY <1>1 DEF CountingAt
  <2>2. copying[n] = 0
    BY DEF IInv, UpInv, CopyInv
  <2> QED BY <2>1, <2>2, <1>1, <1>7 DEF IInv, CopyInv
<1>17. CountsMatch'
  <2> SUFFICES ASSUME NEW k \in Nodes, NEW s \in States
               PROVE  count'[k][s] = Cardinality(InState(view'[k], s))
    BY DEF CountsMatch, InState
  <2>1. CASE k = n
    BY <2>1, <1>5, <1>7
  <2>2. CASE k # n
    BY <2>2, <1>7 DEF IInv, CountsMatch, InState
  <2> QED BY <2>1, <2>2
<1> QED BY <1>12, <1>13, <1>14, <1>15, <1>16, <1>17 DEF IInv

LEMMA StartInv ==
  ASSUME IInv, NEW n \in Nodes, Start(n)
  PROVE  IInv'
<1>1. Nothing \in Views /\ \A m \in Nodes : Nothing[m] = Unknown
  BY DEF Nothing, Views
<1>2. CASE StartAlone(n)
  <2>1. ~ Up(n) /\ StartsAs(n, "AVAILABLE", Nothing) /\ "AVAILABLE" \in States
    BY <1>2 DEF StartAlone, States
  <2> QED BY <2>1, <1>1, StartsAsInv
<1>3. CASE StartWithSeed(n)
  <2> DEFINE e == [state |-> state[Seed], stamp |-> 0]
             seeds == [Nothing EXCEPT ![Seed] = e]
  <2>1. /\ ~ Up(n) /\ Up(Seed) /\ StartsAs(n, "JOINING", seeds) /\ "JOINING" \in States
    BY <1>3 DEF StartWithSeed, States
  <2>2. e \in Entry /\ e.stamp = 0
    BY SeedAssumption DEF Entry, IInv, TypeOK
  <2> HIDE DEF e
  <2>3. /\ seeds \in Views
        /\ \A m \in Nodes : seeds[m] # Unknown => Up(m) /\ seeds[m].stamp = 0
    BY <2>1, <2>2, <1>1, SeedAssumption DEF Views
  <2> HIDE DEF seeds
  <2> QED BY <2>1, <2>3, StartsAsInv
<1> QED BY <1>2, <1>3 DEF Start

(* The fields of a sender. *)
LEMMA SenderFields ==
  ASSUME IInv, NEW s \in Senders
  PROVE  /\ sender \in [Senders -> Sender] /\ sender[s] \in Sender /\ SenderInvOf(s, sender[s])
         /\ s[1] \in Nodes /\ sender[s].at \in Nodes /\ sender[s].payload \in Views
         /\ sender[s].dests \in SUBSET Nodes /\ sender[s].todo \in SUBSET Nodes
         /\ sender[s].id \in Nodes
BY DEF IInv, TypeOK, SenderInv, Sender, Senders

(* The own entry of a broadcast is announced as it is made. *)
LEMMA BeginInv ==
  ASSUME IInv, NEW s \in Senders, Begin(s)
  PROVE  IInv'
<1> DEFINE n == s[1]
           now == Len(announced[n])
<1>1. n \in Nodes /\ Up(n) /\ UNCHANGED <<state, view, count, meta, copying>>
  BY SenderFields DEF Begin
<1>2. /\ state \in [Nodes -> States] /\ announced \in [Nodes -> Seq(States)] /\ change \subseteq Nodes
      /\ announced[n] \in Seq(States) /\ announced[n] # <<>>
  BY <1>1 DEF IInv, TypeOK, UpInv
<1>3. now \in Nat /\ now >= 1
  BY <1>2, EmptySeq, LenProperties
<1>4. PICK stamp \in Stamps(n) :
        /\ announced' = [announced EXCEPT ![n] = IF stamp > Len(@) THEN Append(@, state[n]) ELSE @]
        /\ Become(s, [Idle(n) EXCEPT !.pc = "own",
                        !.payload = [Nothing EXCEPT ![n] = [state |-> state[n], stamp |-> stamp]]])
  BY DEF Begin
<1>5. stamp \in {now, now + 1} /\ (stamp = now => announced[n][now] = state[n])
  BY <1>4 DEF Stamps
<1> DEFINE e == [state |-> state[n], stamp |-> stamp]
<1>6. e \in Entry /\ e # Unknown /\ e.stamp = stamp /\ e.state = state[n] /\ stamp > 0
  BY <1>1, <1>2, <1>3, <1>5, UnknownAssumption DEF Entry
<1>7. /\ \A m \in Nodes : m # n => announced'[m] = announced[m]
      /\ stamp = now => announced'[n] = announced[n]
      /\ stamp = now + 1 => announced'[n] = Append(announced[n], state[n])
  BY <1>1, <1>2, <1>3, <1>4
<1>8. announced' \in [Nodes -> Seq(States)] /\ state[n] \in States
  <2>1. Append(announced[n], state[n]) \in Seq(States) /\ state[n] \in States
    BY <1>1, <1>2, AppendProperties
  <2> QED BY <2>1, <1>1, <1>2, <1>4
<1>9. stamp <= Len(announced'[n]) /\ announced'[n][stamp] = state[n] /\ announced'[n] # <<>>
  <2>1. CASE stamp = now
    BY <2>1, <1>2, <1>5, <1>7
  <2>2. CASE stamp = now + 1
    BY <2>2, <1>2, <1>7, <1>8, AppendProperties
  <2> QED BY <1>5, <2>1, <2>2
<1>10. KeepsUp
  BY <1>1, <1>5, <1>7, <1>8 DEF KeepsUp, Up
<1>A. PICK payload : payload = [Nothing EXCEPT ![n] = e]
  OBVIOUS
<1>B. PICK r : r = [Idle(n) EXCEPT !.pc = "own", !.payload = payload]
  OBVIOUS
<1>11. /\ payload \in Views /\ \A m \in Nodes : m # n => payload[m] = Unknown
       /\ payload[n] \in Entry /\ payload[n] # Unknown
       /\ payload[n].stamp = stamp /\ payload[n].state = state[n]
  BY <1>1, <1>6, <1>A DEF Nothing, Views
<1>12. /\ r \in Sender /\ r.pc = "own" /\ r.payload = payload /\ r.dests = {} /\ r.todo = {}
       /\ Len(r.sizes) = 0
  BY <1>1, <1>11, <1>B, IdleSender DEF Idle, Sender
<1>13. Become(s, r)
  BY <1>4, <1>A, <1>B
<1> HIDE DEF e
<1>14. SenderInvOf(s, r)'
  <2>1. \A m \in Nodes : Sound(m, payload[m])'
    BY <1>1, <1>9, <1>11 DEF Sound, Up
  <2> QED BY <2>1, <1>1, <1>11, <1>12 DEF SenderInvOf, Up, Knows, Counting
<1>15. sender' \in [Senders -> Sender] /\ SenderInv'
  BY <1>10, <1>12, <1>13, <1>14, SendersInv
<1>16. change' \subseteq Nodes
  BY <1>2 DEF Begin
<1>17. TypeOK'
  BY <1>1, <1>8, <1>15, <1>16 DEF IInv, TypeOK
<1>18. UpInv'
  BY <1>1, <1>7, <1>9 DEF IInv, UpInv, Up
<1>19. ViewInv'
  <2> SUFFICES ASSUME NEW k \in Nodes, NEW j \in Nodes, NEW d, d = view[k][j] PROVE Sound(j, d)'
    BY <1>1 DEF ViewInv
  <2>1. d \in Entry \cup {Unknown} /\ Sound(j, d)
    BY DEF IInv, TypeOK, Views, ViewInv
  <2> QED BY <2>1, <1>10, SoundStays DEF IInv
<1>20. CountsMatch'
  BY <1>1 DEF IInv, CountsMatch
<1>21. CopyInv'
  BY <1>1, <1>12, <1>13, CopyStays DEF Counting
<1> QED BY <1>15, <1>17, <1>18, <1>19, <1>20, <1>21 DEF IInv

(* After an upsert. *)
LEMMA UpsertStep ==
  ASSUME IInv, NEW s \in Senders, NEW n \in Nodes, NEW m \in Nodes, NEW e \in Entry,
         Up(n), Sound(m, e), Upsert(n, m, e), UNCHANGED <<state, meta, change, copying, announced>>,
         NEW r \in Sender, Become(s, r), SenderInvOf(s, r)', r.pc \notin Counting
  PROVE  IInv'
<1>1. /\ view' \in [Nodes -> Views]
      /\ count' \in [Nodes -> [States -> 0..Cardinality(Nodes)]]
      /\ KeepsUp /\ UpInv' /\ ViewInv' /\ CountsMatch'
  BY UpsertInv
<1>2. sender' \in [Senders -> Sender] /\ SenderInv'
  BY <1>1, SendersInv
<1>3. TypeOK'
  BY <1>1, <1>2 DEF IInv, TypeOK
<1>4. CopyInv'
  BY CopyStays
<1> QED BY <1>1, <1>2, <1>3, <1>4 DEF IInv

(* A broadcast stores its own entry. *)
LEMMA OwnInv ==
  ASSUME IInv, NEW s \in Senders, Own(s)
  PROVE  IInv'
<1> DEFINE n == s[1]
           e == sender[s].payload[n]
<1>1. /\ sender[s].pc = "own" /\ Upsert(n, n, e) /\ n \in Nodes
      /\ UNCHANGED <<state, meta, change, copying, announced>>
  BY SenderFields DEF Own
<1>2. Up(n) /\ Sound(n, e) /\ e \in Entry
  BY <1>1, SenderFields DEF SenderInvOf, Knows, Views
<1> HIDE DEF e
<1>3. KeepsUp
  BY <1>1, <1>2, UpsertInv
<1>4. PICK r : r = [Idle(n) EXCEPT !.pc = "read"]
  OBVIOUS
<1>5. Become(s, r)
  BY <1>4 DEF Own
<1>6. /\ r.pc = "read" /\ r.payload = Nothing /\ r.dests = {} /\ r.todo = {} /\ r.sizes = <<>>
      /\ r \in Sender /\ r.pc \notin Counting
  BY <1>1, <1>4, IdleSender DEF Idle, Sender, Counting
<1>7. SenderInvOf(s, r)
  BY <1>1, <1>2, <1>6, EmptySeq DEF SenderInvOf, Sound, Nothing, Counting
<1>8. SenderInvOf(s, r)'
  BY <1>3, <1>6, <1>7, SenderStays
<1> QED BY <1>1, <1>2, <1>5, <1>6, <1>8, UpsertStep

(* It takes what its node knows, all of it nodes that run. *)
LEMMA ReadInv ==
  ASSUME IInv, NEW s \in Senders, Read(s)
  PROVE  IInv'
<1> DEFINE n == s[1]
           r == [sender[s] EXCEPT !.pc = "post", !.payload = view[n],
                                  !.dests = Knows(view[n]) \ {n}]
<1>1. /\ sender[s].pc = "read" /\ Become(s, r) /\ n \in Nodes
      /\ UNCHANGED <<state, view, count, meta, change, copying, announced>>
  BY SenderFields DEF Read
<1>2. view[n] \in Views /\ Knows(view[n]) \in SUBSET Nodes
  BY <1>1 DEF IInv, TypeOK, Knows
<1>3. /\ r \in Sender /\ r.pc = "post" /\ r.payload = view[n]
      /\ r.dests = Knows(view[n]) \ {n} /\ r.todo = sender[s].todo /\ r.sizes = sender[s].sizes
  BY <1>1, <1>2, SenderFields DEF Sender
<1> HIDE DEF r
<1>4. \A m \in Nodes : Sound(m, r.payload[m])
  BY <1>1, <1>3 DEF IInv, ViewInv
<1>5. sender[s].todo = {}
  BY <1>1, SenderFields DEF SenderInvOf
<1>6. SenderInvOf(s, r)
  BY <1>1, <1>2, <1>3, <1>4, <1>5, SenderFields DEF SenderInvOf, Knows, Sound, Counting
<1>7. r.pc \notin Counting
  BY <1>3 DEF Counting
<1> QED BY <1>1, <1>3, <1>6, <1>7, SenderStep

(* A handler stores what it was sent. *)
LEMMA StoreInv ==
  ASSUME IInv, NEW s \in Senders, Store(s)
  PROVE  IInv'
<1>1. PICK n, m, e, r : /\ n = sender[s].at /\ m = sender[s].id /\ e = sender[s].payload[m]
                        /\ r = [sender[s] EXCEPT !.pc = "entries"]
  OBVIOUS
<1>2. /\ sender[s].pc = "upsert" /\ Upsert(n, m, e) /\ Become(s, r)
      /\ UNCHANGED <<state, meta, change, copying, announced>>
  BY <1>1 DEF Store
<1>3. /\ n \in Nodes /\ m \in Nodes /\ Up(n) /\ Sound(m, e) /\ e \in Entry
  BY <1>1, <1>2, SenderFields DEF SenderInvOf, Knows, Views
<1>4. r \in Sender /\ r.pc = "entries" /\ SenderInvOf(s, r)
  BY <1>1, <1>2, SenderFields DEF Sender, SenderInvOf, Counting
<1>5. KeepsUp
  BY <1>2, <1>3, UpsertInv
<1>6. SenderInvOf(s, r)'
  BY <1>4, <1>5, SenderStays
<1> QED BY <1>2, <1>3, <1>4, <1>6, UpsertStep DEF Counting

(* The steps that store nothing and announce nothing. *)
LEMMA QuietInv ==
  ASSUME IInv, NEW s \in Senders,
         (\E d \in Nodes : Post(s, d)) \/ PostFails(s) \/ BroadcastEnds(s) \/ Compare(s) \/ Check(s)
  PROVE  IInv'
<1>1. /\ sender[s] \in Sender /\ SenderInvOf(s, sender[s]) /\ s[1] \in Nodes
      /\ sender[s].payload \in Views /\ sender[s].dests \in SUBSET Nodes
      /\ sender[s].todo \in SUBSET Nodes /\ sender[s].at \in Nodes
  BY SenderFields
<1>2. UNCHANGED <<state, view, count, meta, change, copying, announced>>
  BY DEF Post, PostFails, BroadcastEnds, Compare, Check
<1>3. ASSUME NEW d \in Nodes, Post(s, d) PROVE IInv'
  <2> DEFINE r == [sender[s] EXCEPT !.pc = "entries", !.at = d, !.dests = @ \ {d},
                                    !.todo = Knows(sender[s].payload)]
  <2>1. Become(s, r) /\ sender[s].pc = "post" /\ d \in sender[s].dests
    BY <1>3 DEF Post
  <2>2. r \in Sender /\ r.pc = "entries" /\ r.at = d /\ r.dests = sender[s].dests \ {d}
        /\ r.todo = Knows(sender[s].payload) /\ r.payload = sender[s].payload
        /\ r.sizes = sender[s].sizes
    BY <1>1 DEF Sender, Knows
  <2> HIDE DEF r
  <2>3. SenderInvOf(s, r)
    BY <1>1, <2>1, <2>2 DEF SenderInvOf, Counting
  <2> QED BY <1>2, <2>1, <2>2, <2>3, SenderStep DEF Counting
<1>4. CASE PostFails(s)
  <2>1. PICK d \in sender[s].dests : Become(s, [sender[s] EXCEPT !.dests = @ \ {d}])
    BY <1>4 DEF PostFails
  <2> DEFINE r == [sender[s] EXCEPT !.dests = @ \ {d}]
  <2>2. r \in Sender /\ r.pc = "post" /\ SenderInvOf(s, r)
    BY <1>1, <1>4 DEF Sender, SenderInvOf, PostFails
  <2> HIDE DEF r
  <2>3. Become(s, r)
    BY <2>1 DEF r
  <2> QED BY <1>2, <2>2, <2>3, SenderStep DEF Counting
<1>5. CASE BroadcastEnds(s)
  <2> DEFINE r == Idle(s[1])
  <2>1. r \in Sender /\ r.pc = "idle" /\ SenderInvOf(s, r) /\ Become(s, r)
    BY <1>1, <1>5, IdleSender DEF BroadcastEnds
  <2> HIDE DEF r
  <2> QED BY <1>2, <2>1, SenderStep DEF Counting
<1>6. CASE Compare(s)
  <2>1. PICK m \in sender[s].todo, pc \in {"upsert", "entries"} :
          Become(s, [sender[s] EXCEPT !.todo = @ \ {m}, !.id = m, !.pc = pc])
    BY <1>6 DEF Compare
  <2> DEFINE r == [sender[s] EXCEPT !.todo = @ \ {m}, !.id = m, !.pc = pc]
  <2>2. r \in Sender /\ r.pc \notin Counting /\ SenderInvOf(s, r)
    BY <1>1, <1>6, <2>1 DEF Sender, SenderInvOf, Compare, Counting
  <2> HIDE DEF r
  <2>3. Become(s, r)
    BY <2>1 DEF r
  <2> QED BY <1>2, <2>2, <2>3, SenderStep
<1>7. CASE Check(s)
  <2>1. PICK pc \in {"count", "post"} :
          /\ Become(s, [sender[s] EXCEPT !.pc = pc])
          /\ pc = "count" => state[sender[s].at] = "JOINING"
    BY <1>7 DEF Check
  <2> DEFINE r == [sender[s] EXCEPT !.pc = pc]
  <2>2. r \in Sender /\ r.pc = pc /\ r.at = sender[s].at /\ SenderInvOf(s, r)
    BY <1>1, <1>7, <2>1 DEF Sender, SenderInvOf, Check, Counting
  <2> HIDE DEF r
  <2>3. Become(s, r)
    BY <2>1 DEF r
  <2> QED BY <1>2, <2>1, <2>2, <2>3, SenderStep DEF Counting
<1> QED BY <1>3, <1>4, <1>5, <1>6, <1>7

(* The list is made longer; what is read of it are its last three numbers. *)
LEMMA CountNodesInv ==
  ASSUME IInv, NEW s \in Senders, CountNodes(s)
  PROVE  IInv'
<1>0. PICK n : n = sender[s].at
  OBVIOUS
<1> DEFINE size == Cardinality(Knows(view[n]))
           longer == Append(meta[n], size)
           sizes == LastThree(longer)
<1>1. /\ sender[s].pc = "count" /\ Become(s, [sender[s] EXCEPT !.pc = "record", !.sizes = sizes])
      /\ UNCHANGED <<state, view, count, meta, change, copying, announced>>
  BY <1>0 DEF CountNodes
<1>2. /\ sender \in [Senders -> Sender] /\ sender[s] \in Sender /\ SenderInvOf(s, sender[s])
      /\ n \in Nodes
  BY <1>0, SenderFields
<1>3. /\ meta[n] \in Seq(1..Cardinality(Nodes)) /\ Len(meta[n]) <= 3
  BY <1>2 DEF IInv, TypeOK
<1>4. size \in 1..Cardinality(Nodes)
  <2>1. Knows(view[n]) \in SUBSET Nodes
    BY DEF Knows
  <2>2. view[n][n] # Unknown
    BY <1>0, <1>1, <1>2 DEF SenderInvOf, IInv, UpInv, Counting
  <2>3. Knows(view[n]) # {}
    BY <1>2, <2>2 DEF Knows
  <2> QED BY <2>1, <2>3, SomeNodes
<1> HIDE DEF size
<1>5. sizes \in Seq(1..Cardinality(Nodes)) /\ Len(sizes) <= 3
  <2> DEFINE T == 1..Cardinality(Nodes)
             old == meta[n]
  <2>0. old \in Seq(T) /\ size \in T /\ longer = Append(old, size) /\ Len(old) <= 3
    BY <1>3, <1>4
  <2> HIDE DEF T, old, longer
  <2>1. longer \in Seq(T) /\ Len(longer) = Len(old) + 1 /\ longer # <<>>
    BY <2>0, AppendProperties
  <2>2. /\ Tail(longer) \in Seq(T) /\ Len(Tail(longer)) = Len(longer) - 1
    BY <2>1, HeadTailProperties
  <2>3. Len(old) \in Nat
    BY <2>0, LenProperties
  <2>4. sizes \in Seq(T) /\ Len(sizes) <= 3
    <3>1. CASE Len(longer) <= 3
      BY <3>1, <2>1 DEF LastThree
    <3>2. CASE ~ Len(longer) <= 3
      BY <3>2, <2>0, <2>1, <2>2, <2>3 DEF LastThree
    <3> QED BY <3>1, <3>2
  <2> QED BY <2>4 DEF T
<1> HIDE DEF sizes
<1> DEFINE r == [sender[s] EXCEPT !.pc = "record", !.sizes = sizes]
<1>6. /\ r \in Sender /\ r.at = n /\ SenderInvOf(s, r) /\ s \in CountingAt(n)
  BY <1>0, <1>1, <1>2, <1>5 DEF Sender, SenderInvOf, Counting, CountingAt
<1>7. Become(s, r)
  BY <1>1
<1> HIDE DEF r
<1> QED BY <1>1, <1>6, <1>7, SenderStep

LEMMA RecordInv ==
  ASSUME IInv, NEW s \in Senders, Record(s)
  PROVE  IInv'
<1>0. PICK n, r : n = sender[s].at /\ r = [sender[s] EXCEPT !.pc = "test", !.sizes = <<>>]
  OBVIOUS
<1>1. /\ sender[s].pc = "record" /\ Become(s, r)
      /\ meta' = [meta EXCEPT ![n] = sender[s].sizes]
      /\ UNCHANGED <<state, view, count, change, copying, announced>>
  BY <1>0 DEF Record
<1>2. /\ sender[s] \in Sender /\ SenderInvOf(s, sender[s]) /\ n \in Nodes
  BY <1>0, SenderFields
<1>3. /\ meta' \in [Nodes -> Seq(1..Cardinality(Nodes))] /\ \A m \in Nodes : Len(meta'[m]) <= 3
  BY <1>1, <1>2 DEF IInv, TypeOK, Sender, SenderInvOf
<1>4. r \in Sender /\ r.at = n /\ SenderInvOf(s, r) /\ s \in CountingAt(n)
  <2>1. /\ r.pc = "test" /\ r.sizes = <<>> /\ Len(r.sizes) = 0 /\ r.at = n
        /\ r.payload = sender[s].payload /\ r.dests = sender[s].dests /\ r.todo = sender[s].todo
    BY <1>0, <1>2, EmptySeq DEF Sender
  <2>2. r \in Sender
    BY <1>0, <1>2, EmptySeq DEF Sender
  <2>3. SenderInvOf(s, r)
    BY <1>0, <1>1, <1>2, <2>1 DEF SenderInvOf, Counting
  <2> QED BY <1>0, <1>1, <2>1, <2>2, <2>3 DEF Counting, CountingAt
<1>5. KeepsUp
  BY <1>1 DEF KeepsUp, Up
<1>6. SenderInvOf(s, r)'
  BY <1>4, <1>5, SenderStays
<1>7. sender' \in [Senders -> Sender] /\ SenderInv'
  BY <1>1, <1>4, <1>5, <1>6, SendersInv
<1>8. TypeOK'
  BY <1>1, <1>3, <1>7 DEF IInv, TypeOK
<1>9. UpInv' /\ ViewInv' /\ CountsMatch'
  BY <1>1 DEF IInv, UpInv, ViewInv, CountsMatch, Up, Sound
<1>10. CopyInv'
  BY <1>1, <1>4, CopyStays
<1> QED BY <1>7, <1>8, <1>9, <1>10 DEF IInv

LEMMA TestInv ==
  ASSUME IInv, NEW s \in Senders, Test(s)
  PROVE  IInv'
<1>1. /\ sender[s] \in Sender /\ SenderInvOf(s, sender[s]) /\ sender[s].at \in Nodes
  BY SenderFields
<1>2. PICK pc \in {"change", "post"} : Become(s, [sender[s] EXCEPT !.pc = pc])
  BY DEF Test
<1> DEFINE r == [sender[s] EXCEPT !.pc = pc]
<1>3. /\ sender[s].pc = "test"
      /\ UNCHANGED <<state, view, count, meta, change, copying, announced>>
  BY DEF Test
<1>4. r \in Sender /\ r.at = sender[s].at /\ SenderInvOf(s, r) /\ s \in CountingAt(r.at)
  BY <1>1, <1>3 DEF Sender, SenderInvOf, Counting, CountingAt
<1>5. Become(s, r)
  BY <1>2
<1> HIDE DEF r
<1> QED BY <1>3, <1>4, <1>5, SenderStep

(* The third count of a row starts the bootstrap. *)
LEMMA ChangeStateInv ==
  ASSUME IInv, NEW s \in Senders, ChangeState(s)
  PROVE  IInv'
<1>0. PICK n, r : n = sender[s].at /\ r = [sender[s] EXCEPT !.pc = "post"]
  OBVIOUS
<1>1. /\ sender[s].pc = "change" /\ Become(s, r)
      /\ state' = [state EXCEPT ![n] = "BOOTSTRAPPING"] /\ change' = change \cup {n}
      /\ copying' = [copying EXCEPT ![n] = @ + 1]
      /\ UNCHANGED <<view, count, meta, announced>>
  BY <1>0 DEF ChangeState
<1>2. /\ sender \in [Senders -> Sender] /\ sender[s] \in Sender /\ SenderInvOf(s, sender[s])
      /\ n \in Nodes
  BY <1>0, SenderFields
<1>3. r \in Sender /\ r.pc = "post" /\ r.pc \notin Counting /\ SenderInvOf(s, r)
  BY <1>0, <1>1, <1>2 DEF Sender, SenderInvOf, Counting
<1>4. KeepsUp
  BY <1>1 DEF KeepsUp, Up
<1>5. /\ sender' = [sender EXCEPT ![s] = r] /\ sender'[s] = r
      /\ \A q \in Senders : q # s => sender'[q] = sender[q]
  BY <1>1, <1>2 DEF Become
<1>6. SenderInvOf(s, r)'
  BY <1>3, <1>4, SenderStays
<1>7. sender' \in [Senders -> Sender] /\ SenderInv'
  BY <1>1, <1>3, <1>4, <1>6, SendersInv
<1>8. UpInv' /\ ViewInv' /\ CountsMatch'
  <2>1. Up(n) /\ state \in [Nodes -> States]
    BY <1>0, <1>1, <1>2 DEF SenderInvOf, IInv, TypeOK, Counting
  <2>2. \A m \in Nodes : ~ Up(m) => state'[m] = state[m]
    BY <1>1, <2>1, <1>2
  <2> QED BY <1>1, <2>2 DEF IInv, UpInv, ViewInv, CountsMatch, Up, Sound
<1> DEFINE A == CountingAt(n)
           B == CountingAt(n)'
<1>9. /\ s \in A /\ B = A \ {s} /\ A \in SUBSET Senders
      /\ \A m \in Nodes : m # n => CountingAt(m)' = CountingAt(m)
  <2>1. s \in A /\ s \notin B
    BY <1>0, <1>1, <1>3, <1>5 DEF CountingAt, Counting
  <2>2. \A q \in Senders : q # s => (q \in A <=> q \in B)
    BY <1>5 DEF CountingAt
  <2>3. \A m \in Nodes : m # n => CountingAt(m)' = CountingAt(m)
    BY <1>0, <1>3, <1>5 DEF CountingAt
  <2>4. A \in SUBSET Senders /\ B \in SUBSET Senders
    BY DEF CountingAt
  <2> HIDE DEF A, B
  <2> QED BY <2>1, <2>2, <2>3, <2>4
<1>10. /\ copying \in [Nodes -> 0..Cardinality(Senders)] /\ change \subseteq Nodes
       /\ state \in [Nodes -> States]
       /\ copying[n] + Cardinality(A) <= Cardinality(Senders)
       /\ \A m \in Nodes : /\ state[m] = "JOINING" => copying[m] = 0
                          /\ copying[m] + Cardinality(CountingAt(m)) <= Cardinality(Senders)
  BY <1>2 DEF IInv, TypeOK, CopyInv
<1> HIDE DEF A, B
<1>11. /\ Cardinality(B) = Cardinality(A) - 1 /\ Cardinality(A) \in Nat
       /\ Cardinality(B) \in Nat /\ Cardinality(Senders) \in Nat
  <2>1. IsFiniteSet(A) /\ IsFiniteSet(B)
    BY <1>9, Sizes, FS_Subset
  <2> QED BY <2>1, <1>9, Sizes, FS_RemoveElement, FS_CardinalityType
<1>12. copying[n] + 1 \in 0..Cardinality(Senders) /\ copying[n] + 1 + Cardinality(B) <= Cardinality(Senders)
  BY <1>2, <1>10, <1>11
<1>13. copying' \in [Nodes -> 0..Cardinality(Senders)] /\ state' \in [Nodes -> States]
  BY <1>1, <1>10, <1>12 DEF States
<1>14. TypeOK'
  BY <1>1, <1>2, <1>7, <1>10, <1>13 DEF IInv, TypeOK
<1>15. /\ copying'[n] = copying[n] + 1 /\ state'[n] = "BOOTSTRAPPING"
       /\ \A m \in Nodes : m # n => copying'[m] = copying[m] /\ state'[m] = state[m]
  BY <1>1, <1>2, <1>10
<1>16. CopyInv'
  BY <1>9, <1>10, <1>12, <1>15 DEF CopyInv, B
<1> QED BY <1>7, <1>8, <1>14, <1>16 DEF IInv

LEMMA CopyCompleteInv ==
  ASSUME IInv, NEW n \in Nodes, CopyComplete(n)
  PROVE  IInv'
<1>1. /\ copying[n] > 0 /\ copying' = [copying EXCEPT ![n] = @ - 1]
      /\ state' = [state EXCEPT ![n] = "AVAILABLE"]
      /\ UNCHANGED <<view, count, meta, sender, change, announced>>
  BY DEF CopyComplete
<1>2. /\ copying \in [Nodes -> 0..Cardinality(Senders)] /\ state \in [Nodes -> States]
  BY DEF IInv, TypeOK
<1>3. copying[n] - 1 \in 0..Cardinality(Senders) /\ copying[n] \in Nat
  BY <1>1, <1>2, Sizes
<1>4. /\ copying' \in [Nodes -> 0..Cardinality(Senders)] /\ state' \in [Nodes -> States]
  BY <1>1, <1>2, <1>3 DEF States
<1>5. /\ copying'[n] = copying[n] - 1 /\ state'[n] = "AVAILABLE"
      /\ \A m \in Nodes : m # n => copying'[m] = copying[m] /\ state'[m] = state[m]
  BY <1>1, <1>2
<1>6. TypeOK'
  BY <1>1, <1>4 DEF IInv, TypeOK
<1>7. Up(n)
  <2>1. state[n] # "JOINING"
    BY <1>1 DEF IInv, CopyInv
  <2> QED BY <2>1 DEF IInv, UpInv
<1>8. UpInv' /\ ViewInv' /\ SenderInv' /\ CountsMatch'
  BY <1>1, <1>5, <1>7 DEF IInv, UpInv, ViewInv, SenderInv, SenderInvOf, CountsMatch, Up, Sound
<1>9. CopyInv'
  <2>1. \A m \in Nodes : /\ CountingAt(m)' = CountingAt(m)
                         /\ Cardinality(CountingAt(m)) \in Nat
    <3>1. \A m \in Nodes : CountingAt(m) \in SUBSET Senders
      BY DEF CountingAt
    <3> QED BY <3>1, <1>1, Sizes, FS_Subset, FS_CardinalityType DEF CountingAt
  <2>2. \A m \in Nodes : /\ state[m] = "JOINING" => copying[m] = 0
                         /\ copying[m] + Cardinality(CountingAt(m)) <= Cardinality(Senders)
    BY DEF IInv, CopyInv
  <2>3. copying[n] - 1 + Cardinality(CountingAt(n)) <= Cardinality(Senders)
    BY <1>3, <2>1, <2>2, Sizes
  <2> QED BY <2>1, <2>2, <2>3, <1>5 DEF CopyInv
<1> QED BY <1>6, <1>8, <1>9 DEF IInv

LEMMA StepInv == IInv /\ [Next]_vars => IInv'
<1> SUFFICES ASSUME IInv, [Next]_vars PROVE IInv'
  OBVIOUS
<1>1. ASSUME NEW n \in Nodes, Start(n) \/ CopyComplete(n) PROVE IInv'
  BY <1>1, StartInv, CopyCompleteInv
<1>2. ASSUME NEW s \in Senders, Broadcast(s) \/ PostFails(s) \/ Handle(s) PROVE IInv'
  BY <1>2, BeginInv, OwnInv, ReadInv, QuietInv, StoreInv, CountNodesInv, RecordInv, TestInv,
     ChangeStateInv DEF Broadcast, Handle
<1>3. CASE UNCHANGED vars
  <2>1. TypeOK' /\ CountsMatch'
    BY <1>3 DEF vars, IInv, TypeOK, CountsMatch
  <2>2. UpInv' /\ ViewInv'
    BY <1>3 DEF vars, IInv, UpInv, ViewInv, Up, Sound
  <2>3. SenderInv'
    BY <1>3 DEF vars, IInv, SenderInv, SenderInvOf, Up, Sound
  <2>4. CopyInv'
    <3>1. \A n \in Nodes : CountingAt(n)' = CountingAt(n)
      BY <1>3 DEF vars, CountingAt
    <3> QED BY <3>1, <1>3 DEF vars, IInv, CopyInv
  <2> QED BY <2>1, <2>2, <2>3, <2>4 DEF IInv
<1> QED BY <1>1, <1>2, <1>3 DEF Next

LEMMA Invariance == Spec => []IInv
<1>1. Init => IInv
  BY InitInv
<1>2. IInv /\ [Next]_vars => IInv'
  BY StepInv
<1> QED BY <1>1, <1>2, PTL DEF Spec

-----------------------------------------------------------------------------
(* The theorems *)

(* All fields keep their types; in particular a node runs no more          *)
(* bootstraps at a time than there are senders.                            *)
THEOREM TypeCorrect == Spec => []TypeOK
<1>1. IInv => TypeOK
  BY DEF IInv
<1> QED BY <1>1, Invariance, PTL

(* stateCount counts the entries, after any interleaving of the upserts.   *)
THEOREM CountsAreRight == Spec => []CountsMatch
<1>1. IInv => CountsMatch
  BY DEF IInv
<1> QED BY <1>1, Invariance, PTL

(* What a node knows of another was announced by that node, though it came *)
(* through others and an upsert may overtake a later one.                  *)
THEOREM NothingIsInvented == Spec => []NothingInvented
<1>1. IInv => NothingInvented
  BY DEF IInv, ViewInv, Sound, NothingInvented
<1> QED BY <1>1, Invariance, PTL
=============================================================================
