--------------------------- MODULE Requests_proofs --------------------------
(***************************************************************************)
(* What the answers to writes and reads are worth, for any number of nodes *)
(* and requests, any tokens, states and views, and any replica count.      *)
(***************************************************************************)
EXTENDS Requests, Lemmas

Vals(es) == {es[i].val : i \in DOMAIN es}

(* A view has one entry for a node. *)
OneEntryEach(S) == \A d, e \in S : d.id = e.id => d = e
ViewInv == \A n \in Ids : OneEntryEach(view[n])

(* A history is in order and no write is in it twice. *)
StoreInv ==
  \A n \in Ids : Ascending(store[n]) /\ OneEach(store[n]) /\ Vals(store[n]) \subseteq Writes

(* The handler that has the request has found itself in its nodes. *)
RoutedBy(nodes, n) ==
  /\ OneEntryEach(ToSet(nodes)) /\ nodes \in Sorted(ToSet(nodes))
  /\ GetNode(nodes, Token) # None /\ GetNode(nodes, Token).id = n

Routed == {"check", "put", "spread"}
Sent == {"fanout", "accepted"}
Stored == {"spread"} \cup Sent

(* Where the copies of a write are, by how far its handler has come: at    *)
(* the handler's node once it was put there, at replicas that have stored  *)
(* it; only an error leaves the handler's copy without a name.             *)
WriteInvOf(w, r, s) ==
  /\ r.pc \in {"routing"} \cup Routed \cup Sent => r.at \in Ids
  /\ r.pc \in Routed => RoutedBy(r.nodes, r.at)
  /\ r.pc \notin Sent => r.replicas = {}
  /\ r.at \notin r.replicas
  /\ r.stored \subseteq r.replicas
  /\ Cardinality(r.replicas) <= Replicas
  /\ r.count <= Cardinality(r.stored)
  /\ r.pc \in Stored => w \in Vals(s[r.at])
  /\ \A n \in r.stored : w \in Vals(s[n])
  /\ \A n \in Ids : w \in Vals(s[n]) =>
       (r.pc \in Stored /\ n = r.at) \/ n \in r.stored \/ r.pc = "error"

WriteInv == \A w \in Writes : WriteInvOf(w, write[w], store)

(* A read that was sent on asks the owner; what it must not miss was       *)
(* accepted.                                                               *)
ReadInvOf(r) ==
  /\ r.pc \in {"routing", "get"} => r.at \in Ids
  /\ r.forwarded => r.quorum < 0
  /\ r.pc = "collect" => r.quorum > 0
  /\ r.pc = "new" => ~ r.forwarded

ReadInv == \A r \in Reads : ReadInvOf(read[r])
BeforeInv == \A r \in Reads : \A w \in read[r].before : write[w].pc = "accepted"

IInv == TypeOK /\ ViewInv /\ StoreInv /\ WriteInv /\ ReadInv /\ BeforeInv

-----------------------------------------------------------------------------
(* While all nodes know of all *)

(* No two nodes were given one token. *)
TokensDiffer == \A a, b \in Ids : Eokr[a] = Eokr[b] => a = b

(* What all nodes know then, the owner, and the replicas.  None of these   *)
(* changes any more.                                                       *)
Truth == {EntryOf(m, state[m]) : m \in Ids}
Owns(n) == IsOwner(Truth, Token, EntryOf(n, state[n]))
Chosen == GetNNode(CHOOSE nodes \in Sorted(Truth) : TRUE, Token, Replicas + 1)
ReplicaSet == {Chosen[i].id : i \in 2..(Replicas + 1)}

(* One node puts all writes and numbers them, and the same nodes get their *)
(* replicas.                                                               *)
OneOwner ==
  /\ \A n \in Ids : view[n] = Truth
  /\ \A w \in Writes :
       /\ write[w].pc \in Routed => write[w].nodes \in Sorted(Truth)
       /\ write[w].pc \in Routed \cup Sent => Owns(write[w].at)
       /\ write[w].pc \in Sent => write[w].replicas = ReplicaSet
  /\ \A o \in Ids : Owns(o) => \A w \in Writes : write[w].version <= Latest(store[o]).ver

(* A read finds the owner where it was sent on, and is answered by it      *)
(* unless it asked for no more than the node it came to.  It has an answer *)
(* that is new enough, or has yet to get one from a replica that has the   *)
(* write.                                                                  *)
Fresh(r, e) == \A w \in r.before : e.ver >= write[w].version
Counted(r, w) == write[w].count + r.quorum > Replicas
ReadMeets(r) ==
  /\ r.pc = "routing" /\ r.forwarded => Owns(r.at) /\ Chosen # None
  /\ r.pc = "get" => Owns(r.at) \/ r.quorum = 0
  /\ r.pc = "collect" => Chosen # None
  /\ StoredAsIs /\ r.pc = "collect" =>
       \A w \in r.before : Counted(r, w) =>
         r.asked \cap write[w].stored # {} \/ \E e \in r.answers : e.ver >= write[w].version
  /\ r.pc = "answered" /\ r.quorum = -1 => Fresh(r, r.entry)
  /\ StoredAsIs /\ r.pc = "answered" /\ r.quorum > 0 /\ r.asked = {} =>
       \A w \in r.before : Counted(r, w) => r.entry.ver >= write[w].version

ReadsMeet == \A r \in Reads : ReadMeets(read[r])

Agreed == settled => OneOwner /\ ReadsMeet /\ VersionsDiffer

SettledInv == IInv /\ Agreed

-----------------------------------------------------------------------------
(* Facts about histories and views *)

(* A write that is put where it was not yet. *)
LEMMA PutNew ==
  ASSUME NEW es \in History, Ascending(es), OneEach(es), NEW w \in Writes, w \notin Vals(es),
         NEW version \in Nat \cup {NoVersion}, NEW new \in PutRaw(es, w, version)
  PROVE  /\ new \in History /\ Ascending(new) /\ OneEach(new)
         /\ Vals(new) = Vals(es) \cup {w}
         /\ NewEntry(es, w, version) \in Entry /\ NewVersion(es, version) \in Nat
         /\ ToSet(new) = ToSet(es) \cup {NewEntry(es, w, version)}
         /\ Latest(new).ver >= Latest(es).ver
         /\ Latest(new).ver >= NewVersion(es, version)
<1> DEFINE e == NewEntry(es, w, version)
<1>1. e \in Entry /\ e.val = w /\ e.ver = NewVersion(es, version) /\ e.ver \in Nat
  <2>1. w \in Nat
    BY RequestsAssumption
  <2>2. e \in Entry
    BY <2>1, NewEntryType
  <2> QED BY <2>2 DEF NewEntry, Entry
<1>2. new \in SortedInserts(es, e)
  BY DEF PutRaw
<1>3. \A i \in DOMAIN es : es[i].val # e.val
  BY <1>1 DEF Vals
<1> HIDE DEF e
<1>4. /\ new \in History /\ Ascending(new) /\ OneEach(new) /\ ToSet(new) = ToSet(es) \cup {e}
      /\ Latest(new).ver >= Latest(es).ver /\ Latest(new).ver >= e.ver
  BY <1>1, <1>2, <1>3, SortedInsertsType, SortedInsertsAscending, SortedInsertsOneEach,
     SortedInsertsAdd, SortedInsertsLatest, SortedInsertsReach
<1>5. Vals(new) = {d.val : d \in ToSet(new)} /\ Vals(es) = {d.val : d \in ToSet(es)}
  BY DEF Vals, ToSet
<1>6. Vals(new) = Vals(es) \cup {w}
  BY <1>1, <1>4, <1>5
<1> QED BY <1>1, <1>4, <1>6 DEF e

(* The owner's put, which asks for the next version. *)
LEMMA PutNext ==
  ASSUME NEW es \in History, Ascending(es), OneEach(es), NEW w \in Writes, w \notin Vals(es),
         NEW new \in PutRaw(es, w, NoVersion)
  PROVE  /\ Vals(new) = Vals(es) \cup {w}
         /\ NewVersion(es, NoVersion) \in Nat /\ NewVersion(es, NoVersion) = Latest(es).ver + 1
         /\ ToSet(new) = ToSet(es) \cup {NewEntry(es, w, NoVersion)}
         /\ Latest(new).ver >= Latest(es).ver
         /\ Latest(new).ver >= NewVersion(es, NoVersion)
<1> DEFINE version == NoVersion
<1>1. version \in Nat \cup {NoVersion} /\ new \in PutRaw(es, w, version)
  OBVIOUS
<1>2. version = NoVersion
  OBVIOUS
<1> HIDE DEF version
<1>3. /\ Vals(new) = Vals(es) \cup {w}
      /\ NewVersion(es, version) \in Nat
      /\ ToSet(new) = ToSet(es) \cup {NewEntry(es, w, version)}
      /\ Latest(new).ver >= Latest(es).ver
      /\ Latest(new).ver >= NewVersion(es, version)
  BY <1>1, PutNew
<1>4. NewVersion(es, NoVersion) = Latest(es).ver + 1
  BY DEF NewVersion, Latest, NoEntry
<1> QED BY <1>2, <1>3, <1>4

(* What is looked up is looked up in a finite set of nodes. *)
LEMMA ViewFacts ==
  ASSUME TypeOK, ViewInv, NEW n \in Ids
  PROVE  /\ view[n] \in SUBSET Node /\ OneEntryEach(view[n])
         /\ IsFiniteSet(view[n]) /\ Token \in Nat /\ Replicas + 1 \in Nat \ {0}
<1>1. view[n] \in SUBSET Node /\ OneEntryEach(view[n])
  BY DEF TypeOK, ViewInv
<1>2. IsFiniteSet(view[n])
  BY <1>1, ViewFinite DEF OneEntryEach
<1> QED BY <1>1, <1>2, TokenAssumption, TotalSlotsAssumption, ReplicasAssumption DEF Tokens

(* The nodes a handler has sorted are the set of nodes it knew. *)
LEMMA SortedSet ==
  ASSUME NEW S, IsFiniteSet(S), NEW nodes \in Sorted(S)
  PROVE  ToSet(nodes) = S /\ nodes \in Seq(S)
<1>1. /\ nodes \in Seq(S) /\ \A e \in S : \E i \in DOMAIN nodes : nodes[i] = e
      /\ DOMAIN nodes = 1..Cardinality(S)
  BY Listing DEF Sorted
<1>2. nodes \in [1..Cardinality(S) -> S]
  BY DEF Sorted, MapToArr, SetToSeqs
<1> QED BY <1>1, <1>2 DEF ToSet

(* The replicas of a write: no more than REPLICA_COUNT, and not the owner. *)
Others(chosen) == {chosen[i].id : i \in 2..(Replicas + 1)}

LEMMA ReplicasOf ==
  ASSUME NEW S \in SUBSET Node, IsFiniteSet(S), OneEntryEach(S), NEW nodes \in Sorted(S),
         NEW chosen, chosen = GetNNode(nodes, Token, Replicas + 1), chosen # None
  PROVE  /\ Others(chosen) \in SUBSET Ids /\ IsFiniteSet(Others(chosen))
         /\ Cardinality(Others(chosen)) <= Replicas
         /\ chosen[1] = GetNode(nodes, Token) /\ chosen[1].id \notin Others(chosen)
         /\ chosen[1] \in S /\ chosen[1].id \in Ids /\ IsOwner(S, Token, chosen[1])
<1>1. Token \in Nat /\ Replicas \in Nat /\ Replicas + 1 \in Nat \ {0}
  BY TokenAssumption, TotalSlotsAssumption, ReplicasAssumption DEF Tokens
<1>2. /\ chosen \in [1..(Replicas + 1) -> S]
      /\ chosen[1] = GetNode(nodes, Token)
      /\ IsOwner(S, Token, chosen[1])
      /\ \A i, j \in 1..(Replicas + 1) : chosen[i] = chosen[j] => i = j
  BY <1>1, GetNNodeOwner
<1> DEFINE R == Others(chosen)
           I == 2..(Replicas + 1)
           f == [i \in I |-> chosen[i].id]
<1>3. \A i \in 1..(Replicas + 1) : chosen[i] \in S /\ chosen[i].id \in Ids
  <2>1. \A i \in 1..(Replicas + 1) : chosen[i] \in S
    BY <1>2
  <2>2. \A e \in S : e.id \in Ids
    BY DEF Node
  <2> QED BY <2>1, <2>2
<1>4. IsFiniteSet(I) /\ Cardinality(I) = Replicas
  <2>1. Cardinality(I) = IF 2 > Replicas + 1 THEN 0 ELSE (Replicas + 1) - 2 + 1
    BY <1>1, FS_Interval
  <2>2. IsFiniteSet(I)
    BY <1>1, FS_Interval
  <2> QED BY <2>1, <2>2, <1>1
<1>5. f \in [I -> R] /\ \A t \in R : \E i \in I : f[i] = t
  BY DEF Others
<1>6. I \subseteq 1..(Replicas + 1) /\ 1 \in 1..(Replicas + 1) /\ 1 \notin I
  BY <1>1
<1>0. R = {chosen[i].id : i \in I}
  BY DEF Others
<1> HIDE DEF I, f, R
<1>7. f \in Surjection(I, R)
  BY <1>5, Fun_IsSurj
<1>8. IsFiniteSet(R) /\ Cardinality(R) <= Replicas
  BY <1>4, <1>7, FS_Surjection
<1>9. R \in SUBSET Ids
  BY <1>0, <1>3, <1>6
<1>10. chosen[1].id \notin R
  <2> SUFFICES ASSUME NEW i \in I, chosen[1].id = chosen[i].id PROVE FALSE
    BY <1>0
  <2>1. chosen[1] = chosen[i]
    BY <1>3, <1>6 DEF OneEntryEach
  <2> QED BY <2>1, <1>2, <1>6
<1> QED BY <1>2, <1>3, <1>6, <1>8, <1>9, <1>10 DEF R

-----------------------------------------------------------------------------
(* The inductive invariant *)

LEMMA InitInv == Init => IInv
<1> SUFFICES ASSUME Init PROVE IInv
  OBVIOUS
<1>1. PICK c \in Clusters :
        /\ state = c.state
        /\ settled = (\A n \in Ids : SeenBy(c, n) = c.state)
        /\ view = [n \in Ids |->
                     {EntryOf(m, SeenBy(c, n)[m]) : m \in {x \in Ids : SeenBy(c, n)[x] # Unknown}}]
  BY DEF Init
<1>2. c.state \in [Ids -> States] /\ c.seen \in [Ids -> States \cup {Unknown}]
  BY ClustersAssumption
<1>3. ASSUME NEW n \in Ids
      PROVE  view[n] \in SUBSET Node /\ OneEntryEach(view[n])
  <2>1. ASSUME NEW m \in Ids, SeenBy(c, n)[m] # Unknown
        PROVE  /\ EntryOf(m, SeenBy(c, n)[m]) \in Node
               /\ EntryOf(m, SeenBy(c, n)[m]).id = m
    <3>1. SeenBy(c, n)[m] \in States
      BY <2>1, <1>2 DEF SeenBy
    <3> QED BY <3>1, EokrAssumption DEF EntryOf, Node
  <2>2. view[n] = {EntryOf(m, SeenBy(c, n)[m]) : m \in {x \in Ids : SeenBy(c, n)[x] # Unknown}}
    BY <1>1
  <2>3. \A e \in view[n] : \E m \in Ids : e = EntryOf(m, SeenBy(c, n)[m]) /\ e \in Node /\ e.id = m
    BY <2>1, <2>2
  <2> QED BY <2>3 DEF OneEntryEach
<1>4. /\ store = [n \in Ids |-> <<>>]
      /\ write = [w \in Writes |-> [pc |-> "new", at |-> None, nodes |-> <<>>,
                                version |-> 0, replicas |-> {}, stored |-> {}, count |-> 0]]
      /\ read = [r \in Reads |-> [pc |-> "new", at |-> None, forwarded |-> FALSE,
                              quorum |-> 0, asked |-> {}, answers |-> {},
                              entry |-> None, before |-> {}]]
  BY DEF Init
<1>5. TypeOK
  <2>1. view \in [Ids -> SUBSET Node]
    BY <1>1, <1>3
  <2>2. store \in [Ids -> History]
    BY <1>4, EmptySeq DEF History
  <2>3. write \in [Writes -> Write]
    <3>1. <<>> \in Seq(Node) /\ 0 \in 0..Replicas
      BY EmptySeq, ReplicasAssumption
    <3> QED BY <1>4, <3>1 DEF Write
  <2>4. read \in [Reads -> Read]
    BY <1>4 DEF Read
  <2> QED BY <1>1, <1>2, <2>1, <2>2, <2>3, <2>4 DEF TypeOK
<1>6. ViewInv
  BY <1>3 DEF ViewInv
<1>7. \A n \in Ids : Vals(store[n]) = {}
  BY <1>4 DEF Vals
<1>8. StoreInv
  BY <1>4, <1>7 DEF StoreInv, Ascending, OneEach
<1>9. WriteInv
  <2> SUFFICES ASSUME NEW w \in Writes PROVE WriteInvOf(w, write[w], store)
    BY DEF WriteInv
  <2>1. write[w] = [pc |-> "new", at |-> None, nodes |-> <<>>,
                    version |-> 0, replicas |-> {}, stored |-> {}, count |-> 0]
    BY <1>4
  <2>2. Cardinality({}) = 0
    BY FS_EmptySet
  <2> QED BY <2>1, <2>2, <1>7, ReplicasAssumption DEF WriteInvOf, Routed, Sent, Stored
<1>10. ReadInv /\ BeforeInv
  BY <1>4 DEF ReadInv, ReadInvOf, BeforeInv
<1> QED BY <1>5, <1>6, <1>8, <1>9, <1>10 DEF IInv

(* Gossip replaces an entry. *)
LEMMA LearnInv ==
  ASSUME IInv, NEW n \in Ids, NEW m \in Ids, Learn(n, m)
  PROVE  IInv'
<1> DEFINE e == EntryOf(m, state[m])
           W == {d \in view[n] : d.id # m} \cup {e}
<1>1. view' = [view EXCEPT ![n] = W] /\ UNCHANGED <<state, store, write, read, settled>>
  BY DEF Learn
<1>2. view \in [Ids -> SUBSET Node] /\ state[m] \in States
  BY DEF IInv, TypeOK
<1>3. e \in Node /\ e.id = m
  BY <1>2, EokrAssumption DEF EntryOf, Node
<1>4. W \in SUBSET Node /\ OneEntryEach(W)
  <2> HIDE DEF e
  <2>1. OneEntryEach(view[n]) /\ view[n] \in SUBSET Node
    BY <1>2 DEF IInv, ViewInv
  <2> QED BY <2>1, <1>3 DEF OneEntryEach
<1> HIDE DEF W
<1>5. view' \in [Ids -> SUBSET Node] /\ \A k \in Ids : view'[k] = view[k] \/ view'[k] = W
  BY <1>1, <1>2, <1>4
<1>6. TypeOK'
  BY <1>1, <1>5 DEF IInv, TypeOK
<1>7. ViewInv'
  BY <1>4, <1>5 DEF IInv, ViewInv, OneEntryEach
<1>8. StoreInv' /\ WriteInv' /\ ReadInv' /\ BeforeInv'
  BY <1>1 DEF IInv, StoreInv, WriteInv, ReadInv, BeforeInv
<1> QED BY <1>6, <1>7, <1>8 DEF IInv

(* A step of a write that stores nothing. *)
LEMMA WriteStepInv ==
  ASSUME IInv, NEW w \in Writes, NEW x \in Write, write' = [write EXCEPT ![w] = x],
         UNCHANGED store, WriteUnchanged, WriteInvOf(w, x, store),
         write[w].pc = "accepted" => x.pc = "accepted"
  PROVE  IInv'
<1>1. write \in [Writes -> Write]
  BY DEF IInv, TypeOK
<1>2. /\ write' \in [Writes -> Write] /\ write'[w] = x
      /\ \A v \in Writes : v # w => write'[v] = write[v]
  BY <1>1
<1>3. store' = store /\ state' = state /\ view' = view /\ read' = read /\ settled' = settled
  BY DEF WriteUnchanged
<1>4. TypeOK'
  BY <1>2, <1>3 DEF IInv, TypeOK
<1>5. ViewInv' /\ StoreInv' /\ ReadInv'
  BY <1>3 DEF IInv, ViewInv, StoreInv, ReadInv
<1>6. WriteInv'
  <2> SUFFICES ASSUME NEW v \in Writes PROVE WriteInvOf(v, write'[v], store)
    BY <1>3 DEF WriteInv
  <2> QED BY <1>2 DEF IInv, WriteInv
<1>7. BeforeInv'
  <2> SUFFICES ASSUME NEW r \in Reads, NEW v \in read[r].before PROVE write'[v].pc = "accepted"
    BY <1>3 DEF BeforeInv
  <2>1. read[r] \in Read /\ v \in Writes
    BY DEF IInv, TypeOK, Read
  <2>2. write[v].pc = "accepted"
    BY DEF IInv, BeforeInv
  <2> QED BY <2>1, <2>2, <1>2
<1> QED BY <1>4, <1>5, <1>6, <1>7 DEF IInv

(* The fields of a write. *)
LEMMA WriteFields ==
  ASSUME IInv, NEW w \in Writes
  PROVE  /\ write \in [Writes -> Write] /\ write[w] \in Write
         /\ WriteInvOf(w, write[w], store)
         /\ write[w].nodes \in Seq(Node)
         /\ write[w].replicas \in SUBSET Ids /\ write[w].stored \in SUBSET Ids
         /\ write[w].count \in 0..Replicas /\ write[w].version \in Nat
         /\ None \notin Ids /\ <<>> \in Seq(Node)
BY NoneAssumption, EmptySeq DEF IInv, TypeOK, WriteInv, Write

(* A write that ends before its replicas were picked. *)
LEMMA WriteFailsInv ==
  ASSUME IInv, NEW w \in Writes, NEW how \in {"rejected", "error"},
         write[w].pc \in {"routing"} \cup Routed,
         how = "rejected" => write[w].pc # "spread",
         WriteFails(w, how), UNCHANGED store, WriteUnchanged
  PROVE  IInv'
<1> DEFINE x == [write[w] EXCEPT !.pc = how, !.at = None, !.nodes = <<>>]
<1>1. /\ write \in [Writes -> Write] /\ write[w] \in Write
      /\ WriteInvOf(w, write[w], store) /\ None \notin Ids /\ <<>> \in Seq(Node)
  BY WriteFields
<1>2. write' = [write EXCEPT ![w] = x]
  BY <1>1 DEF WriteFails
<1>3. /\ x \in Write /\ x.pc = how /\ x.at = None /\ x.replicas = write[w].replicas
      /\ x.stored = write[w].stored /\ x.count = write[w].count
  BY <1>1 DEF Write
<1> HIDE DEF x
<1>4. WriteInvOf(w, x, store)
  BY <1>1, <1>3 DEF WriteInvOf, Routed, Sent, Stored
<1>5. write[w].pc # "accepted"
  BY DEF Routed
<1> QED BY <1>2, <1>3, <1>4, <1>5, WriteStepInv

LEMMA PostInv ==
  ASSUME IInv, NEW w \in Writes, NEW n \in Ids, NEW q \in WriteQuorums, Post(w, n, q)
  PROVE  IInv'
<1>1. /\ write \in [Writes -> Write] /\ write[w] \in Write
      /\ WriteInvOf(w, write[w], store)
  BY WriteFields
<1>2. write[w].pc = "new" /\ UNCHANGED store /\ WriteUnchanged
  BY DEF Post
<1>3. CASE write' = [write EXCEPT ![w].pc = "rejected"]
  <2> DEFINE x == [write[w] EXCEPT !.pc = "rejected"]
  <2>1. write' = [write EXCEPT ![w] = x]
    BY <1>1, <1>3
  <2>2. /\ x \in Write /\ x.pc = "rejected" /\ x.at = write[w].at /\ x.replicas = write[w].replicas
        /\ x.stored = write[w].stored /\ x.count = write[w].count
    BY <1>1 DEF Write
  <2> HIDE DEF x
  <2>3. WriteInvOf(w, x, store)
    BY <1>1, <1>2, <2>2 DEF WriteInvOf, Routed, Sent, Stored
  <2> QED BY <1>2, <2>1, <2>2, <2>3, WriteStepInv
<1>4. CASE write' = [write EXCEPT ![w].pc = "routing", ![w].at = n]
  <2> DEFINE x == [write[w] EXCEPT !.pc = "routing", !.at = n]
  <2>1. write' = [write EXCEPT ![w] = x]
    BY <1>1, <1>4
  <2>2. /\ x \in Write /\ x.pc = "routing" /\ x.at = n /\ x.replicas = write[w].replicas
        /\ x.stored = write[w].stored /\ x.count = write[w].count
    BY <1>1 DEF Write
  <2> HIDE DEF x
  <2>3. WriteInvOf(w, x, store)
    BY <1>1, <1>2, <2>2 DEF WriteInvOf, Routed, Sent, Stored
  <2> QED BY <1>2, <2>1, <2>2, <2>3, WriteStepInv
<1> QED BY <1>3, <1>4 DEF Post

LEMMA CheckInv ==
  ASSUME IInv, NEW w \in Writes, Check(w)
  PROVE  IInv'
<1>1. /\ write \in [Writes -> Write] /\ write[w] \in Write
      /\ WriteInvOf(w, write[w], store)
  BY WriteFields
<1>2. write[w].pc = "check" /\ UNCHANGED store /\ WriteUnchanged
  BY DEF Check
<1>3. CASE write' = [write EXCEPT ![w].pc = "put"]
  <2> DEFINE x == [write[w] EXCEPT !.pc = "put"]
  <2>1. write' = [write EXCEPT ![w] = x]
    BY <1>1, <1>3
  <2>2. /\ x \in Write /\ x.pc = "put" /\ x.at = write[w].at /\ x.replicas = write[w].replicas
        /\ x.stored = write[w].stored /\ x.count = write[w].count /\ x.nodes = write[w].nodes
    BY <1>1 DEF Write
  <2> HIDE DEF x
  <2>3. WriteInvOf(w, x, store)
    BY <1>1, <1>2, <2>2 DEF WriteInvOf, Routed, Sent, Stored
  <2> QED BY <1>2, <2>1, <2>2, <2>3, WriteStepInv
<1>4. CASE WriteFails(w, "rejected")
  BY <1>2, <1>4, WriteFailsInv DEF Routed
<1> QED BY <1>3, <1>4 DEF Check

LEMMA AcceptInv ==
  ASSUME IInv, NEW w \in Writes, Accept(w)
  PROVE  IInv'
<1>1. /\ write \in [Writes -> Write] /\ write[w] \in Write
      /\ WriteInvOf(w, write[w], store)
      /\ write[w].replicas \in SUBSET Ids /\ write[w].stored \in SUBSET Ids
  BY WriteFields
<1>2. write[w].pc = "fanout" /\ UNCHANGED store /\ WriteUnchanged
  BY DEF Accept
<1>3. PICK k \in 0..Cardinality(write[w].stored) :
        write' = [write EXCEPT ![w].pc = "accepted", ![w].count = k]
  BY DEF Accept
<1>4. Cardinality(write[w].stored) \in Nat /\ Cardinality(write[w].stored) <= Replicas
  <2>1. write[w].stored \in SUBSET write[w].replicas /\ Cardinality(write[w].replicas) <= Replicas
    BY <1>1 DEF WriteInvOf
  <2>2. IsFiniteSet(write[w].replicas)
    BY <1>1, IdsAssumption, FS_Subset
  <2>3. /\ IsFiniteSet(write[w].stored)
        /\ Cardinality(write[w].stored) <= Cardinality(write[w].replicas)
    BY <2>1, <2>2, FS_Subset
  <2> QED BY <2>1, <2>2, <2>3, FS_CardinalityType, ReplicasAssumption
<1>5. k \in 0..Replicas /\ k <= Cardinality(write[w].stored)
  BY <1>3, <1>4, ReplicasAssumption
<1> DEFINE x == [write[w] EXCEPT !.pc = "accepted", !.count = k]
<1>6. write' = [write EXCEPT ![w] = x]
  BY <1>1, <1>3
<1>7. /\ x \in Write /\ x.pc = "accepted" /\ x.at = write[w].at /\ x.replicas = write[w].replicas
      /\ x.stored = write[w].stored /\ x.count = k
  BY <1>1, <1>5 DEF Write
<1> HIDE DEF x
<1>8. WriteInvOf(w, x, store)
  BY <1>1, <1>2, <1>5, <1>7 DEF WriteInvOf, Routed, Sent, Stored
<1> QED BY <1>2, <1>6, <1>7, <1>8, WriteStepInv

(* A handler keeps the nodes it has found itself in, or passes on. *)
LEMMA RouteWriteInv ==
  ASSUME IInv, NEW w \in Writes, RouteWrite(w)
  PROVE  IInv'
<1>1. /\ write \in [Writes -> Write] /\ write[w] \in Write
      /\ WriteInvOf(w, write[w], store)
  BY WriteFields
<1> DEFINE n == write[w].at
<1>2. write[w].pc = "routing" /\ UNCHANGED store /\ WriteUnchanged
  BY DEF RouteWrite
<1>3. n \in Ids
  BY <1>1, <1>2 DEF WriteInvOf
<1>4. PICK nodes \in Sorted(view[n]) :
        LET owner == GetNode(nodes, Token)
        IN  \/ WriteFails(w, "error")
            \/ owner # None /\ write' = [write EXCEPT ![w].at = owner.id]
            \/ /\ owner # None /\ owner.id = n
               /\ write' = [write EXCEPT ![w].pc = "check", ![w].nodes = nodes]
  BY DEF RouteWrite
<1>5. /\ view[n] \in SUBSET Node /\ OneEntryEach(view[n]) /\ IsFiniteSet(view[n]) /\ Token \in Nat
  BY <1>3, ViewFacts DEF IInv
<1> DEFINE owner == GetNode(nodes, Token)
<1>6. owner # None => owner.id \in Ids
  <2>1. owner # None => owner \in view[n]
    BY <1>5, GetNodeOwner DEF IsOwner
  <2> QED BY <2>1, <1>5 DEF Node
<1> HIDE DEF owner
<1>7. CASE WriteFails(w, "error")
  BY <1>2, <1>7, WriteFailsInv
<1>8. CASE owner # None /\ write' = [write EXCEPT ![w].at = owner.id]
  <2> DEFINE x == [write[w] EXCEPT !.at = owner.id]
  <2>1. write' = [write EXCEPT ![w] = x]
    BY <1>1, <1>8
  <2>2. /\ x \in Write /\ x.pc = "routing" /\ x.at = owner.id /\ x.replicas = write[w].replicas
        /\ x.stored = write[w].stored /\ x.count = write[w].count
    BY <1>1, <1>2, <1>6, <1>8 DEF Write
  <2> HIDE DEF x
  <2>3. WriteInvOf(w, x, store)
    BY <1>1, <1>2, <1>6, <1>8, <2>2 DEF WriteInvOf, Routed, Sent, Stored
  <2> QED BY <1>2, <2>1, <2>2, <2>3, WriteStepInv
<1>9. CASE /\ owner # None /\ owner.id = n
           /\ write' = [write EXCEPT ![w].pc = "check", ![w].nodes = nodes]
  <2>1. RoutedBy(nodes, n) /\ nodes \in Seq(Node)
    <3>1. ToSet(nodes) = view[n] /\ nodes \in Seq(view[n])
      BY <1>5, SortedSet
    <3> QED BY <3>1, <1>5, <1>9 DEF RoutedBy, owner
  <2> DEFINE x == [write[w] EXCEPT !.pc = "check", !.nodes = nodes]
  <2>2. write' = [write EXCEPT ![w] = x]
    BY <1>1, <1>9
  <2>3. /\ x \in Write /\ x.pc = "check" /\ x.at = n /\ x.nodes = nodes
        /\ x.replicas = write[w].replicas /\ x.stored = write[w].stored
        /\ x.count = write[w].count
    BY <1>1, <2>1 DEF Write
  <2> HIDE DEF x
  <2>4. WriteInvOf(w, x, store)
    BY <1>1, <1>2, <1>3, <2>1, <2>3 DEF WriteInvOf, Routed, Sent, Stored
  <2> QED BY <1>2, <2>2, <2>3, <2>4, WriteStepInv
<1> QED BY <1>4, <1>7, <1>8, <1>9 DEF owner

(* The replicas follow the owner in its nodes, and the owner is the        *)
(* handler's node.                                                         *)
LEMMA SpreadInv ==
  ASSUME IInv, NEW w \in Writes, Spread(w)
  PROVE  IInv'
<1>1. /\ write \in [Writes -> Write] /\ write[w] \in Write
      /\ WriteInvOf(w, write[w], store)
      /\ write[w].nodes \in Seq(Node) /\ <<>> \in Seq(Node)
  BY WriteFields
<1>2. write[w].pc = "spread" /\ UNCHANGED store /\ WriteUnchanged
  BY DEF Spread
<1> DEFINE chosen == GetNNode(write[w].nodes, Token, Replicas + 1)
           R == Others(chosen)
<1>3. CASE WriteFails(w, "error")
  BY <1>2, <1>3, WriteFailsInv DEF Routed
<1>4. CASE /\ chosen # None
           /\ write' = [write EXCEPT ![w].pc = "fanout", ![w].nodes = <<>>, ![w].replicas = R]
  <2> DEFINE S == ToSet(write[w].nodes)
  <2>1. RoutedBy(write[w].nodes, write[w].at) /\ write[w].replicas = {}
    BY <1>1, <1>2 DEF WriteInvOf, Routed, Sent
  <2>2. S \in SUBSET Node /\ OneEntryEach(S) /\ write[w].nodes \in Sorted(S)
    BY <1>1, <2>1 DEF ToSet, RoutedBy
  <2>3. IsFiniteSet(S)
    <3> HIDE DEF S
    <3> QED BY <2>2, ViewFinite DEF OneEntryEach
  <2>4. /\ R \in SUBSET Ids /\ Cardinality(R) <= Replicas
        /\ chosen[1] = GetNode(write[w].nodes, Token) /\ chosen[1].id \notin R
    <3> HIDE DEF S
    <3> QED BY <1>4, <2>2, <2>3, ReplicasOf
  <2>5. write[w].at \notin R
    BY <2>1, <2>4 DEF RoutedBy
  <2> HIDE DEF R, chosen
  <2> DEFINE x == [write[w] EXCEPT !.pc = "fanout", !.nodes = <<>>, !.replicas = R]
  <2>6. write' = [write EXCEPT ![w] = x]
    BY <1>1, <1>4
  <2>7. /\ x \in Write /\ x.pc = "fanout" /\ x.at = write[w].at
        /\ x.replicas = R /\ x.stored = write[w].stored
        /\ x.count = write[w].count
    BY <1>1, <2>4 DEF Write
  <2> HIDE DEF x
  <2>8. WriteInvOf(w, x, store)
    BY <1>1, <1>2, <2>1, <2>4, <2>5, <2>7 DEF WriteInvOf, Routed, Sent, Stored
  <2> QED BY <1>2, <2>6, <2>7, <2>8, WriteStepInv
<1> QED BY <1>3, <1>4 DEF Spread, Others

(* A write put at one node. *)
LEMMA StoreStepInv ==
  ASSUME IInv, NEW w \in Writes, NEW n \in Ids, w \notin Vals(store[n]),
         NEW version \in Nat \cup {NoVersion}, NEW es \in PutRaw(store[n], w, version),
         store' = [store EXCEPT ![n] = es],
         NEW x \in Write, write' = [write EXCEPT ![w] = x], WriteUnchanged,
         WriteInvOf(w, x, store'),
         write[w].pc = "accepted" => x.pc = "accepted"
  PROVE  IInv'
<1>1. write \in [Writes -> Write] /\ store \in [Ids -> History] /\ read \in [Reads -> Read]
  BY DEF IInv, TypeOK
<1>2. /\ write' \in [Writes -> Write] /\ write'[w] = x
      /\ \A v \in Writes : v # w => write'[v] = write[v]
  BY <1>1
<1>3. state' = state /\ view' = view /\ read' = read /\ settled' = settled
  BY DEF WriteUnchanged
<1>4. /\ es \in History /\ Ascending(es) /\ OneEach(es) /\ Vals(es) = Vals(store[n]) \cup {w}
  <2>1. Ascending(store[n]) /\ OneEach(store[n]) /\ store[n] \in History
    BY <1>1 DEF IInv, StoreInv
  <2> QED BY <2>1, PutNew
<1>5. /\ store' \in [Ids -> History] /\ store'[n] = es
      /\ \A m \in Ids : m # n => store'[m] = store[m]
  BY <1>1, <1>4
<1>6. TypeOK'
  BY <1>2, <1>3, <1>5 DEF IInv, TypeOK
<1>7. ViewInv' /\ ReadInv'
  BY <1>3 DEF IInv, ViewInv, ReadInv
<1>8. StoreInv'
  BY <1>4, <1>5 DEF IInv, StoreInv
<1>9. WriteInv'
  <2> SUFFICES ASSUME NEW v \in Writes PROVE WriteInvOf(v, write'[v], store')
    BY DEF WriteInv
  <2>1. CASE v = w
    BY <2>1, <1>2
  <2>2. CASE v # w
    <3>1. WriteInvOf(v, write[v], store) /\ write[v] \in Write /\ write'[v] = write[v]
      BY <1>1, <1>2, <2>2 DEF IInv, WriteInv
    <3>2. \A m \in Ids : v \in Vals(store'[m]) <=> v \in Vals(store[m])
      BY <2>2, <1>4, <1>5
    <3>3. write[v].stored \in SUBSET Ids /\ (write[v].pc \in Stored => write[v].at \in Ids)
      BY <3>1 DEF Write, WriteInvOf, Stored, Routed, Sent
    <3> QED BY <3>1, <3>2, <3>3 DEF WriteInvOf
  <2> QED BY <2>1, <2>2
<1>10. BeforeInv'
  <2> SUFFICES ASSUME NEW r \in Reads, NEW v \in read[r].before PROVE write'[v].pc = "accepted"
    BY <1>3 DEF BeforeInv
  <2>1. read[r] \in Read /\ v \in Writes
    BY <1>1 DEF Read
  <2>2. write[v].pc = "accepted"
    BY DEF IInv, BeforeInv
  <2> QED BY <2>1, <2>2, <1>2
<1> QED BY <1>6, <1>7, <1>8, <1>9, <1>10 DEF IInv

(* A handler that is about to put a write is the first to do so. *)
LEMMA PutAtOwnerInv ==
  ASSUME IInv, NEW w \in Writes, PutAtOwner(w)
  PROVE  IInv'
<1>1. /\ write \in [Writes -> Write] /\ write[w] \in Write
      /\ WriteInvOf(w, write[w], store)
  BY WriteFields
<1> DEFINE n == write[w].at
<1>2. write[w].pc = "put" /\ WriteUnchanged
  BY DEF PutAtOwner
<1>3. PICK es \in PutRaw(store[n], w, NoVersion) : store' = [store EXCEPT ![n] = es]
  BY DEF PutAtOwner
<1>4. /\ n \in Ids /\ RoutedBy(write[w].nodes, n) /\ write[w].replicas = {} /\ write[w].stored = {}
      /\ \A m \in Ids : w \notin Vals(store[m])
  BY <1>1, <1>2 DEF WriteInvOf, Routed, Sent, Stored
<1>5. store \in [Ids -> History] /\ store[n] \in History
  BY <1>4 DEF IInv, TypeOK
<1>6. NewVersion(store[n], NoVersion) \in Nat /\ Vals(es) = Vals(store[n]) \cup {w}
  <2>1. Ascending(store[n]) /\ OneEach(store[n]) /\ w \notin Vals(store[n])
    BY <1>4 DEF IInv, StoreInv
  <2> HIDE DEF n
  <2> QED BY <2>1, <1>3, <1>5, PutNext
<1>7. /\ store'[n] = es /\ \A m \in Ids : m # n => store'[m] = store[m]
  BY <1>3, <1>4, <1>5
<1> DEFINE x == [write[w] EXCEPT !.pc = "spread", !.version = NewVersion(store[n], NoVersion)]
<1>8. write' = [write EXCEPT ![w] = x]
  BY <1>1 DEF PutAtOwner
<1>9. /\ x \in Write /\ x.pc = "spread" /\ x.at = n /\ x.replicas = write[w].replicas
      /\ x.stored = write[w].stored /\ x.count = write[w].count /\ x.nodes = write[w].nodes
  BY <1>1, <1>6 DEF Write
<1> HIDE DEF x
<1>10. WriteInvOf(w, x, store')
  <2>1. \A m \in Ids : w \in Vals(store'[m]) <=> m = n
    BY <1>4, <1>6, <1>7
  <2> QED BY <2>1, <1>1, <1>2, <1>4, <1>9 DEF WriteInvOf, Routed, Sent, Stored
<1> QED BY <1>2, <1>3, <1>4, <1>8, <1>9, <1>10, StoreStepInv

(* A replica stores a write once. *)
LEMMA PostReplicaDataInv ==
  ASSUME IInv, NEW w \in Writes, NEW n \in Ids, PostReplicaData(w, n)
  PROVE  IInv'
<1>1. /\ write \in [Writes -> Write] /\ write[w] \in Write
      /\ WriteInvOf(w, write[w], store)
      /\ write[w].replicas \in SUBSET Ids /\ write[w].stored \in SUBSET Ids
      /\ write[w].version \in Nat
  BY WriteFields
<1>2. n \in write[w].replicas \ write[w].stored /\ WriteUnchanged
  BY DEF PostReplicaData
<1>3. PICK es \in PutRaw(store[n], w, write[w].version) : store' = [store EXCEPT ![n] = es]
  BY DEF PostReplicaData
<1>4. write[w].pc \in Sent /\ n # write[w].at /\ w \notin Vals(store[n])
  BY <1>1, <1>2 DEF WriteInvOf, Sent
<1>5. store \in [Ids -> History] /\ store[n] \in History
  BY DEF IInv, TypeOK
<1>6. Vals(es) = Vals(store[n]) \cup {w}
  BY <1>1, <1>3, <1>4, <1>5, PutNew DEF IInv, StoreInv
<1>7. /\ store'[n] = es /\ \A m \in Ids : m # n => store'[m] = store[m]
  BY <1>3, <1>5
<1> DEFINE x == [write[w] EXCEPT !.stored = @ \cup {n}]
<1>8. write' = [write EXCEPT ![w] = x]
  BY <1>1 DEF PostReplicaData
<1>9. /\ x \in Write /\ x.pc = write[w].pc /\ x.at = write[w].at /\ x.replicas = write[w].replicas
      /\ x.stored = write[w].stored \cup {n} /\ x.count = write[w].count
  BY <1>1 DEF Write
<1> HIDE DEF x
<1>10. WriteInvOf(w, x, store')
  <2>1. \A m \in Ids : w \in Vals(store'[m]) <=> w \in Vals(store[m]) \/ m = n
    BY <1>6, <1>7
  <2>2. write[w].at \in Ids
    BY <1>1, <1>4 DEF WriteInvOf
  <2>3. Cardinality(x.stored) >= Cardinality(write[w].stored) /\ Cardinality(x.stored) \in Nat
        /\ Cardinality(write[w].stored) \in Nat
    <3>1. IsFiniteSet(write[w].stored)
      BY <1>1, IdsAssumption, FS_Subset
    <3>2. Cardinality(write[w].stored \cup {n}) = Cardinality(write[w].stored) + 1
      BY <3>1, <1>2, FS_AddElement
    <3>3. Cardinality(write[w].stored) \in Nat
      BY <3>1, FS_CardinalityType
    <3> QED BY <3>2, <3>3, <1>9
  <2>4. write[w].count \in Nat
    BY <1>1, ReplicasAssumption DEF Write
  <2>5. x.count <= Cardinality(x.stored)
    BY <2>3, <2>4, <1>1, <1>9 DEF WriteInvOf
  <2>6. x.pc \notin Routed /\ x.pc \in Stored /\ x.pc \in Sent
    BY <1>4, <1>9 DEF Stored, Sent, Routed
  <2>7. /\ w \in Vals(store[write[w].at]) /\ write[w].stored \subseteq write[w].replicas
        /\ write[w].at \notin write[w].replicas /\ Cardinality(write[w].replicas) <= Replicas
        /\ \A m \in write[w].stored : w \in Vals(store[m])
        /\ \A m \in Ids : w \in Vals(store[m]) =>
             (m = write[w].at) \/ m \in write[w].stored \/ write[w].pc = "error"
    BY <1>1, <1>4 DEF WriteInvOf, Stored, Sent
  <2> QED BY <2>1, <2>2, <2>5, <2>6, <2>7, <1>1, <1>2, <1>9 DEF WriteInvOf
<1>11. write[w].version \in Nat \cup {NoVersion}
  BY <1>1
<1> QED BY <1>2, <1>3, <1>4, <1>8, <1>9, <1>10, <1>11, StoreStepInv

(* A step of a read, which changes nothing else. *)
LEMMA ReadStepInv ==
  ASSUME IInv, NEW r \in Reads, NEW x \in Read, read' = [read EXCEPT ![r] = x],
         ReadUnchanged, ReadInvOf(x),
         \A w \in x.before : write[w].pc = "accepted"
  PROVE  IInv'
<1>1. read \in [Reads -> Read]
  BY DEF IInv, TypeOK
<1>2. /\ read' \in [Reads -> Read] /\ read'[r] = x
      /\ \A s \in Reads : s # r => read'[s] = read[s]
  BY <1>1
<1>3. store' = store /\ state' = state /\ view' = view /\ write' = write /\ settled' = settled
  BY DEF ReadUnchanged
<1>4. TypeOK'
  BY <1>2, <1>3 DEF IInv, TypeOK
<1>5. ViewInv' /\ StoreInv' /\ WriteInv'
  BY <1>3 DEF IInv, ViewInv, StoreInv, WriteInv
<1>6. ReadInv'
  BY <1>2 DEF IInv, ReadInv
<1>7. BeforeInv'
  BY <1>2, <1>3 DEF IInv, BeforeInv
<1> QED BY <1>4, <1>5, <1>6, <1>7 DEF IInv

(* The fields of a read. *)
LEMMA ReadFields ==
  ASSUME IInv, NEW r \in Reads
  PROVE  /\ read \in [Reads -> Read] /\ read[r] \in Read /\ ReadInvOf(read[r])
         /\ \A w \in read[r].before : write[w].pc = "accepted"
         /\ read[r].quorum \in ReadQuorums \cup {0} /\ read[r].quorum \in Int
         /\ read[r].asked \in SUBSET Ids /\ read[r].answers \in SUBSET Entry
         /\ read[r].before \in SUBSET Writes
         /\ None \notin Ids /\ NoEntry \in Entry
<1>1. read \in [Reads -> Read] /\ read[r] \in Read
  BY DEF IInv, TypeOK
<1>2. /\ read[r].quorum \in ReadQuorums \cup {0}
      /\ read[r].asked \in SUBSET Ids /\ read[r].answers \in SUBSET Entry
      /\ read[r].before \in SUBSET Writes
  BY <1>1 DEF Read
<1>3. read[r].quorum \in Int
  BY <1>2, QuorumsAssumption
<1>4. NoEntry \in Entry
  BY DEF NoEntry, Entry
<1> QED BY <1>1, <1>2, <1>3, <1>4, NoneAssumption DEF IInv, ReadInv, BeforeInv

LEMMA GetInv ==
  ASSUME IInv, NEW r \in Reads, NEW n \in Ids, NEW q \in ReadQuorums, Get(r, n, q)
  PROVE  IInv'
<1>1. read \in [Reads -> Read] /\ read[r] \in Read /\ ReadInvOf(read[r])
      /\ \A w \in read[r].before : write[w].pc = "accepted"
  BY ReadFields
<1>2. read[r].pc = "new" /\ ReadUnchanged
  BY DEF Get
<1>3. CASE read' = [read EXCEPT ![r].pc = "error"]
  <2> DEFINE x == [read[r] EXCEPT !.pc = "error"]
  <2>1. read' = [read EXCEPT ![r] = x]
    BY <1>1, <1>3
  <2>2. /\ x \in Read /\ x.pc = "error" /\ x.before = read[r].before
        /\ x.forwarded = read[r].forwarded /\ x.quorum = read[r].quorum
    BY <1>1 DEF Read
  <2> HIDE DEF x
  <2>3. ReadInvOf(x)
    BY <1>1, <2>2 DEF ReadInvOf
  <2> QED BY <1>1, <1>2, <2>1, <2>2, <2>3, ReadStepInv
<1> DEFINE B == {w \in Writes : write[w].pc = "accepted"}
<1>4. CASE read' = [read EXCEPT ![r].pc = "routing", ![r].at = n, ![r].quorum = q, ![r].before = B]
  <2> DEFINE x == [read[r] EXCEPT !.pc = "routing", !.at = n, !.quorum = q, !.before = B]
  <2>1. read' = [read EXCEPT ![r] = x]
    BY <1>1, <1>4
  <2>2. B \in SUBSET Writes /\ \A w \in B : write[w].pc = "accepted"
    OBVIOUS
  <2> HIDE DEF B
  <2>3. /\ x \in Read /\ x.pc = "routing" /\ x.at = n /\ x.before = B
        /\ x.forwarded = read[r].forwarded
    BY <1>1, <2>2 DEF Read
  <2> HIDE DEF x
  <2>4. ReadInvOf(x)
    BY <1>1, <1>2, <2>3 DEF ReadInvOf
  <2> QED BY <1>2, <2>1, <2>2, <2>3, <2>4, ReadStepInv
<1> QED BY <1>3, <1>4 DEF Get

(* A read that is answered. *)
LEMMA AnsweredInv ==
  ASSUME IInv, NEW r \in Reads, NEW e \in Entry \cup {None}, ReadUnchanged,
         read' = [read EXCEPT ![r] = Answered(r, e)]
  PROVE  /\ IInv'
         /\ read'[r] = Answered(r, e) /\ \A s \in Reads : s # r => read'[s] = read[s]
         /\ Answered(r, e).pc = "answered" /\ Answered(r, e).entry = e
         /\ Answered(r, e).before = read[r].before /\ Answered(r, e).quorum = read[r].quorum
         /\ Answered(r, e).asked = read[r].asked
<1> DEFINE x == Answered(r, e)
<1>1. read \in [Reads -> Read] /\ read[r] \in Read /\ ReadInvOf(read[r])
      /\ \A w \in read[r].before : write[w].pc = "accepted"
  BY ReadFields
<1>2. /\ x \in Read /\ x.pc = "answered" /\ x.before = read[r].before
      /\ x.forwarded = read[r].forwarded /\ x.quorum = read[r].quorum
      /\ x.entry = e /\ x.asked = read[r].asked
  BY <1>1 DEF Read, Answered
<1> HIDE DEF x
<1>3. ReadInvOf(x)
  BY <1>1, <1>2 DEF ReadInvOf
<1>4. IInv'
  BY <1>1, <1>2, <1>3, ReadStepInv DEF x
<1>5. read'[r] = x /\ \A s \in Reads : s # r => read'[s] = read[s]
  BY <1>1 DEF x
<1> QED BY <1>2, <1>4, <1>5 DEF x

(* A read that fails. *)
LEMMA ReadFailsInv ==
  ASSUME IInv, NEW r \in Reads, read[r].pc = "routing", ReadFails(r), ReadUnchanged
  PROVE  /\ IInv'
         /\ \A s \in Reads : s # r => read'[s] = read[s]
         /\ read'[r].pc \in {"answered", "error"}
         /\ read'[r].pc = "answered" => read[r].forwarded
         /\ read'[r].quorum = read[r].quorum
<1>1. read \in [Reads -> Read] /\ read[r] \in Read /\ ReadInvOf(read[r])
      /\ (\A w \in read[r].before : write[w].pc = "accepted")
      /\ NoEntry \in Entry
  BY ReadFields
<1>2. CASE read[r].forwarded
  <2> DEFINE e == NoEntry
  <2>1. read' = [read EXCEPT ![r] = Answered(r, e)]
    BY <1>2 DEF ReadFails
  <2>2. e \in Entry \cup {None}
    BY <1>1
  <2> HIDE DEF e
  <2>3. /\ IInv'
        /\ read'[r] = Answered(r, e) /\ (\A s \in Reads : s # r => read'[s] = read[s])
        /\ Answered(r, e).pc = "answered" /\ Answered(r, e).quorum = read[r].quorum
    BY <2>1, <2>2, AnsweredInv
  <2> QED BY <1>2, <2>3
<1>3. CASE ~ read[r].forwarded
  <2> DEFINE x == [read[r] EXCEPT !.pc = "error", !.at = None]
  <2>1. read' = [read EXCEPT ![r] = x]
    BY <1>1, <1>3 DEF ReadFails
  <2>2. /\ x \in Read /\ x.pc = "error" /\ x.before = read[r].before
        /\ x.forwarded = read[r].forwarded /\ x.quorum = read[r].quorum
    BY <1>1 DEF Read
  <2> HIDE DEF x
  <2>3. ReadInvOf(x)
    BY <1>1, <2>2 DEF ReadInvOf
  <2>4. read'[r] = x /\ \A s \in Reads : s # r => read'[s] = read[s]
    BY <1>1, <2>1
  <2> QED BY <1>1, <2>1, <2>2, <2>3, <2>4, ReadStepInv
<1> QED BY <1>2, <1>3

(* A read that waits for replicas has asked for some. *)
LEMMA RouteReadInv ==
  ASSUME IInv, NEW r \in Reads, RouteRead(r)
  PROVE  IInv'
<1>1. /\ read \in [Reads -> Read] /\ read[r] \in Read /\ ReadInvOf(read[r])
      /\ (\A w \in read[r].before : write[w].pc = "accepted")
      /\ read[r].quorum \in Int
  BY ReadFields
<1> DEFINE n == read[r].at
           q == read[r].quorum
<1>2. read[r].pc = "routing" /\ ReadUnchanged
  BY DEF RouteRead
<1>3. n \in Ids
  BY <1>1, <1>2 DEF ReadInvOf
<1>4. PICK nodes \in Sorted(view[n]) :
        LET chosen == GetNNode(nodes, Token, Replicas + 1)
        IN  \/ ReadFails(r)
            \/ read' = [read EXCEPT ![r].pc = "get"]
            \/ /\ chosen # None /\ q < 0
               /\ read' = [read EXCEPT ![r].at = chosen[1].id, ![r].forwarded = TRUE]
            \/ /\ chosen # None /\ q > 0
               /\ \E asked \in PickNRandom(Others(chosen), q) :
                    read' = [read EXCEPT ![r].pc = "collect", ![r].asked = asked]
  BY DEF RouteRead, Others
<1>5. /\ view[n] \in SUBSET Node /\ OneEntryEach(view[n]) /\ IsFiniteSet(view[n])
  BY <1>3, ViewFacts DEF IInv
<1> DEFINE chosen == GetNNode(nodes, Token, Replicas + 1)
<1>6. chosen # None => Others(chosen) \in SUBSET Ids /\ chosen[1].id \in Ids
  BY <1>5, ReplicasOf
<1>7. CASE ReadFails(r)
  BY <1>2, <1>7, ReadFailsInv
<1>8. CASE read' = [read EXCEPT ![r].pc = "get"]
  <2> DEFINE x == [read[r] EXCEPT !.pc = "get"]
  <2>1. read' = [read EXCEPT ![r] = x]
    BY <1>1, <1>8
  <2>2. /\ x \in Read /\ x.pc = "get" /\ x.at = n /\ x.before = read[r].before
        /\ x.quorum = read[r].quorum /\ x.forwarded = read[r].forwarded
    BY <1>1 DEF Read
  <2> HIDE DEF x
  <2>3. ReadInvOf(x)
    BY <1>1, <1>3, <2>2 DEF ReadInvOf
  <2> QED BY <1>1, <1>2, <2>1, <2>2, <2>3, ReadStepInv
<1> HIDE DEF chosen
<1>9. CASE /\ chosen # None /\ q < 0
           /\ read' = [read EXCEPT ![r].at = chosen[1].id, ![r].forwarded = TRUE]
  <2> DEFINE x == [read[r] EXCEPT !.at = chosen[1].id, !.forwarded = TRUE]
  <2>1. read' = [read EXCEPT ![r] = x]
    BY <1>1, <1>9
  <2>2. /\ x \in Read /\ x.pc = "routing" /\ x.at \in Ids /\ x.before = read[r].before
        /\ x.quorum = read[r].quorum
    BY <1>1, <1>2, <1>6, <1>9 DEF Read
  <2> HIDE DEF x
  <2>3. ReadInvOf(x)
    BY <1>9, <2>2 DEF ReadInvOf
  <2> QED BY <1>1, <1>2, <2>1, <2>2, <2>3, ReadStepInv
<1>10. CASE /\ chosen # None /\ q > 0
            /\ \E asked \in PickNRandom(Others(chosen), q) :
                 read' = [read EXCEPT ![r].pc = "collect", ![r].asked = asked]
  <2>0. PICK asked \in PickNRandom(Others(chosen), q) :
          read' = [read EXCEPT ![r].pc = "collect", ![r].asked = asked]
    BY <1>10
  <2> DEFINE x == [read[r] EXCEPT !.pc = "collect", !.asked = asked]
  <2>1. read' = [read EXCEPT ![r] = x]
    BY <1>1, <2>0
  <2>2. asked \in SUBSET Ids
    BY <1>6, <1>10, <2>0 DEF PickNRandom
  <2>3. /\ x \in Read /\ x.pc = "collect" /\ x.before = read[r].before
        /\ x.quorum = read[r].quorum /\ x.forwarded = read[r].forwarded
    BY <1>1, <2>2 DEF Read
  <2> HIDE DEF x
  <2>4. ReadInvOf(x)
    BY <1>1, <1>10, <2>3 DEF ReadInvOf
  <2> QED BY <1>1, <1>2, <2>1, <2>3, <2>4, ReadStepInv
<1> QED BY <1>4, <1>7, <1>8, <1>9, <1>10 DEF chosen

LEMMA AnswerHereInv ==
  ASSUME IInv, NEW r \in Reads, AnswerHere(r)
  PROVE  IInv'
<1>1. ReadInvOf(read[r]) /\ read[r].pc = "get" /\ ReadUnchanged
  BY ReadFields DEF AnswerHere
<1> DEFINE e == Latest(store[read[r].at])
<1>2. e \in Entry
  BY <1>1, LatestType DEF ReadInvOf, IInv, TypeOK
<1>3. e \in Entry \cup {None} /\ read' = [read EXCEPT ![r] = Answered(r, e)]
  BY <1>2 DEF AnswerHere
<1> HIDE DEF e
<1> QED BY <1>1, <1>3, AnsweredInv

LEMMA ReplicaAnswersInv ==
  ASSUME IInv, NEW r \in Reads, NEW n \in Ids, ReplicaAnswers(r, n)
  PROVE  IInv'
<1>1. /\ read \in [Reads -> Read] /\ read[r] \in Read /\ ReadInvOf(read[r])
      /\ (\A w \in read[r].before : write[w].pc = "accepted")
      /\ NoEntry \in Entry
  BY ReadFields
<1>2. ReadUnchanged
  BY DEF ReplicaAnswers
<1>3. Latest(store[n]) \in Entry
  BY LatestType DEF IInv, TypeOK
<1>4. PICK e \in Entry :
        read' = [read EXCEPT ![r].asked = @ \ {n}, ![r].answers = @ \cup {e}]
  BY <1>1, <1>3 DEF ReplicaAnswers
<1> DEFINE x == [read[r] EXCEPT !.asked = @ \ {n}, !.answers = @ \cup {e}]
<1>5. read' = [read EXCEPT ![r] = x]
  BY <1>1, <1>4
<1>6. /\ x \in Read /\ x.pc = read[r].pc /\ x.before = read[r].before /\ x.at = read[r].at
      /\ x.quorum = read[r].quorum /\ x.forwarded = read[r].forwarded
  BY <1>1 DEF Read
<1> HIDE DEF x
<1>7. ReadInvOf(x)
  BY <1>1, <1>6 DEF ReadInvOf
<1> QED BY <1>1, <1>2, <1>5, <1>6, <1>7, ReadStepInv

LEMMA AnswerReadInv ==
  ASSUME IInv, NEW r \in Reads, AnswerRead(r)
  PROVE  IInv'
<1>1. read[r].answers \in SUBSET Entry
  BY ReadFields
<1>2. PICK e \in Entry \cup {None} : read' = [read EXCEPT ![r] = Answered(r, e)]
  BY <1>1 DEF AnswerRead
<1>3. ReadUnchanged
  BY DEF AnswerRead
<1> QED BY <1>2, <1>3, AnsweredInv

LEMMA StepInv == IInv /\ [Next]_vars => IInv'
<1> SUFFICES ASSUME IInv, [Next]_vars PROVE IInv'
  OBVIOUS
<1>1. CASE \E n, m \in Ids : Learn(n, m)
  BY <1>1, LearnInv
<1>2. ASSUME NEW w \in Writes, WriteStep(w) PROVE IInv'
  BY <1>2, RouteWriteInv, CheckInv, PutAtOwnerInv, SpreadInv, AcceptInv DEF WriteStep
<1>3. ASSUME NEW w \in Writes, NEW n \in Ids, NEW q \in WriteQuorums, Post(w, n, q) PROVE IInv'
  BY <1>3, PostInv
<1>4. ASSUME NEW w \in Writes, NEW n \in Ids, PostReplicaData(w, n) PROVE IInv'
  BY <1>4, PostReplicaDataInv
<1>5. ASSUME NEW r \in Reads, NEW n \in Ids, NEW q \in ReadQuorums, Get(r, n, q) PROVE IInv'
  BY <1>5, GetInv
<1>6. ASSUME NEW r \in Reads, RouteRead(r) PROVE IInv'
  BY <1>6, RouteReadInv
<1>10. ASSUME NEW r \in Reads, AnswerHere(r) PROVE IInv'
  BY <1>10, AnswerHereInv
<1>7. ASSUME NEW r \in Reads, AnswerRead(r) PROVE IInv'
  BY <1>7, AnswerReadInv
<1>8. ASSUME NEW r \in Reads, NEW n \in Ids, ReplicaAnswers(r, n) PROVE IInv'
  BY <1>8, ReplicaAnswersInv
<1>9. CASE UNCHANGED vars
  BY <1>9 DEF vars, IInv, TypeOK, ViewInv, StoreInv, WriteInv, ReadInv, BeforeInv
<1> QED BY <1>1, <1>2, <1>3, <1>4, <1>5, <1>6, <1>7, <1>8, <1>9, <1>10 DEF Next

LEMMA Invariance == Spec => []IInv
<1>1. Init => IInv
  BY InitInv
<1>2. IInv /\ [Next]_vars => IInv'
  BY StepInv
<1> QED BY <1>1, <1>2, PTL DEF Spec

-----------------------------------------------------------------------------
(* The theorems about all behaviours *)

(* A node holds a write when its history has an entry of it. *)
LEMMA HolderIs ==
  ASSUME NEW n \in Ids, NEW w \in Writes
  PROVE  n \in Holders(w) <=> w \in Vals(store[n])
BY DEF Holders, CopiesAt, Vals

(* The replica count of an answer is true, whatever the nodes that took    *)
(* part knew of one another: the owner's copy and the counted ones are     *)
(* there, at different nodes.                                              *)
THEOREM CopiesAreThere == Spec => []CountedCopies
<1>1. IInv => CountedCopies
  <2> SUFFICES ASSUME IInv, NEW w \in Writes, write[w].pc = "accepted"
               PROVE  /\ write[w].at \in Holders(w)
                      /\ Cardinality(Holders(w)) >= write[w].count + 1
    BY DEF CountedCopies
  <2> DEFINE T == write[w].stored \cup {write[w].at}
  <2>1. /\ WriteInvOf(w, write[w], store) /\ write[w].stored \in SUBSET Ids
        /\ write[w].count \in 0..Replicas
    BY WriteFields
  <2>2. /\ write[w].at \in Ids /\ w \in Vals(store[write[w].at])
        /\ (\A n \in write[w].stored : w \in Vals(store[n]))
        /\ write[w].at \notin write[w].stored
        /\ write[w].count <= Cardinality(write[w].stored)
    BY <2>1 DEF WriteInvOf, Stored, Sent
  <2>3. T \subseteq Holders(w) /\ IsFiniteSet(Holders(w))
    <3>1. \A n \in T : n \in Ids /\ w \in Vals(store[n])
      BY <2>1, <2>2
    <3>2. Holders(w) \in SUBSET Ids
      BY DEF Holders
    <3> QED BY <3>1, <3>2, HolderIs, IdsAssumption, FS_Subset
  <2>4. IsFiniteSet(write[w].stored)
    BY <2>1, IdsAssumption, FS_Subset
  <2>5. Cardinality(T) = Cardinality(write[w].stored) + 1
    BY <2>2, <2>4, FS_AddElement
  <2>6. Cardinality(T) <= Cardinality(Holders(w)) /\ Cardinality(Holders(w)) \in Nat
    BY <2>3, FS_Subset, FS_CardinalityType
  <2>7. Cardinality(write[w].stored) \in Nat /\ write[w].count \in Nat
    BY <2>1, <2>4, FS_CardinalityType, ReplicasAssumption
  <2> QED BY <2>2, <2>3, <2>5, <2>6, <2>7
<1> QED BY <1>1, Invariance, PTL

(* No node stores a write twice. *)
THEOREM StoredOnce == Spec => []WrittenOnce
<1>1. IInv => WrittenOnce
  <2> SUFFICES ASSUME IInv, NEW w \in Writes, NEW n \in Ids PROVE Cardinality(CopiesAt(n, w)) <= 1
    BY DEF WrittenOnce
  <2>1. \A i, j \in CopiesAt(n, w) : i = j
    BY DEF IInv, StoreInv, OneEach, CopiesAt
  <2>2. CASE CopiesAt(n, w) = {}
    BY <2>2, FS_EmptySet
  <2>3. CASE CopiesAt(n, w) # {}
    <3>1. PICK i : CopiesAt(n, w) = {i}
      BY <2>1, <2>3
    <3>2. Cardinality({i}) = 1
      BY FS_Singleton
    <3> QED BY <3>1, <3>2
  <2> QED BY <2>2, <2>3
<1> QED BY <1>1, Invariance, PTL
-----------------------------------------------------------------------------
(* All nodes know of all *)

LEMMA TruthFacts ==
  ASSUME TokensDiffer, TypeOK
  PROVE  /\ Truth \in SUBSET Node /\ OneEntryEach(Truth) /\ IsFiniteSet(Truth)
         /\ \A d, e \in Truth : d.eokr = e.eokr => d = e
         /\ \A e \in Truth : e.id \in Ids /\ e = EntryOf(e.id, state[e.id])
         /\ \A n \in Ids : EntryOf(n, state[n]) \in Truth /\ EntryOf(n, state[n]).id = n
         /\ Token \in Nat /\ Replicas \in Nat /\ Replicas + 1 \in Nat \ {0}
<1>1. \A n \in Ids : /\ EntryOf(n, state[n]) \in Node /\ EntryOf(n, state[n]).id = n
                     /\ EntryOf(n, state[n]).eokr = Eokr[n]
  BY EokrAssumption DEF TypeOK, EntryOf, Node
<1>2. \A e \in Truth : \E n \in Ids : e = EntryOf(n, state[n])
  BY DEF Truth
<1>3. Truth \in SUBSET Node /\ OneEntryEach(Truth)
  BY <1>1, <1>2 DEF OneEntryEach
<1>4. IsFiniteSet(Truth)
  BY <1>3, ViewFinite DEF OneEntryEach
<1>5. \A d, e \in Truth : d.eokr = e.eokr => d = e
  BY <1>1, <1>2 DEF TokensDiffer
<1>6. \A n \in Ids : EntryOf(n, state[n]) \in Truth
  BY DEF Truth
<1> QED BY <1>1, <1>2, <1>3, <1>4, <1>5, <1>6, TokenAssumption, TotalSlotsAssumption, ReplicasAssumption
        DEF Tokens

(* One node owns the key. *)
LEMMA OwnerOnce ==
  ASSUME TokensDiffer, TypeOK, NEW a \in Ids, NEW b \in Ids, Owns(a), Owns(b)
  PROVE  a = b
<1> DEFINE d == EntryOf(a, state[a])
           e == EntryOf(b, state[b])
<1>1. d \in Truth /\ e \in Truth /\ d.id = a /\ e.id = b /\ d \in Node /\ e \in Node
  BY TruthFacts
<1>2. IsOwner(Truth, Token, d) /\ IsOwner(Truth, Token, e)
  BY DEF Owns
<1> HIDE DEF d, e
<1>3. d.eokr <= e.eokr /\ e.eokr <= d.eokr
  BY <1>1, <1>2 DEF IsOwner
<1>4. d.eokr \in Nat /\ e.eokr \in Nat
  BY <1>1, TotalSlotsAssumption DEF Node
<1>5. d.eokr = e.eokr
  BY <1>3, <1>4
<1> QED BY <1>1, <1>5, TruthFacts

(* All lookups give one answer. *)
LEMMA Lookup ==
  ASSUME TokensDiffer, TypeOK, NEW nodes \in Sorted(Truth)
  PROVE  /\ GetNNode(nodes, Token, Replicas + 1) = Chosen
         /\ GetNode(nodes, Token) # None =>
              GetNode(nodes, Token).id \in Ids /\ Owns(GetNode(nodes, Token).id)
         /\ Chosen # None =>
              /\ Chosen[1].id \in Ids /\ Owns(Chosen[1].id)
              /\ ReplicaSet = Others(Chosen) /\ ReplicaSet \in SUBSET Ids
              /\ IsFiniteSet(ReplicaSet) /\ Cardinality(ReplicaSet) <= Replicas
<1>1. /\ Truth \in SUBSET Node /\ OneEntryEach(Truth) /\ IsFiniteSet(Truth)
      /\ (\A d, e \in Truth : d.eokr = e.eokr => d = e)
      /\ (\A e \in Truth : e.id \in Ids /\ e = EntryOf(e.id, state[e.id]))
      /\ Token \in Nat
  BY TruthFacts
<1> DEFINE any == CHOOSE a \in Sorted(Truth) : TRUE
<1>2. any \in Sorted(Truth)
  OBVIOUS
<1>3. Chosen = GetNNode(any, Token, Replicas + 1)
  BY DEF Chosen
<1> HIDE DEF any
<1>4. any = nodes
  BY <1>1, <1>2, SortedOnce
<1>5. GetNNode(nodes, Token, Replicas + 1) = Chosen
  BY <1>3, <1>4
<1>6. \A e : IsOwner(Truth, Token, e) => e.id \in Ids /\ Owns(e.id)
  BY <1>1 DEF Owns, IsOwner
<1>7. GetNode(nodes, Token) # None => IsOwner(Truth, Token, GetNode(nodes, Token))
  BY <1>1, GetNodeOwner
<1>8. ASSUME Chosen # None
      PROVE  /\ Others(Chosen) \in SUBSET Ids /\ IsFiniteSet(Others(Chosen))
             /\ Cardinality(Others(Chosen)) <= Replicas
             /\ IsOwner(Truth, Token, Chosen[1])
  BY <1>1, <1>5, <1>8, ReplicasOf
<1>9. ReplicaSet = Others(Chosen)
  BY DEF ReplicaSet, Others
<1> QED BY <1>5, <1>6, <1>7, <1>8, <1>9

LEMMA InitAgreed == Init /\ TokensDiffer => Agreed
<1> SUFFICES ASSUME Init, TokensDiffer, settled PROVE OneOwner /\ ReadsMeet /\ VersionsDiffer
  BY DEF Agreed
<1>1. PICK c \in Clusters :
        /\ state = c.state
        /\ settled = (\A n \in Ids : SeenBy(c, n) = c.state)
        /\ view = [n \in Ids |->
                     {EntryOf(m, SeenBy(c, n)[m]) : m \in {x \in Ids : SeenBy(c, n)[x] # Unknown}}]
  BY DEF Init
<1>2. c.state \in [Ids -> States]
  BY ClustersAssumption
<1>3. ASSUME NEW n \in Ids PROVE view[n] = Truth
  <2>1. SeenBy(c, n) = state
    BY <1>1
  <2>2. \A m \in Ids : state[m] # Unknown
    BY <1>1, <1>2 DEF States, Unknown
  <2>3. {x \in Ids : SeenBy(c, n)[x] # Unknown} = Ids
    BY <2>1, <2>2
  <2>4. view[n] = {EntryOf(m, SeenBy(c, n)[m]) : m \in {x \in Ids : SeenBy(c, n)[x] # Unknown}}
    BY <1>1
  <2> QED BY <2>1, <2>3, <2>4 DEF Truth
<1>4. \A n \in Ids : store[n] = <<>>
  BY DEF Init
<1>5. \A w \in Writes : write[w].pc = "new" /\ write[w].version = 0
  BY DEF Init
<1>6. \A r \in Reads : read[r].pc = "new"
  BY DEF Init
<1>7. OneOwner
  BY <1>3, <1>4, <1>5 DEF OneOwner, Routed, Sent, Latest, NoEntry
<1>8. ReadsMeet
  BY <1>6 DEF ReadsMeet, ReadMeets
<1>9. VersionsDiffer
  BY <1>5 DEF VersionsDiffer
<1> QED BY <1>7, <1>8, <1>9
LEMMA TruthStays ==
  ASSUME state' = state
  PROVE  /\ Truth' = Truth /\ Chosen' = Chosen /\ ReplicaSet' = ReplicaSet
         /\ \A n \in Ids : Owns(n)' <=> Owns(n)
<1>1. Truth' = Truth
  BY DEF Truth, EntryOf
<1>2. Chosen' = Chosen
  BY <1>1 DEF Chosen
<1>3. ReplicaSet' = ReplicaSet
  BY <1>2 DEF ReplicaSet
<1>4. \A n \in Ids : Owns(n)' <=> Owns(n)
  BY <1>1 DEF Owns, EntryOf
<1> QED BY <1>1, <1>2, <1>3, <1>4

(* A step of a write. *)
LEMMA WriteAgreed ==
  ASSUME TokensDiffer, IInv, Agreed, settled, WriteUnchanged,
         NEW w \in Writes, NEW x \in Write, write' = [write EXCEPT ![w] = x],
         x.pc \in Routed => x.nodes \in Sorted(Truth),
         x.pc \in Routed \cup Sent => Owns(x.at),
         x.pc \in Sent => x.replicas = ReplicaSet,
         write[w].pc = "accepted" => /\ x.version = write[w].version /\ x.count = write[w].count
                                     /\ write[w].stored \subseteq x.stored,
         StoredAsIs' => StoredAsIs,
         \A o \in Ids : Owns(o) => \A v \in Writes : write'[v].version <= Latest(store'[o]).ver,
         VersionsDiffer'
  PROVE  Agreed'
<1>1. write \in [Writes -> Write] /\ read \in [Reads -> Read]
  BY DEF IInv, TypeOK
<1>2. /\ state' = state /\ view' = view /\ read' = read
      /\ write'[w] = x /\ \A v \in Writes : v # w => write'[v] = write[v]
  BY <1>1 DEF WriteUnchanged
<1>3. OneOwner /\ ReadsMeet
  BY DEF Agreed
<1>4. OneOwner'
  <2>1. \A n \in Ids : view'[n] = Truth'
    BY <1>2, <1>3, TruthStays DEF OneOwner
  <2>2. ASSUME NEW v \in Writes
        PROVE  /\ write'[v].pc \in Routed => write'[v].nodes \in Sorted(Truth')
               /\ write'[v].pc \in Routed \cup Sent => Owns(write'[v].at)
               /\ write'[v].pc \in Sent => write'[v].replicas = ReplicaSet'
    <3>1. CASE v = w
      BY <3>1, <1>2, TruthStays
    <3>2. CASE v # w
      BY <3>2, <1>2, <1>3, TruthStays DEF OneOwner
    <3> QED BY <3>1, <3>2
  <2>3. \A v \in Writes : write'[v].pc \in Routed \cup Sent => Owns(write[v].at)'
    <3>1. EntryOf(write'[w].at, state'[write'[w].at]) = EntryOf(write'[w].at, state[write'[w].at])
      BY <1>2
    <3> QED BY <2>2, <1>2, TruthStays DEF Owns, EntryOf
  <2>4. \A o \in Ids : Owns(o)' => \A v \in Writes : write'[v].version <= Latest(store'[o]).ver
    BY <1>2, TruthStays
  <2> QED BY <2>1, <2>2, <2>3, <2>4 DEF OneOwner
<1>5. ReadsMeet'
  <2> SUFFICES ASSUME NEW r \in Reads PROVE ReadMeets(read[r])'
    BY DEF ReadsMeet
  <2>1. /\ read[r].before \in SUBSET Writes
        /\ \A v \in read[r].before : write[v].pc = "accepted"
    BY <1>1 DEF IInv, BeforeInv, Read
  <2>2. \A v \in read[r].before : /\ write'[v].version = write[v].version
                                  /\ write'[v].count = write[v].count
                                  /\ write[v].stored \subseteq write'[v].stored
    BY <2>1, <1>2
  <2>3. ReadMeets(read[r])
    BY <1>3 DEF ReadsMeet
  <2> DEFINE d == read[r]
  <2>4. Owns(d.at) <=> Owns(d.at)'
    BY <1>2, TruthStays DEF Owns, EntryOf
  <2>5. Chosen' = Chosen /\ read'[r] = d
    BY <1>2, TruthStays
  <2> QED BY <2>2, <2>3, <2>4, <2>5 DEF ReadMeets, Fresh, Counted
<1> QED BY <1>4, <1>5 DEF Agreed

(* A step of a write that stores nothing. *)
LEMMA QuietAgreed ==
  ASSUME TokensDiffer, IInv, Agreed, settled, WriteUnchanged, UNCHANGED store,
         NEW w \in Writes, NEW x \in Write, write' = [write EXCEPT ![w] = x],
         x.pc \in Routed => x.nodes \in Sorted(Truth),
         x.pc \in Routed \cup Sent => Owns(x.at),
         x.pc \in Sent => x.replicas = ReplicaSet,
         write[w].pc # "accepted", x.version = write[w].version
  PROVE  Agreed'
<1>1. write \in [Writes -> Write] /\ store \in [Ids -> History]
  BY DEF IInv, TypeOK
<1>2. /\ write'[w] = x /\ (\A v \in Writes : v # w => write'[v] = write[v])
      /\ store' = store
  BY <1>1
<1>3. \A v \in Writes : write'[v].version = write[v].version
  BY <1>2
<1>4. StoredAsIs' => StoredAsIs
  <2>1. \A n \in Ids : \A i \in DOMAIN store[n] : store[n][i].val \in Writes
    BY DEF IInv, StoreInv, Vals
  <2> QED BY <2>1, <1>2, <1>3 DEF StoredAsIs
<1>5. \A o \in Ids : Owns(o) => \A v \in Writes : write'[v].version <= Latest(store'[o]).ver
  BY <1>2, <1>3 DEF Agreed, OneOwner
<1>6. VersionsDiffer'
  BY <1>3 DEF Agreed, VersionsDiffer
<1> QED BY <1>4, <1>5, <1>6, WriteAgreed

(* A write that ends has no owner and no replicas any more. *)
LEMMA FailsAgreed ==
  ASSUME TokensDiffer, IInv, Agreed, settled, NEW w \in Writes, NEW how \in {"rejected", "error"},
         write[w].pc # "accepted", WriteFails(w, how), UNCHANGED store, WriteUnchanged
  PROVE  Agreed'
<1> DEFINE x == [write[w] EXCEPT !.pc = how, !.at = None, !.nodes = <<>>]
<1>1. /\ write \in [Writes -> Write] /\ write[w] \in Write /\ <<>> \in Seq(Node)
  BY WriteFields
<1>2. write' = [write EXCEPT ![w] = x]
  BY <1>1 DEF WriteFails
<1>3. x \in Write /\ x.pc \notin Routed \cup Sent /\ x.version = write[w].version
  BY <1>1 DEF Write, Routed, Sent
<1> HIDE DEF x
<1> QED BY <1>2, <1>3, QuietAgreed

LEMMA PostAgreed ==
  ASSUME TokensDiffer, IInv, Agreed, settled, NEW w \in Writes, NEW n \in Ids,
         NEW q \in WriteQuorums, Post(w, n, q)
  PROVE  Agreed'
<1>1. /\ write \in [Writes -> Write] /\ write[w] \in Write
  BY WriteFields
<1>2. write[w].pc = "new" /\ UNCHANGED store /\ WriteUnchanged
  BY DEF Post
<1>3. CASE write' = [write EXCEPT ![w].pc = "rejected"]
  <2> DEFINE x == [write[w] EXCEPT !.pc = "rejected"]
  <2>1. write' = [write EXCEPT ![w] = x]
    BY <1>1, <1>3
  <2>2. x \in Write /\ x.pc \notin Routed \cup Sent /\ x.version = write[w].version
    BY <1>1 DEF Write, Routed, Sent
  <2> HIDE DEF x
  <2> QED BY <1>2, <2>1, <2>2, QuietAgreed
<1>4. CASE write' = [write EXCEPT ![w].pc = "routing", ![w].at = n]
  <2> DEFINE x == [write[w] EXCEPT !.pc = "routing", !.at = n]
  <2>1. write' = [write EXCEPT ![w] = x]
    BY <1>1, <1>4
  <2>2. x \in Write /\ x.pc \notin Routed \cup Sent /\ x.version = write[w].version
    BY <1>1 DEF Write, Routed, Sent
  <2> HIDE DEF x
  <2> QED BY <1>2, <2>1, <2>2, QuietAgreed
<1> QED BY <1>3, <1>4 DEF Post

(* The node that keeps a write is the owner. *)
LEMMA RouteWriteAgreed ==
  ASSUME TokensDiffer, IInv, Agreed, settled, NEW w \in Writes, RouteWrite(w)
  PROVE  Agreed'
<1>1. /\ write \in [Writes -> Write] /\ write[w] \in Write
      /\ WriteInvOf(w, write[w], store)
  BY WriteFields
<1> DEFINE n == write[w].at
<1>2. write[w].pc = "routing" /\ UNCHANGED store /\ WriteUnchanged
  BY DEF RouteWrite
<1>3. n \in Ids /\ view[n] = Truth
  BY <1>1, <1>2 DEF WriteInvOf, Agreed, OneOwner
<1>4. PICK nodes \in Sorted(Truth) :
        LET owner == GetNode(nodes, Token)
        IN  \/ WriteFails(w, "error")
            \/ owner # None /\ write' = [write EXCEPT ![w].at = owner.id]
            \/ /\ owner # None /\ owner.id = n
               /\ write' = [write EXCEPT ![w].pc = "check", ![w].nodes = nodes]
  BY <1>3 DEF RouteWrite
<1> DEFINE owner == GetNode(nodes, Token)
<1>5. owner # None => owner.id \in Ids /\ Owns(owner.id)
  BY Lookup DEF IInv
<1>6. nodes \in Seq(Node)
  <2>1. Truth \in SUBSET Node /\ IsFiniteSet(Truth)
    BY TruthFacts DEF IInv
  <2> QED BY <2>1, SortedSet
<1> HIDE DEF owner
<1>7. CASE WriteFails(w, "error")
  BY <1>2, <1>7, FailsAgreed
<1>8. CASE owner # None /\ write' = [write EXCEPT ![w].at = owner.id]
  <2> DEFINE x == [write[w] EXCEPT !.at = owner.id]
  <2>1. write' = [write EXCEPT ![w] = x]
    BY <1>1, <1>8
  <2>2. x \in Write /\ x.pc \notin Routed \cup Sent /\ x.version = write[w].version
    BY <1>1, <1>2, <1>5, <1>8 DEF Write, Routed, Sent
  <2> HIDE DEF x
  <2> QED BY <1>2, <2>1, <2>2, QuietAgreed
<1>9. CASE /\ owner # None /\ owner.id = n
           /\ write' = [write EXCEPT ![w].pc = "check", ![w].nodes = nodes]
  <2> DEFINE x == [write[w] EXCEPT !.pc = "check", !.nodes = nodes]
  <2>1. write' = [write EXCEPT ![w] = x]
    BY <1>1, <1>9
  <2>2. /\ x \in Write /\ x.pc = "check" /\ x.version = write[w].version
        /\ x.nodes = nodes /\ x.at = n
    BY <1>1, <1>6 DEF Write
  <2> HIDE DEF x
  <2>3. x.pc \notin Sent /\ Owns(x.at) /\ x.nodes \in Sorted(Truth)
    BY <2>2, <1>5, <1>9 DEF Sent
  <2> QED BY <1>2, <2>1, <2>2, <2>3, QuietAgreed
<1> QED BY <1>4, <1>7, <1>8, <1>9 DEF owner

LEMMA CheckAgreed ==
  ASSUME TokensDiffer, IInv, Agreed, settled, NEW w \in Writes, Check(w)
  PROVE  Agreed'
<1>1. /\ write \in [Writes -> Write] /\ write[w] \in Write
  BY WriteFields
<1>2. write[w].pc = "check" /\ UNCHANGED store /\ WriteUnchanged
  BY DEF Check
<1>3. CASE write' = [write EXCEPT ![w].pc = "put"]
  <2> DEFINE x == [write[w] EXCEPT !.pc = "put"]
  <2>1. write' = [write EXCEPT ![w] = x]
    BY <1>1, <1>3
  <2>2. /\ x \in Write /\ x.pc = "put" /\ x.version = write[w].version
        /\ x.nodes = write[w].nodes /\ x.at = write[w].at
    BY <1>1 DEF Write
  <2> HIDE DEF x
  <2>3. x.pc \notin Sent /\ Owns(x.at) /\ x.nodes \in Sorted(Truth)
    BY <2>2, <1>2 DEF Sent, Routed, Agreed, OneOwner
  <2> QED BY <1>2, <2>1, <2>2, <2>3, QuietAgreed
<1>4. CASE WriteFails(w, "rejected")
  BY <1>2, <1>4, FailsAgreed
<1> QED BY <1>3, <1>4 DEF Check

(* All writes get the same replicas. *)
LEMMA SpreadAgreed ==
  ASSUME TokensDiffer, IInv, Agreed, settled, NEW w \in Writes, Spread(w)
  PROVE  Agreed'
<1>1. /\ write \in [Writes -> Write] /\ write[w] \in Write /\ <<>> \in Seq(Node)
  BY WriteFields
<1>2. write[w].pc = "spread" /\ UNCHANGED store /\ WriteUnchanged
  BY DEF Spread
<1>3. write[w].nodes \in Sorted(Truth) /\ Owns(write[w].at)
  BY <1>2 DEF Routed, Agreed, OneOwner
<1>4. GetNNode(write[w].nodes, Token, Replicas + 1) = Chosen
  BY <1>3, Lookup DEF IInv
<1>5. CASE WriteFails(w, "error")
  BY <1>2, <1>5, FailsAgreed
<1>6. CASE /\ Chosen # None
           /\ write' = [write EXCEPT ![w].pc = "fanout", ![w].nodes = <<>>,
                                     ![w].replicas = ReplicaSet]
  <2> DEFINE x == [write[w] EXCEPT !.pc = "fanout", !.nodes = <<>>, !.replicas = ReplicaSet]
  <2>1. write' = [write EXCEPT ![w] = x]
    BY <1>1, <1>6
  <2>2. ReplicaSet \in SUBSET Ids
    BY <1>3, <1>6, Lookup DEF IInv
  <2>3. /\ x \in Write /\ x.pc = "fanout" /\ x.version = write[w].version
        /\ x.replicas = ReplicaSet /\ x.at = write[w].at
    BY <1>1, <2>2 DEF Write
  <2> HIDE DEF x
  <2>4. x.pc \notin Routed /\ Owns(x.at)
    BY <2>3, <1>3 DEF Routed
  <2> QED BY <1>2, <2>1, <2>3, <2>4, QuietAgreed
<1> QED BY <1>4, <1>5, <1>6 DEF Spread, ReplicaSet

LEMMA AcceptAgreed ==
  ASSUME TokensDiffer, IInv, Agreed, settled, NEW w \in Writes, Accept(w)
  PROVE  Agreed'
<1>1. write \in [Writes -> Write] /\ write[w] \in Write
  BY WriteFields
<1>2. write[w].pc = "fanout" /\ UNCHANGED store /\ WriteUnchanged
  BY DEF Accept
<1>3. PICK k : write' = [write EXCEPT ![w].pc = "accepted", ![w].count = k]
  BY DEF Accept
<1> DEFINE x == [write[w] EXCEPT !.pc = "accepted", !.count = k]
<1>4. write' = [write EXCEPT ![w] = x]
  BY <1>1, <1>3
<1>5. x \in Write
  <2>1. IInv'
    BY AcceptInv
  <2>2. write'[w] = x /\ write'[w] \in Write
    BY <1>1, <1>4, <2>1 DEF IInv, TypeOK
  <2> QED BY <2>2
<1>6. /\ x.pc = "accepted" /\ x.version = write[w].version
      /\ x.replicas = write[w].replicas /\ x.at = write[w].at
  BY <1>1 DEF Write
<1> HIDE DEF x
<1>7. x.pc \notin Routed /\ Owns(x.at) /\ x.replicas = ReplicaSet
  BY <1>2, <1>6 DEF Routed, Sent, Agreed, OneOwner
<1> QED BY <1>2, <1>4, <1>5, <1>6, <1>7, QuietAgreed

(* The owner's newest version grows with each write it puts, so it is new. *)
LEMMA PutAtOwnerAgreed ==
  ASSUME TokensDiffer, IInv, Agreed, settled, NEW w \in Writes, PutAtOwner(w)
  PROVE  Agreed'
<1>1. /\ write \in [Writes -> Write] /\ write[w] \in Write
      /\ WriteInvOf(w, write[w], store)
  BY WriteFields
<1> DEFINE n == write[w].at
           hist == store[n]
           version == NewVersion(hist, NoVersion)
<1>2. write[w].pc = "put" /\ WriteUnchanged
  BY DEF PutAtOwner
<1>3. PICK es \in PutRaw(hist, w, NoVersion) : store' = [store EXCEPT ![n] = es]
  BY DEF PutAtOwner
<1>4. /\ n \in Ids /\ Owns(n) /\ write[w].nodes \in Sorted(Truth)
      /\ (\A m \in Ids : w \notin Vals(store[m]))
  <2>1. /\ n \in Ids /\ (\A m \in Ids : w \notin Vals(store[m]))
    BY <1>1, <1>2 DEF WriteInvOf, Routed, Sent, Stored
  <2> QED BY <2>1, <1>2 DEF Routed, Agreed, OneOwner
<1>5. store \in [Ids -> History] /\ \A m \in Ids : store[m] \in History
  BY DEF IInv, TypeOK
<1>6. /\ version \in Nat /\ version = Latest(hist).ver + 1
      /\ ToSet(es) = ToSet(hist) \cup {NewEntry(hist, w, NoVersion)}
      /\ Latest(es).ver >= Latest(hist).ver /\ Latest(es).ver >= version
  <2>1. Ascending(hist) /\ OneEach(hist) /\ w \notin Vals(hist) /\ hist \in History
    BY <1>4, <1>5 DEF IInv, StoreInv
  <2> HIDE DEF hist
  <2> QED BY <2>1, <1>3, PutNext
<1>7. /\ store'[n] = es /\ \A m \in Ids : m # n => store'[m] = store[m]
  BY <1>3, <1>4, <1>5
<1> DEFINE x == [write[w] EXCEPT !.pc = "spread", !.version = version]
<1>8. write' = [write EXCEPT ![w] = x]
  BY <1>1 DEF PutAtOwner
<1>9. /\ x \in Write /\ x.pc = "spread" /\ x.at = n /\ x.nodes = write[w].nodes
      /\ x.version = version
  BY <1>1, <1>6 DEF Write
<1>0. Latest(hist).ver \in Nat /\ Latest(es).ver \in Nat
  <2>1. es \in History
    <3>1. IInv'
      BY PutAtOwnerInv
    <3> QED BY <1>4, <1>7, <3>1 DEF IInv, TypeOK
  <2> QED BY <2>1, <1>4, <1>5, LatestType DEF Entry
<1>10. /\ write'[w].version = version
       /\ \A v \in Writes : v # w => write'[v].version = write[v].version
  BY <1>1, <1>8, <1>9
<1>11. \A v \in Writes : write[v].version <= Latest(hist).ver /\ write[v].version \in Nat
  BY <1>4 DEF Agreed, OneOwner, IInv, TypeOK, Write
<1> HIDE DEF x, version
<1>12. StoredAsIs' => StoredAsIs
  <2> SUFFICES ASSUME StoredAsIs', NEW m \in Ids, NEW i \in DOMAIN store[m]
               PROVE  store[m][i].ver = write[store[m][i].val].version
    BY DEF StoredAsIs
  <2> DEFINE e == store[m][i]
  <2>1. e \in ToSet(store[m]) /\ e.val # w /\ e.val \in Writes
    BY <1>4 DEF ToSet, Vals, IInv, StoreInv
  <2>2. e \in ToSet(store'[m])
    BY <2>1, <1>6, <1>7
  <2>3. PICK j \in DOMAIN store'[m] : store'[m][j] = e
    BY <2>2 DEF ToSet
  <2>4. e.ver = write'[e.val].version
    BY <2>3 DEF StoredAsIs
  <2> QED BY <2>1, <2>4, <1>10
<1>13. ASSUME NEW o \in Ids, Owns(o), NEW v \in Writes
       PROVE  write'[v].version <= Latest(store'[o]).ver
  <2>1. o = n
    BY <1>4, <1>13, OwnerOnce DEF IInv
  <2>2. CASE v = w
    BY <2>1, <2>2, <1>6, <1>7, <1>10
  <2>3. CASE v # w
    BY <2>1, <2>3, <1>0, <1>6, <1>7, <1>10, <1>11
  <2> QED BY <2>2, <2>3
<1>14. VersionsDiffer'
  BY <1>0, <1>6, <1>10, <1>11 DEF Agreed, VersionsDiffer
<1>15. x.pc \notin Sent /\ Owns(x.at) /\ x.nodes \in Sorted(Truth)
  BY <1>4, <1>9 DEF Sent
<1>16. write[w].pc # "accepted"
  BY <1>2
<1> QED BY <1>2, <1>8, <1>9, <1>12, <1>13, <1>14, <1>15, <1>16, WriteAgreed

(* A replica's copy leaves the owner's history alone. *)
LEMMA PostReplicaDataAgreed ==
  ASSUME TokensDiffer, IInv, Agreed, settled, NEW w \in Writes, NEW n \in Ids,
         PostReplicaData(w, n)
  PROVE  Agreed'
<1>1. /\ write \in [Writes -> Write] /\ write[w] \in Write
      /\ WriteInvOf(w, write[w], store) /\ write[w].version \in Nat
      /\ write[w].stored \in SUBSET Ids
  BY WriteFields
<1> DEFINE hist == store[n]
           version == write[w].version
<1>2. n \in write[w].replicas \ write[w].stored /\ WriteUnchanged
  BY DEF PostReplicaData
<1>3. PICK es \in PutRaw(hist, w, version) : store' = [store EXCEPT ![n] = es]
  BY DEF PostReplicaData
<1>4. write[w].pc \in Sent /\ n # write[w].at /\ w \notin Vals(hist) /\ write[w].at \in Ids
  BY <1>1, <1>2 DEF WriteInvOf, Sent
<1>5. store \in [Ids -> History] /\ hist \in History
  BY DEF IInv, TypeOK
<1>6. ToSet(es) = ToSet(hist) \cup {NewEntry(hist, w, version)}
  <2>1. Ascending(hist) /\ OneEach(hist) /\ version \in Nat \cup {NoVersion}
    BY <1>1 DEF IInv, StoreInv
  <2> HIDE DEF hist, version
  <2> QED BY <2>1, <1>3, <1>4, <1>5, PutNew
<1>7. /\ store'[n] = es /\ \A m \in Ids : m # n => store'[m] = store[m]
  BY <1>3, <1>5
<1> DEFINE x == [write[w] EXCEPT !.stored = @ \cup {n}]
<1>8. write' = [write EXCEPT ![w] = x]
  BY <1>1 DEF PostReplicaData
<1>9. /\ x \in Write /\ x.pc = write[w].pc /\ x.at = write[w].at /\ x.version = version
      /\ x.replicas = write[w].replicas /\ x.stored = write[w].stored \cup {n}
      /\ x.count = write[w].count
  BY <1>1 DEF Write
<1> HIDE DEF x
<1>10. \A v \in Writes : write'[v].version = write[v].version
  BY <1>1, <1>8, <1>9
<1>11. StoredAsIs' => StoredAsIs
  <2> SUFFICES ASSUME StoredAsIs', NEW m \in Ids, NEW i \in DOMAIN store[m]
               PROVE  store[m][i].ver = write[store[m][i].val].version
    BY DEF StoredAsIs
  <2> DEFINE e == store[m][i]
  <2>1. e \in ToSet(store[m]) /\ e.val \in Writes
    BY DEF ToSet, Vals, IInv, StoreInv
  <2>2. e \in ToSet(store'[m])
    BY <2>1, <1>6, <1>7
  <2>3. PICK j \in DOMAIN store'[m] : store'[m][j] = e
    BY <2>2 DEF ToSet
  <2>4. e.ver = write'[e.val].version
    BY <2>3 DEF StoredAsIs
  <2> QED BY <2>1, <2>4, <1>10
<1>12. x.pc \notin Routed /\ Owns(x.at) /\ x.replicas = ReplicaSet
  BY <1>4, <1>9 DEF Routed, Sent, Agreed, OneOwner
<1>13. ASSUME NEW o \in Ids, Owns(o), NEW v \in Writes
       PROVE  write'[v].version <= Latest(store'[o]).ver
  <2>1. o # n
    BY <1>4, <1>9, <1>12, <1>13, OwnerOnce DEF IInv
  <2> QED BY <2>1, <1>7, <1>10, <1>13 DEF Agreed, OneOwner
<1>14. VersionsDiffer'
  BY <1>10 DEF Agreed, VersionsDiffer
<1> QED BY <1>2, <1>8, <1>9, <1>11, <1>12, <1>13, <1>14, WriteAgreed

(* A step of the reads, or of nothing. *)
LEMMA ReadsAgreed ==
  ASSUME IInv, Agreed, settled, ReadUnchanged,
         \A s \in Reads : read'[s] = read[s] \/ ReadMeets(read'[s])
  PROVE  Agreed'
<1>1. /\ state' = state /\ view' = view /\ store' = store /\ write' = write
  BY DEF ReadUnchanged
<1>2. OneOwner'
  <2>1. \A w \in Writes : Owns(write[w].at)' <=> Owns(write[w].at)
    BY <1>1 DEF Owns, Truth, EntryOf
  <2> QED BY <1>1, <2>1, TruthStays DEF Agreed, OneOwner
<1>3. VersionsDiffer'
  BY <1>1 DEF Agreed, VersionsDiffer, ReadUnchanged
<1>4. ReadsMeet'
  <2> SUFFICES ASSUME NEW s \in Reads, NEW d, d = read'[s] PROVE ReadMeets(read[s])'
    BY DEF ReadsMeet
  <2>1. ReadMeets(d)
    BY DEF Agreed, ReadsMeet
  <2>2. Owns(d.at) <=> Owns(read[s].at)'
    BY <1>1 DEF Owns, Truth, EntryOf
  <2>3. Chosen' = Chosen
    BY <1>1, TruthStays
  <2> QED BY <1>1, <2>1, <2>2, <2>3 DEF ReadMeets, Fresh, Counted, StoredAsIs
<1> QED BY <1>2, <1>3, <1>4 DEF Agreed

(* A step of a read. *)
LEMMA ReadAgreed ==
  ASSUME IInv, Agreed, settled, ReadUnchanged,
         NEW r \in Reads, NEW x, read' = [read EXCEPT ![r] = x], ReadMeets(x)
  PROVE  Agreed'
<1>1. read \in [Reads -> Read]
  BY DEF IInv, TypeOK
<1>2. \A s \in Reads : read'[s] = read[s] \/ ReadMeets(read'[s])
  BY <1>1
<1> QED BY <1>2, ReadsAgreed

LEMMA GetAgreed ==
  ASSUME IInv, Agreed, settled, NEW r \in Reads, NEW n \in Ids, NEW q \in ReadQuorums, Get(r, n, q)
  PROVE  Agreed'
<1>1. read \in [Reads -> Read] /\ read[r] \in Read /\ ReadInvOf(read[r])
  BY ReadFields
<1>2. read[r].pc = "new" /\ ReadUnchanged /\ ~ read[r].forwarded
  BY <1>1 DEF Get, ReadInvOf
<1>3. CASE read' = [read EXCEPT ![r].pc = "error"]
  <2> DEFINE x == [read[r] EXCEPT !.pc = "error"]
  <2>1. read' = [read EXCEPT ![r] = x] /\ x.pc = "error"
    BY <1>1, <1>3 DEF Read
  <2> HIDE DEF x
  <2>2. ReadMeets(x)
    BY <2>1 DEF ReadMeets
  <2> QED BY <1>2, <2>1, <2>2, ReadAgreed
<1> DEFINE B == {w \in Writes : write[w].pc = "accepted"}
<1>4. CASE read' = [read EXCEPT ![r].pc = "routing", ![r].at = n, ![r].quorum = q, ![r].before = B]
  <2> HIDE DEF B
  <2> DEFINE x == [read[r] EXCEPT !.pc = "routing", !.at = n, !.quorum = q, !.before = B]
  <2>1. read' = [read EXCEPT ![r] = x] /\ x.pc = "routing" /\ ~ x.forwarded
    BY <1>1, <1>2, <1>4 DEF Read
  <2> HIDE DEF x
  <2>2. ReadMeets(x)
    BY <2>1 DEF ReadMeets
  <2> QED BY <1>2, <2>1, <2>2, ReadAgreed
<1> QED BY <1>3, <1>4 DEF Get

(* The owner has put every write that was accepted. *)
LEMMA OwnerIsFresh ==
  ASSUME IInv, Agreed, settled, NEW r \in Reads, NEW n \in Ids, Owns(n)
  PROVE  Fresh(read[r], Latest(store[n])) /\ read[r].before \in SUBSET Writes
<1>1. read[r].before \in SUBSET Writes
  BY ReadFields
<1>2. \A w \in Writes : /\ write[w].version <= Latest(store[n]).ver
                        /\ write[w].version \in Nat /\ Latest(store[n]).ver \in Nat
  BY LatestType DEF Agreed, OneOwner, IInv, TypeOK, Write, Entry
<1> QED BY <1>1, <1>2 DEF Fresh

(* Enough replicas are asked to meet those that confirmed a write. *)
LEMMA QuorumsMeet ==
  ASSUME TokensDiffer, IInv, Agreed, settled, NEW nodes \in Sorted(Truth), Chosen # None,
         NEW r \in Reads, NEW asked \in PickNRandom(ReplicaSet, read[r].quorum),
         NEW w \in read[r].before, Counted(read[r], w)
  PROVE  asked \cap write[w].stored # {}
<1>1. w \in Writes /\ write[w].pc = "accepted" /\ read[r].quorum \in Int
  BY ReadFields
<1>2. /\ WriteInvOf(w, write[w], store) /\ write[w].count \in 0..Replicas
      /\ write[w].stored \in SUBSET Ids
  BY <1>1, WriteFields
<1>3. /\ IsFiniteSet(ReplicaSet) /\ Cardinality(ReplicaSet) <= Replicas
      /\ ReplicaSet \in SUBSET Ids
  BY Lookup DEF IInv
<1>4. write[w].replicas = ReplicaSet
  BY <1>1 DEF Sent, Agreed, OneOwner
<1>5. /\ write[w].stored \subseteq ReplicaSet
      /\ write[w].count <= Cardinality(write[w].stored)
  BY <1>2, <1>4 DEF WriteInvOf
<1>6. asked \subseteq ReplicaSet /\ Cardinality(asked) = read[r].quorum
  BY DEF PickNRandom
<1>7. /\ Cardinality(write[w].stored) \in Nat /\ Cardinality(asked) \in Nat
      /\ Cardinality(ReplicaSet) \in Nat /\ Replicas \in Nat /\ write[w].count \in Nat
  BY <1>2, <1>3, <1>5, <1>6, FS_Subset, FS_CardinalityType, ReplicasAssumption
<1>8. Cardinality(asked) + Cardinality(write[w].stored) > Cardinality(ReplicaSet)
  BY <1>3, <1>5, <1>6, <1>7 DEF Counted
<1> QED BY <1>3, <1>5, <1>6, <1>8, FS_MajoritiesIntersect

LEMMA AnsweredIs ==
  ASSUME IInv, NEW r \in Reads, NEW e
  PROVE  /\ Answered(r, e).pc = "answered" /\ Answered(r, e).entry = e
         /\ Answered(r, e).before = read[r].before /\ Answered(r, e).quorum = read[r].quorum
         /\ Answered(r, e).asked = read[r].asked
<1>1. read[r] \in Read
  BY ReadFields
<1> QED BY <1>1 DEF Answered, Read

LEMMA RouteReadAgreed ==
  ASSUME TokensDiffer, IInv, Agreed, settled, NEW r \in Reads, RouteRead(r)
  PROVE  Agreed'
<1>1. /\ read \in [Reads -> Read] /\ read[r] \in Read /\ ReadInvOf(read[r])
      /\ read[r].quorum \in Int
  BY ReadFields
<1> DEFINE n == read[r].at
           q == read[r].quorum
<1>2. read[r].pc = "routing" /\ ReadUnchanged
  BY DEF RouteRead
<1>3. n \in Ids /\ view[n] = Truth
  BY <1>1, <1>2 DEF ReadInvOf, Agreed, OneOwner
<1>4. PICK nodes \in Sorted(Truth) :
        LET chosen == GetNNode(nodes, Token, Replicas + 1)
        IN  \/ chosen = None /\ ReadFails(r)
            \/ /\ chosen # None /\ (chosen[1].id = n \/ q = 0)
               /\ read' = [read EXCEPT ![r].pc = "get"]
            \/ /\ chosen # None /\ chosen[1].id # n /\ q < 0
               /\ \/ ReadFails(r)
                  \/ read' = [read EXCEPT ![r].at = chosen[1].id, ![r].forwarded = TRUE]
            \/ /\ chosen # None /\ q > 0
               /\ \E asked \in PickNRandom(Others(chosen), q) :
                    read' = [read EXCEPT ![r].pc = "collect", ![r].asked = asked]
  BY <1>3 DEF RouteRead, Others
<1>5. /\ GetNNode(nodes, Token, Replicas + 1) = Chosen
      /\ Chosen # None => Chosen[1].id \in Ids /\ Owns(Chosen[1].id) /\ ReplicaSet = Others(Chosen)
  BY Lookup DEF IInv
<1>6. read[r].forwarded => Chosen # None /\ Chosen[1].id = n
  <2>1. read[r].forwarded => Owns(n) /\ Chosen # None
    BY <1>2 DEF Agreed, ReadsMeet, ReadMeets
  <2> QED BY <2>1, <1>3, <1>5, OwnerOnce DEF IInv
<1>7. CASE ReadFails(r) /\ ~ read[r].forwarded
  <2> DEFINE x == [read[r] EXCEPT !.pc = "error", !.at = None]
  <2>1. read' = [read EXCEPT ![r] = x] /\ x.pc = "error"
    BY <1>1, <1>7 DEF ReadFails, Read
  <2> HIDE DEF x
  <2>2. ReadMeets(x)
    BY <2>1 DEF ReadMeets
  <2> QED BY <1>2, <2>1, <2>2, ReadAgreed
<1>8. CASE /\ Chosen # None /\ (Chosen[1].id = n \/ q = 0)
           /\ read' = [read EXCEPT ![r].pc = "get"]
  <2> DEFINE x == [read[r] EXCEPT !.pc = "get"]
  <2>1. read' = [read EXCEPT ![r] = x] /\ x.pc = "get" /\ x.at = n /\ x.quorum = q
    BY <1>1, <1>8 DEF Read
  <2>2. Owns(n) \/ q = 0
    BY <1>5, <1>8
  <2> HIDE DEF x
  <2>3. ReadMeets(x)
    BY <2>1, <2>2 DEF ReadMeets
  <2> QED BY <1>2, <2>1, <2>3, ReadAgreed
<1>9. CASE /\ Chosen # None /\ q < 0
           /\ read' = [read EXCEPT ![r].at = Chosen[1].id, ![r].forwarded = TRUE]
  <2> DEFINE x == [read[r] EXCEPT !.at = Chosen[1].id, !.forwarded = TRUE]
  <2>1. /\ read' = [read EXCEPT ![r] = x] /\ x.pc = "routing" /\ x.at = Chosen[1].id
    BY <1>1, <1>2, <1>9 DEF Read
  <2> HIDE DEF x
  <2>2. ReadMeets(x)
    BY <2>1, <1>5, <1>9 DEF ReadMeets
  <2> QED BY <1>2, <2>1, <2>2, ReadAgreed
<1>10. CASE /\ Chosen # None /\ q > 0
            /\ \E asked \in PickNRandom(Others(Chosen), q) :
                 read' = [read EXCEPT ![r].pc = "collect", ![r].asked = asked]
  <2>0. PICK asked \in PickNRandom(ReplicaSet, q) :
          read' = [read EXCEPT ![r].pc = "collect", ![r].asked = asked]
    BY <1>5, <1>10
  <2> DEFINE x == [read[r] EXCEPT !.pc = "collect", !.asked = asked]
  <2>1. /\ read' = [read EXCEPT ![r] = x] /\ x.pc = "collect" /\ x.asked = asked
        /\ x.before = read[r].before /\ x.quorum = q
    BY <1>1, <2>0 DEF Read
  <2> HIDE DEF x
  <2>2. ASSUME NEW w \in x.before, Counted(x, w) PROVE x.asked \cap write[w].stored # {}
    <3>1. w \in read[r].before /\ Counted(read[r], w)
      BY <2>1, <2>2 DEF Counted
    <3> QED BY <1>10, <2>1, <3>1, QuorumsMeet
  <2>3. ReadMeets(x)
    BY <1>10, <2>1, <2>2 DEF ReadMeets
  <2> QED BY <1>2, <2>1, <2>3, ReadAgreed
<1> QED BY <1>4, <1>5, <1>6, <1>7, <1>8, <1>9, <1>10

LEMMA AnswerHereAgreed ==
  ASSUME IInv, Agreed, settled, NEW r \in Reads, AnswerHere(r)
  PROVE  Agreed'
<1>1. ReadInvOf(read[r]) /\ read[r].pc = "get" /\ ReadUnchanged /\ read[r].quorum \in Int
  BY ReadFields DEF AnswerHere
<1> DEFINE n == read[r].at
           e == Latest(store[n])
           x == Answered(r, e)
<1>2. n \in Ids /\ (Owns(n) \/ read[r].quorum = 0)
  BY <1>1 DEF ReadInvOf, Agreed, ReadsMeet, ReadMeets
<1>3. /\ x.pc = "answered" /\ x.entry = e /\ x.before = read[r].before
      /\ x.quorum = read[r].quorum
  BY AnsweredIs
<1>4. read[r].quorum # 0 => Fresh(read[r], e)
  BY <1>2, OwnerIsFresh
<1>5. read' = [read EXCEPT ![r] = x]
  BY DEF AnswerHere
<1> HIDE DEF x, e
<1>6. ReadMeets(x)
  BY <1>1, <1>3, <1>4 DEF ReadMeets, Fresh
<1> QED BY <1>1, <1>5, <1>6, ReadAgreed

(* A replica that has the write answers with it or with a newer one. *)
LEMMA ReplicaAnswersAgreed ==
  ASSUME TokensDiffer, IInv, Agreed, settled, NEW r \in Reads, NEW n \in Ids, ReplicaAnswers(r, n)
  PROVE  Agreed'
<1>1. /\ read \in [Reads -> Read] /\ read[r] \in Read /\ read[r].before \in SUBSET Writes
  BY ReadFields
<1>2. read[r].pc = "collect" /\ ReadUnchanged
  BY DEF ReplicaAnswers
<1>3. view[n] = Truth /\ Chosen # None
  BY <1>2 DEF Agreed, OneOwner, ReadsMeet, ReadMeets
<1> DEFINE e == Latest(store[n])
<1>4. read' = [read EXCEPT ![r].asked = @ \ {n}, ![r].answers = @ \cup {e}]
  <2>1. \A nodes \in Sorted(Truth) : GetNNode(nodes, Token, Replicas + 1) # None
    BY <1>3, Lookup DEF IInv
  <2> QED BY <1>3, <2>1 DEF ReplicaAnswers
<1> DEFINE x == [read[r] EXCEPT !.asked = @ \ {n}, !.answers = @ \cup {e}]
<1>5. /\ read' = [read EXCEPT ![r] = x] /\ x.pc = "collect" /\ x.before = read[r].before
      /\ x.quorum = read[r].quorum /\ x.asked = read[r].asked \ {n}
      /\ x.answers = read[r].answers \cup {e}
  BY <1>1, <1>2, <1>4 DEF Read
<1> HIDE DEF x
<1>6. ASSUME StoredAsIs, NEW w \in x.before, Counted(x, w)
      PROVE  x.asked \cap write[w].stored # {} \/ \E d \in x.answers : d.ver >= write[w].version
  <2>0. w \in Writes /\ w \in read[r].before /\ Counted(read[r], w)
    BY <1>1, <1>5, <1>6 DEF Counted
  <2>1. CASE n \in write[w].stored
    <3>1. w \in Vals(store[n])
      BY <2>0, <2>1, WriteFields DEF WriteInvOf
    <3>2. PICK i \in DOMAIN store[n] : store[n][i].val = w
      BY <3>1 DEF Vals
    <3>3. store[n][i].ver = write[w].version
      BY <1>6, <3>2 DEF StoredAsIs
    <3>4. /\ store[n][i].ver <= e.ver /\ e \in Entry /\ store[n][i] \in Entry
      BY LatestHighest DEF IInv, TypeOK, StoreInv
    <3>5. e.ver >= write[w].version
      BY <3>3, <3>4 DEF Entry
    <3> QED BY <1>5, <3>5
  <2>2. CASE n \notin write[w].stored
    <3>1. \/ read[r].asked \cap write[w].stored # {}
          \/ \E d \in read[r].answers : d.ver >= write[w].version
      BY <1>2, <1>6, <2>0 DEF Agreed, ReadsMeet, ReadMeets
    <3> QED BY <1>5, <2>2, <3>1
  <2> QED BY <2>1, <2>2
<1>7. ReadMeets(x)
  BY <1>3, <1>5, <1>6 DEF ReadMeets
<1> QED BY <1>2, <1>5, <1>7, ReadAgreed

LEMMA AnswerReadAgreed ==
  ASSUME IInv, Agreed, settled, NEW r \in Reads, AnswerRead(r)
  PROVE  Agreed'
<1>1. /\ ReadInvOf(read[r]) /\ read[r].answers \in SUBSET Entry
      /\ read[r].before \in SUBSET Writes /\ read[r].quorum \in Int
  BY ReadFields
<1>2. read[r].pc = "collect" /\ ReadUnchanged /\ read[r].quorum > 0
  BY <1>1 DEF AnswerRead, ReadInvOf
<1>3. PICK e : /\ read' = [read EXCEPT ![r] = Answered(r, e)]
               /\ read[r].answers # {} => e \in read[r].answers
               /\ \A d \in read[r].answers : d.ver <= e.ver
  BY DEF AnswerRead
<1> DEFINE x == Answered(r, e)
<1>4. /\ x.pc = "answered" /\ x.entry = e /\ x.before = read[r].before
      /\ x.quorum = read[r].quorum /\ x.asked = read[r].asked
  BY AnsweredIs
<1>5. read' = [read EXCEPT ![r] = x]
  BY <1>3
<1> HIDE DEF x
<1>6. ASSUME StoredAsIs, x.asked = {}, NEW w \in x.before, Counted(x, w)
      PROVE  x.entry.ver >= write[w].version
  <2>1. w \in Writes /\ w \in read[r].before /\ Counted(read[r], w)
    BY <1>1, <1>4, <1>6 DEF Counted
  <2>2. PICK d \in read[r].answers : d.ver >= write[w].version
    BY <1>2, <1>4, <1>6, <2>1 DEF Agreed, ReadsMeet, ReadMeets
  <2>3. d.ver <= e.ver /\ d.ver \in Nat /\ e.ver \in Nat
    BY <1>1, <1>3, <2>2 DEF Entry
  <2>4. write[w].version \in Nat
    BY <2>1, WriteFields
  <2> QED BY <1>4, <2>2, <2>3, <2>4
<1>7. ReadMeets(x)
  BY <1>1, <1>2, <1>4, <1>6 DEF ReadMeets
<1> QED BY <1>2, <1>5, <1>7, ReadAgreed

LEMMA AgreedStep == TokensDiffer /\ SettledInv /\ [Next]_vars => SettledInv'
<1> SUFFICES ASSUME TokensDiffer, IInv, Agreed, [Next]_vars PROVE Agreed'
  BY StepInv DEF SettledInv
<1>1. settled' = settled
  BY DEF Next, WriteStep, vars, Learn, Post, RouteWrite, Check, PutAtOwner, Spread, Accept,
         PostReplicaData, WriteUnchanged, Get, RouteRead, AnswerHere, AnswerRead, ReplicaAnswers, ReadUnchanged
<1>2. CASE ~ settled
  BY <1>1, <1>2 DEF Agreed
<1>3. CASE settled
  <2>1. ASSUME NEW n \in Ids, NEW m \in Ids, Learn(n, m) PROVE FALSE
    BY <1>3, <2>1 DEF Learn, Agreed, OneOwner, Truth
  <2>2. ASSUME NEW w \in Writes, WriteStep(w) PROVE Agreed'
    BY <1>3, <2>2, RouteWriteAgreed, CheckAgreed, PutAtOwnerAgreed, SpreadAgreed, AcceptAgreed
       DEF WriteStep
  <2>3. ASSUME NEW w \in Writes, NEW n \in Ids, NEW q \in WriteQuorums, Post(w, n, q)
        PROVE  Agreed'
    BY <1>3, <2>3, PostAgreed
  <2>4. ASSUME NEW w \in Writes, NEW n \in Ids, PostReplicaData(w, n) PROVE Agreed'
    BY <1>3, <2>4, PostReplicaDataAgreed
  <2>5. ASSUME NEW r \in Reads, NEW n \in Ids, NEW q \in ReadQuorums, Get(r, n, q)
        PROVE  Agreed'
    BY <1>3, <2>5, GetAgreed
  <2>6. ASSUME NEW r \in Reads, RouteRead(r) PROVE Agreed'
    BY <1>3, <2>6, RouteReadAgreed
  <2>10. ASSUME NEW r \in Reads, AnswerHere(r) PROVE Agreed'
    BY <1>3, <2>10, AnswerHereAgreed
  <2>7. ASSUME NEW r \in Reads, AnswerRead(r) PROVE Agreed'
    BY <1>3, <2>7, AnswerReadAgreed
  <2>8. ASSUME NEW r \in Reads, NEW n \in Ids, ReplicaAnswers(r, n) PROVE Agreed'
    BY <1>3, <2>8, ReplicaAnswersAgreed
  <2>9. CASE UNCHANGED vars
    BY <1>3, <2>9, ReadsAgreed DEF vars, ReadUnchanged
  <2> QED BY <2>1, <2>2, <2>3, <2>4, <2>5, <2>6, <2>7, <2>8, <2>9, <2>10 DEF Next
<1> QED BY <1>2, <1>3

LEMMA AgreedAlways ==
  ASSUME TokensDiffer
  PROVE  Spec => []SettledInv
<1>1. Init => SettledInv
  BY InitInv, InitAgreed DEF SettledInv
<1>2. SettledInv /\ [Next]_vars => SettledInv'
  BY AgreedStep
<1> QED BY <1>1, <1>2, PTL DEF Spec

(* The owner numbers the writes of its key one by one, however they and    *)
(* their replicas are interleaved.                                         *)
THEOREM NumbersDiffer ==
  ASSUME TokensDiffer
  PROVE  Spec => []VersionsDiffer
<1>1. SettledInv => VersionsDiffer
  BY DEF SettledInv, Agreed, VersionsDiffer
<1> QED BY <1>1, AgreedAlways, PTL

(* A read from the owner misses no write that was accepted before it.      *)
THEOREM OwnerReadsAreFresh ==
  ASSUME TokensDiffer
  PROVE  Spec => []OwnerReadFresh
<1>1. SettledInv => OwnerReadFresh
  BY DEF SettledInv, Agreed, ReadsMeet, ReadMeets, Fresh, OwnerReadFresh
<1> QED BY <1>1, AgreedAlways, PTL

(* Nor does one that asks more replicas than the write left out, while     *)
(* every copy has its owner's version.                                     *)
THEOREM QuorumReadsAreFresh ==
  ASSUME TokensDiffer
  PROVE  Spec => []QuorumReadFresh
<1>1. SettledInv => QuorumReadFresh
  BY DEF SettledInv, Agreed, ReadsMeet, ReadMeets, Counted, QuorumReadFresh
<1> QED BY <1>1, AgreedAlways, PTL
=============================================================================
