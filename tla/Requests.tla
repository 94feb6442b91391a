------------------------------ MODULE Requests ------------------------------
(***************************************************************************)
(* Writes and reads of one key, from the client's request to its answer:   *)
(* postData, postReplicaData and getData (src/nodes/main.go) at the nodes  *)
(* of a cluster whose views of one another may lag.                        *)
(*                                                                         *)
(* A handler reads the gossip when it routes and again when it counts the  *)
(* available nodes, and other requests and gossip come in between.  The    *)
(* stores are atomic (module DataStore), the fan-out is reduced to which   *)
(* replicas have stored and which have confirmed (module Fanout), and node *)
(* states do not change (module Redirect changes them).                    *)
(***************************************************************************)
EXTENDS Ring, Versions, Integers

CONSTANTS
  Eokr,             \* the token each node was started with
  Token,            \* the key's token
  Replicas,         \* REPLICA_COUNT
  Writes, Reads,    \* the requests; a write's number is the value it writes
  ReadQuorums,      \* what clients ask for, valid or not
  WriteQuorums,
  Clusters          \* the nodes' states, and what the nodes behind know of them

Unknown == "UNKNOWN"

ASSUME EokrAssumption == Eokr \in [Ids -> 1..TotalSlots]
ASSUME TokenAssumption == Token \in Tokens
ASSUME RequestsAssumption == Writes \subseteq Nat \ {0}
ASSUME ReplicasAssumption == Replicas \in Nat
ASSUME QuorumsAssumption == ReadQuorums \subseteq Int /\ WriteQuorums \subseteq Int
ASSUME ClustersAssumption ==
  Clusters \subseteq [state : [Ids -> States], seen : [Ids -> States \cup {Unknown}],
                      behind : SUBSET Ids]

VARIABLES
  state,      \* the state of each node
  view,       \* the gossip entries of each node
  store,      \* the key's history at each node
  write,      \* the write requests
  read,       \* the read requests
  settled     \* history: every view has been complete from the start

vars == <<state, view, store, write, read, settled>>

Write == [pc : {"new", "routing", "check", "put", "spread", "fanout", "accepted", "rejected", "error"},
          at : Ids \cup {None},           \* the node whose handler has the request
          nodes : Seq(Node),              \* the handler's sorted nodes
          version : Nat,
          replicas : SUBSET Ids,
          stored : SUBSET Ids,            \* replicas that have stored the value
          count : 0..Replicas]            \* the answer's number of confirmations

Read == [pc : {"new", "routing", "get", "collect", "answered", "error"},
         at : Ids \cup {None},
         forwarded : BOOLEAN,             \* a node waits for the answer of another
         quorum : ReadQuorums \cup {0},
         asked : SUBSET Ids,              \* replicas that have not answered
         answers : SUBSET Entry,
         entry : Entry \cup {None},       \* the answer
         before : SUBSET Writes]          \* history: the writes accepted before

TypeOK ==
  /\ state \in [Ids -> States]
  /\ view \in [Ids -> SUBSET Node]
  /\ store \in [Ids -> History]
  /\ write \in [Writes -> Write]
  /\ read \in [Reads -> Read]
  /\ settled \in BOOLEAN

EntryOf(m, s) == [id |-> m, eokr |-> Eokr[m], state |-> s]

(* What n knows of the nodes: a node knows its own state. *)
SeenBy(c, n) == [m \in Ids |-> IF n # m /\ n \in c.behind THEN c.seen[m] ELSE c.state[m]]

Init ==
  /\ \E c \in Clusters :
       /\ state = c.state
       /\ settled = (\A n \in Ids : SeenBy(c, n) = c.state)
       /\ view = [n \in Ids |->
                    {EntryOf(m, SeenBy(c, n)[m]) : m \in {x \in Ids : SeenBy(c, n)[x] # Unknown}}]
  /\ store = [n \in Ids |-> <<>>]
  /\ write = [w \in Writes |-> [pc |-> "new", at |-> None, nodes |-> <<>>,
                                version |-> 0, replicas |-> {}, stored |-> {}, count |-> 0]]
  /\ read = [r \in Reads |-> [pc |-> "new", at |-> None, forwarded |-> FALSE,
                              quorum |-> 0, asked |-> {}, answers |-> {},
                              entry |-> None, before |-> {}]]

(* Gossip tells n the present state of m. *)
Learn(n, m) ==
  LET e == EntryOf(m, state[m])
  IN  /\ e \notin view[n]
      /\ view' = [view EXCEPT ![n] = {d \in @ : d.id # m} \cup {e}]
      /\ UNCHANGED <<state, store, write, read, settled>>

-----------------------------------------------------------------------------
(* postData *)

WriteUnchanged == UNCHANGED <<state, view, read, settled>>

(* The requests are numbered as they come.  A write quorum above the       *)
(* replica count is refused; another one only decides how long Accept      *)
(* waits, and a negative one stands for the replica count.                 *)
Post(w, n, q) ==
  /\ write[w].pc = "new"
  /\ \A v \in Writes : v < w => write[v].pc # "new"
  /\ write' = IF q > Replicas THEN [write EXCEPT ![w].pc = "rejected"]
              ELSE [write EXCEPT ![w].pc = "routing", ![w].at = n]
  /\ WriteUnchanged /\ UNCHANGED store

WriteFails(w, how) ==
  write' = [write EXCEPT ![w].pc = how, ![w].at = None, ![w].nodes = <<>>]

(* Find the owner.  Another node's handler gets the request, and the answer*)
(* it gives is passed back; or the request is lost, which is an error.     *)
(* (An answer that is lost is one too, to the client; the write goes on.)  *)
RouteWrite(w) ==
  LET n == write[w].at
  IN  /\ write[w].pc = "routing"
      /\ \E nodes \in Sorted(view[n]) :
           LET owner == GetNode(nodes, Token)
           IN  \/ /\ owner = None
                  /\ WriteFails(w, "error")
               \/ /\ owner # None
                  /\ owner.id # n
                  /\ \/ WriteFails(w, "error")
                     \/ write' = [write EXCEPT ![w].at = owner.id]
               \/ /\ owner # None
                  /\ owner.id = n
                  /\ write' = [write EXCEPT ![w].pc = "check", ![w].nodes = nodes]
      /\ WriteUnchanged /\ UNCHANGED store

NumNodeInState(S, s) == Cardinality({e \in S : e.state = s})

Check(w) ==
  /\ write[w].pc = "check"
  /\ LET enough == NumNodeInState(view[write[w].at], "AVAILABLE") >= Replicas
     IN  IF enough THEN write' = [write EXCEPT ![w].pc = "put"] ELSE WriteFails(w, "rejected")
  /\ WriteUnchanged /\ UNCHANGED store

PutAtOwner(w) ==
  LET n == write[w].at
  IN  /\ write[w].pc = "put"
      /\ \E es \in PutRaw(store[n], w, NoVersion) : store' = [store EXCEPT ![n] = es]
      /\ write' = [write EXCEPT ![w].pc = "spread",
                                ![w].version = NewVersion(store[n], NoVersion)]
      /\ WriteUnchanged

(* Mutant of Spread: the owner is one of the replicas. *)
Spread_toOwner(w) ==
  LET chosen == GetNNode(write[w].nodes, Token, Replicas + 1)
  IN  /\ write[w].pc = "spread"
      /\ chosen # None
      /\ write' = [write EXCEPT ![w].pc = "fanout", ![w].nodes = <<>>,
                                ![w].replicas = {chosen[i].id : i \in 1..(Replicas + 1)}]
      /\ WriteUnchanged /\ UNCHANGED store

(* The replicas are taken from the nodes the request was routed by. *)
Spread(w) ==
  LET chosen == GetNNode(write[w].nodes, Token, Replicas + 1)
  IN  /\ write[w].pc = "spread"
      /\ \/ /\ chosen = None
            /\ WriteFails(w, "error")
         \/ /\ chosen # None
            /\ write' = [write EXCEPT ![w].pc = "fanout", ![w].nodes = <<>>,
                                      ![w].replicas = {chosen[i].id : i \in 2..(Replicas + 1)}]
      /\ WriteUnchanged /\ UNCHANGED store

(* postReplicaData: a request that is on its way may arrive after the      *)
(* owner has answered, or never.                                           *)
PostReplicaData(w, n) ==
  /\ n \in write[w].replicas \ write[w].stored
  /\ \E es \in PutRaw(store[n], w, write[w].version) : store' = [store EXCEPT ![n] = es]
  /\ write' = [write EXCEPT ![w].stored = @ \cup {n}]
  /\ WriteUnchanged

(* RunUntilMinSuccessOrTimeout returns with enough confirmations or at the *)
(* timeout, and the answer is the same; a replica that has stored the      *)
(* write may have confirmed it.                                            *)
Accept(w) ==
  /\ write[w].pc = "fanout"
  /\ \E n \in 0..Cardinality(write[w].stored) :
       write' = [write EXCEPT ![w].pc = "accepted", ![w].count = n]
  /\ WriteUnchanged /\ UNCHANGED store

-----------------------------------------------------------------------------
(* getData *)

ReadUnchanged == UNCHANGED <<state, view, store, write, settled>>

Get(r, n, q) ==
  /\ read[r].pc = "new"
  /\ read' = IF q \notin -1..Replicas THEN [read EXCEPT ![r].pc = "error"]
             ELSE [read EXCEPT ![r].pc = "routing", ![r].at = n, ![r].quorum = q,
                               ![r].before = {w \in Writes : write[w].pc = "accepted"}]
  /\ ReadUnchanged

Answered(r, e) == [read[r] EXCEPT !.pc = "answered", !.at = None, !.entry = e, !.answers = {}]

(* GetKeyValue does not look at the status of an answer: a node that       *)
(* forwarded the read takes an error for an entry without value and version*)
(* and answers OK.                                                         *)
ReadFails(r) ==
  read' = [read EXCEPT ![r] = IF read[r].forwarded THEN Answered(r, NoEntry)
                              ELSE [@ EXCEPT !.pc = "error", !.at = None]]

PickNRandom(S, n) == {T \in SUBSET S : Cardinality(T) = n}

(* Answer here; ask the owner, a request that may be lost; or ask some of  *)
(* the replicas.                                                           *)
RouteRead(r) ==
  LET n == read[r].at
      q == read[r].quorum
  IN  /\ read[r].pc = "routing"
      /\ \E nodes \in Sorted(view[n]) :
           LET chosen == GetNNode(nodes, Token, Replicas + 1)
           IN  \/ /\ chosen = None
                  /\ ReadFails(r)
               \/ /\ chosen # None
                  /\ chosen[1].id = n \/ q = 0
                  /\ read' = [read EXCEPT ![r].pc = "get"]
               \/ /\ chosen # None
                  /\ chosen[1].id # n /\ q < 0
                  /\ \/ ReadFails(r)
                     \/ read' = [read EXCEPT ![r].at = chosen[1].id, ![r].forwarded = TRUE]
               \/ /\ chosen # None
                  /\ chosen[1].id # n /\ q > 0
                  /\ \E asked \in PickNRandom({chosen[i].id : i \in 2..(Replicas + 1)}, q) :
                       read' = [read EXCEPT ![r].pc = "collect", ![r].asked = asked]
      /\ ReadUnchanged

(* GetValAndVersion of the node's own store. *)
AnswerHere(r) ==
  /\ read[r].pc = "get"
  /\ read' = [read EXCEPT ![r] = Answered(r, Latest(store[read[r].at]))]
  /\ ReadUnchanged

(* A replica is asked with readquorum 0.  One that does not know enough    *)
(* nodes answers with an error, which the reader takes for an entry of     *)
(* version 0.                                                              *)
ReplicaAnswers(r, n) ==
  /\ read[r].pc = "collect"
  /\ n \in read[r].asked
  /\ \E nodes \in Sorted(view[n]) :
       LET known == GetNNode(nodes, Token, Replicas + 1) # None
           e == IF known THEN Latest(store[n]) ELSE NoEntry
       IN  read' = [read EXCEPT ![r].asked = @ \ {n}, ![r].answers = @ \cup {e}]
  /\ ReadUnchanged

(* Mutant of AnswerRead: the oldest answer is taken. *)
AnswerRead_oldest(r) ==
  /\ read[r].pc = "collect"
  /\ \E e \in read[r].answers :
       /\ \A d \in read[r].answers : d.ver >= e.ver
       /\ read' = [read EXCEPT ![r] = Answered(r, e)]
  /\ ReadUnchanged

(* When all have answered, or at the timeout.  Without any answer the      *)
(* value is nil and the version a conversion of minus infinity.            *)
AnswerRead(r) ==
  /\ read[r].pc = "collect"
  /\ \/ /\ read[r].answers = {}
        /\ read' = [read EXCEPT ![r] = Answered(r, None)]
     \/ \E e \in read[r].answers :
          /\ \A d \in read[r].answers : d.ver <= e.ver
          /\ read' = [read EXCEPT ![r] = Answered(r, e)]
  /\ ReadUnchanged

-----------------------------------------------------------------------------
WriteStep(w) == RouteWrite(w) \/ Check(w) \/ PutAtOwner(w) \/ Spread(w) \/ Accept(w)

Next ==
  \/ \E n, m \in Ids : Learn(n, m)
  \/ \E w \in Writes : \/ WriteStep(w)
                       \/ \E n \in Ids, q \in WriteQuorums : Post(w, n, q)
                       \/ \E n \in Ids : PostReplicaData(w, n)
  \/ \E r \in Reads : \/ \E n \in Ids, q \in ReadQuorums : Get(r, n, q)
                      \/ RouteRead(r) \/ AnswerHere(r) \/ AnswerRead(r)
                      \/ \E n \in Ids : ReplicaAnswers(r, n)

Spec == Init /\ [][Next]_vars

-----------------------------------------------------------------------------
CopiesAt(n, w) == {i \in DOMAIN store[n] : store[n][i].val = w}

Holders(w) == {n \in Ids : CopiesAt(n, w) # {}}

(* The replica count of an answer is true: an accepted write is on its     *)
(* owner and on as many other nodes as were counted, whoever they were     *)
(* when the request was routed.                                            *)
CountedCopies ==
  \A w \in Writes : write[w].pc = "accepted" =>
    /\ write[w].at \in Holders(w)
    /\ Cardinality(Holders(w)) >= write[w].count + 1

(* No node stores a write twice: the handler that puts it is not among the *)
(* replicas it then writes to, though these come from a later lookup, and  *)
(* a redirected write is put by one node only.                             *)
WrittenOnce == \A w \in Writes, n \in Ids : Cardinality(CopiesAt(n, w)) <= 1

(* learnings/design_thoughts.md:85, "The value of -1 represent read from   *)
(* owner-node is requested.  In this case, the most recent view of the     *)
(* data is guaranteed": the answer is at least as new as every write that  *)
(* was accepted before the read began, if all nodes know of all.           *)
OwnerReadFresh ==
  settled => \A r \in Reads :
    read[r].pc = "answered" /\ read[r].quorum = -1 =>
      \A w \in read[r].before : read[r].entry.ver >= write[w].version

(* Every copy has the version that the owner gave the write: PutRaw keeps  *)
(* it, except for the first entry that a replica gets for the key.         *)
StoredAsIs ==
  \A n \in Ids : \A i \in DOMAIN store[n] :
    store[n][i].ver = write[store[n][i].val].version

(* learnings/design_thoughts.md:6, "tunable consistency", and 85: a read   *)
(* that asks enough replicas to meet one of those that confirmed a write,  *)
(* and is answered by all of them, returns that write or a newer one,      *)
(* however the other requests are interleaved.  It needs StoredAsIs: see   *)
(* README for writes that reach a replica in the opposite order.           *)
QuorumReadFresh ==
  settled /\ StoredAsIs => \A r \in Reads :
    read[r].pc = "answered" /\ read[r].quorum > 0 /\ read[r].asked = {} =>
      \A w \in read[r].before :
        write[w].count + read[r].quorum > Replicas => read[r].entry.ver >= write[w].version

(* Two writes of a key never get the same version from their owners, if    *)
(* all nodes know of all and so agree on one.                              *)
VersionsDiffer ==
  settled => \A v, w \in Writes : v # w /\ write[v].version > 0 => write[v].version # write[w].version
=============================================================================
