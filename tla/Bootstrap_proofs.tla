--------------------------- MODULE Bootstrap_proofs --------------------------
(***************************************************************************)
(* What the bootstrap of a joiner promises, for any set of keys, joiners,  *)
(* streams and concurrent puts, whatever connections break.                *)
(*                                                                         *)
(* The parts of the inductive invariant build on each other: the order in  *)
(* which the goroutines of a stream end (ControlInv), what the connection  *)
(* may hold by then (WireInv), that no value of a copy is lost before its  *)
(* mark (CopyInv), hence a state AVAILABLE only past a copy that arrived   *)
(* (AvailInv); that no write is lost after a copy (AccountInv); and where  *)
(* every stored entry comes from (SourceInv, RoutedInv).                   *)
(***************************************************************************)
EXTENDS Bootstrap, Lemmas

(* A set of naturals that holds 0 and is closed under successor is all of  *)
(* them: the intervals of the naturals outside it would have one that has  *)
(* no other inside.                                                        *)
LEMMA Induction ==
  ASSUME NEW S \in SUBSET Nat, 0 \in S, \A n \in S : n + 1 \in S
  PROVE  S = Nat
<1> DEFINE Out == Nat \ S
           T == {0..i : i \in Out}
           R == StrictSubsetOrdering(Nat)
<1> SUFFICES ASSUME Out # {} PROVE FALSE
  OBVIOUS
<1>1. T \subseteq FiniteSubsetsOf(Nat)
  <2> SUFFICES ASSUME NEW i \in Out PROVE 0..i \in SUBSET Nat /\ IsFiniteSet(0..i)
    BY DEF FiniteSubsetsOf
  <2> QED BY FS_Interval
<1>2. T # {}
  OBVIOUS
<1>3. IsWellFoundedOn(R, FiniteSubsetsOf(Nat))
  BY FS_StrictSubsetOrderingWellFounded
<1>4. \E x \in T : \A y \in T : <<y, x>> \notin R
  <2> HIDE DEF T, R
  <2> QED BY <1>1, <1>2, <1>3, WFMin, Zenon
<1>5. PICK i \in Out : \A j \in Out : <<0..j, 0..i>> \notin R
  BY <1>4
<1>6. i - 1 \in S /\ i \in Nat \ {0}
  <2>1. i \in Nat \ {0}
    OBVIOUS
  <2> SUFFICES ASSUME i - 1 \in Out PROVE FALSE
    BY <2>1
  <2>2. /\ 0..(i - 1) \subseteq 0..i /\ 0..(i - 1) # 0..i
        /\ 0..(i - 1) \in SUBSET Nat /\ 0..i \in SUBSET Nat
    <3>1. i \in 0..i /\ i \notin 0..(i - 1)
      BY <2>1
    <3> QED BY <3>1, <2>1
  <2> QED BY <2>2, <1>5 DEF StrictSubsetOrdering
<1>7. (i - 1) + 1 = i
  BY <1>6
<1> QED BY <1>6, <1>7

(* The histories after the first n entries, one step at a time. *)
OneMore(hs, e) == UNION {PutRaw(h, e.val, e.ver) : h \in hs}

After(es, entries, g) ==
  g = [n \in 0..Len(entries) |-> IF n = 0 THEN {es} ELSE OneMore(g[n - 1], entries[n])]

UpTo(es, entries, m, g) ==
  g = [n \in 0..m |-> IF n = 0 THEN {es} ELSE OneMore(g[n - 1], entries[n])]

(* The recursion of PutAll defines a function, whose last value it is. *)
LEMMA AfterExists ==
  ASSUME NEW es, NEW entries \in History
  PROVE  \E g : After(es, entries, g) /\ PutAll(es, entries) = g[Len(entries)]
<1> DEFINE S == {m \in Nat : \E g : UpTo(es, entries, m, g)}
<1>1. 0 \in S
  <2>1. UpTo(es, entries, 0, [n \in 0..0 |-> {es}])
    BY DEF UpTo
  <2> QED BY <2>1
<1>2. ASSUME NEW m \in S PROVE m + 1 \in S
  <2>1. PICK g : UpTo(es, entries, m, g)
    OBVIOUS
  <2> DEFINE h == [n \in 0..(m + 1) |->
                     IF n = m + 1 THEN OneMore(g[m], entries[m + 1]) ELSE g[n]]
  <2>2. ASSUME NEW n \in 0..(m + 1)
        PROVE  h[n] = IF n = 0 THEN {es} ELSE OneMore(h[n - 1], entries[n])
    <3>1. CASE n = m + 1
      <4>1. h[n] = OneMore(g[m], entries[n]) /\ h[n - 1] = g[m] /\ n # 0
        BY <3>1
      <4> QED BY <4>1
    <3>2. CASE n = 0
      BY <3>2, <2>1 DEF UpTo
    <3>3. CASE n # m + 1 /\ n # 0
      <4>1. n \in 0..m /\ n - 1 \in 0..m /\ h[n] = g[n] /\ h[n - 1] = g[n - 1]
        BY <3>3
      <4>2. g[n] = OneMore(g[n - 1], entries[n])
        BY <4>1, <3>3, <2>1 DEF UpTo
      <4> QED BY <4>1, <4>2, <3>3
    <3> QED BY <3>1, <3>2, <3>3
  <2>3. h = [n \in 0..(m + 1) |-> h[n]]
    OBVIOUS
  <2> HIDE DEF h
  <2>4. UpTo(es, entries, m + 1, h)
    BY <2>2, <2>3 DEF UpTo
  <2> QED BY <2>4
<1>3. S = Nat
  <2> HIDE DEF S
  <2>1. S \in SUBSET Nat
    BY DEF S
  <2> QED BY <2>1, <1>1, <1>2, Induction
<1>4. Len(entries) \in S
  <2>1. Len(entries) \in Nat
    BY DEF History
  <2> QED BY <2>1, <1>3
<1>5. PICK g : After(es, entries, g)
  BY <1>4 DEF UpTo, After
<1> DEFINE f == CHOOSE x : x = [n \in 0..Len(entries) |->
                  IF n = 0 THEN {es} ELSE OneMore(x[n - 1], entries[n])]
<1>6. f = [n \in 0..Len(entries) |-> IF n = 0 THEN {es} ELSE OneMore(f[n - 1], entries[n])]
  BY <1>5 DEF After
<1>7. PutAll(es, entries) = f[Len(entries)]
  BY DEF PutAll, OneMore
<1> HIDE DEF f
<1> QED BY <1>6, <1>7 DEF After

(* What holds of a history, and of it after each of the entries was put,   *)
(* holds of what PutAll leaves behind.                                     *)
LEMMA PutAllWithin ==
  ASSUME NEW es, NEW entries \in History, NEW T,
         es \in T[0],
         \A n \in 1..Len(entries) : \A h \in T[n - 1] :
           PutRaw(h, entries[n].val, entries[n].ver) \subseteq T[n]
  PROVE  PutAll(es, entries) \subseteq T[Len(entries)]
<1>1. PICK g : After(es, entries, g) /\ PutAll(es, entries) = g[Len(entries)]
  BY AfterExists
<1> DEFINE S == {m \in Nat : m <= Len(entries) => g[m] \subseteq T[m]}
<1>0. Len(entries) \in Nat
  BY DEF History
<1>6. \A n \in 0..Len(entries) :
        g[n] = IF n = 0 THEN {es} ELSE OneMore(g[n - 1], entries[n])
  <2>1. After(es, entries, g)
    BY <1>1
  <2> QED BY <2>1 DEF After
<1>2. 0 \in S
  <2>1. g[0] = {es}
    BY <1>0, <1>6
  <2> QED BY <2>1
<1>3. ASSUME NEW m \in S PROVE m + 1 \in S
  <2> SUFFICES ASSUME m + 1 <= Len(entries) PROVE g[m + 1] \subseteq T[m + 1]
    OBVIOUS
  <2>1. m + 1 \in 1..Len(entries) /\ m \in 0..Len(entries) /\ (m + 1) - 1 = m
    BY <1>0
  <2>2. g[m] \subseteq T[m]
    BY <2>1
  <2>3. g[m + 1] = OneMore(g[m], entries[m + 1])
    <3>1. m + 1 \in 0..Len(entries) /\ m + 1 # 0
      BY <2>1, <1>0
    <3> QED BY <3>1, <2>1, <1>6
  <2>4. \A h \in T[m] : PutRaw(h, entries[m + 1].val, entries[m + 1].ver) \subseteq T[m + 1]
    BY <2>1
  <2> QED BY <2>2, <2>3, <2>4 DEF OneMore
<1>4. S = Nat
  <2> HIDE DEF S
  <2>1. S \in SUBSET Nat
    BY DEF S
  <2> QED BY <2>1, <1>2, <1>3, Induction
<1>5. Len(entries) \in S
  BY <1>0, <1>4
<1> QED BY <1>0, <1>1, <1>5

-----------------------------------------------------------------------------
(* The inductive invariant. *)

FreshSnap == [pc |-> "off", copy |-> EmptyStore, todo |-> {}]
FreshStream == [handler |-> "off", ss |-> "open", live |-> "open", ssSent |-> FALSE,
                liveSent |-> FALSE, reset |-> "unset"]

(* Nothing of a stream exists before its request reached the source. *)
FreshAt(s) ==
  asked[s] # "yes" =>
    /\ snap[s] = FreshSnap /\ tick[s] = "off" /\ stream[s] = FreshStream
    /\ wire[s] = <<>> /\ ~conn[s] /\ ended[s] = "no"

(* The goroutines of a stream end in one order: snapshot, its channel, its *)
(* mark in the stream, the ticker, the live channel.                       *)
OrderAt(s) ==
  /\ stream[s].ss = "open" <=> snap[s].pc # "end"
  /\ snap[s].pc # "send" => snap[s].todo = {}
  /\ snap[s].pc \notin {"send", "end"} => snap[s].copy = EmptyStore
  /\ stream[s].ssSent <=> stream[s].ss = "nil"
  /\ stream[s].liveSent <=> stream[s].live = "nil"
  /\ stream[s].live # "open" => tick[s] \in {"closed", "stopped"}
  /\ tick[s] \in {"closed", "stopped"} => stream[s].ssSent
  /\ snap[s].pc = "send" => stream[s].reset = "real"

(* The source's store has the hook of a stream only from the installation  *)
(* to the reset.                                                           *)
HookAt(s) ==
  hook = s =>
    /\ snap[s].pc \in {"copy", "send", "end"}
    /\ snap[s].pc = "end" => stream[s].reset = "real"
    /\ tick[s] # "stopped"

ControlInv == \A s \in Streams : FreshAt(s) /\ OrderAt(s) /\ HookAt(s)

(* What a stream may hold, and in which order. *)
Marks == {"snapshotComplete", "liveComplete"}

WireAt(s) ==
  /\ \A i \in DOMAIN wire[s] :
       /\ wire[s][i].kind \in Marks => wire[s][i].entries = <<>>
       /\ wire[s][i].kind \notin Marks => wire[s][i].key \in Keys
       /\ wire[s][i].kind = "liveComplete" => stream[s].liveSent /\ i = Len(wire[s])
       /\ wire[s][i].kind = "snapshotComplete" =>
            /\ stream[s].ssSent
            /\ \A n \in DOMAIN wire[s] : n > i => wire[s][n].kind \in AfterSnapshot
  /\ ended[s] = "complete" => wire[s] = <<>> /\ Finished(s)

WireInv == \A s \in Streams : WireAt(s)

(* A value of the copy is still to be sent, or on the wire before the mark,*)
(* or it has arrived.                                                      *)
Before(s, i, k, v) ==
  \E n \in DOMAIN wire[s] : n < i /\ wire[s][n].key = k /\ v \in Vals(wire[s][n].entries)

CopyAt(s) ==
  \A k \in Keys : \A v \in Vals(snap[s].copy[k]) :
    /\ conn[s] /\ ~stream[s].ssSent =>
         InSnapshot(s, k, v) \/ OnWire(s, k, v) \/ Arrived(Of(s), k, v)
    /\ \A i \in DOMAIN wire[s] : wire[s][i].kind = "snapshotComplete" =>
         Before(s, i, k, v) \/ Arrived(Of(s), k, v)

CopyInv == \A s \in Streams : CopyAt(s)

(* A joiner is AVAILABLE past the mark of a stream whose copy it has.      *)
PastMark(s, j) ==
  /\ Of(s) = j /\ stream[s].ssSent
  /\ \A i \in DOMAIN wire[s] : wire[s][i].kind \in AfterSnapshot
  /\ \A k \in Keys : Vals(snap[s].copy[k]) \subseteq Vals(jstore[j][k])

AvailInv ==
  \A j \in Joiners : state[j] = "AVAILABLE" => \E s \in Streams : PastMark(s, j)

(* As WriteAccounted, of the puts that are in the hook of this stream. *)
InHookOf(s, k, v) ==
  \E w \in Writers : /\ put[w].key = k /\ put[w].entry.val = v
                     /\ \/ put[w].pc = "hook" /\ put[w].caught # NoStream
                        \/ put[w].pc = "sending" /\ put[w].caught = s

Accounted(s, k, v) ==
  InSnapshot(s, k, v) \/ InHookOf(s, k, v) \/ OnWire(s, k, v) \/ Arrived(Of(s), k, v)

Replicating(s) ==
  hook = s /\ snap[s].pc \in {"send", "end"} /\ stream[s].live = "open" /\ conn[s]

AccountInv ==
  \A s \in Streams : Replicating(s) =>
    \A k \in Covers[Of(s)] : \A v \in Vals(store[k]) : Accounted(s, k, v)

(* What is on its way is what the source has stored, and every value is in *)
(* the store once.                                                         *)
SourceInv ==
  /\ \A k \in Keys : OneEach(store[k]) /\ \A v \in Vals(store[k]) : v <= writes
  /\ \A s \in Streams, k \in Keys : ToSet(snap[s].copy[k]) \subseteq ToSet(store[k])
  /\ \A s \in Streams : \A i \in DOMAIN wire[s] : wire[s][i].kind \notin Marks =>
       ToSet(wire[s][i].entries) \subseteq ToSet(store[wire[s][i].key])
  /\ \A w \in Writers : put[w].pc \in {"hook", "sending"} =>
       put[w].entry \in ToSet(store[put[w].key])

(* A put that is not stored yet has a value of its own.                    *)
RoutedInv ==
  /\ \A w \in Writers : put[w].pc = "routed" =>
       /\ put[w].entry.val <= writes
       /\ \A k \in Keys : put[w].entry.val \notin Vals(store[k])
       /\ \A j \in Joiners, k \in Keys : put[w].entry.val \notin Vals(jstore[j][k])
  /\ \A w, u \in Writers :
       put[w].pc = "routed" /\ put[u].pc = "routed" /\ put[w].entry.val = put[u].entry.val => w = u
  /\ \A j \in Joiners, k \in Keys : \A v \in Vals(jstore[j][k]) : v <= writes

IInv ==
  /\ TypeOK /\ ControlInv /\ WireInv /\ ResetAssigned
  /\ CopyInv /\ AvailInv /\ AccountInv
  /\ SourceInv /\ RoutedInv /\ RestampsAtMostFirst

-----------------------------------------------------------------------------
(* Types *)

(* The joiner of a stream. *)
LEMMA OfJoiner ==
  ASSUME NEW s \in Streams
  PROVE  Of(s) \in Joiners
BY StreamsAssumption DEF Of

LEMMA PutRawType ==
  ASSUME NEW es \in History, NEW val \in Nat, NEW version \in Nat \cup {NoVersion},
         NEW new \in PutRaw(es, val, version)
  PROVE  new \in History
<1>1. NewEntry(es, val, version) \in Entry
  BY NewEntryType
<1> QED BY <1>1, SortedInsertsType DEF PutRaw

LEMMA PutAllType ==
  ASSUME NEW es \in History, NEW entries \in History
  PROVE  PutAll(es, entries) \subseteq History
<1> DEFINE T == [n \in 0..Len(entries) |-> History]
<1>1. Len(entries) \in Nat /\ T[0] = History /\ T[Len(entries)] = History
  BY DEF History
<1>2. ASSUME NEW n \in 1..Len(entries), NEW h \in T[n - 1]
      PROVE  PutRaw(h, entries[n].val, entries[n].ver) \subseteq T[n]
  <2>1. h \in History /\ T[n] = History
    BY <1>1
  <2>2. entries[n].val \in Nat /\ entries[n].ver \in Nat
    <3>1. entries[n] \in Entry
      BY DEF History
    <3> QED BY <3>1 DEF Entry
  <2> QED BY <2>1, <2>2, PutRawType
<1> HIDE DEF T
<1> QED BY <1>1, <1>2, PutAllWithin

(* What an update of a record that is a function's value makes of it. *)
LEMMA RouteEffect ==
  ASSUME limits \in Limits, put \in [Writers -> Put], NEW w \in Writers,
         Route(w) \/ Replicate(w)
  PROVE  \E k \in Keys, version \in Nat :
           put' = [put EXCEPT ![w] = [pc |-> "routed", key |-> k,
                     entry |-> [val |-> writes', ver |-> version], caught |-> put[w].caught]]
<1>0. limits.versions \subseteq Nat
  BY LimitsAssumption
<1>1. PICK k \in Keys, version \in Nat :
        put' = [put EXCEPT ![w].pc = "routed", ![w].key = k,
                           ![w].entry = [val |-> writes', ver |-> version]]
  BY <1>0 DEF Route, Replicate
<1>2. put[w] \in Put
  OBVIOUS
<1>3. put'[w] = [pc |-> "routed", key |-> k, entry |-> [val |-> writes', ver |-> version],
                 caught |-> put[w].caught]
  BY <1>1, <1>2 DEF Put
<1>4. \A u \in Writers : u # w => put'[u] = put[u]
  BY <1>1
<1>5. put' = [u \in Writers |-> put'[u]]
  BY <1>1
<1> QED BY <1>1, <1>3, <1>4, <1>5

(* What a writer gives to PutRaw. *)
LEMMA GivenType ==
  ASSUME NEW p \in Put
  PROVE  p.entry.val \in Nat /\ Given(p.entry) \in Nat \cup {NoVersion}
<1>1. p.entry \in Entry
  BY DEF Put
<1> QED BY <1>1 DEF Entry, Given

LEMMA CommitEffect ==
  ASSUME put \in [Writers -> Put], NEW w \in Writers, Commit(w)
  PROVE  LET k == put[w].key
             e == NewEntry(store[k], put[w].entry.val, Given(put[w].entry))
         IN  /\ \E es \in SortedInserts(store[k], e) : store' = [store EXCEPT ![k] = es]
             /\ put' = [put EXCEPT ![w] = [pc |-> "hook", key |-> k, entry |-> e,
                                          caught |-> hook]]
<1> DEFINE e == NewEntry(store[put[w].key], put[w].entry.val, Given(put[w].entry))
<1>1. put' = [put EXCEPT ![w].pc = "hook", ![w].entry = e, ![w].caught = hook]
  BY DEF Commit
<1> HIDE DEF e
<1>2. put[w] \in Put
  OBVIOUS
<1>3. put'[w] = [pc |-> "hook", key |-> put[w].key, entry |-> e, caught |-> hook]
  BY <1>1, <1>2 DEF Put
<1>4. \A u \in Writers : u # w => put'[u] = put[u]
  BY <1>1
<1>5. put' = [u \in Writers |-> put'[u]]
  BY <1>1
<1>6. put' = [put EXCEPT ![w] = [pc |-> "hook", key |-> put[w].key, entry |-> e,
                                 caught |-> hook]]
  BY <1>3, <1>4, <1>5
<1> QED BY <1>6 DEF Commit, e

LEMMA HookCalledEffect ==
  ASSUME put \in [Writers -> Put], NEW w \in Writers,
         put' = [put EXCEPT ![w].pc = "sending", ![w].caught = hook]
  PROVE  put' = [put EXCEPT ![w] = [pc |-> "sending", key |-> put[w].key,
                                    entry |-> put[w].entry, caught |-> hook]]
<1>2. put[w] \in Put
  OBVIOUS
<1>3. put'[w] = [pc |-> "sending", key |-> put[w].key, entry |-> put[w].entry, caught |-> hook]
  BY <1>2 DEF Put
<1>4. \A u \in Writers : u # w => put'[u] = put[u]
  OBVIOUS
<1>5. put' = [u \in Writers |-> put'[u]]
  OBVIOUS
<1> QED BY <1>3, <1>4, <1>5

LEMMA SnapEndEffect ==
  ASSUME stream \in [Streams -> Stream], NEW s \in Streams, NEW reset, SnapEnd(s, reset)
  PROVE  stream' = [stream EXCEPT ![s] =
           [handler |-> stream[s].handler, ss |-> "closed", live |-> stream[s].live,
            ssSent |-> stream[s].ssSent, liveSent |-> stream[s].liveSent, reset |-> reset]]
<1>1. stream' = [stream EXCEPT ![s].ss = "closed", ![s].reset = reset]
  BY DEF SnapEnd
<1>2. stream[s] \in Stream
  OBVIOUS
<1>3. stream'[s] = [handler |-> stream[s].handler, ss |-> "closed", live |-> stream[s].live,
            ssSent |-> stream[s].ssSent, liveSent |-> stream[s].liveSent, reset |-> reset]
  BY <1>1, <1>2 DEF Stream
<1>4. \A t \in Streams : t # s => stream'[t] = stream[t]
  BY <1>1
<1>5. stream' = [t \in Streams |-> stream'[t]]
  BY <1>1
<1> QED BY <1>3, <1>4, <1>5

LEMMA SnapshotClosedEffect ==
  ASSUME stream \in [Streams -> Stream], NEW s \in Streams, StreamSnapshotClosed(s)
  PROVE  stream' = [stream EXCEPT ![s] =
           [handler |-> stream[s].handler, ss |-> "nil", live |-> stream[s].live,
            ssSent |-> TRUE, liveSent |-> stream[s].liveSent, reset |-> stream[s].reset]]
<1>1. stream' = [stream EXCEPT ![s].ss = "nil", ![s].ssSent = TRUE]
  BY DEF StreamSnapshotClosed
<1>2. stream[s] \in Stream
  OBVIOUS
<1>3. stream'[s] = [handler |-> stream[s].handler, ss |-> "nil", live |-> stream[s].live,
            ssSent |-> TRUE, liveSent |-> stream[s].liveSent, reset |-> stream[s].reset]
  BY <1>1, <1>2 DEF Stream
<1>4. \A t \in Streams : t # s => stream'[t] = stream[t]
  BY <1>1
<1>5. stream' = [t \in Streams |-> stream'[t]]
  BY <1>1
<1> QED BY <1>3, <1>4, <1>5

LEMMA LiveClosedEffect ==
  ASSUME stream \in [Streams -> Stream], NEW s \in Streams, StreamLiveClosed(s)
  PROVE  stream' = [stream EXCEPT ![s] =
           [handler |-> stream[s].handler, ss |-> stream[s].ss, live |-> "nil",
            ssSent |-> stream[s].ssSent, liveSent |-> TRUE, reset |-> stream[s].reset]]
<1>1. stream' = [stream EXCEPT ![s].live = "nil", ![s].liveSent = TRUE]
  BY DEF StreamLiveClosed
<1>2. stream[s] \in Stream
  OBVIOUS
<1>3. stream'[s] = [handler |-> stream[s].handler, ss |-> stream[s].ss, live |-> "nil",
            ssSent |-> stream[s].ssSent, liveSent |-> TRUE, reset |-> stream[s].reset]
  BY <1>1, <1>2 DEF Stream
<1>4. \A t \in Streams : t # s => stream'[t] = stream[t]
  BY <1>1
<1>5. stream' = [t \in Streams |-> stream'[t]]
  BY <1>1
<1> QED BY <1>3, <1>4, <1>5

LEMMA TypeInit ==
  ASSUME Init PROVE TypeOK
<1>1. store \in [Keys -> History]
  <2>1. <<>> \in History /\ <<[val |-> 0, ver |-> 1]>> \in History
    BY DEF History, Entry
  <2> QED BY <2>1 DEF Init
<1>2. NoPut \in Put
  <2>1. NoEntry \in Entry
    BY DEF NoEntry, Entry
  <2> QED BY <2>1, KeysAssumption DEF NoPut, Put
<1>3. EmptyStore \in [Keys -> History]
  BY DEF EmptyStore, History
<1>4. writes \in 0..limits.writes
  BY LimitsAssumption DEF Init
<1>5. snap \in [Streams -> Snap] /\ stream \in [Streams -> Stream]
  BY <1>3 DEF Init, Snap, Stream
<1>6. wire \in [Streams -> Seq(Event)]
  BY DEF Init
<1>7. known \in [Joiners -> JoinerStates \cup {"UNKNOWN"}] /\ state \in [Joiners -> JoinerStates]
  BY DEF Init, JoinerStates
<1>8. put \in [Writers -> Put] /\ jstore \in [Joiners -> [Keys -> History]]
  BY <1>2, <1>3 DEF Init
<1> QED BY <1>1, <1>4, <1>5, <1>6, <1>7, <1>8 DEF Init, TypeOK

(* What one step of each kind changes, with its type. *)
LEMMA TypeStep ==
  ASSUME TypeOK, WireInv, Next PROVE TypeOK'
<1> USE DEF TypeOK
<1>0. limits.writes \in Nat /\ limits' = limits
  BY LimitsAssumption DEF Next
<1>21. NoPut \in Put /\ [NoPut EXCEPT !.pc = "panicked"] \in Put
  <2>1. NoEntry \in Entry
    BY DEF NoEntry, Entry
  <2> QED BY <2>1, KeysAssumption DEF NoPut, Put
<1>22. Mark("snapshotComplete") \in Event /\ Mark("liveComplete") \in Event
  BY DEF Mark, Event, History
<1>23. ASSUME NEW s \in Streams, NEW event \in Event, Emit(s, event)
      PROVE  wire' \in [Streams -> Seq(Event)]
  <2>1. Append(wire[s], event) \in Seq(Event)
    BY <1>23
  <2> QED BY <1>23, <2>1 DEF Emit
<1>1. ASSUME NEW w \in Writers, Route(w) \/ Replicate(w) PROVE TypeOK'
  <2>1. writes' \in 0..limits'.writes /\ writes' \in Nat
    <3>1. writes < limits.writes /\ writes' = writes + 1
      BY <1>1 DEF Route, Replicate
    <3> QED BY <1>0, <3>1
  <2>2. put' \in [Writers -> Put]
    <3>1. PICK k \in Keys, version \in Nat :
            put' = [put EXCEPT ![w] = [pc |-> "routed", key |-> k,
                     entry |-> [val |-> writes', ver |-> version], caught |-> put[w].caught]]
      BY <1>1, RouteEffect
    <3>2. put[w] \in Put
      OBVIOUS
    <3> QED BY <3>1, <3>2, <2>1 DEF Put, Entry
  <2> QED BY <1>0, <1>1, <2>1, <2>2 DEF Route, Replicate, joiner
<1>2. ASSUME NEW w \in Writers, Commit(w) PROVE TypeOK'
  <2>1. PICK k, e :
          /\ k = put[w].key /\ e = NewEntry(store[k], put[w].entry.val, Given(put[w].entry))
          /\ \E es \in SortedInserts(store[k], e) : store' = [store EXCEPT ![k] = es]
          /\ put' = [put EXCEPT ![w] = [pc |-> "hook", key |-> k, entry |-> e,
                                       caught |-> hook]]
    BY <1>2, CommitEffect
  <2>2. /\ k \in Keys /\ store[k] \in History /\ put[w].entry.val \in Nat
        /\ Given(put[w].entry) \in Nat \cup {NoVersion}
    <3>1. put[w] \in Put
      OBVIOUS
    <3>2. put[w].key \in Keys
      BY <3>1 DEF Put
    <3> QED BY <3>1, <3>2, <2>1, GivenType
  <2>3. e \in Entry
    BY <2>1, <2>2, NewEntryType
  <2>4. store' \in [Keys -> History]
    BY <2>1, <2>2, <2>3, SortedInsertsType
  <2>5. put' \in [Writers -> Put]
    BY <2>1, <2>2, <2>3 DEF Put
  <2> QED BY <1>0, <1>2, <2>4, <2>5 DEF Commit, joiner
<1>3. ASSUME NEW w \in Writers, CallHook(w) PROVE TypeOK'
  <2>1. put' \in [Writers -> Put]
    <3>1. CASE PutDone(w) \/ PutPanics(w)
      BY <3>1, <1>21 DEF PutDone, PutPanics
    <3>2. CASE put' = [put EXCEPT ![w].pc = "sending", ![w].caught = hook]
      <4>1. put' = [put EXCEPT ![w] = [pc |-> "sending", key |-> put[w].key,
                                       entry |-> put[w].entry, caught |-> hook]]
        BY <3>2, HookCalledEffect
      <4>2. put[w] \in Put
        OBVIOUS
      <4> QED BY <4>1, <4>2 DEF Put
    <3> QED BY <1>3, <3>1, <3>2 DEF CallHook
  <2> QED BY <1>0, <1>3, <2>1 DEF CallHook, joiner
<1>4. ASSUME NEW w \in Writers, SendOnClosed(w) PROVE TypeOK'
  BY <1>0, <1>4, <1>21 DEF SendOnClosed, PutPanics, joiner
<1>5. ASSUME NEW s \in Streams, SnapSteps(s) PROVE TypeOK'
  <2>1. snap[s] \in Snap /\ stream[s] \in Stream
    OBVIOUS
  <2>2. ASSUME NEW copy \in [Keys -> History], NEW todo \in SUBSET Keys
        PROVE  [pc |-> "send", copy |-> copy, todo |-> todo] \in Snap
    BY DEF Snap
  <2>3. snap' \in [Streams -> Snap]
    <3>1. CASE SnapSize(s) \/ SnapGet(s) \/ SnapInstall(s) \/ SnapSent(s)
      <4>1. PICK place \in {"get", "install", "copy", "end"} :
              snap' = [snap EXCEPT ![s].pc = place]
        BY <3>1 DEF SnapSize, SnapGet, SnapInstall, SnapSent, SnapEnd, SnapGoto
      <4>2. [snap[s] EXCEPT !.pc = place] \in Snap
        BY <2>1 DEF Snap
      <4> QED BY <4>1, <4>2
    <3>2. CASE SnapCopy(s)
      <4> DEFINE copy == [k \in Keys |-> IF k \in Covers[Of(s)] THEN store[k] ELSE <<>>]
                 todo == {k \in Keys : copy[k] # <<>>}
      <4>1. copy \in [Keys -> History] /\ todo \in SUBSET Keys
        BY DEF History
      <4>2. snap' = [snap EXCEPT ![s] = [pc |-> "send", copy |-> copy, todo |-> todo]]
        BY <3>2 DEF SnapCopy
      <4> HIDE DEF copy, todo
      <4> QED BY <4>1, <4>2, <2>2
    <3> QED BY <1>5, <3>1, <3>2 DEF SnapSteps
  <2>4. stream' \in [Streams -> Stream]
    <3>1. ASSUME NEW reset \in {"unset", "noop", "real"}, SnapEnd(s, reset)
          PROVE  stream' \in [Streams -> Stream]
      <4> HIDE DEF TypeOK
      <4>1. stream \in [Streams -> Stream] /\ stream[s] \in Stream
        BY <2>1 DEF TypeOK
      <4>2. PICK rec : rec = [handler |-> stream[s].handler, ss |-> "closed",
              live |-> stream[s].live, ssSent |-> stream[s].ssSent,
              liveSent |-> stream[s].liveSent, reset |-> reset]
        OBVIOUS
      <4>3. rec \in Stream
        BY <4>1, <4>2 DEF Stream
      <4>4. stream' = [stream EXCEPT ![s] = rec]
        BY <3>1, <4>1, <4>2, SnapEndEffect
      <4> QED BY <4>1, <4>3, <4>4
    <3>2. stream[s].reset \in {"unset", "noop", "real"}
      BY <2>1 DEF Stream
    <3>3. CASE SnapSize(s) \/ SnapGet(s) \/ SnapInstall(s) \/ SnapSent(s)
      <4> HIDE DEF TypeOK
      <4>1. stream \in [Streams -> Stream]
        BY DEF TypeOK
      <4>2. \/ \E reset \in {"unset", "noop", "real"} : SnapEnd(s, reset)
            \/ UNCHANGED stream
        BY <3>2, <3>3 DEF SnapSize, SnapGet, SnapInstall, SnapSent
      <4> QED BY <3>1, <4>1, <4>2
    <3>4. CASE SnapCopy(s)
      BY <2>1, <3>4 DEF SnapCopy, Stream
    <3> QED BY <1>5, <3>3, <3>4 DEF SnapSteps
  <2>5. hook' \in Streams \cup {NoStream}
    BY <1>5 DEF SnapSteps, SnapSize, SnapGet, SnapInstall, SnapCopy, SnapSent
  <2>6. UNCHANGED <<store, put, known, tick, wire, conn, joiner, writes, crashed>>
    BY <1>5 DEF SnapSteps, SnapSize, SnapGet, SnapInstall, SnapCopy, SnapSent
  <2> QED BY <1>0, <2>3, <2>4, <2>5, <2>6 DEF joiner
<1>6. ASSUME NEW s \in Streams, StreamSnapshot(s) PROVE TypeOK'
  <2>1. snap[s] \in Snap
    OBVIOUS
  <2>2. PICK k \in snap[s].todo :
          /\ Emit(s, [kind |-> "snapshot", key |-> k, entries |-> snap[s].copy[k]])
          /\ snap' = [snap EXCEPT ![s].todo = @ \ {k}]
    BY <1>6 DEF StreamSnapshot
  <2>3. k \in Keys /\ snap[s].copy[k] \in History
    BY <2>1 DEF Snap
  <2>4. [kind |-> "snapshot", key |-> k, entries |-> snap[s].copy[k]] \in Event
    BY <2>3 DEF Event
  <2>5. wire' \in [Streams -> Seq(Event)]
    BY <2>2, <2>4, <1>23
  <2>6. snap' \in [Streams -> Snap]
    BY <2>1, <2>2 DEF Snap
  <2> QED BY <1>0, <1>6, <2>5, <2>6 DEF StreamSnapshot, joiner
<1>7. ASSUME NEW s \in Streams, StreamSnapshotClosed(s) \/ StreamLiveClosed(s) PROVE TypeOK'
  <2>1. stream[s] \in Stream
    OBVIOUS
  <2>2. stream' \in [Streams -> Stream]
    <3>1. CASE StreamSnapshotClosed(s)
      <4>1. stream' = [stream EXCEPT ![s] = [handler |-> stream[s].handler, ss |-> "nil",
                 live |-> stream[s].live, ssSent |-> TRUE, liveSent |-> stream[s].liveSent,
                 reset |-> stream[s].reset]]
        BY <3>1, SnapshotClosedEffect
      <4> QED BY <2>1, <4>1 DEF Stream
    <3>2. CASE StreamLiveClosed(s)
      <4>1. stream' = [stream EXCEPT ![s] = [handler |-> stream[s].handler, ss |-> stream[s].ss,
                 live |-> "nil", ssSent |-> stream[s].ssSent, liveSent |-> TRUE,
                 reset |-> stream[s].reset]]
        BY <3>2, LiveClosedEffect
      <4> QED BY <2>1, <4>1 DEF Stream
    <3> QED BY <1>7, <3>1, <3>2
  <2>3. wire' \in [Streams -> Seq(Event)]
    BY <1>7, <1>22, <1>23 DEF StreamSnapshotClosed, StreamLiveClosed
  <2> QED BY <1>0, <1>7, <2>2, <2>3 DEF StreamSnapshotClosed, StreamLiveClosed, joiner
<1>8. ASSUME NEW s \in Streams, StreamLive(s) PROVE TypeOK'
  <2>1. PICK w \in Writers :
          /\ Emit(s, [kind |-> "live", key |-> put[w].key, entries |-> <<put[w].entry>>])
          /\ PutDone(w)
    BY <1>8 DEF StreamLive
  <2>2. [kind |-> "live", key |-> put[w].key, entries |-> <<put[w].entry>>] \in Event
    <3>1. put[w] \in Put
      OBVIOUS
    <3>2. <<put[w].entry>> \in History /\ put[w].key \in Keys
      BY <3>1 DEF Put, History
    <3> QED BY <3>2 DEF Event
  <2>3. wire' \in [Streams -> Seq(Event)]
    BY <2>1, <2>2, <1>23
  <2>4. put' \in [Writers -> Put]
    BY <2>1, <1>21 DEF PutDone
  <2> QED BY <1>0, <1>8, <2>3, <2>4 DEF StreamLive, joiner
<1>9. ASSUME NEW s \in Streams, StreamReturn(s) PROVE TypeOK'
  <2>1. stream[s] \in Stream
    OBVIOUS
  <2>2. stream' \in [Streams -> Stream]
    BY <1>9, <2>1 DEF StreamReturn, Stream
  <2> QED BY <1>0, <1>9, <2>2 DEF StreamReturn, joiner
<1>10. ASSUME NEW s \in Streams, TickSteps(s) PROVE TypeOK'
  <2>1. stream[s] \in Stream
    OBVIOUS
  <2>2. stream' \in [Streams -> Stream]
    <3>1. CASE TickClose(s)
      BY <2>1, <3>1 DEF TickClose, Stream
    <3>2. CASE TickReset(s)
      BY <3>2 DEF TickReset
    <3> QED BY <1>10, <3>1, <3>2 DEF TickSteps
  <2> QED BY <1>0, <1>10, <2>2 DEF TickSteps, TickClose, TickReset, joiner
<1>11. ASSUME NEW s \in Streams, Request(s) PROVE TypeOK'
  <2>1. stream[s] \in Stream /\ snap[s] \in Snap
    OBVIOUS
  <2>2. stream' \in [Streams -> Stream] /\ snap' \in [Streams -> Snap]
    BY <1>11, <2>1 DEF Request, Stream, Snap
  <2> QED BY <1>0, <1>11, <2>2 DEF Request, JoinerStates
<1>12. ASSUME NEW j \in Joiners, Learn(j) PROVE TypeOK'
  BY <1>0, <1>12 DEF Learn, joiner
<1>13. ASSUME DebugSnapshot PROVE TypeOK'
  BY <1>0, <1>13 DEF DebugSnapshot, joiner
<1>14. ASSUME NEW s \in Streams, Ready(s) \/ ChangeState(s) \/ RequestFails(s) PROVE TypeOK'
  BY <1>0, <1>14 DEF Ready, ChangeState, RequestFails, source, JoinerStates
<1>15. ASSUME NEW s \in Streams, Consume(s) PROVE TypeOK'
  <2>1. PICK event : event = Head(wire[s])
    OBVIOUS
  <2>2. /\ wire[s] \in Seq(Event) /\ wire[s] # <<>> /\ event = wire[s][1]
        /\ event \in Event /\ 1 \in DOMAIN wire[s]
    BY <1>15, <2>1 DEF Consume
  <2>3. wire' \in [Streams -> Seq(Event)]
    <3>1. Tail(wire[s]) \in Seq(Event)
      BY <2>2
    <3> QED BY <3>1, <1>15 DEF Consume
  <2>4. jstore' \in [Joiners -> [Keys -> History]]
    <3>1. CASE event.kind \in {"snapshot", "live"}
      <4>1. PICK es \in PutAll(jstore[Of(s)][event.key], event.entries) :
              jstore' = [jstore EXCEPT ![Of(s)][event.key] = es]
        BY <1>15, <2>1, <3>1 DEF Consume
      <4>2. event.key \in Keys /\ event.entries \in History
        BY <2>2, <3>1 DEF WireInv, WireAt, Marks, Event
      <4>3. jstore[Of(s)][event.key] \in History
        BY <4>2, OfJoiner
      <4>4. es \in History
        BY <4>2, <4>3, PutAllType
      <4> QED BY <4>1, <4>4
    <3>2. CASE event.kind \notin {"snapshot", "live"}
      BY <1>15, <2>1, <3>2 DEF Consume
    <3> QED BY <3>1, <3>2
  <2>5. state' \in [Joiners -> JoinerStates] /\ ended' \in [Streams -> {"no", "complete", "broken"}]
    BY <1>15 DEF Consume, JoinerStates
  <2> QED BY <1>0, <1>15, <2>3, <2>4, <2>5 DEF Consume, source
<1>16. ASSUME NEW s \in Streams, ConsumeBroken(s) PROVE TypeOK'
  BY <1>0, <1>16 DEF ConsumeBroken, source
<1>17. ASSUME NEW j \in Joiners, JoinerPut(j) PROVE TypeOK'
  <2>1. writes' \in 0..limits'.writes /\ writes' \in Nat
    BY <1>0, <1>17 DEF JoinerPut
  <2>2. PICK k \in Covers[j], version \in {NoVersion} \cup limits.versions :
          \E es \in PutRaw(jstore[j][k], writes', version) :
            jstore' = [jstore EXCEPT ![j][k] = es]
    BY <1>17 DEF JoinerPut
  <2>3. jstore[j][k] \in History
    BY CoversAssumption
  <2>4. PutRaw(jstore[j][k], writes', version) \subseteq History
    <3>1. version \in Nat \cup {NoVersion}
      BY LimitsAssumption
    <3> QED BY <2>1, <2>3, <3>1, PutRawType
  <2>5. jstore' \in [Joiners -> [Keys -> History]]
    <3>1. PICK es \in History : jstore' = [jstore EXCEPT ![j][k] = es]
      BY <2>2, <2>4
    <3> QED BY <3>1
  <2> QED BY <1>0, <1>17, <2>1, <2>5 DEF JoinerPut, source
<1>18. ASSUME NEW s \in Streams, Drop(s) PROVE TypeOK'
  <2>1. PICK n \in 0..Len(wire[s]) : wire' = [wire EXCEPT ![s] = SubSeq(@, 1, n)]
    BY <1>18 DEF Drop
  <2>2. SubSeq(wire[s], 1, n) \in Seq(Event)
    OBVIOUS
  <2>3. wire' \in [Streams -> Seq(Event)]
    BY <2>1, <2>2
  <2> QED BY <1>0, <1>18, <2>3 DEF Drop, source, joiner
<1> QED
  BY <1>1, <1>2, <1>3, <1>4, <1>5, <1>6, <1>7, <1>8, <1>9, <1>10, <1>11, <1>12, <1>13,
     <1>14, <1>15, <1>16, <1>17, <1>18 DEF Next, PutSteps, StreamSteps, JoinerSteps

(* A step of one stream leaves what the others have alone; the other steps *)
(* leave all streams alone.                                                *)
SameAt(s) ==
  /\ snap'[s] = snap[s] /\ tick'[s] = tick[s] /\ stream'[s] = stream[s]
  /\ wire'[s] = wire[s] /\ conn'[s] = conn[s] /\ asked'[s] = asked[s] /\ ended'[s] = ended[s]

StepOf(s) ==
  \/ SnapSteps(s) \/ StreamSteps(s) \/ TickSteps(s) \/ Request(s)
  \/ Ready(s) \/ ChangeState(s) \/ RequestFails(s) \/ JoinerSteps(s) \/ Drop(s)

OtherStep ==
  \/ \E w \in Writers : Route(w) \/ Replicate(w) \/ PutSteps(w)
  \/ \E j \in Joiners : Learn(j) \/ JoinerPut(j)
  \/ DebugSnapshot

LEMMA NextSplit ==
  ASSUME Next
  PROVE  OtherStep \/ \E s \in Streams : StepOf(s)
BY DEF Next, OtherStep, StepOf

LEMMA OthersAlone ==
  ASSUME TypeOK, NEW r \in Streams, StepOf(r), NEW s \in Streams, s # r
  PROVE  SameAt(s)
<1>1. /\ snap \in [Streams -> Snap] /\ stream \in [Streams -> Stream]
      /\ wire \in [Streams -> Seq(Event)] /\ conn \in [Streams -> BOOLEAN]
      /\ tick \in [Streams -> {"off", "running", "closed", "stopped"}]
      /\ asked \in [Streams -> {"no", "ready", "changed", "yes"}]
      /\ ended \in [Streams -> {"no", "complete", "broken"}]
  BY DEF TypeOK
<1>2. CASE SnapSteps(r)
  BY <1>1, <1>2 DEF SnapSteps, SnapSize, SnapGet, SnapInstall, SnapCopy, SnapSent, SnapEnd,
     SnapGoto, joiner, SameAt
<1>3. CASE StreamSteps(r)
  BY <1>1, <1>3 DEF StreamSteps, StreamSnapshot, StreamSnapshotClosed, StreamLive,
     StreamLiveClosed, StreamReturn, Emit, joiner, SameAt
<1>4. CASE TickSteps(r) \/ Request(r)
  BY <1>1, <1>4 DEF TickSteps, TickClose, TickReset, Request, joiner, SameAt
<1>5. CASE Ready(r) \/ ChangeState(r) \/ RequestFails(r) \/ JoinerSteps(r) \/ Drop(r)
  BY <1>1, <1>5 DEF Ready, ChangeState, RequestFails, JoinerSteps, Consume, ConsumeBroken, Drop, source,
     joiner, SameAt
<1> QED BY <1>2, <1>3, <1>4, <1>5 DEF StepOf

LEMMA AllAlone ==
  ASSUME OtherStep
  PROVE  UNCHANGED <<snap, tick, stream, wire, conn, asked, ended>>
BY DEF OtherStep, PutSteps, Route, Replicate, Commit, CallHook, SendOnClosed, Learn, JoinerPut,
   DebugSnapshot, source, joiner

-----------------------------------------------------------------------------
(* Control *)

LEMMA FreshStep ==
  ASSUME TypeOK, ControlInv, NEW s \in Streams, StepOf(s)
  PROVE  FreshAt(s)'
<1> SUFFICES ASSUME asked'[s] # "yes"
    PROVE  /\ snap'[s] = FreshSnap /\ tick'[s] = "off" /\ stream'[s] = FreshStream
           /\ wire'[s] = <<>> /\ ~conn'[s] /\ ended'[s] = "no"
  BY DEF FreshAt, FreshSnap, FreshStream, EmptyStore
<1>1. asked \in [Streams -> {"no", "ready", "changed", "yes"}]
  BY DEF TypeOK
<1>2. asked[s] # "yes"
  BY <1>1 DEF StepOf, SnapSteps, SnapSize, SnapGet, SnapInstall, SnapCopy, SnapSent, StreamSteps,
     StreamSnapshot, StreamSnapshotClosed, StreamLive, StreamLiveClosed, StreamReturn,
     TickSteps, TickClose, TickReset, Request, Ready, ChangeState, RequestFails, JoinerSteps, Consume,
     ConsumeBroken, Drop, source, joiner
<1>3. /\ snap[s] = FreshSnap /\ tick[s] = "off" /\ stream[s] = FreshStream
      /\ wire[s] = <<>> /\ ~conn[s] /\ ended[s] = "no"
  BY <1>2 DEF ControlInv, FreshAt
<1>4. snap[s].pc = "off" /\ stream[s].handler = "off"
  BY <1>3 DEF FreshSnap, FreshStream
<1>5. Ready(s) \/ ChangeState(s)
  <2>1. ~SnapSteps(s)
    BY <1>4 DEF SnapSteps, SnapSize, SnapGet, SnapInstall, SnapCopy, SnapSent
  <2>2. ~StreamSteps(s)
    BY <1>4 DEF StreamSteps, StreamSnapshot, StreamSnapshotClosed, StreamLive,
       StreamLiveClosed, StreamReturn, Selecting
  <2>3. ~TickSteps(s) /\ ~JoinerSteps(s) /\ ~Drop(s)
    BY <1>2, <1>3 DEF TickSteps, TickClose, TickReset, JoinerSteps, Consume, ConsumeBroken, Drop
  <2>4. ~Request(s) /\ ~RequestFails(s)
    BY <1>1 DEF Request, RequestFails
  <2> QED BY <2>1, <2>2, <2>3, <2>4 DEF StepOf
<1> QED BY <1>3, <1>5 DEF Ready, ChangeState, source

LEMMA OrderStep ==
  ASSUME TypeOK, ControlInv, NEW s \in Streams, StepOf(s)
  PROVE  OrderAt(s)' /\ HookAt(s)'
<1>1. /\ snap \in [Streams -> Snap] /\ stream \in [Streams -> Stream]
      /\ tick \in [Streams -> {"off", "running", "closed", "stopped"}]
      /\ hook \in Streams \cup {NoStream}
  BY DEF TypeOK
<1>2. snap[s] \in Snap /\ stream[s] \in Stream
  BY <1>1
<1>3. FreshAt(s) /\ OrderAt(s) /\ HookAt(s)
  BY DEF ControlInv
<1>4. NoStream # s
  BY NoStreamAssumption
<1>5. ASSUME NEW reset, SnapEnd(s, reset), UNCHANGED <<hook, tick>>,
             \/ snap[s].pc \in {"size", "get"}
             \/ snap[s].pc = "send" /\ snap[s].todo = {} /\ reset = stream[s].reset
      PROVE  OrderAt(s)' /\ HookAt(s)'
  <2>1. stream' = [stream EXCEPT ![s] =
           [handler |-> stream[s].handler, ss |-> "closed", live |-> stream[s].live,
            ssSent |-> stream[s].ssSent, liveSent |-> stream[s].liveSent, reset |-> reset]]
    BY <1>1, <1>5, SnapEndEffect
  <2>2. snap'[s].pc = "end" /\ snap'[s].todo = snap[s].todo /\ snap'[s].copy = snap[s].copy
    BY <1>1, <1>2, <1>5 DEF SnapEnd, SnapGoto, Snap
  <2>3. /\ stream'[s].ss = "closed" /\ stream'[s].live = stream[s].live
        /\ stream'[s].ssSent = stream[s].ssSent /\ stream'[s].liveSent = stream[s].liveSent
        /\ stream'[s].reset = reset
    BY <1>1, <2>1
  <2> QED BY <1>3, <1>5, <2>2, <2>3 DEF OrderAt, HookAt
<1>6. ASSUME NEW place \in {"get", "install"}, SnapGoto(s, place), UNCHANGED <<hook, tick, stream>>,
             snap[s].pc \in {"size", "get"}
      PROVE  OrderAt(s)' /\ HookAt(s)'
  <2>1. snap'[s].pc = place /\ snap'[s].todo = snap[s].todo /\ snap'[s].copy = snap[s].copy
    BY <1>1, <1>2, <1>6 DEF SnapGoto, Snap
  <2> QED BY <1>3, <1>6, <2>1 DEF OrderAt, HookAt
<1>7. CASE SnapSize(s) \/ SnapGet(s) \/ SnapSent(s)
  <2>1. CASE SnapSize(s)
    BY <2>1, <1>5, <1>6 DEF SnapSize
  <2>2. CASE SnapGet(s)
    BY <2>2, <1>5, <1>6 DEF SnapGet
  <2>3. CASE SnapSent(s)
    BY <2>3, <1>5 DEF SnapSent
  <2> QED BY <1>7, <2>1, <2>2, <2>3
<1>8. CASE SnapInstall(s)
  <2>1. snap'[s].pc = "copy" /\ snap'[s].todo = snap[s].todo /\ snap'[s].copy = snap[s].copy
    BY <1>1, <1>2, <1>8 DEF SnapInstall, SnapGoto, Snap
  <2>2. stream' = stream /\ tick' = tick /\ snap[s].pc = "install"
    BY <1>8 DEF SnapInstall
  <2>3. ~stream[s].ssSent
    BY <1>3, <2>2 DEF OrderAt
  <2> QED BY <1>3, <2>1, <2>2, <2>3 DEF OrderAt, HookAt
<1>9. CASE SnapCopy(s)
  <2> DEFINE copy == [k \in Keys |-> IF k \in Covers[Of(s)] THEN store[k] ELSE <<>>]
             todo == {k \in Keys : copy[k] # <<>>}
  <2>1. /\ snap' = [snap EXCEPT ![s] = [pc |-> "send", copy |-> copy, todo |-> todo]]
        /\ stream' = [stream EXCEPT ![s].reset = "real"]
        /\ snap[s].pc = "copy" /\ tick' = tick /\ hook' = hook
    BY <1>9 DEF SnapCopy
  <2> HIDE DEF copy, todo
  <2>2. snap'[s].pc = "send"
    BY <1>1, <2>1
  <2>3. /\ stream'[s].ss = stream[s].ss /\ stream'[s].live = stream[s].live
        /\ stream'[s].ssSent = stream[s].ssSent /\ stream'[s].liveSent = stream[s].liveSent
        /\ stream'[s].reset = "real"
    BY <1>1, <1>2, <2>1 DEF Stream
  <2> QED BY <1>3, <2>1, <2>2, <2>3 DEF OrderAt, HookAt
<1>10. CASE StreamSnapshot(s)
  <2>1. /\ snap[s].pc = "send" /\ stream' = stream /\ tick' = tick /\ hook' = hook
        /\ \E k \in snap[s].todo : snap' = [snap EXCEPT ![s].todo = @ \ {k}]
    BY <1>10 DEF StreamSnapshot
  <2>2. snap'[s].pc = snap[s].pc /\ snap'[s].copy = snap[s].copy
    BY <1>1, <1>2, <2>1 DEF Snap
  <2> QED BY <1>3, <2>1, <2>2 DEF OrderAt, HookAt
<1>11. CASE StreamSnapshotClosed(s)
  <2>1. /\ stream' = [stream EXCEPT ![s] = [handler |-> stream[s].handler, ss |-> "nil",
                 live |-> stream[s].live, ssSent |-> TRUE, liveSent |-> stream[s].liveSent,
                 reset |-> stream[s].reset]]
        /\ stream[s].ss = "closed" /\ snap' = snap /\ tick' = tick /\ hook' = hook
    BY <1>1, <1>11, SnapshotClosedEffect DEF StreamSnapshotClosed
  <2>2. /\ stream'[s].ss = "nil" /\ stream'[s].live = stream[s].live
        /\ stream'[s].ssSent = TRUE /\ stream'[s].liveSent = stream[s].liveSent
        /\ stream'[s].reset = stream[s].reset
    BY <1>1, <2>1
  <2> QED BY <1>3, <2>1, <2>2 DEF OrderAt, HookAt
<1>12. CASE StreamLiveClosed(s)
  <2>1. /\ stream' = [stream EXCEPT ![s] = [handler |-> stream[s].handler, ss |-> stream[s].ss,
                 live |-> "nil", ssSent |-> stream[s].ssSent, liveSent |-> TRUE,
                 reset |-> stream[s].reset]]
        /\ stream[s].live = "closed" /\ snap' = snap /\ tick' = tick /\ hook' = hook
    BY <1>1, <1>12, LiveClosedEffect DEF StreamLiveClosed
  <2>2. /\ stream'[s].ss = stream[s].ss /\ stream'[s].live = "nil"
        /\ stream'[s].ssSent = stream[s].ssSent /\ stream'[s].liveSent = TRUE
        /\ stream'[s].reset = stream[s].reset
    BY <1>1, <2>1
  <2> QED BY <1>3, <2>1, <2>2 DEF OrderAt, HookAt
<1>13. CASE StreamReturn(s)
  <2>1. /\ stream' = [stream EXCEPT ![s].handler = "done"]
        /\ snap' = snap /\ tick' = tick /\ hook' = hook
    BY <1>13 DEF StreamReturn
  <2>2. /\ stream'[s].ss = stream[s].ss /\ stream'[s].live = stream[s].live
        /\ stream'[s].ssSent = stream[s].ssSent /\ stream'[s].liveSent = stream[s].liveSent
        /\ stream'[s].reset = stream[s].reset
    BY <1>1, <1>2, <2>1 DEF Stream
  <2> QED BY <1>3, <2>1, <2>2 DEF OrderAt, HookAt
<1>14. CASE TickClose(s)
  <2>1. /\ stream' = [stream EXCEPT ![s].live = "closed"] /\ tick[s] = "running"
        /\ stream[s].ssSent /\ tick'[s] = "closed" /\ snap' = snap /\ hook' = hook
    BY <1>1, <1>14 DEF TickClose
  <2>2. /\ stream'[s].ss = stream[s].ss /\ stream'[s].live = "closed"
        /\ stream'[s].ssSent = stream[s].ssSent /\ stream'[s].liveSent = stream[s].liveSent
        /\ stream'[s].reset = stream[s].reset
    BY <1>1, <1>2, <2>1 DEF Stream
  <2> QED BY <1>3, <2>1, <2>2 DEF OrderAt, HookAt
<1>15. CASE TickReset(s)
  <2>1. /\ tick[s] = "closed" /\ tick'[s] = "stopped" /\ stream' = stream /\ snap' = snap
        /\ hook' = IF stream[s].reset = "real" THEN NoStream ELSE hook
    BY <1>1, <1>15 DEF TickReset
  <2>2. hook' # s
    <3>1. stream[s].ssSent /\ snap[s].pc = "end"
      BY <1>3, <2>1 DEF OrderAt
    <3> QED BY <1>3, <1>4, <2>1, <3>1 DEF HookAt
  <2> QED BY <1>3, <2>1, <2>2 DEF OrderAt, HookAt
<1>16. CASE Request(s)
  <2>1. /\ snap' = [snap EXCEPT ![s].pc = "size"] /\ stream' = [stream EXCEPT ![s].handler = "on"]
        /\ tick'[s] = "running" /\ hook' = hook /\ asked[s] = "changed"
    BY <1>1, <1>16 DEF Request
  <2>2. snap[s] = FreshSnap /\ stream[s] = FreshStream
    BY <1>3, <2>1 DEF FreshAt
  <2>3. /\ snap'[s].pc = "size" /\ snap'[s].todo = {} /\ snap'[s].copy = EmptyStore
        /\ stream'[s].ss = "open" /\ stream'[s].live = "open"
        /\ ~stream'[s].ssSent /\ ~stream'[s].liveSent /\ snap[s].pc = "off"
    BY <1>1, <1>2, <2>1, <2>2 DEF FreshSnap, FreshStream
  <2>4. hook # s
    BY <1>3, <2>3 DEF HookAt
  <2>5. EmptyStore' = EmptyStore
    BY DEF EmptyStore
  <2> QED BY <2>1, <2>3, <2>4, <2>5 DEF OrderAt, HookAt
<1>17. CASE StreamLive(s) \/ Ready(s) \/ ChangeState(s) \/ RequestFails(s) \/ JoinerSteps(s) \/ Drop(s)
  <2>1. UNCHANGED <<snap, stream, tick, hook>>
    BY <1>17 DEF StreamLive, Ready, ChangeState, RequestFails, JoinerSteps, Consume, ConsumeBroken, Drop, source
  <2> QED BY <1>3, <2>1 DEF OrderAt, HookAt
<1> QED
  BY <1>7, <1>8, <1>9, <1>10, <1>11, <1>12, <1>13, <1>14, <1>15, <1>16, <1>17
  DEF StepOf, SnapSteps, StreamSteps, TickSteps

LEMMA ControlStep ==
  ASSUME TypeOK, ControlInv, Next
  PROVE  ControlInv'
<1> SUFFICES ASSUME NEW s \in Streams PROVE FreshAt(s)' /\ OrderAt(s)' /\ HookAt(s)'
  BY DEF ControlInv
<1>1. FreshAt(s) /\ OrderAt(s) /\ HookAt(s)
  BY DEF ControlInv
<1>2. CASE StepOf(s)
  BY <1>2, FreshStep, OrderStep
<1>3. CASE \E r \in Streams : r # s /\ StepOf(r)
  <2>1. PICK r \in Streams : r # s /\ StepOf(r)
    BY <1>3
  <2>2. SameAt(s)
    BY <2>1, OthersAlone
  <2>3. hook' = s => hook = s
    BY <2>1, NoStreamAssumption DEF StepOf, SnapSteps, SnapSize, SnapGet, SnapInstall, SnapCopy, SnapSent,
       StreamSteps, StreamSnapshot, StreamSnapshotClosed, StreamLive, StreamLiveClosed,
       StreamReturn, TickSteps, TickClose, TickReset, Request, Ready, ChangeState, RequestFails,
       JoinerSteps, Consume, ConsumeBroken, Drop, source
  <2> QED BY <1>1, <2>2, <2>3 DEF SameAt, FreshAt, OrderAt, HookAt, FreshSnap, FreshStream, EmptyStore
<1>4. CASE OtherStep
  <2>1. UNCHANGED <<snap, tick, stream, wire, conn, asked, ended>>
    BY <1>4, AllAlone
  <2>2. hook' = s => hook = s
    BY <1>4, NoStreamAssumption DEF OtherStep, PutSteps, Route, Replicate, Commit, CallHook, SendOnClosed,
       Learn, JoinerPut, DebugSnapshot, source
  <2> QED BY <1>1, <2>1, <2>2 DEF FreshAt, OrderAt, HookAt, FreshSnap, FreshStream, EmptyStore
<1> QED BY <1>2, <1>3, <1>4, NextSplit

(* Once a mark was sent, that is not taken back; nor is the copy the       *)
(* stream's first mark stands for.                                         *)
LEMMA SentKept ==
  ASSUME TypeOK, ControlInv, Next, NEW s \in Streams
  PROVE  /\ stream[s].ssSent => stream'[s].ssSent
         /\ stream[s].liveSent => stream'[s].liveSent
         /\ snap[s].pc = "end" => /\ snap'[s].pc = "end" /\ snap'[s].copy = snap[s].copy
                                  /\ stream'[s].reset = stream[s].reset
<1>1. /\ snap \in [Streams -> Snap] /\ stream \in [Streams -> Stream]
      /\ snap[s] \in Snap /\ stream[s] \in Stream
  BY DEF TypeOK
<1>2. CASE SnapSteps(s)
  <2>1. ASSUME NEW reset, SnapEnd(s, reset)
        PROVE  stream'[s].ssSent = stream[s].ssSent /\ stream'[s].liveSent = stream[s].liveSent
    <3>1. stream' = [stream EXCEPT ![s] =
           [handler |-> stream[s].handler, ss |-> "closed", live |-> stream[s].live,
            ssSent |-> stream[s].ssSent, liveSent |-> stream[s].liveSent, reset |-> reset]]
      BY <1>1, <2>1, SnapEndEffect
    <3> QED BY <1>1, <3>1
  <2>2. snap[s].pc # "end"
    BY <1>2 DEF SnapSteps, SnapSize, SnapGet, SnapInstall, SnapCopy, SnapSent
  <2>3. CASE SnapCopy(s)
    BY <1>1, <2>2, <2>3 DEF SnapCopy, Stream
  <2>4. CASE SnapSize(s) \/ SnapGet(s) \/ SnapInstall(s) \/ SnapSent(s)
    BY <2>1, <2>2, <2>4 DEF SnapSize, SnapGet, SnapInstall, SnapSent
  <2> QED BY <1>2, <2>3, <2>4 DEF SnapSteps
<1>3. CASE StreamSnapshot(s)
  <2>1. snap[s].pc = "send" /\ stream' = stream
    BY <1>3 DEF StreamSnapshot
  <2> QED BY <2>1
<1>4. CASE StreamSnapshotClosed(s)
  <2>1. /\ stream' = [stream EXCEPT ![s] = [handler |-> stream[s].handler, ss |-> "nil",
                 live |-> stream[s].live, ssSent |-> TRUE, liveSent |-> stream[s].liveSent,
                 reset |-> stream[s].reset]]
        /\ snap' = snap
    BY <1>1, <1>4, SnapshotClosedEffect DEF StreamSnapshotClosed
  <2> QED BY <1>1, <2>1
<1>5. CASE StreamLiveClosed(s)
  <2>1. /\ stream' = [stream EXCEPT ![s] = [handler |-> stream[s].handler, ss |-> stream[s].ss,
                 live |-> "nil", ssSent |-> stream[s].ssSent, liveSent |-> TRUE,
                 reset |-> stream[s].reset]]
        /\ snap' = snap
    BY <1>1, <1>5, LiveClosedEffect DEF StreamLiveClosed
  <2> QED BY <1>1, <2>1
<1>6. CASE StreamReturn(s)
  BY <1>1, <1>6 DEF StreamReturn, Stream
<1>7. CASE TickClose(s)
  BY <1>1, <1>7 DEF TickClose, Stream
<1>8. CASE TickReset(s) \/ StreamLive(s)
  BY <1>8 DEF TickReset, StreamLive
<1>9. CASE Request(s)
  <2>1. /\ snap' = [snap EXCEPT ![s].pc = "size"] /\ stream' = [stream EXCEPT ![s].handler = "on"]
        /\ asked[s] = "changed"
    BY <1>9 DEF Request
  <2>2. snap[s] = FreshSnap
    BY <2>1 DEF ControlInv, FreshAt
  <2> QED BY <1>1, <2>1, <2>2 DEF FreshSnap, Stream
<1>10. CASE Ready(s) \/ ChangeState(s) \/ RequestFails(s) \/ JoinerSteps(s) \/ Drop(s)
  BY <1>10 DEF Ready, ChangeState, RequestFails, JoinerSteps, Consume, ConsumeBroken, Drop, source
<1>11. CASE \E r \in Streams : r # s /\ StepOf(r)
  BY <1>11, OthersAlone DEF SameAt
<1>12. CASE OtherStep
  BY <1>12, AllAlone
<1> QED
  BY <1>2, <1>3, <1>4, <1>5, <1>6, <1>7, <1>8, <1>9, <1>10, <1>11, <1>12, NextSplit
  DEF StepOf, StreamSteps, TickSteps

-----------------------------------------------------------------------------
(* The order of the events *)

(* What a send of the handler does to the wire. *)
LEMMA EmitEffect ==
  ASSUME TypeOK, NEW s \in Streams, NEW event \in Event, Emit(s, event)
  PROVE  /\ conn[s] => /\ Len(wire'[s]) = Len(wire[s]) + 1
                       /\ DOMAIN wire'[s] = 1..(Len(wire[s]) + 1)
                       /\ wire'[s][Len(wire[s]) + 1] = event
                       /\ \A i \in DOMAIN wire[s] : wire'[s][i] = wire[s][i]
         /\ ~conn[s] => wire' = wire
         /\ DOMAIN wire[s] = 1..Len(wire[s]) /\ Len(wire[s]) \in Nat
<1>1. wire \in [Streams -> Seq(Event)] /\ wire[s] \in Seq(Event)
  BY DEF TypeOK
<1>2. /\ Len(Append(wire[s], event)) = Len(wire[s]) + 1
      /\ Append(wire[s], event) \in Seq(Event)
      /\ Append(wire[s], event)[Len(wire[s]) + 1] = event
      /\ \A i \in 1..Len(wire[s]) : Append(wire[s], event)[i] = wire[s][i]
  BY <1>1, AppendProperties
<1>3. conn[s] => wire'[s] = Append(wire[s], event)
  BY <1>1 DEF Emit
<1>4. ~conn[s] => wire' = wire
  BY DEF Emit
<1>5. DOMAIN wire[s] = 1..Len(wire[s]) /\ Len(wire[s]) \in Nat
  BY <1>1
<1> QED BY <1>2, <1>3, <1>4, <1>5

(* What is left of the wire when its first event is taken, and when it is  *)
(* cut off after some of them.                                             *)
LEMMA TailIndex ==
  ASSUME NEW q \in Seq(Event), q # <<>>
  PROVE  /\ Tail(q) \in Seq(Event) /\ 1 \in DOMAIN q /\ Head(q) = q[1]
         /\ Len(q) = 1 => Tail(q) = <<>>
         /\ \A i \in DOMAIN Tail(q) :
              /\ i + 1 \in DOMAIN q /\ Tail(q)[i] = q[i + 1]
              /\ i + 1 = Len(q) => i = Len(Tail(q))
         /\ \A i, n \in DOMAIN Tail(q) : n > i => n + 1 > i + 1
         /\ \A i \in DOMAIN q : i # 1 => i - 1 \in DOMAIN Tail(q) /\ (i - 1) + 1 = i
<1>1. /\ Len(q) \in Nat \ {0} /\ DOMAIN q = 1..Len(q) /\ Head(q) = q[1]
      /\ Tail(q) \in Seq(Event) /\ Len(Tail(q)) = Len(q) - 1
      /\ \A i \in 1..Len(Tail(q)) : Tail(q)[i] = q[i + 1]
  BY HeadTailProperties
<1>2. DOMAIN Tail(q) = 1..(Len(q) - 1)
  BY <1>1
<1>3. Len(q) = 1 => Tail(q) = <<>>
  <2>1. \A r \in Seq(Event) : r # <<>> => Len(r) \in Nat \ {0}
    BY EmptySeq
  <2>2. Len(q) = 1 => Len(Tail(q)) = 0
    BY <1>1
  <2>3. Tail(q) \in Seq(Event)
    BY <1>1
  <2> QED BY <2>1, <2>2, <2>3
<1>4. ASSUME NEW i \in DOMAIN Tail(q)
      PROVE  /\ i + 1 \in DOMAIN q /\ Tail(q)[i] = q[i + 1]
             /\ i + 1 = Len(q) => i = Len(Tail(q))
  BY <1>1, <1>2
<1>5. \A i, n \in DOMAIN Tail(q) : n > i => n + 1 > i + 1
  BY <1>1, <1>2
<1>6. \A i \in DOMAIN q : i # 1 => i - 1 \in DOMAIN Tail(q) /\ (i - 1) + 1 = i
  BY <1>1, <1>2
<1> QED BY <1>1, <1>3, <1>4, <1>5, <1>6

LEMMA PrefixIndex ==
  ASSUME NEW q \in Seq(Event), NEW n \in 0..Len(q)
  PROVE  LET p == SubSeq(q, 1, n)
         IN  /\ p \in Seq(Event)
             /\ q = <<>> => p = <<>>
             /\ \A i \in DOMAIN p :
                  /\ i \in DOMAIN q /\ p[i] = q[i]
                  /\ i = Len(q) => i = Len(p)
                  /\ \A m \in DOMAIN q : m < i => m \in DOMAIN p
<1>1. Len(q) \in Nat /\ DOMAIN q = 1..Len(q) /\ n \in Nat /\ n <= Len(q)
  OBVIOUS
<1>2. /\ SubSeq(q, 1, n) \in Seq(Event) /\ Len(SubSeq(q, 1, n)) = n
      /\ \A i \in 1..n : SubSeq(q, 1, n)[i] = q[i]
  BY <1>1
<1> DEFINE p == SubSeq(q, 1, n)
<1>3. p \in Seq(Event) /\ Len(p) = n /\ DOMAIN p = 1..n /\ \A i \in 1..n : p[i] = q[i]
  BY <1>2
<1>4. q = <<>> => p = <<>>
  BY <1>1
<1> HIDE DEF p
<1>5. ASSUME NEW i \in DOMAIN p
      PROVE  /\ i \in DOMAIN q /\ p[i] = q[i]
             /\ i = Len(q) => i = Len(p)
             /\ \A m \in DOMAIN q : m < i => m \in DOMAIN p
  BY <1>1, <1>3
<1> QED BY <1>3, <1>4, <1>5 DEF p

LEMMA MarkTypes ==
  /\ Mark("snapshotComplete") \in Event /\ Mark("liveComplete") \in Event
  /\ Mark("snapshotComplete").kind = "snapshotComplete"
  /\ Mark("liveComplete").kind = "liveComplete"
  /\ Mark("snapshotComplete").entries = <<>> /\ Mark("liveComplete").entries = <<>>
BY DEF Mark, Event, History

(* Of a stream that selects, the wire holds no mark of the channel that is *)
(* still in use.                                                           *)
LEMMA NoMarkYet ==
  ASSUME ControlInv, WireInv, NEW s \in Streams
  PROVE  /\ ~stream[s].liveSent => \A i \in DOMAIN wire[s] : wire[s][i].kind # "liveComplete"
         /\ ~stream[s].ssSent => \A i \in DOMAIN wire[s] : wire[s][i].kind \notin Marks
         /\ stream[s].liveSent => stream[s].ssSent
<1>1. OrderAt(s) /\ WireAt(s)
  BY DEF ControlInv, WireInv
<1>2. stream[s].liveSent => stream[s].ssSent
  BY <1>1 DEF OrderAt
<1> QED BY <1>1, <1>2 DEF WireAt, Marks

LEMMA WireStep ==
  ASSUME TypeOK, ControlInv, WireInv, Next, NEW s \in Streams, StepOf(s)
  PROVE  WireAt(s)'
<1>0. WireAt(s)
  BY DEF WireInv
<1>1. /\ wire \in [Streams -> Seq(Event)] /\ wire[s] \in Seq(Event)
      /\ DOMAIN wire[s] = 1..Len(wire[s]) /\ Len(wire[s]) \in Nat
      /\ ended \in [Streams -> {"no", "complete", "broken"}]
      /\ stream \in [Streams -> Stream] /\ stream[s] \in Stream
      /\ put \in [Writers -> Put] /\ snap \in [Streams -> Snap] /\ snap[s] \in Snap
  BY DEF TypeOK
<1>2. /\ stream[s].ssSent => stream'[s].ssSent
      /\ stream[s].liveSent => stream'[s].liveSent
  BY SentKept
<1>3. ASSUME NEW event \in Event, Emit(s, event), ended' = ended, Selecting(s),
             ~stream[s].liveSent \/ ~stream[s].ssSent,
             \/ event.kind \in {"snapshot", "snapshotComplete"} /\ ~stream[s].ssSent
             \/ event.kind \in {"live", "liveComplete"} /\ ~stream[s].liveSent,
             event.kind \in Marks => event.entries = <<>>,
             event.kind \notin Marks => event.key \in Keys,
             event.kind = "snapshotComplete" => stream'[s].ssSent,
             event.kind = "liveComplete" => stream'[s].liveSent
      PROVE  WireAt(s)'
  <2>1. ended'[s] # "complete"
    BY <1>0, <1>3 DEF WireAt, Selecting
  <2>2. \A i \in DOMAIN wire[s] : wire[s][i].kind # "liveComplete"
    BY <1>3, NoMarkYet DEF Marks
  <2>3. event.kind \notin AfterSnapshot =>
          \A i \in DOMAIN wire[s] : wire[s][i].kind # "snapshotComplete"
    BY <1>3, NoMarkYet DEF Marks, AfterSnapshot
  <2>4. CASE conn[s]
    <3>1. /\ Len(wire'[s]) = Len(wire[s]) + 1
          /\ DOMAIN wire'[s] = 1..(Len(wire[s]) + 1)
          /\ wire'[s][Len(wire[s]) + 1] = event
          /\ \A i \in DOMAIN wire[s] : wire'[s][i] = wire[s][i]
      BY <1>3, <2>4, EmitEffect
    <3>2. \A i \in DOMAIN wire'[s] : i \in DOMAIN wire[s] \/ i = Len(wire[s]) + 1
      BY <1>1, <3>1
    <3>3. \A i \in DOMAIN wire[s] : i < Len(wire[s]) + 1 /\ i \in DOMAIN wire'[s] /\ i \in Nat
      BY <1>1, <3>1
    <3>4. ASSUME NEW i \in DOMAIN wire'[s], wire'[s][i].kind = "snapshotComplete",
                 NEW n \in DOMAIN wire'[s], n > i
          PROVE  wire'[s][n].kind \in AfterSnapshot
      <4>1. i \in DOMAIN wire[s]
        BY <3>2, <3>3, <3>4, <1>1
      <4>2. wire[s][i].kind = "snapshotComplete"
        BY <4>1, <3>1, <3>4
      <4>3. CASE n \in DOMAIN wire[s]
        BY <4>1, <4>2, <4>3, <3>1, <3>4, <1>0 DEF WireAt
      <4>4. CASE n = Len(wire[s]) + 1
        BY <4>1, <4>2, <4>4, <3>1, <2>3
      <4> QED BY <4>3, <4>4, <3>2
    <3>5. ASSUME NEW i \in DOMAIN wire'[s]
          PROVE  /\ wire'[s][i].kind \in Marks => wire'[s][i].entries = <<>>
                 /\ wire'[s][i].kind \notin Marks => wire'[s][i].key \in Keys
                 /\ wire'[s][i].kind = "liveComplete" => stream'[s].liveSent /\ i = Len(wire'[s])
                 /\ wire'[s][i].kind = "snapshotComplete" => stream'[s].ssSent
      <4>1. CASE i \in DOMAIN wire[s]
        BY <4>1, <3>1, <2>2, <1>0, <1>2 DEF WireAt
      <4>2. CASE i = Len(wire[s]) + 1
        BY <4>2, <3>1, <1>3
      <4> QED BY <4>1, <4>2, <3>2
    <3> QED BY <2>1, <3>4, <3>5 DEF WireAt, Marks, AfterSnapshot
  <2>5. CASE ~conn[s]
    <3>1. wire' = wire
      BY <1>3, <2>5, EmitEffect
    <3> QED BY <1>0, <1>2, <2>1, <3>1 DEF WireAt, Marks, AfterSnapshot
  <2> QED BY <2>4, <2>5
<1>4. OrderAt(s)
  BY DEF ControlInv
<1>5. CASE StreamSnapshot(s)
  <2>1. PICK k \in snap[s].todo : Emit(s, [kind |-> "snapshot", key |-> k, entries |-> snap[s].copy[k]])
    BY <1>5 DEF StreamSnapshot
  <2>2. [kind |-> "snapshot", key |-> k, entries |-> snap[s].copy[k]] \in Event /\ k \in Keys
    BY <1>1 DEF Snap, Event
  <2>3. ~stream[s].ssSent /\ Selecting(s) /\ ended' = ended
    BY <1>4, <1>5 DEF OrderAt, StreamSnapshot, joiner
  <2> QED BY <2>1, <2>2, <2>3, <1>3 DEF Marks
<1>6. CASE StreamSnapshotClosed(s)
  <2>1. ~stream[s].ssSent /\ Selecting(s) /\ ended' = ended /\ Emit(s, Mark("snapshotComplete"))
    BY <1>4, <1>6 DEF OrderAt, StreamSnapshotClosed, joiner
  <2>2. stream'[s].ssSent
    <3>1. stream' = [stream EXCEPT ![s] = [handler |-> stream[s].handler, ss |-> "nil",
                 live |-> stream[s].live, ssSent |-> TRUE, liveSent |-> stream[s].liveSent,
                 reset |-> stream[s].reset]]
      BY <1>1, <1>6, SnapshotClosedEffect
    <3> QED BY <1>1, <3>1
  <2> QED BY <2>1, <2>2, <1>3, MarkTypes DEF Marks
<1>7. CASE StreamLive(s)
  <2>1. PICK w \in Writers :
          Emit(s, [kind |-> "live", key |-> put[w].key, entries |-> <<put[w].entry>>])
    BY <1>7 DEF StreamLive
  <2>2. put[w].key \in Keys /\ put[w].entry \in Entry
    <3>1. put[w] \in Put
      BY <1>1
    <3> QED BY <3>1 DEF Put
  <2>3. [kind |-> "live", key |-> put[w].key, entries |-> <<put[w].entry>>] \in Event
    BY <2>2 DEF Event, History
  <2>4. ~stream[s].liveSent /\ Selecting(s) /\ ended' = ended
    BY <1>4, <1>7 DEF OrderAt, StreamLive, joiner
  <2> QED BY <2>1, <2>2, <2>3, <2>4, <1>3 DEF Marks
<1>8. CASE StreamLiveClosed(s)
  <2>1. ~stream[s].liveSent /\ Selecting(s) /\ ended' = ended /\ Emit(s, Mark("liveComplete"))
    BY <1>4, <1>8 DEF OrderAt, StreamLiveClosed, joiner
  <2>2. stream'[s].liveSent
    <3>1. stream' = [stream EXCEPT ![s] = [handler |-> stream[s].handler, ss |-> stream[s].ss,
                 live |-> "nil", ssSent |-> stream[s].ssSent, liveSent |-> TRUE,
                 reset |-> stream[s].reset]]
      BY <1>1, <1>8, LiveClosedEffect
    <3> QED BY <1>1, <3>1
  <2> QED BY <2>1, <2>2, <1>3, MarkTypes DEF Marks
<1>9. CASE SnapSteps(s) \/ StreamReturn(s) \/ TickSteps(s) \/ Request(s) \/ Ready(s) \/ ChangeState(s)
  <2>1. UNCHANGED <<wire, ended>>
    BY <1>9 DEF SnapSteps, SnapSize, SnapGet, SnapInstall, SnapCopy, SnapSent, StreamReturn,
       TickSteps, TickClose, TickReset, Request, Ready, ChangeState, joiner
  <2> QED BY <1>0, <1>2, <2>1 DEF WireAt, Marks, AfterSnapshot, Finished
<1>10. CASE RequestFails(s) \/ ConsumeBroken(s)
  <2>1. wire' = wire /\ ended'[s] = "broken"
    BY <1>1, <1>10 DEF RequestFails, ConsumeBroken, source
  <2> QED BY <1>0, <1>2, <2>1 DEF WireAt, Marks, AfterSnapshot
<1>11. CASE Consume(s)
  <2>1. /\ wire'[s] = Tail(wire[s]) /\ wire[s] # <<>> /\ Head(wire[s]) = wire[s][1]
        /\ stream' = stream /\ ended[s] = "no"
        /\ ended'[s] = ended[s] \/ Head(wire[s]).kind = "liveComplete"
    BY <1>1, <1>11 DEF Consume, source
  <2>2. wire[s] # <<>> /\ wire[s] \in Seq(Event)
    BY <1>1, <2>1
  <2>3. /\ 1 \in DOMAIN wire[s] /\ (Len(wire[s]) = 1 => wire'[s] = <<>>)
        /\ \A i \in DOMAIN wire'[s] :
             /\ i + 1 \in DOMAIN wire[s] /\ wire'[s][i] = wire[s][i + 1]
             /\ i + 1 = Len(wire[s]) => i = Len(wire'[s])
        /\ \A i, n \in DOMAIN wire'[s] : n > i => n + 1 > i + 1
    BY <2>1, <2>2, TailIndex
  <2>5. ended'[s] = "complete" => wire'[s] = <<>> /\ Finished(s)'
    <3> SUFFICES ASSUME ended'[s] = "complete" PROVE wire'[s] = <<>> /\ Finished(s)'
      OBVIOUS
    <3>1. wire[s][1].kind = "liveComplete"
      BY <2>1
    <3>2. 1 = Len(wire[s]) /\ stream[s].liveSent
      BY <3>1, <2>3, <1>0 DEF WireAt
    <3>3. wire'[s] = <<>>
      BY <3>2, <2>3
    <3>4. stream[s].ssSent
      BY <3>2, NoMarkYet
    <3> QED BY <3>2, <3>3, <3>4, <2>1 DEF Finished
  <2>6. ASSUME NEW i \in DOMAIN wire'[s], wire'[s][i].kind = "snapshotComplete",
               NEW n \in DOMAIN wire'[s], n > i
        PROVE  wire'[s][n].kind \in AfterSnapshot
    <3>1. i + 1 \in DOMAIN wire[s] /\ n + 1 \in DOMAIN wire[s] /\ n + 1 > i + 1
      BY <2>3, <2>6
    <3>2. wire[s][i + 1].kind = "snapshotComplete"
      BY <2>3, <2>6
    <3>3. wire[s][n + 1].kind \in AfterSnapshot
      BY <3>1, <3>2, <1>0 DEF WireAt
    <3> QED BY <3>3, <2>3
  <2>7. ASSUME NEW i \in DOMAIN wire'[s]
        PROVE  /\ wire'[s][i].kind \in Marks => wire'[s][i].entries = <<>>
               /\ wire'[s][i].kind \notin Marks => wire'[s][i].key \in Keys
               /\ wire'[s][i].kind = "liveComplete" => stream'[s].liveSent /\ i = Len(wire'[s])
               /\ wire'[s][i].kind = "snapshotComplete" => stream'[s].ssSent
    <3>1. i + 1 \in DOMAIN wire[s] /\ wire'[s][i] = wire[s][i + 1]
      BY <2>3
    <3>2. i + 1 = Len(wire[s]) => i = Len(wire'[s])
      BY <2>3
    <3> QED BY <3>1, <3>2, <1>0, <1>2 DEF WireAt
  <2> QED BY <2>5, <2>6, <2>7 DEF WireAt, Marks, AfterSnapshot
<1>12. CASE Drop(s)
  <2>1. PICK n \in 0..Len(wire[s]) : wire'[s] = SubSeq(wire[s], 1, n)
    BY <1>1, <1>12 DEF Drop
  <2>2. stream' = stream /\ ended' = ended
    BY <1>12 DEF Drop, source, joiner
  <2>3. /\ wire[s] = <<>> => wire'[s] = <<>>
        /\ \A i \in DOMAIN wire'[s] :
             /\ i \in DOMAIN wire[s] /\ wire'[s][i] = wire[s][i]
             /\ i = Len(wire[s]) => i = Len(wire'[s])
    BY <1>1, <2>1, PrefixIndex
  <2> QED BY <2>2, <2>3, <1>0 DEF WireAt, Marks, AfterSnapshot, Finished
<1> QED
  BY <1>5, <1>6, <1>7, <1>8, <1>9, <1>10, <1>11, <1>12 DEF StepOf, StreamSteps, JoinerSteps

LEMMA WireInvStep ==
  ASSUME TypeOK, ControlInv, WireInv, Next
  PROVE  WireInv'
<1> SUFFICES ASSUME NEW s \in Streams PROVE WireAt(s)'
  BY DEF WireInv
<1>1. WireAt(s)
  BY DEF WireInv
<1>2. CASE StepOf(s)
  BY <1>2, WireStep
<1>3. CASE \E r \in Streams : r # s /\ StepOf(r)
  <2>1. SameAt(s)
    BY <1>3, OthersAlone
  <2> QED BY <1>1, <2>1 DEF SameAt, WireAt, Marks, AfterSnapshot, Finished
<1>4. CASE OtherStep
  <2>1. UNCHANGED <<stream, wire, ended>>
    BY <1>4, AllAlone
  <2> QED BY <1>1, <2>1 DEF WireAt, Marks, AfterSnapshot, Finished
<1> QED BY <1>2, <1>3, <1>4, NextSplit

LEMMA ResetStep ==
  ASSUME TypeOK, ControlInv, ResetAssigned, Next
  PROVE  ResetAssigned'
<1> SUFFICES ASSUME crashed'
    PROVE  \E s \in Streams : snap'[s].pc = "end" /\ stream'[s].reset = "unset"
  BY DEF ResetAssigned
<1>1. CASE crashed
  <2>1. PICK s \in Streams : snap[s].pc = "end" /\ stream[s].reset = "unset"
    BY <1>1 DEF ResetAssigned
  <2>2. snap'[s].pc = "end" /\ stream'[s].reset = stream[s].reset
    BY <2>1, SentKept
  <2> QED BY <2>1, <2>2
<1>2. CASE ~crashed
  <2>1. PICK s \in Streams : TickReset(s)
    BY <1>2 DEF Next, PutSteps, Route, Replicate, Commit, CallHook, SendOnClosed, SnapSteps, SnapSize, SnapGet,
       SnapInstall, SnapCopy, SnapSent, StreamSteps, StreamSnapshot, StreamSnapshotClosed,
       StreamLive, StreamLiveClosed, StreamReturn, TickSteps, TickClose, Request, Learn,
       DebugSnapshot, Ready, ChangeState, RequestFails, JoinerSteps, Consume, ConsumeBroken, Drop, JoinerPut,
       source
  <2>2. tick[s] = "closed" /\ stream[s].reset = "unset" /\ stream' = stream /\ snap' = snap
    BY <2>1 DEF TickReset
  <2>3. snap[s].pc = "end"
    <3>1. OrderAt(s)
      BY DEF ControlInv
    <3> QED BY <2>2, <3>1 DEF OrderAt
  <2> QED BY <2>2, <2>3
<1> QED BY <1>1, <1>2

-----------------------------------------------------------------------------
(* What arrives *)

LEMMA ValsOfSet ==
  ASSUME NEW es
  PROVE  Vals(es) = {e.val : e \in ToSet(es)}
BY DEF Vals, ToSet

LEMMA PutRawVals ==
  ASSUME NEW es \in History, NEW val \in Nat, NEW version \in Nat \cup {NoVersion},
         NEW new \in PutRaw(es, val, version)
  PROVE  Vals(new) = Vals(es) \cup {val}
<1> DEFINE e == NewEntry(es, val, version)
<1>1. e \in Entry /\ e.val = val
  BY NewEntryType DEF NewEntry
<1>2. new \in SortedInserts(es, e)
  BY DEF PutRaw
<1> HIDE DEF e
<1>3. ToSet(new) = ToSet(es) \cup {e}
  BY <1>1, <1>2, SortedInsertsAdd
<1> QED BY <1>1, <1>3, ValsOfSet

(* A joiner that puts the entries of an event has their values and all it  *)
(* had before.                                                             *)
LEMMA PutAllVals ==
  ASSUME NEW es \in History, NEW entries \in History, NEW new \in PutAll(es, entries)
  PROVE  Vals(new) = Vals(es) \cup Vals(entries)
<1>1. Len(entries) \in Nat /\ DOMAIN entries = 1..Len(entries)
      /\ \A n \in 1..Len(entries) : entries[n] \in Entry
  BY DEF History
<1> DEFINE Got(n) == Vals(es) \cup {entries[i].val : i \in 1..n}
           T == [n \in 0..Len(entries) |-> {h \in History : Vals(h) = Got(n)}]
<1>2. es \in T[0]
  <2>1. Got(0) = Vals(es)
    OBVIOUS
  <2> QED BY <2>1, <1>1
<1>3. ASSUME NEW n \in 1..Len(entries), NEW h \in T[n - 1]
      PROVE  PutRaw(h, entries[n].val, entries[n].ver) \subseteq T[n]
  <2>1. h \in History /\ Vals(h) = Got(n - 1)
    BY <1>1
  <2>2. entries[n].val \in Nat /\ entries[n].ver \in Nat
    BY <1>1 DEF Entry
  <2>3. Got(n) = Got(n - 1) \cup {entries[n].val}
    <3>1. 1..n = 1..(n - 1) \cup {n}
      BY <1>1
    <3> QED BY <3>1
  <2> HIDE DEF Got
  <2>4. ASSUME NEW g \in PutRaw(h, entries[n].val, entries[n].ver)
        PROVE  g \in History /\ Vals(g) = Got(n)
    <3>1. g \in History
      BY <2>1, <2>2, PutRawType
    <3>2. Vals(g) = Vals(h) \cup {entries[n].val}
      BY <2>1, <2>2, PutRawVals
    <3> QED BY <2>1, <2>3, <3>1, <3>2
  <2>5. n \in 0..Len(entries)
    BY <1>1
  <2> QED BY <2>4, <2>5
<1>4. T[Len(entries)] = {h \in History : Vals(h) = Got(Len(entries))}
  BY <1>1
<1> HIDE DEF T
<1>5. PutAll(es, entries) \subseteq T[Len(entries)]
  BY <1>2, <1>3, PutAllWithin
<1>6. Vals(new) = Got(Len(entries))
  BY <1>4, <1>5
<1> QED BY <1>1, <1>6 DEF Vals

LEMMA ConsumeArrives ==
  ASSUME TypeOK, WireInv, NEW s \in Streams, Consume(s),
         wire[s][1].kind \notin Marks
  PROVE  LET event == wire[s][1]
         IN  /\ event.key \in Keys /\ event.entries \in History
             /\ \E es \in PutAll(jstore[Of(s)][event.key], event.entries) :
                  jstore' = [jstore EXCEPT ![Of(s)][event.key] = es]
             /\ jstore[Of(s)][event.key] \in History
             /\ jstore'[Of(s)][event.key] \in PutAll(jstore[Of(s)][event.key], event.entries)
             /\ \A v \in Vals(event.entries) : v \in Vals(jstore'[Of(s)][event.key])
<1>1. /\ wire[s] \in Seq(Event) /\ wire[s] # <<>> /\ jstore \in [Joiners -> [Keys -> History]]
      /\ Of(s) \in Joiners
  BY OfJoiner DEF TypeOK, Consume
<1>2. 1 \in DOMAIN wire[s] /\ Head(wire[s]) = wire[s][1]
  BY <1>1, TailIndex
<1>3. PICK event : event = wire[s][1]
  OBVIOUS
<1>4. event \in Event
  BY <1>1, <1>2, <1>3
<1>5. event.key \in Keys
  BY <1>2, <1>3 DEF WireInv, WireAt
<1>6. event.entries \in History /\ event.kind \in {"snapshot", "live"}
  BY <1>3, <1>4 DEF Event, Marks
<1>7. PICK es \in PutAll(jstore[Of(s)][event.key], event.entries) :
        jstore' = [jstore EXCEPT ![Of(s)][event.key] = es]
  BY <1>2, <1>3, <1>6 DEF Consume
<1>8. jstore[Of(s)][event.key] \in History /\ jstore'[Of(s)][event.key] = es
  BY <1>1, <1>5, <1>7
<1>9. Vals(event.entries) \subseteq Vals(es)
  BY <1>6, <1>8, PutAllVals
<1> QED BY <1>3, <1>5, <1>6, <1>7, <1>8, <1>9

(* A joiner loses nothing it has. *)
LEMMA ArrivedKept ==
  ASSUME TypeOK, WireInv, Next, NEW j \in Joiners, NEW k \in Keys
  PROVE  Vals(jstore[j][k]) \subseteq Vals(jstore'[j][k])
<1>1. jstore \in [Joiners -> [Keys -> History]] /\ jstore[j][k] \in History
  BY DEF TypeOK
<1>2. CASE \E s \in Streams : Consume(s)
  <2>1. PICK s \in Streams : Consume(s)
    BY <1>2
  <2>2. CASE wire[s][1].kind \notin Marks
    <3>1. PICK i, event : i = Of(s) /\ event = wire[s][1]
      OBVIOUS
    <3>2. PICK es \in PutAll(jstore[i][event.key], event.entries) :
            jstore' = [jstore EXCEPT ![i][event.key] = es]
      BY <2>1, <2>2, <3>1, ConsumeArrives
    <3>3. event.key \in Keys /\ event.entries \in History /\ i \in Joiners
      BY <2>1, <2>2, <3>1, ConsumeArrives, OfJoiner
    <3>4. CASE j = i /\ k = event.key
      <4>1. Vals(jstore[j][k]) \subseteq Vals(es)
        BY <1>1, <3>2, <3>3, <3>4, PutAllVals
      <4> QED BY <1>1, <3>2, <3>4, <4>1
    <3>5. CASE ~(j = i /\ k = event.key)
      BY <1>1, <3>2, <3>3, <3>5
    <3> QED BY <3>4, <3>5
  <2>3. CASE wire[s][1].kind \in Marks
    <3>1. wire[s] \in Seq(Event) /\ wire[s] # <<>>
      BY <2>1 DEF TypeOK, Consume
    <3>2. jstore' = jstore
      BY <2>1, <2>3, <3>1, TailIndex DEF Consume, Marks
    <3> QED BY <3>2
  <2> QED BY <2>2, <2>3
<1>3. CASE \E i \in Joiners : JoinerPut(i)
  <2>1. PICK i \in Joiners : JoinerPut(i)
    BY <1>3
  <2>2. writes' \in Nat
    BY <2>1, LimitsAssumption DEF JoinerPut, TypeOK
  <2>3. PICK m \in Covers[i], version \in Nat \cup {NoVersion} :
          \E es \in PutRaw(jstore[i][m], writes', version) : jstore' = [jstore EXCEPT ![i][m] = es]
    BY <2>1, LimitsAssumption DEF JoinerPut, TypeOK
  <2>4. PICK es \in PutRaw(jstore[i][m], writes', version) : jstore' = [jstore EXCEPT ![i][m] = es]
    BY <2>3
  <2>5. m \in Keys /\ jstore[i][m] \in History
    BY <1>1, CoversAssumption
  <2>6. Vals(jstore[i][m]) \subseteq Vals(es)
    BY <2>2, <2>4, <2>5, PutRawVals
  <2>7. CASE j = i /\ k = m
    BY <1>1, <2>4, <2>6, <2>7
  <2>8. CASE ~(j = i /\ k = m)
    BY <1>1, <2>4, <2>5, <2>8
  <2> QED BY <2>7, <2>8
<1>4. CASE ~(\E s \in Streams : Consume(s)) /\ ~(\E i \in Joiners : JoinerPut(i))
  <2>1. jstore' = jstore
    BY <1>4 DEF Next, PutSteps, Route, Replicate, Commit, CallHook, SendOnClosed, SnapSteps, SnapSize, SnapGet,
       SnapInstall, SnapCopy, SnapSent, StreamSteps, StreamSnapshot, StreamSnapshotClosed,
       StreamLive, StreamLiveClosed, StreamReturn, TickSteps, TickClose, TickReset, Request, Learn,
       DebugSnapshot, Ready, ChangeState, RequestFails, JoinerSteps, ConsumeBroken, Drop, joiner
  <2> QED BY <2>1
<1> QED BY <1>2, <1>3, <1>4

-----------------------------------------------------------------------------
(* The copy of the snapshot *)

(* What was on the wire stays there when an event is sent, and what the    *)
(* event brings is there.                                                  *)
LEMMA EmitKeeps ==
  ASSUME TypeOK, NEW s \in Streams, NEW event \in Event, Emit(s, event), conn[s], NEW k, NEW v
  PROVE  /\ OnWire(s, k, v) => OnWire(s, k, v)'
         /\ event.key = k /\ v \in Vals(event.entries) => OnWire(s, k, v)'
         /\ \A i \in DOMAIN wire[s] : Before(s, i, k, v) => Before(s, i, k, v)'
         /\ OnWire(s, k, v) => Before(s, Len(wire[s]) + 1, k, v)
<1>1. /\ DOMAIN wire'[s] = 1..(Len(wire[s]) + 1)
      /\ wire'[s][Len(wire[s]) + 1] = event
      /\ \A i \in DOMAIN wire[s] : wire'[s][i] = wire[s][i]
      /\ DOMAIN wire[s] = 1..Len(wire[s]) /\ Len(wire[s]) \in Nat
  BY EmitEffect
<1>2. \A i \in DOMAIN wire[s] : i \in DOMAIN wire'[s] /\ i < Len(wire[s]) + 1
  BY <1>1
<1>3. Len(wire[s]) + 1 \in DOMAIN wire'[s]
  BY <1>1
<1>4. OnWire(s, k, v) => OnWire(s, k, v)'
  BY <1>1, <1>2 DEF OnWire, Vals
<1>5. event.key = k /\ v \in Vals(event.entries) => OnWire(s, k, v)'
  BY <1>1, <1>3 DEF OnWire, Vals
<1>6. ASSUME NEW i \in DOMAIN wire[s], Before(s, i, k, v) PROVE Before(s, i, k, v)'
  <2>1. PICK n \in DOMAIN wire[s] : n < i /\ wire[s][n].key = k /\ v \in Vals(wire[s][n].entries)
    BY <1>6 DEF Before
  <2>2. n \in DOMAIN wire'[s] /\ wire'[s][n] = wire[s][n]
    BY <1>1, <1>2
  <2> QED BY <2>1, <2>2 DEF Before, Vals
<1>7. OnWire(s, k, v) => Before(s, Len(wire[s]) + 1, k, v)
  BY <1>2 DEF OnWire, Before
<1> QED BY <1>4, <1>5, <1>6, <1>7

(* Taking the first event of the wire stores what it brings. *)
LEMMA ConsumeKeeps ==
  ASSUME TypeOK, WireInv, NEW s \in Streams, Consume(s), NEW k \in Keys, NEW v,
         Vals(jstore[Of(s)][k]) \subseteq Vals(jstore'[Of(s)][k])
  PROVE  /\ OnWire(s, k, v) \/ Arrived(Of(s), k, v) => OnWire(s, k, v)' \/ Arrived(Of(s), k, v)'
         /\ \A i \in DOMAIN wire'[s] :
              Before(s, i + 1, k, v) => Before(s, i, k, v)' \/ Arrived(Of(s), k, v)'
         /\ ~Before(s, 1, k, v)
<1>1. /\ wire[s] \in Seq(Event) /\ wire[s] # <<>> /\ wire'[s] = Tail(wire[s])
      /\ wire[s][1] \in Event
  BY TailIndex DEF TypeOK, Consume
<1>2. /\ 1 \in DOMAIN wire[s]
      /\ \A i \in DOMAIN wire'[s] : i + 1 \in DOMAIN wire[s] /\ wire'[s][i] = wire[s][i + 1]
      /\ \A i \in DOMAIN wire[s] : i # 1 => i - 1 \in DOMAIN wire'[s] /\ (i - 1) + 1 = i
  BY <1>1, TailIndex
<1>3. Of(s)' = Of(s)
  BY DEF Of
<1>4. DOMAIN wire[s] \subseteq Nat \ {0} /\ DOMAIN wire'[s] \subseteq Nat \ {0}
  <2>1. Tail(wire[s]) \in Seq(Event)
    BY <1>1, TailIndex
  <2>2. \A q \in Seq(Event) : DOMAIN q = 1..Len(q) /\ Len(q) \in Nat
    OBVIOUS
  <2> QED BY <1>1, <2>1, <2>2
<1>5. ASSUME wire[s][1].key = k, v \in Vals(wire[s][1].entries) PROVE Arrived(Of(s), k, v)'
  <2>1. CASE wire[s][1].kind \notin Marks
    <3>1. \A u \in Vals(wire[s][1].entries) : u \in Vals(jstore'[Of(s)][wire[s][1].key])
      BY <2>1, ConsumeArrives
    <3> QED BY <3>1, <1>3, <1>5 DEF Arrived
  <2>2. CASE wire[s][1].kind \in Marks
    <3>1. wire[s][1].entries = <<>>
      BY <1>2, <2>2 DEF WireInv, WireAt
    <3> QED BY <3>1, <1>5 DEF Vals
  <2> QED BY <2>1, <2>2
<1>6. Arrived(Of(s), k, v) => Arrived(Of(s), k, v)'
  BY <1>3 DEF Arrived
<1>7. ASSUME NEW n \in DOMAIN wire[s], wire[s][n].key = k, v \in Vals(wire[s][n].entries)
      PROVE  \/ Arrived(Of(s), k, v)'
             \/ /\ n - 1 \in DOMAIN wire'[s] /\ (n - 1) + 1 = n
                /\ wire'[s][n - 1].key = k /\ v \in Vals(wire'[s][n - 1].entries)
  <2>1. CASE n = 1
    BY <2>1, <1>5, <1>7
  <2>2. CASE n # 1
    <3>1. n - 1 \in DOMAIN wire'[s] /\ (n - 1) + 1 = n
      BY <2>2, <1>2
    <3>2. wire'[s][n - 1] = wire[s][n]
      BY <3>1, <1>2
    <3> QED BY <3>1, <3>2, <1>7
  <2> QED BY <2>1, <2>2
<1>8. OnWire(s, k, v) => OnWire(s, k, v)' \/ Arrived(Of(s), k, v)'
  <2> SUFFICES ASSUME OnWire(s, k, v) PROVE OnWire(s, k, v)' \/ Arrived(Of(s), k, v)'
    OBVIOUS
  <2>1. PICK n \in DOMAIN wire[s] : wire[s][n].key = k /\ v \in Vals(wire[s][n].entries)
    BY DEF OnWire
  <2> QED BY <2>1, <1>7 DEF OnWire, Vals
<1>9. ASSUME NEW i \in DOMAIN wire'[s], Before(s, i + 1, k, v)
      PROVE  Before(s, i, k, v)' \/ Arrived(Of(s), k, v)'
  <2>1. PICK n \in DOMAIN wire[s] :
          n < i + 1 /\ wire[s][n].key = k /\ v \in Vals(wire[s][n].entries)
    BY <1>9 DEF Before
  <2>2. n \in Nat \ {0} /\ i \in Nat \ {0}
    BY <1>4
  <2>3. n - 1 < i
    BY <2>1, <2>2
  <2> QED BY <2>1, <2>3, <1>7 DEF Before, Vals
<1>10. ~Before(s, 1, k, v)
  BY <1>4 DEF Before
<1> QED BY <1>6, <1>8, <1>9, <1>10

LEMMA CopyStep ==
  ASSUME TypeOK, ControlInv, WireInv, CopyInv, Next, NEW s \in Streams
  PROVE  CopyAt(s)'
<1> SUFFICES ASSUME NEW k \in Keys, NEW v \in Vals(snap'[s].copy[k])
    PROVE  /\ conn'[s] /\ ~stream'[s].ssSent =>
                InSnapshot(s, k, v)' \/ OnWire(s, k, v)' \/ Arrived(Of(s), k, v)'
           /\ \A i \in DOMAIN wire'[s] : wire'[s][i].kind = "snapshotComplete" =>
                Before(s, i, k, v)' \/ Arrived(Of(s), k, v)'
  BY DEF CopyAt, Vals
<1>1. /\ wire \in [Streams -> Seq(Event)] /\ wire[s] \in Seq(Event)
      /\ conn \in [Streams -> BOOLEAN] /\ jstore \in [Joiners -> [Keys -> History]]
      /\ stream \in [Streams -> Stream] /\ stream[s] \in Stream
      /\ put \in [Writers -> Put] /\ snap \in [Streams -> Snap] /\ snap[s] \in Snap
      /\ Of(s) \in Joiners /\ Of(s)' = Of(s)
  BY OfJoiner DEF TypeOK, Of
<1>2. /\ OrderAt(s) /\ FreshAt(s) /\ WireAt(s) /\ CopyAt(s)
  BY DEF ControlInv, WireInv, CopyInv
<1>3. Vals(jstore[Of(s)][k]) \subseteq Vals(jstore'[Of(s)][k])
  BY <1>1, ArrivedKept
<1>4. Arrived(Of(s), k, v) => Arrived(Of(s), k, v)'
  BY <1>1, <1>3 DEF Arrived
<1>5. ~stream[s].ssSent => \A i \in DOMAIN wire[s] : wire[s][i].kind \notin Marks
  BY NoMarkYet
<1>6. stream[s].ssSent => stream'[s].ssSent
  BY SentKept
<1>7. ASSUME v \in Vals(snap[s].copy[k])
      PROVE  /\ conn[s] /\ ~stream[s].ssSent =>
                   InSnapshot(s, k, v) \/ OnWire(s, k, v) \/ Arrived(Of(s), k, v)
             /\ \A i \in DOMAIN wire[s] : wire[s][i].kind = "snapshotComplete" =>
                   Before(s, i, k, v) \/ Arrived(Of(s), k, v)
  BY <1>2, <1>7 DEF CopyAt
<1>8. CASE /\ snap'[s].copy = snap[s].copy /\ snap'[s].todo = snap[s].todo
           /\ wire'[s] = wire[s] /\ (conn'[s] => conn[s])
  <2>1. /\ InSnapshot(s, k, v) => InSnapshot(s, k, v)'
        /\ OnWire(s, k, v) => OnWire(s, k, v)'
        /\ \A i \in DOMAIN wire'[s] : Before(s, i, k, v) => Before(s, i, k, v)'
    BY <1>8 DEF InSnapshot, OnWire, Before, Vals
  <2> QED BY <2>1, <1>4, <1>6, <1>7, <1>8
<1>9. CASE SnapCopy(s)
  <2> DEFINE copy == [m \in Keys |-> IF m \in Covers[Of(s)] THEN store[m] ELSE <<>>]
             todo == {m \in Keys : copy[m] # <<>>}
  <2>1. /\ snap' = [snap EXCEPT ![s] = [pc |-> "send", copy |-> copy, todo |-> todo]]
        /\ snap[s].pc = "copy" /\ wire' = wire
    BY <1>9 DEF SnapCopy
  <2> HIDE DEF copy
  <2>2. snap'[s].copy = copy /\ snap'[s].todo = todo
    BY <1>1, <2>1
  <2>3. copy[k] # <<>>
    BY <2>2 DEF Vals
  <2>4. InSnapshot(s, k, v)'
    BY <2>2, <2>3 DEF InSnapshot
  <2>5. \A i \in DOMAIN wire'[s] : wire'[s][i].kind # "snapshotComplete"
    BY <2>1, <1>2, <1>5 DEF OrderAt, Marks
  <2> QED BY <2>4, <2>5
<1>10. CASE SnapSize(s) \/ SnapGet(s) \/ SnapInstall(s) \/ SnapSent(s)
  <2>1. PICK place : snap' = [snap EXCEPT ![s].pc = place]
    BY <1>10 DEF SnapSize, SnapGet, SnapInstall, SnapSent, SnapEnd, SnapGoto
  <2>2. snap'[s].copy = snap[s].copy /\ snap'[s].todo = snap[s].todo
    BY <1>1, <2>1 DEF Snap
  <2>3. wire' = wire /\ conn' = conn
    BY <1>10 DEF SnapSize, SnapGet, SnapInstall, SnapSent
  <2> QED BY <2>2, <2>3, <1>8
<1>11. CASE StreamSnapshot(s)
  <2>1. PICK m \in snap[s].todo :
          /\ Emit(s, [kind |-> "snapshot", key |-> m, entries |-> snap[s].copy[m]])
          /\ snap' = [snap EXCEPT ![s].todo = @ \ {m}]
    BY <1>11 DEF StreamSnapshot
  <2>2. PICK event : event = [kind |-> "snapshot", key |-> m, entries |-> snap[s].copy[m]]
    OBVIOUS
  <2>3. event \in Event
    BY <1>1, <2>2 DEF Snap, Event
  <2>4. /\ snap'[s].copy = snap[s].copy /\ snap'[s].todo = snap[s].todo \ {m}
        /\ conn' = conn /\ stream' = stream /\ ~stream[s].ssSent
    BY <1>1, <1>2, <1>11, <2>1 DEF Snap, StreamSnapshot, OrderAt
  <2>5. Emit(s, event)
    BY <2>1, <2>2
  <2>6. \A i \in DOMAIN wire'[s] : wire'[s][i].kind # "snapshotComplete"
    <3>1. CASE conn[s]
      <4>1. /\ DOMAIN wire'[s] = 1..(Len(wire[s]) + 1) /\ wire'[s][Len(wire[s]) + 1] = event
            /\ \A i \in DOMAIN wire[s] : wire'[s][i] = wire[s][i]
            /\ DOMAIN wire[s] = 1..Len(wire[s]) /\ Len(wire[s]) \in Nat
        BY <2>3, <2>5, <3>1, EmitEffect
      <4>2. \A i \in DOMAIN wire'[s] : i \in DOMAIN wire[s] \/ i = Len(wire[s]) + 1
        BY <4>1
      <4> QED BY <4>1, <4>2, <2>2, <2>4, <1>5 DEF Marks
    <3>2. CASE ~conn[s]
      <4>1. wire' = wire
        BY <2>3, <2>5, <3>2, EmitEffect
      <4> QED BY <4>1, <2>4, <1>5 DEF Marks
    <3> QED BY <3>1, <3>2
  <2>7. conn'[s] => InSnapshot(s, k, v)' \/ OnWire(s, k, v)' \/ Arrived(Of(s), k, v)'
    <3> SUFFICES ASSUME conn[s]
        PROVE  InSnapshot(s, k, v)' \/ OnWire(s, k, v)' \/ Arrived(Of(s), k, v)'
      BY <2>4
    <3>1. /\ OnWire(s, k, v) => OnWire(s, k, v)'
          /\ event.key = k /\ v \in Vals(event.entries) => OnWire(s, k, v)'
      BY <2>3, <2>5, EmitKeeps
    <3>2. InSnapshot(s, k, v) \/ OnWire(s, k, v) \/ Arrived(Of(s), k, v)
      BY <1>7, <2>4
    <3>3. InSnapshot(s, k, v) => InSnapshot(s, k, v)' \/ OnWire(s, k, v)'
      <4>1. CASE k = m
        BY <4>1, <3>1, <2>2, <2>4
      <4>2. CASE k # m
        BY <4>2, <2>4 DEF InSnapshot, Vals
      <4> QED BY <4>1, <4>2
    <3> QED BY <3>1, <3>2, <3>3, <1>4
  <2> QED BY <2>6, <2>7
<1>12. CASE StreamSnapshotClosed(s)
  <2>1. /\ Emit(s, Mark("snapshotComplete")) /\ stream[s].ss = "closed"
        /\ snap' = snap
    BY <1>12 DEF StreamSnapshotClosed
  <2>2. ~stream[s].ssSent /\ snap[s].todo = {}
    BY <1>2, <2>1 DEF OrderAt
  <2>3. stream'[s].ssSent
    <3>1. stream' = [stream EXCEPT ![s] = [handler |-> stream[s].handler, ss |-> "nil",
                 live |-> stream[s].live, ssSent |-> TRUE, liveSent |-> stream[s].liveSent,
                 reset |-> stream[s].reset]]
      BY <1>1, <1>12, SnapshotClosedEffect
    <3> QED BY <1>1, <3>1
  <2>4. Mark("snapshotComplete") \in Event
    BY MarkTypes
  <2>5. ASSUME NEW i \in DOMAIN wire'[s], wire'[s][i].kind = "snapshotComplete"
        PROVE  Before(s, i, k, v)' \/ Arrived(Of(s), k, v)'
    <3>1. CASE conn[s]
      <4>1. /\ DOMAIN wire'[s] = 1..(Len(wire[s]) + 1)
            /\ \A n \in DOMAIN wire[s] : wire'[s][n] = wire[s][n]
            /\ DOMAIN wire[s] = 1..Len(wire[s]) /\ Len(wire[s]) \in Nat
        BY <2>1, <2>4, <3>1, EmitEffect
      <4>2. i \in DOMAIN wire[s] \/ i = Len(wire[s]) + 1
        BY <4>1
      <4>3. i = Len(wire[s]) + 1
        BY <4>1, <4>2, <2>2, <2>5, <1>5 DEF Marks
      <4>4. OnWire(s, k, v) \/ Arrived(Of(s), k, v)
        BY <1>7, <2>1, <2>2, <3>1 DEF InSnapshot
      <4>5. OnWire(s, k, v) => Before(s, i, k, v)'
        <5> SUFFICES ASSUME OnWire(s, k, v) PROVE Before(s, i, k, v)'
          OBVIOUS
        <5>1. PICK n \in DOMAIN wire[s] : wire[s][n].key = k /\ v \in Vals(wire[s][n].entries)
          BY DEF OnWire
        <5>2. n \in DOMAIN wire'[s] /\ n < i /\ wire'[s][n] = wire[s][n]
          BY <4>1, <4>3
        <5> QED BY <5>1, <5>2 DEF Before, Vals
      <4> QED BY <4>4, <4>5, <1>4
    <3>2. CASE ~conn[s]
      <4>1. wire' = wire
        BY <2>1, <2>4, <3>2, EmitEffect
      <4> QED BY <4>1, <2>2, <2>5, <1>5 DEF Marks
    <3> QED BY <3>1, <3>2
  <2> QED BY <2>3, <2>5
<1>13. ASSUME NEW event \in Event, Emit(s, event), event.kind # "snapshotComplete",
              snap' = snap, conn' = conn
       PROVE  /\ conn'[s] /\ ~stream'[s].ssSent =>
                   InSnapshot(s, k, v)' \/ OnWire(s, k, v)' \/ Arrived(Of(s), k, v)'
              /\ \A i \in DOMAIN wire'[s] : wire'[s][i].kind = "snapshotComplete" =>
                   Before(s, i, k, v)' \/ Arrived(Of(s), k, v)'
  <2>1. CASE ~conn[s]
    <3>1. wire' = wire
      BY <1>13, <2>1, EmitEffect
    <3> QED BY <3>1, <1>8, <1>13
  <2>2. CASE conn[s]
    <3>1. /\ OnWire(s, k, v) => OnWire(s, k, v)'
          /\ \A i \in DOMAIN wire[s] : Before(s, i, k, v) => Before(s, i, k, v)'
      BY <1>13, <2>2, EmitKeeps
    <3>2. /\ DOMAIN wire'[s] = 1..(Len(wire[s]) + 1) /\ wire'[s][Len(wire[s]) + 1] = event
          /\ \A i \in DOMAIN wire[s] : wire'[s][i] = wire[s][i]
          /\ DOMAIN wire[s] = 1..Len(wire[s]) /\ Len(wire[s]) \in Nat
      BY <1>13, <2>2, EmitEffect
    <3>3. \A i \in DOMAIN wire'[s] : i \in DOMAIN wire[s] \/ i = Len(wire[s]) + 1
      BY <3>2
    <3>4. InSnapshot(s, k, v) => InSnapshot(s, k, v)'
      BY <1>13 DEF InSnapshot, Vals
    <3>5. ASSUME NEW i \in DOMAIN wire'[s], wire'[s][i].kind = "snapshotComplete"
          PROVE  Before(s, i, k, v)' \/ Arrived(Of(s), k, v)'
      <4>1. i \in DOMAIN wire[s] /\ wire[s][i].kind = "snapshotComplete"
        BY <3>2, <3>3, <3>5, <1>13
      <4> QED BY <4>1, <3>1, <1>4, <1>7, <1>13
    <3> QED BY <3>1, <3>4, <3>5, <1>4, <1>6, <1>7, <1>13
  <2> QED BY <2>1, <2>2
<1>14. CASE StreamLive(s)
  <2>1. PICK w \in Writers :
          Emit(s, [kind |-> "live", key |-> put[w].key, entries |-> <<put[w].entry>>])
    BY <1>14 DEF StreamLive
  <2>2. [kind |-> "live", key |-> put[w].key, entries |-> <<put[w].entry>>] \in Event
    <3>1. put[w] \in Put
      BY <1>1
    <3>2. <<put[w].entry>> \in History /\ put[w].key \in Keys
      BY <3>1 DEF Put, History
    <3> QED BY <3>2 DEF Event
  <2> QED BY <2>1, <2>2, <1>13, <1>14 DEF StreamLive
<1>15. CASE StreamLiveClosed(s)
  <2>1. Emit(s, Mark("liveComplete")) /\ snap' = snap /\ conn' = conn
    BY <1>15 DEF StreamLiveClosed
  <2> QED BY <2>1, <1>13, MarkTypes
<1>16. CASE StreamReturn(s) \/ TickSteps(s) \/ Ready(s) \/ ChangeState(s) \/ RequestFails(s) \/ ConsumeBroken(s)
  <2>1. snap' = snap /\ wire' = wire /\ (conn'[s] => conn[s])
    BY <1>1, <1>16 DEF StreamReturn, TickSteps, TickClose, TickReset, Ready, ChangeState, RequestFails, ConsumeBroken, source
  <2> QED BY <2>1, <1>8
<1>17. CASE Request(s)
  <2>1. snap' = [snap EXCEPT ![s].pc = "size"] /\ asked[s] = "changed"
    BY <1>17 DEF Request
  <2>2. snap'[s].copy = EmptyStore
    BY <1>1, <1>2, <2>1 DEF FreshAt, FreshSnap
  <2> QED BY <2>2 DEF EmptyStore, Vals
<1>18. CASE Consume(s)
  <2>1. /\ OnWire(s, k, v) \/ Arrived(Of(s), k, v) => OnWire(s, k, v)' \/ Arrived(Of(s), k, v)'
        /\ \A i \in DOMAIN wire'[s] :
              Before(s, i + 1, k, v) => Before(s, i, k, v)' \/ Arrived(Of(s), k, v)'
    BY <1>3, <1>18, ConsumeKeeps
  <2>2. snap' = snap /\ conn' = conn /\ stream' = stream
    BY <1>18 DEF Consume, source
  <2>3. InSnapshot(s, k, v) => InSnapshot(s, k, v)'
    BY <2>2 DEF InSnapshot, Vals
  <2>4. \A i \in DOMAIN wire'[s] : i + 1 \in DOMAIN wire[s] /\ wire'[s][i] = wire[s][i + 1]
    <3>1. wire[s] # <<>> /\ wire'[s] = Tail(wire[s])
      BY <1>1, <1>18 DEF Consume
    <3> QED BY <1>1, <3>1, TailIndex
  <2> QED BY <2>1, <2>2, <2>3, <2>4, <1>4, <1>7
<1>19. CASE Drop(s)
  <2>1. PICK n \in 0..Len(wire[s]) : wire'[s] = SubSeq(wire[s], 1, n)
    BY <1>1, <1>19 DEF Drop
  <2>2. snap' = snap /\ ~conn'[s]
    BY <1>1, <1>19 DEF Drop, source
  <2>3. \A i \in DOMAIN wire'[s] :
          /\ i \in DOMAIN wire[s] /\ wire'[s][i] = wire[s][i]
          /\ \A m \in DOMAIN wire[s] : m < i => m \in DOMAIN wire'[s]
    BY <1>1, <2>1, PrefixIndex
  <2>4. ASSUME NEW i \in DOMAIN wire'[s], Before(s, i, k, v) PROVE Before(s, i, k, v)'
    <3>1. PICK m \in DOMAIN wire[s] : m < i /\ wire[s][m].key = k /\ v \in Vals(wire[s][m].entries)
      BY <2>4 DEF Before
    <3>2. m \in DOMAIN wire'[s] /\ wire'[s][m] = wire[s][m]
      BY <2>3, <3>1
    <3> QED BY <3>1, <3>2 DEF Before, Vals
  <2> QED BY <2>2, <2>3, <2>4, <1>4, <1>7
<1>20. CASE \E r \in Streams : r # s /\ StepOf(r)
  <2>1. SameAt(s)
    BY <1>20, OthersAlone
  <2> QED BY <2>1, <1>8 DEF SameAt
<1>21. CASE OtherStep
  BY <1>8, <1>21, AllAlone
<1> QED
  BY <1>9, <1>10, <1>11, <1>12, <1>14, <1>15, <1>16, <1>17, <1>18, <1>19, <1>20, <1>21, NextSplit
  DEF StepOf, SnapSteps, StreamSteps, JoinerSteps

(* Past the mark of the snapshot a stream sends nothing but live mutations *)
(* and the end of them.                                                    *)
LEMMA PastMarkKept ==
  ASSUME TypeOK, ControlInv, WireInv, Next, NEW j \in Joiners, NEW s \in Streams, PastMark(s, j)
  PROVE  PastMark(s, j)'
<1>1. /\ wire \in [Streams -> Seq(Event)] /\ wire[s] \in Seq(Event)
      /\ put \in [Writers -> Put] /\ Of(s)' = Of(s)
  BY DEF TypeOK, Of
<1>2. /\ Of(s) = j /\ stream[s].ssSent /\ stream[s].ss = "nil" /\ snap[s].pc = "end"
      /\ \A i \in DOMAIN wire[s] : wire[s][i].kind \in AfterSnapshot
      /\ \A k \in Keys : Vals(snap[s].copy[k]) \subseteq Vals(jstore[j][k])
  <2>1. OrderAt(s)
    BY DEF ControlInv
  <2> QED BY <2>1 DEF PastMark, OrderAt
<1>3. stream'[s].ssSent /\ snap'[s].copy = snap[s].copy
  BY <1>2, SentKept
<1>4. ASSUME NEW k \in Keys PROVE Vals(snap'[s].copy[k]) \subseteq Vals(jstore'[j][k])
  <2>1. Vals(jstore[j][k]) \subseteq Vals(jstore'[j][k])
    BY ArrivedKept
  <2>2. Vals(snap[s].copy[k]) \subseteq Vals(jstore[j][k])
    BY <1>2
  <2>3. snap'[s].copy[k] = snap[s].copy[k]
    BY <1>3
  <2> QED BY <2>1, <2>2, <2>3
<1>5. ASSUME NEW event \in Event, Emit(s, event), event.kind \in AfterSnapshot
      PROVE  \A i \in DOMAIN wire'[s] : wire'[s][i].kind \in AfterSnapshot
  <2>1. CASE ~conn[s]
    BY <1>2, <1>5, <2>1, EmitEffect
  <2>2. CASE conn[s]
    <3>1. /\ DOMAIN wire'[s] = 1..(Len(wire[s]) + 1) /\ wire'[s][Len(wire[s]) + 1] = event
          /\ \A i \in DOMAIN wire[s] : wire'[s][i] = wire[s][i]
          /\ DOMAIN wire[s] = 1..Len(wire[s]) /\ Len(wire[s]) \in Nat
      BY <1>5, <2>2, EmitEffect
    <3>2. \A i \in DOMAIN wire'[s] : i \in DOMAIN wire[s] \/ i = Len(wire[s]) + 1
      BY <3>1
    <3> QED BY <1>2, <1>5, <3>1, <3>2
  <2> QED BY <2>1, <2>2
<1>6. CASE StreamLive(s)
  <2>1. PICK w \in Writers :
          Emit(s, [kind |-> "live", key |-> put[w].key, entries |-> <<put[w].entry>>])
    BY <1>6 DEF StreamLive
  <2>2. [kind |-> "live", key |-> put[w].key, entries |-> <<put[w].entry>>] \in Event
    <3>1. put[w] \in Put
      BY <1>1
    <3>2. <<put[w].entry>> \in History /\ put[w].key \in Keys
      BY <3>1 DEF Put, History
    <3> QED BY <3>2 DEF Event
  <2>3. \A i \in DOMAIN wire'[s] : wire'[s][i].kind \in AfterSnapshot
    BY <2>1, <2>2, <1>5 DEF AfterSnapshot
  <2> QED BY <1>1, <1>2, <1>3, <1>4, <2>3 DEF PastMark, AfterSnapshot, Vals
<1>7. CASE StreamLiveClosed(s)
  <2>1. Emit(s, Mark("liveComplete"))
    BY <1>7 DEF StreamLiveClosed
  <2>2. \A i \in DOMAIN wire'[s] : wire'[s][i].kind \in AfterSnapshot
    BY <2>1, <1>5, MarkTypes DEF AfterSnapshot
  <2> QED BY <1>1, <1>2, <1>3, <1>4, <2>2 DEF PastMark, AfterSnapshot, Vals
<1>8. ~StreamSnapshot(s) /\ ~StreamSnapshotClosed(s)
  BY <1>2 DEF StreamSnapshot, StreamSnapshotClosed
<1>9. CASE Consume(s)
  <2>1. wire[s] # <<>> /\ wire'[s] = Tail(wire[s])
    BY <1>1, <1>9 DEF Consume
  <2>2. \A i \in DOMAIN wire'[s] : i + 1 \in DOMAIN wire[s] /\ wire'[s][i] = wire[s][i + 1]
    BY <1>1, <2>1, TailIndex
  <2>3. \A i \in DOMAIN wire'[s] : wire'[s][i].kind \in AfterSnapshot
    BY <1>2, <2>2
  <2> QED BY <1>1, <1>2, <1>3, <1>4, <2>3 DEF PastMark, AfterSnapshot, Vals
<1>10. CASE Drop(s)
  <2>1. PICK n \in 0..Len(wire[s]) : wire'[s] = SubSeq(wire[s], 1, n)
    BY <1>1, <1>10 DEF Drop
  <2>2. \A i \in DOMAIN wire'[s] : i \in DOMAIN wire[s] /\ wire'[s][i] = wire[s][i]
    BY <1>1, <2>1, PrefixIndex
  <2>3. \A i \in DOMAIN wire'[s] : wire'[s][i].kind \in AfterSnapshot
    BY <1>2, <2>2
  <2> QED BY <1>1, <1>2, <1>3, <1>4, <2>3 DEF PastMark, AfterSnapshot, Vals
<1>11. CASE wire'[s] = wire[s]
  BY <1>1, <1>2, <1>3, <1>4, <1>11 DEF PastMark, AfterSnapshot, Vals
<1>12. CASE \/ SnapSteps(s) \/ StreamReturn(s) \/ TickSteps(s) \/ Request(s) \/ Ready(s)
            \/ ChangeState(s) \/ RequestFails(s) \/ ConsumeBroken(s)
  <2>1. wire' = wire
    BY <1>12 DEF SnapSteps, SnapSize, SnapGet, SnapInstall, SnapCopy, SnapSent, StreamReturn,
       TickSteps, TickClose, TickReset, Request, Ready, ChangeState, RequestFails, ConsumeBroken, source
  <2> QED BY <2>1, <1>11
<1>13. CASE \E r \in Streams : r # s /\ StepOf(r)
  BY <1>11, <1>13, OthersAlone DEF SameAt
<1>14. CASE OtherStep
  BY <1>11, <1>14, AllAlone
<1> QED
  BY <1>6, <1>7, <1>8, <1>9, <1>10, <1>12, <1>13, <1>14, NextSplit
  DEF StepOf, StreamSteps, JoinerSteps

LEMMA AvailStep ==
  ASSUME TypeOK, ControlInv, WireInv, CopyInv, AvailInv, Next
  PROVE  AvailInv'
<1> SUFFICES ASSUME NEW j \in Joiners, state'[j] = "AVAILABLE"
    PROVE  \E s \in Streams : PastMark(s, j)'
  BY DEF AvailInv
<1>1. CASE state[j] = "AVAILABLE"
  BY <1>1, PastMarkKept DEF AvailInv
<1>2. CASE state[j] # "AVAILABLE"
  <2>1. PICK s \in Streams :
          Consume(s) /\ Head(wire[s]).kind = "snapshotComplete" /\ Of(s) = j
    <3>1. state \in [Joiners -> JoinerStates]
      BY DEF TypeOK
    <3>2. PICK s \in Streams : Consume(s) /\ state' # state
      BY <1>2, <3>1 DEF Next, PutSteps, Route, Replicate, Commit, CallHook, SendOnClosed, SnapSteps, SnapSize,
         SnapGet, SnapInstall, SnapCopy, SnapSent, StreamSteps, StreamSnapshot,
         StreamSnapshotClosed, StreamLive, StreamLiveClosed, StreamReturn, TickSteps, TickClose,
         TickReset, Request, Learn, DebugSnapshot, Ready, ChangeState, RequestFails, JoinerSteps,
         ConsumeBroken, Drop, JoinerPut, joiner
    <3>3. Head(wire[s]).kind = "snapshotComplete"
          /\ state' = [state EXCEPT ![Of(s)] = "AVAILABLE"]
      BY <3>2 DEF Consume
    <3> QED BY <1>2, <3>1, <3>2, <3>3
  <2>2. /\ wire[s] \in Seq(Event) /\ wire[s] # <<>> /\ wire'[s] = Tail(wire[s])
        /\ stream' = stream /\ snap' = snap
    BY <2>1 DEF TypeOK, Consume, source
  <2>3. /\ 1 \in DOMAIN wire[s] /\ wire[s][1].kind = "snapshotComplete"
        /\ \A i \in DOMAIN wire'[s] : i + 1 \in DOMAIN wire[s] /\ wire'[s][i] = wire[s][i + 1]
    BY <2>1, <2>2, TailIndex
  <2>4. WireAt(s) /\ CopyAt(s)
    BY DEF WireInv, CopyInv
  <2>5. stream'[s].ssSent
    BY <2>2, <2>3, <2>4 DEF WireAt
  <2>6. ASSUME NEW i \in DOMAIN wire'[s] PROVE wire'[s][i].kind \in AfterSnapshot
    <3>1. i \in Nat \ {0}
      <4>1. Tail(wire[s]) \in Seq(Event)
        BY <2>2, TailIndex
      <4>2. \A q \in Seq(Event) : DOMAIN q = 1..Len(q) /\ Len(q) \in Nat
        OBVIOUS
      <4> QED BY <4>1, <4>2, <2>2
    <3>2. i + 1 \in DOMAIN wire[s] /\ i + 1 > 1
      BY <2>3, <3>1
    <3> QED BY <3>2, <2>3, <2>4 DEF WireAt
  <2>7. ASSUME NEW k \in Keys PROVE Vals(snap'[s].copy[k]) \subseteq Vals(jstore'[j][k])
    <3>1. Vals(jstore[j][k]) \subseteq Vals(jstore'[j][k])
      BY ArrivedKept
    <3>2. ASSUME NEW v \in Vals(snap[s].copy[k]) PROVE v \in Vals(jstore[j][k])
      <4>1. Before(s, 1, k, v) \/ Arrived(Of(s), k, v)
        BY <2>3, <2>4 DEF CopyAt
      <4>2. ~Before(s, 1, k, v)
        BY <2>1, <3>1, ConsumeKeeps
      <4> QED BY <4>1, <4>2, <2>1 DEF Arrived
    <3> QED BY <2>2, <3>1, <3>2
  <2>8. Of(s)' = j
    BY <2>1 DEF Of
  <2>9. PastMark(s, j)'
    BY <2>5, <2>6, <2>7, <2>8 DEF PastMark, AfterSnapshot, Vals
  <2> QED BY <2>9
<1> QED BY <1>1, <1>2

-----------------------------------------------------------------------------
(* Where every write of the source is *)

Transit(s, k, v) == InSnapshot(s, k, v) \/ OnWire(s, k, v) \/ Arrived(Of(s), k, v)

(* While the connection is up, what was taken for a stream stays in it     *)
(* until it arrives.                                                       *)
LEMMA TransitKept ==
  ASSUME TypeOK, ControlInv, WireInv, Next, NEW s \in Streams,
         snap[s].pc \in {"send", "end"}, conn[s], conn'[s],
         NEW k \in Keys, NEW v, Transit(s, k, v)
  PROVE  Transit(s, k, v)'
<1>1. /\ wire \in [Streams -> Seq(Event)] /\ wire[s] \in Seq(Event)
      /\ conn \in [Streams -> BOOLEAN] /\ put \in [Writers -> Put]
      /\ snap \in [Streams -> Snap] /\ snap[s] \in Snap
      /\ Of(s) \in Joiners /\ Of(s)' = Of(s)
  BY OfJoiner DEF TypeOK, Of
<1>2. Vals(jstore[Of(s)][k]) \subseteq Vals(jstore'[Of(s)][k])
  BY <1>1, ArrivedKept
<1>3. Arrived(Of(s), k, v) => Arrived(Of(s), k, v)'
  BY <1>1, <1>2 DEF Arrived
<1>4. CASE snap'[s].copy = snap[s].copy /\ snap'[s].todo = snap[s].todo /\ wire'[s] = wire[s]
  BY <1>3, <1>4 DEF Transit, InSnapshot, OnWire, Vals
<1>5. CASE SnapSteps(s)
  <2>1. ~SnapCopy(s)
    BY DEF SnapCopy
  <2>2. PICK place : snap' = [snap EXCEPT ![s].pc = place]
    BY <1>5, <2>1 DEF SnapSteps, SnapSize, SnapGet, SnapInstall, SnapSent, SnapEnd, SnapGoto
  <2>3. snap'[s].copy = snap[s].copy /\ snap'[s].todo = snap[s].todo
    BY <1>1, <2>2 DEF Snap
  <2>4. wire' = wire
    BY <1>5 DEF SnapSteps, SnapSize, SnapGet, SnapInstall, SnapCopy, SnapSent
  <2> QED BY <2>3, <2>4, <1>4
<1>6. CASE StreamSnapshot(s)
  <2>1. PICK m \in snap[s].todo :
          /\ Emit(s, [kind |-> "snapshot", key |-> m, entries |-> snap[s].copy[m]])
          /\ snap' = [snap EXCEPT ![s].todo = @ \ {m}]
    BY <1>6 DEF StreamSnapshot
  <2>2. PICK event : event = [kind |-> "snapshot", key |-> m, entries |-> snap[s].copy[m]]
    OBVIOUS
  <2>3. event \in Event /\ Emit(s, event)
    BY <1>1, <2>1, <2>2 DEF Snap, Event
  <2>4. snap'[s].copy = snap[s].copy /\ snap'[s].todo = snap[s].todo \ {m}
    BY <1>1, <2>1 DEF Snap
  <2>5. /\ OnWire(s, k, v) => OnWire(s, k, v)'
        /\ event.key = k /\ v \in Vals(event.entries) => OnWire(s, k, v)'
    BY <2>3, EmitKeeps
  <2>6. InSnapshot(s, k, v) => InSnapshot(s, k, v)' \/ OnWire(s, k, v)'
    <3>1. CASE k = m
      BY <3>1, <2>2, <2>5 DEF InSnapshot
    <3>2. CASE k # m
      BY <3>2, <2>4 DEF InSnapshot, Vals
    <3> QED BY <3>1, <3>2
  <2> QED BY <2>5, <2>6, <1>3 DEF Transit
<1>7. ASSUME NEW event \in Event, Emit(s, event), snap' = snap
      PROVE  Transit(s, k, v)'
  <2>1. OnWire(s, k, v) => OnWire(s, k, v)'
    BY <1>7, EmitKeeps
  <2>2. InSnapshot(s, k, v) => InSnapshot(s, k, v)'
    BY <1>7 DEF InSnapshot, Vals
  <2> QED BY <2>1, <2>2, <1>3 DEF Transit
<1>8. CASE StreamLive(s)
  <2>1. PICK w \in Writers :
          Emit(s, [kind |-> "live", key |-> put[w].key, entries |-> <<put[w].entry>>])
    BY <1>8 DEF StreamLive
  <2>2. [kind |-> "live", key |-> put[w].key, entries |-> <<put[w].entry>>] \in Event
    <3>1. put[w] \in Put
      BY <1>1
    <3>2. <<put[w].entry>> \in History /\ put[w].key \in Keys
      BY <3>1 DEF Put, History
    <3> QED BY <3>2 DEF Event
  <2> QED BY <2>1, <2>2, <1>7, <1>8 DEF StreamLive
<1>9. CASE StreamSnapshotClosed(s) \/ StreamLiveClosed(s)
  BY <1>7, <1>9, MarkTypes DEF StreamSnapshotClosed, StreamLiveClosed
<1>10. CASE Consume(s)
  <2>1. OnWire(s, k, v) \/ Arrived(Of(s), k, v) => OnWire(s, k, v)' \/ Arrived(Of(s), k, v)'
    BY <1>2, <1>10, ConsumeKeeps
  <2>2. snap' = snap
    BY <1>10 DEF Consume, source
  <2>3. InSnapshot(s, k, v) => InSnapshot(s, k, v)'
    BY <2>2 DEF InSnapshot, Vals
  <2> QED BY <2>1, <2>3 DEF Transit
<1>11. ~Request(s) /\ ~Drop(s)
  <2>1. FreshAt(s)
    BY DEF ControlInv
  <2>2. asked[s] = "yes"
    BY <2>1 DEF FreshAt, FreshSnap
  <2> QED BY <1>1, <2>2 DEF Request, Drop
<1>12. CASE StreamReturn(s) \/ TickSteps(s) \/ Ready(s) \/ ChangeState(s) \/ RequestFails(s) \/ ConsumeBroken(s)
  <2>1. snap' = snap /\ wire' = wire
    BY <1>12 DEF StreamReturn, TickSteps, TickClose, TickReset, Ready, ChangeState, RequestFails, ConsumeBroken, source
  <2> QED BY <2>1, <1>4
<1>13. CASE \E r \in Streams : r # s /\ StepOf(r)
  BY <1>4, <1>13, OthersAlone DEF SameAt
<1>14. CASE OtherStep
  BY <1>4, <1>14, AllAlone
<1> QED
  BY <1>5, <1>6, <1>8, <1>9, <1>10, <1>11, <1>12, <1>13, <1>14, NextSplit
  DEF StepOf, StreamSteps, JoinerSteps

(* A put in the hook of a stream that replicates stays there until the     *)
(* handler has received it.                                                *)
LEMMA HookKept ==
  ASSUME TypeOK, Next, NEW s \in Streams, Replicating(s),
         NEW k \in Covers[Of(s)], NEW v, InHookOf(s, k, v)
  PROVE  InHookOf(s, k, v)' \/ OnWire(s, k, v)'
<1>1. /\ put \in [Writers -> Put] /\ limits \in Limits /\ s # NoStream
      /\ hook = s /\ stream[s].live = "open" /\ conn[s]
  BY NoStreamAssumption DEF TypeOK, Replicating
<1>2. PICK w \in Writers :
        /\ put[w].key = k /\ put[w].entry.val = v
        /\ \/ put[w].pc = "hook" /\ put[w].caught # NoStream
           \/ put[w].pc = "sending" /\ put[w].caught = s
  BY DEF InHookOf
<1>3. CASE put'[w] = put[w]
  BY <1>2, <1>3 DEF InHookOf
<1>4. CASE \E u \in Writers : Route(u) \/ Replicate(u) \/ Commit(u)
  <2>1. PICK u \in Writers : Route(u) \/ Replicate(u) \/ Commit(u)
    BY <1>4
  <2>2. u # w
    BY <1>2, <2>1 DEF Route, Replicate, Commit
  <2>3. \E r : put' = [put EXCEPT ![u] = r]
    <3>1. CASE Route(u) \/ Replicate(u)
      BY <1>1, <3>1, RouteEffect
    <3>2. CASE Commit(u)
      BY <1>1, <3>2, CommitEffect
    <3> QED BY <2>1, <3>1, <3>2
  <2> QED BY <1>1, <1>3, <2>2, <2>3
<1>5. CASE \E u \in Writers : u # w /\ (CallHook(u) \/ SendOnClosed(u))
  <2>1. PICK u \in Writers : u # w /\ (CallHook(u) \/ SendOnClosed(u))
    BY <1>5
  <2>2. put'[w] = put[w]
    BY <1>1, <2>1 DEF CallHook, SendOnClosed, PutDone, PutPanics
  <2> QED BY <1>3, <2>2
<1>6. CASE CallHook(w)
  <2>1. put[w].pc = "hook" /\ put[w].caught # NoStream
    BY <1>2, <1>6 DEF CallHook
  <2>2. put' = [put EXCEPT ![w].pc = "sending", ![w].caught = hook]
    BY <1>1, <1>2, <1>6, <2>1 DEF CallHook
  <2>3. put' = [put EXCEPT ![w] = [pc |-> "sending", key |-> put[w].key,
                                   entry |-> put[w].entry, caught |-> hook]]
    BY <1>1, <2>2, HookCalledEffect
  <2>4. /\ put'[w].pc = "sending" /\ put'[w].caught = s
        /\ put'[w].key = k /\ put'[w].entry.val = v
    BY <1>1, <1>2, <2>3
  <2> QED BY <2>4 DEF InHookOf
<1>7. ~SendOnClosed(w)
  BY <1>1, <1>2 DEF SendOnClosed
<1>8. CASE \E r \in Streams : StreamLive(r)
  <2>1. PICK r \in Streams, u \in Writers :
          /\ put[u].pc = "sending" /\ put[u].caught = r
          /\ Emit(r, [kind |-> "live", key |-> put[u].key, entries |-> <<put[u].entry>>])
          /\ PutDone(u)
    BY <1>8 DEF StreamLive
  <2>2. CASE u # w
    BY <1>1, <1>3, <2>1, <2>2 DEF PutDone
  <2>3. CASE u = w
    <3>1. r = s
      BY <1>2, <2>1, <2>3
    <3>2. PICK event : event = [kind |-> "live", key |-> put[w].key, entries |-> <<put[w].entry>>]
      OBVIOUS
    <3>3. event \in Event
      <4>1. put[w] \in Put
        BY <1>1
      <4>2. <<put[w].entry>> \in History /\ put[w].key \in Keys
        BY <4>1 DEF Put, History
      <4> QED BY <3>2, <4>2 DEF Event
    <3>4. event.key = k /\ v \in Vals(event.entries)
      BY <1>2, <3>2 DEF Vals
    <3>5. Emit(s, event)
      BY <2>1, <2>3, <3>1, <3>2
    <3> QED BY <1>1, <3>3, <3>4, <3>5, EmitKeeps
  <2> QED BY <2>2, <2>3
<1>9. CASE put' = put
  BY <1>3, <1>9
<1> QED
  BY <1>4, <1>5, <1>6, <1>7, <1>8, <1>9 DEF Next, PutSteps, SnapSteps, SnapSize, SnapGet,
     SnapInstall, SnapCopy, SnapSent, StreamSteps, StreamSnapshot, StreamSnapshotClosed,
     StreamLiveClosed, StreamReturn, TickSteps, TickClose, TickReset, Request, Learn,
     DebugSnapshot, Ready, ChangeState, RequestFails, JoinerSteps, Consume, ConsumeBroken, Drop, JoinerPut,
     source

(* A stream starts to replicate when it has copied the store. *)
LEMMA ReplicatingFrom ==
  ASSUME TypeOK, ControlInv, Next, NEW s \in Streams, Replicating(s)', ~SnapCopy(s)
  PROVE  Replicating(s)
<1>1. /\ snap \in [Streams -> Snap] /\ snap[s] \in Snap
      /\ stream \in [Streams -> Stream] /\ stream[s] \in Stream
      /\ conn \in [Streams -> BOOLEAN]
  BY DEF TypeOK
<1>2. /\ hook' = s /\ snap'[s].pc \in {"send", "end"} /\ stream'[s].live = "open" /\ conn'[s]
  BY DEF Replicating
<1>3. FreshAt(s) /\ HookAt(s) /\ OrderAt(s) /\ s # NoStream
  BY NoStreamAssumption DEF ControlInv
<1>4. CASE SnapSteps(s)
  <2>1. CASE SnapInstall(s)
    BY <1>1, <1>2, <2>1 DEF SnapInstall, SnapGoto, Snap
  <2>2. CASE SnapSize(s) \/ SnapGet(s)
    BY <1>2, <1>3, <2>2 DEF SnapSize, SnapGet, HookAt
  <2>3. CASE SnapSent(s)
    <3>1. stream' = [stream EXCEPT ![s] =
           [handler |-> stream[s].handler, ss |-> "closed", live |-> stream[s].live,
            ssSent |-> stream[s].ssSent, liveSent |-> stream[s].liveSent, reset |-> stream[s].reset]]
      BY <1>1, <2>3, SnapEndEffect DEF SnapSent
    <3>2. stream'[s].live = stream[s].live
      BY <1>1, <3>1
    <3> QED BY <1>2, <2>3, <3>2 DEF SnapSent, Replicating
  <2> QED BY <1>4, <2>1, <2>2, <2>3 DEF SnapSteps
<1>5. CASE StreamSnapshot(s) \/ StreamLive(s)
  BY <1>1, <1>2, <1>5 DEF StreamSnapshot, StreamLive, Snap, Replicating
<1>6. CASE StreamSnapshotClosed(s)
  <2>1. stream' = [stream EXCEPT ![s] = [handler |-> stream[s].handler, ss |-> "nil",
                 live |-> stream[s].live, ssSent |-> TRUE, liveSent |-> stream[s].liveSent,
                 reset |-> stream[s].reset]]
    BY <1>1, <1>6, SnapshotClosedEffect
  <2>2. stream'[s].live = stream[s].live
    BY <1>1, <2>1
  <2> QED BY <1>2, <1>6, <2>2 DEF StreamSnapshotClosed, Replicating
<1>7. ~StreamLiveClosed(s)
  <2> SUFFICES ASSUME StreamLiveClosed(s) PROVE FALSE
    OBVIOUS
  <2>1. stream' = [stream EXCEPT ![s] = [handler |-> stream[s].handler, ss |-> stream[s].ss,
                 live |-> "nil", ssSent |-> stream[s].ssSent, liveSent |-> TRUE,
                 reset |-> stream[s].reset]]
    BY <1>1, LiveClosedEffect
  <2> QED BY <1>1, <1>2, <2>1
<1>8. ~StreamReturn(s) /\ ~TickClose(s) /\ ~Drop(s)
  BY <1>1, <1>2 DEF StreamReturn, TickClose, Drop, Stream
<1>9. ~Request(s)
  BY <1>1, <1>2, <1>3 DEF Request, FreshAt, FreshSnap
<1>10. CASE TickReset(s) \/ Ready(s) \/ ChangeState(s) \/ RequestFails(s) \/ JoinerSteps(s)
  BY <1>2, <1>3, <1>10 DEF TickReset, Ready, ChangeState, RequestFails, JoinerSteps, Consume, ConsumeBroken,
     source, Replicating
<1>11. CASE \E r \in Streams : r # s /\ StepOf(r)
  <2>1. PICK r \in Streams : r # s /\ StepOf(r)
    BY <1>11
  <2>2. SameAt(s)
    BY <2>1, OthersAlone
  <2>3. hook = s
    BY <1>2, <1>3, <2>1 DEF StepOf, SnapSteps, SnapSize, SnapGet, SnapInstall, SnapCopy, SnapSent,
       StreamSteps, StreamSnapshot, StreamSnapshotClosed, StreamLive, StreamLiveClosed,
       StreamReturn, TickSteps, TickClose, TickReset, Request, Ready, ChangeState, RequestFails,
       JoinerSteps, Consume, ConsumeBroken, Drop, source
  <2> QED BY <1>2, <2>2, <2>3 DEF SameAt, Replicating
<1>12. CASE OtherStep
  <2>1. UNCHANGED <<snap, stream, conn>>
    BY <1>12, AllAlone
  <2>2. hook = s
    BY <1>2, <1>3, <1>12 DEF OtherStep, PutSteps, Route, Replicate, Commit, CallHook, SendOnClosed,
       Learn, JoinerPut, DebugSnapshot, source
  <2> QED BY <1>2, <2>1, <2>2 DEF Replicating
<1> QED
  BY <1>4, <1>5, <1>6, <1>7, <1>8, <1>9, <1>10, <1>11, <1>12, NextSplit
  DEF StepOf, StreamSteps, TickSteps

LEMMA AccountStep ==
  ASSUME TypeOK, ControlInv, WireInv, AccountInv, Next
  PROVE  AccountInv'
<1> SUFFICES ASSUME NEW s \in Streams, Replicating(s)',
                    NEW k \in Covers[Of(s)], NEW v \in Vals(store'[k])
    PROVE  Accounted(s, k, v)'
  BY DEF AccountInv, Of, Vals
<1>1. /\ k \in Keys /\ store \in [Keys -> History] /\ put \in [Writers -> Put]
      /\ snap \in [Streams -> Snap] /\ s # NoStream
  BY CoversAssumption, OfJoiner, NoStreamAssumption DEF TypeOK
<1>2. CASE SnapCopy(s)
  <2> DEFINE copy == [m \in Keys |-> IF m \in Covers[Of(s)] THEN store[m] ELSE <<>>]
             todo == {m \in Keys : copy[m] # <<>>}
  <2>1. /\ snap' = [snap EXCEPT ![s] = [pc |-> "send", copy |-> copy, todo |-> todo]]
        /\ store' = store
    BY <1>2 DEF SnapCopy
  <2>2. copy[k] = store[k] /\ v \in Vals(copy[k])
    BY <1>1, <2>1
  <2> HIDE DEF copy
  <2>3. snap'[s].copy = copy /\ snap'[s].todo = todo
    BY <1>1, <2>1
  <2>4. copy[k] # <<>>
    BY <2>2 DEF Vals
  <2>5. InSnapshot(s, k, v)'
    BY <1>1, <2>2, <2>3, <2>4 DEF InSnapshot, Vals
  <2> QED BY <2>5 DEF Accounted
<1>3. CASE ~SnapCopy(s)
  <2>1. Replicating(s)
    BY <1>3, ReplicatingFrom
  <2>2. conn[s] /\ conn'[s] /\ snap[s].pc \in {"send", "end"} /\ hook = s
    BY <2>1 DEF Replicating
  <2>3. CASE v \in Vals(store[k])
    <3>1. Transit(s, k, v) \/ InHookOf(s, k, v)
      BY <2>1, <2>3 DEF AccountInv, Accounted, Transit
    <3>2. CASE Transit(s, k, v)
      <4>1. Transit(s, k, v)'
        BY <1>1, <2>2, <3>2, TransitKept
      <4> QED BY <4>1 DEF Transit, Accounted
    <3>3. CASE InHookOf(s, k, v)
      <4>1. InHookOf(s, k, v)' \/ OnWire(s, k, v)'
        BY <2>1, <3>3, HookKept
      <4> QED BY <4>1 DEF Accounted
    <3> QED BY <3>1, <3>2, <3>3
  <2>4. CASE v \notin Vals(store[k])
    <3>1. store' # store
      BY <2>4
    <3>2. PICK w \in Writers : Commit(w)
      BY <3>1 DEF Next, PutSteps, Route, Replicate, CallHook, SendOnClosed, SnapSteps, SnapSize, SnapGet,
         SnapInstall, SnapCopy, SnapSent, StreamSteps, StreamSnapshot, StreamSnapshotClosed,
         StreamLive, StreamLiveClosed, StreamReturn, TickSteps, TickClose, TickReset, Request,
         Learn, DebugSnapshot, Ready, ChangeState, RequestFails, JoinerSteps, Consume, ConsumeBroken, Drop,
         JoinerPut, source
    <3>3. PICK m, e :
            /\ m = put[w].key /\ e = NewEntry(store[m], put[w].entry.val, Given(put[w].entry))
            /\ \E es \in SortedInserts(store[m], e) : store' = [store EXCEPT ![m] = es]
            /\ put' = [put EXCEPT ![w] = [pc |-> "hook", key |-> m, entry |-> e, caught |-> hook]]
      BY <1>1, <3>2, CommitEffect
    <3>4. /\ m \in Keys /\ store[m] \in History /\ put[w].entry.val \in Nat
          /\ Given(put[w].entry) \in Nat \cup {NoVersion}
      <4>1. put[w] \in Put
        BY <1>1
      <4>2. put[w].key \in Keys
        BY <4>1 DEF Put
      <4> QED BY <1>1, <3>3, <4>1, <4>2, GivenType
    <3>5. e \in Entry
      BY <3>3, <3>4, NewEntryType
    <3>6. PICK es \in SortedInserts(store[m], e) : store' = [store EXCEPT ![m] = es]
      BY <3>3
    <3>7. k = m
      BY <1>1, <2>4, <3>6
    <3>8. ToSet(es) = ToSet(store[m]) \cup {e}
      BY <3>4, <3>5, SortedInsertsAdd
    <3>9. v \in Vals(es)
      BY <1>1, <3>6, <3>7
    <3>10. v = e.val
      BY <2>4, <3>7, <3>8, <3>9, ValsOfSet
    <3>11. /\ put'[w].pc = "hook" /\ put'[w].caught = s /\ put'[w].key = k
           /\ put'[w].entry.val = v
      BY <1>1, <2>2, <3>3, <3>7, <3>10
    <3>12. InHookOf(s, k, v)'
      BY <1>1, <3>11 DEF InHookOf
    <3> QED BY <3>12 DEF Accounted
  <2> QED BY <2>3, <2>4
<1> QED BY <1>2, <1>3

-----------------------------------------------------------------------------
(* What is stored under which version *)

(* The source adds to its store what a put commits, and loses nothing. *)
LEMMA StoreStep ==
  ASSUME TypeOK, Next
  PROVE  \/ store' = store
         \/ \E w \in Writers : \E e \in Entry :
              /\ Commit(w) /\ put[w].pc = "routed" /\ put[w].key \in Keys
              /\ e.val = put[w].entry.val
              /\ \E es \in SortedInserts(store[put[w].key], e) :
                   store' = [store EXCEPT ![put[w].key] = es]
              /\ put' = [put EXCEPT ![w] = [pc |-> "hook", key |-> put[w].key, entry |-> e,
                                           caught |-> hook]]
<1>1. put \in [Writers -> Put] /\ store \in [Keys -> History]
  BY DEF TypeOK
<1>2. CASE \E w \in Writers : Commit(w)
  <2>1. PICK w \in Writers : Commit(w)
    BY <1>2
  <2>2. PICK m, e :
          /\ m = put[w].key /\ e = NewEntry(store[m], put[w].entry.val, Given(put[w].entry))
          /\ \E es \in SortedInserts(store[m], e) : store' = [store EXCEPT ![m] = es]
          /\ put' = [put EXCEPT ![w] = [pc |-> "hook", key |-> m, entry |-> e, caught |-> hook]]
    BY <1>1, <2>1, CommitEffect
  <2>3. /\ m \in Keys /\ store[m] \in History /\ put[w].entry.val \in Nat
        /\ Given(put[w].entry) \in Nat \cup {NoVersion}
    <3>1. put[w] \in Put
      BY <1>1
    <3>2. put[w].key \in Keys
      BY <3>1 DEF Put
    <3> QED BY <1>1, <2>2, <3>1, <3>2, GivenType
  <2>4. e \in Entry /\ e.val = put[w].entry.val
    BY <2>2, <2>3, NewEntryType DEF NewEntry
  <2>5. put[w].pc = "routed"
    BY <2>1 DEF Commit
  <2> QED BY <2>1, <2>2, <2>3, <2>4, <2>5
<1>3. CASE ~(\E w \in Writers : Commit(w))
  <2>1. store' = store
    BY <1>3 DEF Next, PutSteps, Route, Replicate, CallHook, SendOnClosed, SnapSteps, SnapSize, SnapGet,
       SnapInstall, SnapCopy, SnapSent, StreamSteps, StreamSnapshot, StreamSnapshotClosed,
       StreamLive, StreamLiveClosed, StreamReturn, TickSteps, TickClose, TickReset, Request,
       Learn, DebugSnapshot, Ready, ChangeState, RequestFails, JoinerSteps, Consume, ConsumeBroken, Drop,
       JoinerPut, source
  <2> QED BY <2>1
<1> QED BY <1>2, <1>3

LEMMA StoreGrows ==
  ASSUME TypeOK, Next, NEW k \in Keys
  PROVE  ToSet(store[k]) \subseteq ToSet(store'[k])
<1>1. store \in [Keys -> History]
  BY DEF TypeOK
<1>2. CASE store' = store
  BY <1>2
<1>3. CASE store' # store
  <2>1. PICK w \in Writers, e \in Entry :
          /\ put[w].key \in Keys
          /\ \E es \in SortedInserts(store[put[w].key], e) :
               store' = [store EXCEPT ![put[w].key] = es]
    BY <1>3, StoreStep
  <2>2. PICK m : m = put[w].key
    OBVIOUS
  <2>3. PICK es \in SortedInserts(store[m], e) : store' = [store EXCEPT ![m] = es]
    BY <2>1, <2>2
  <2>4. m \in Keys /\ store[m] \in History
    BY <1>1, <2>1, <2>2
  <2>5. ToSet(store[m]) \subseteq ToSet(es)
    BY <2>3, <2>4, SortedInsertsKeep
  <2> QED BY <1>1, <2>3, <2>4, <2>5
<1> QED BY <1>2, <1>3

LEMMA WritesGrow ==
  ASSUME TypeOK, Next
  PROVE  writes \in Nat /\ writes' \in Nat /\ writes <= writes'
<1>1. writes \in Nat
  BY LimitsAssumption DEF TypeOK
<1>2. writes' = writes \/ writes' = writes + 1
  BY DEF Next, PutSteps, Route, Replicate, Commit, CallHook, SendOnClosed, SnapSteps, SnapSize, SnapGet,
     SnapInstall, SnapCopy, SnapSent, StreamSteps, StreamSnapshot, StreamSnapshotClosed,
     StreamLive, StreamLiveClosed, StreamReturn, TickSteps, TickClose, TickReset, Request,
     Learn, DebugSnapshot, Ready, ChangeState, RequestFails, JoinerSteps, Consume, ConsumeBroken, Drop,
     JoinerPut
<1> QED BY <1>1, <1>2

(* The source's store: every value once, none above the count of writes. *)
LEMMA StoreValuesStep ==
  ASSUME TypeOK, SourceInv, RoutedInv, Next, NEW k \in Keys
  PROVE  OneEach(store'[k]) /\ \A v \in Vals(store'[k]) : v <= writes'
<1>1. store \in [Keys -> History] /\ OneEach(store[k]) /\ \A v \in Vals(store[k]) : v <= writes
  BY DEF TypeOK, SourceInv
<1>2. writes \in Nat /\ writes' \in Nat /\ writes <= writes'
  BY WritesGrow
<1>3. \A v \in Vals(store[k]) : v \in Nat
  <2>1. \A i \in DOMAIN store[k] : store[k][i] \in Entry
    <3>1. store[k] \in Seq(Entry)
      BY <1>1 DEF History
    <3> QED BY <3>1
  <2> QED BY <2>1 DEF Vals, Entry
<1>4. CASE store'[k] = store[k]
  BY <1>1, <1>2, <1>3, <1>4
<1>5. CASE store'[k] # store[k]
  <2>1. PICK w \in Writers, e \in Entry :
          /\ put[w].pc = "routed" /\ put[w].key \in Keys
          /\ e.val = put[w].entry.val
          /\ \E es \in SortedInserts(store[put[w].key], e) :
               store' = [store EXCEPT ![put[w].key] = es]
    BY <1>5, StoreStep
  <2>2. put[w].key = k
    BY <1>1, <1>5, <2>1
  <2>3. store'[k] \in SortedInserts(store[k], e)
    BY <1>1, <2>1, <2>2
  <2>4. e.val \notin Vals(store[k]) /\ e.val <= writes
    BY <2>1 DEF RoutedInv
  <2>5. store[k] \in History /\ \A i \in DOMAIN store[k] : store[k][i].val # e.val
    BY <1>1, <2>4 DEF Vals
  <2>6. OneEach(store'[k])
    BY <1>1, <2>3, <2>5, SortedInsertsOneEach
  <2>7. ToSet(store'[k]) = ToSet(store[k]) \cup {e}
    BY <2>3, <2>5, SortedInsertsAdd
  <2>8. Vals(store'[k]) = Vals(store[k]) \cup {e.val}
    BY <2>7, ValsOfSet
  <2>9. e.val \in Nat
    BY DEF Entry
  <2> QED BY <1>1, <1>2, <1>3, <2>4, <2>6, <2>8, <2>9
<1> QED BY <1>4, <1>5

(* The copy of a snapshot is of what the source has. *)
LEMMA CopySourceStep ==
  ASSUME TypeOK, ControlInv, SourceInv, Next, NEW s \in Streams, NEW k \in Keys
  PROVE  ToSet(snap'[s].copy[k]) \subseteq ToSet(store'[k])
<1>1. /\ snap \in [Streams -> Snap] /\ snap[s] \in Snap
      /\ ToSet(store[k]) \subseteq ToSet(store'[k])
      /\ ToSet(snap[s].copy[k]) \subseteq ToSet(store[k])
  BY StoreGrows DEF TypeOK, SourceInv
<1>2. CASE snap'[s].copy = snap[s].copy
  BY <1>1, <1>2
<1>3. CASE SnapCopy(s)
  <2> DEFINE copy == [m \in Keys |-> IF m \in Covers[Of(s)] THEN store[m] ELSE <<>>]
  <2>1. \E todo : snap' = [snap EXCEPT ![s] = [pc |-> "send", copy |-> copy, todo |-> todo]]
    BY <1>3 DEF SnapCopy
  <2>2. copy[k] = store[k] \/ copy[k] = <<>>
    OBVIOUS
  <2> HIDE DEF copy
  <2>3. snap'[s].copy = copy
    BY <1>1, <2>1
  <2>4. ToSet(<<>>) = {}
    BY DEF ToSet
  <2> QED BY <1>1, <2>2, <2>3, <2>4
<1>4. CASE SnapSize(s) \/ SnapGet(s) \/ SnapInstall(s) \/ SnapSent(s)
  <2>1. PICK place : snap' = [snap EXCEPT ![s].pc = place]
    BY <1>4 DEF SnapSize, SnapGet, SnapInstall, SnapSent, SnapEnd, SnapGoto
  <2> QED BY <1>1, <1>2, <2>1 DEF Snap
<1>5. CASE StreamSnapshot(s)
  <2>1. PICK m : snap' = [snap EXCEPT ![s].todo = @ \ {m}]
    BY <1>5 DEF StreamSnapshot
  <2>2. snap'[s].copy = snap[s].copy
    BY <1>1, <2>1 DEF Snap
  <2> QED BY <1>2, <2>2
<1>9. CASE Request(s)
  <2>1. snap' = [snap EXCEPT ![s].pc = "size"]
    BY <1>9 DEF Request
  <2>2. snap'[s].copy = snap[s].copy
    BY <1>1, <2>1 DEF Snap
  <2> QED BY <1>2, <2>2
<1>6. CASE \/ StreamSnapshotClosed(s) \/ StreamLive(s) \/ StreamLiveClosed(s) \/ StreamReturn(s)
           \/ TickSteps(s) \/ Ready(s) \/ ChangeState(s) \/ RequestFails(s) \/ JoinerSteps(s) \/ Drop(s)
  <2>1. snap' = snap
    BY <1>6 DEF StreamSnapshotClosed, StreamLive, StreamLiveClosed, StreamReturn, TickSteps, TickClose,
       TickReset, Ready, ChangeState, RequestFails, JoinerSteps, Consume, ConsumeBroken, Drop, source
  <2> QED BY <1>2, <2>1
<1>7. CASE \E r \in Streams : r # s /\ StepOf(r)
  BY <1>2, <1>7, OthersAlone DEF SameAt
<1>8. CASE OtherStep
  BY <1>2, <1>8, AllAlone
<1> QED
  BY <1>3, <1>4, <1>5, <1>6, <1>7, <1>8, <1>9, NextSplit DEF StepOf, SnapSteps, StreamSteps

(* Nothing but its place is lost of a put that goes through its hook.      *)
LEMMA HookEntryStep ==
  ASSUME TypeOK, Next, NEW w \in Writers, put'[w].pc \in {"hook", "sending"}
  PROVE  \/ /\ put[w].pc \in {"hook", "sending"}
            /\ put'[w].key = put[w].key /\ put'[w].entry = put[w].entry
         \/ Commit(w)
<1>1. put \in [Writers -> Put] /\ limits \in Limits
  BY DEF TypeOK
<1>2. NoPut.pc = "idle" /\ [NoPut EXCEPT !.pc = "panicked"].pc = "panicked"
  BY DEF NoPut
<1>3. CASE put' = put
  BY <1>3
<1>4. CASE \E u \in Writers : Route(u) \/ Replicate(u)
  <2>1. PICK u \in Writers : Route(u) \/ Replicate(u)
    BY <1>4
  <2>2. PICK k, version :
          put' = [put EXCEPT ![u] = [pc |-> "routed", key |-> k,
                    entry |-> [val |-> writes', ver |-> version], caught |-> put[u].caught]]
    BY <1>1, <2>1, RouteEffect
  <2>3. w # u
    BY <1>1, <2>2
  <2> QED BY <1>1, <2>2, <2>3
<1>5. CASE \E u \in Writers : Commit(u)
  <2>1. PICK u \in Writers : Commit(u)
    BY <1>5
  <2>2. PICK rec : put' = [put EXCEPT ![u] = rec]
    BY <1>1, <2>1, CommitEffect
  <2>3. CASE w = u
    BY <2>1, <2>3
  <2>4. CASE w # u
    BY <1>1, <2>2, <2>4
  <2> QED BY <2>3, <2>4
<1>6. CASE \E u \in Writers : PutDone(u) \/ PutPanics(u)
  <2>1. PICK u \in Writers : PutDone(u) \/ PutPanics(u)
    BY <1>6
  <2>2. w # u
    BY <1>1, <1>2, <2>1 DEF PutDone, PutPanics
  <2> QED BY <1>1, <2>1, <2>2 DEF PutDone, PutPanics
<1>7. CASE \E u \in Writers : /\ put[u].pc = "hook"
                              /\ put' = [put EXCEPT ![u].pc = "sending", ![u].caught = hook]
  <2>1. PICK u \in Writers : /\ put[u].pc = "hook"
                             /\ put' = [put EXCEPT ![u].pc = "sending", ![u].caught = hook]
    BY <1>7
  <2>2. put' = [put EXCEPT ![u] = [pc |-> "sending", key |-> put[u].key,
                                   entry |-> put[u].entry, caught |-> hook]]
    BY <1>1, <2>1, HookCalledEffect
  <2>3. CASE w = u
    BY <1>1, <2>1, <2>2, <2>3
  <2>4. CASE w # u
    BY <1>1, <2>2, <2>4
  <2> QED BY <2>3, <2>4
<1>8. \/ put' = put
      \/ \E u \in Writers : \/ Route(u) \/ Replicate(u) \/ Commit(u)
                          \/ CallHook(u) \/ SendOnClosed(u)
      \/ \E s \in Streams : StreamLive(s)
  BY DEF Next, PutSteps, SnapSteps, SnapSize, SnapGet, SnapInstall, SnapCopy, SnapSent,
     StreamSteps, StreamSnapshot, StreamSnapshotClosed, StreamLiveClosed, StreamReturn,
     TickSteps, TickClose, TickReset, Request, Learn, DebugSnapshot, Ready, ChangeState, RequestFails,
     JoinerSteps, Consume, ConsumeBroken, Drop, JoinerPut, source
<1>9. ASSUME NEW u \in Writers, CallHook(u) \/ SendOnClosed(u)
      PROVE  \/ PutDone(u) \/ PutPanics(u)
             \/ /\ put[u].pc = "hook"
                /\ put' = [put EXCEPT ![u].pc = "sending", ![u].caught = hook]
  BY <1>9 DEF CallHook, SendOnClosed
<1>10. ASSUME NEW s \in Streams, StreamLive(s) PROVE \E u \in Writers : PutDone(u)
  BY <1>10 DEF StreamLive
<1> QED BY <1>3, <1>4, <1>5, <1>6, <1>7, <1>8, <1>9, <1>10

LEMMA PutSourceStep ==
  ASSUME TypeOK, SourceInv, Next, NEW w \in Writers, put'[w].pc \in {"hook", "sending"}
  PROVE  put'[w].entry \in ToSet(store'[put'[w].key])
<1>1. put \in [Writers -> Put] /\ put[w] \in Put /\ store \in [Keys -> History]
  BY DEF TypeOK
<1>2. CASE /\ put[w].pc \in {"hook", "sending"}
           /\ put'[w].key = put[w].key /\ put'[w].entry = put[w].entry
  <2>1. put[w].entry \in ToSet(store[put[w].key]) /\ put[w].key \in Keys
    BY <1>1, <1>2 DEF SourceInv, Put
  <2> QED BY <1>2, <2>1, StoreGrows
<1>3. CASE Commit(w)
  <2>1. PICK m, e :
          /\ m = put[w].key /\ e = NewEntry(store[m], put[w].entry.val, Given(put[w].entry))
          /\ \E es \in SortedInserts(store[m], e) : store' = [store EXCEPT ![m] = es]
          /\ put' = [put EXCEPT ![w] = [pc |-> "hook", key |-> m, entry |-> e, caught |-> hook]]
    BY <1>1, <1>3, CommitEffect
  <2>2. /\ m \in Keys /\ store[m] \in History /\ put[w].entry.val \in Nat
        /\ Given(put[w].entry) \in Nat \cup {NoVersion}
    <3>1. put[w].key \in Keys
      BY <1>1 DEF Put
    <3> QED BY <1>1, <2>1, <3>1, GivenType
  <2>3. e \in Entry
    BY <2>1, <2>2, NewEntryType
  <2>4. PICK es \in SortedInserts(store[m], e) : store' = [store EXCEPT ![m] = es]
    BY <2>1
  <2>5. ToSet(es) = ToSet(store[m]) \cup {e}
    BY <2>2, <2>3, SortedInsertsAdd
  <2>6. put'[w].entry = e /\ put'[w].key = m /\ store'[m] = es
    BY <1>1, <2>1, <2>2, <2>4
  <2> QED BY <2>5, <2>6
<1> QED BY <1>2, <1>3, HookEntryStep

(* Every data event a handler writes holds entries of the source. *)
LEMMA WireSourceStep ==
  ASSUME TypeOK, ControlInv, WireInv, SourceInv, Next, NEW s \in Streams,
         NEW i \in DOMAIN wire'[s], wire'[s][i].kind \notin Marks
  PROVE  ToSet(wire'[s][i].entries) \subseteq ToSet(store'[wire'[s][i].key])
<1>1. /\ wire \in [Streams -> Seq(Event)] /\ wire[s] \in Seq(Event)
      /\ put \in [Writers -> Put] /\ snap \in [Streams -> Snap] /\ snap[s] \in Snap
      /\ conn \in [Streams -> BOOLEAN]
  BY DEF TypeOK
<1>2. ASSUME NEW n \in DOMAIN wire[s], wire'[s][i] = wire[s][n]
      PROVE  ToSet(wire'[s][i].entries) \subseteq ToSet(store'[wire'[s][i].key])
  <2>1. wire[s][n].key \in Keys
    BY <1>2 DEF WireInv, WireAt
  <2>2. ToSet(wire[s][n].entries) \subseteq ToSet(store[wire[s][n].key])
    BY <1>2 DEF SourceInv
  <2>3. ToSet(store[wire[s][n].key]) \subseteq ToSet(store'[wire[s][n].key])
    BY <2>1, StoreGrows
  <2> QED BY <1>2, <2>2, <2>3
<1>3. CASE wire'[s] = wire[s]
  BY <1>2, <1>3
<1>4. ASSUME NEW event \in Event, Emit(s, event),
             \/ event.kind \in Marks
             \/ event.key \in Keys /\ ToSet(event.entries) \subseteq ToSet(store[event.key])
      PROVE  ToSet(wire'[s][i].entries) \subseteq ToSet(store'[wire'[s][i].key])
  <2>1. CASE conn[s]
    <3>1. CASE i \in DOMAIN wire[s]
      BY <1>2, <1>4, <2>1, <3>1, EmitEffect
    <3>2. CASE i \notin DOMAIN wire[s]
      <4>1. wire'[s][i] = event
        <5>1. i = Len(wire[s]) + 1
          BY <1>4, <2>1, <3>2, EmitEffect
        <5> QED BY <1>4, <2>1, <5>1, EmitEffect
      <4>2. event.key \in Keys /\ ToSet(event.entries) \subseteq ToSet(store[event.key])
        BY <1>4, <4>1
      <4>3. ToSet(store[event.key]) \subseteq ToSet(store'[event.key])
        BY <4>2, StoreGrows
      <4> QED BY <4>1, <4>2, <4>3
    <3> QED BY <3>1, <3>2
  <2>2. CASE ~conn[s]
    <3>1. wire' = wire
      BY <1>4, <2>2, EmitEffect
    <3> QED BY <1>3, <3>1
  <2> QED BY <2>1, <2>2
<1>5. CASE StreamSnapshot(s)
  <2>1. PICK k \in snap[s].todo :
          Emit(s, [kind |-> "snapshot", key |-> k, entries |-> snap[s].copy[k]])
    BY <1>5 DEF StreamSnapshot
  <2>2. k \in Keys /\ snap[s].copy[k] \in History
    BY <1>1 DEF Snap
  <2>3. PICK event : event = [kind |-> "snapshot", key |-> k, entries |-> snap[s].copy[k]]
    OBVIOUS
  <2>4. event \in Event /\ event.key = k /\ event.entries = snap[s].copy[k]
    BY <2>2, <2>3 DEF Event
  <2>5. ToSet(event.entries) \subseteq ToSet(store[event.key])
    BY <2>2, <2>4 DEF SourceInv
  <2> QED BY <1>4, <2>1, <2>2, <2>3, <2>4, <2>5
<1>6. CASE StreamLive(s)
  <2>1. PICK w \in Writers :
          /\ put[w].pc = "sending"
          /\ Emit(s, [kind |-> "live", key |-> put[w].key, entries |-> <<put[w].entry>>])
    BY <1>6 DEF StreamLive
  <2>2. put[w] \in Put
    BY <1>1
  <2>3. put[w].key \in Keys /\ <<put[w].entry>> \in History
    BY <2>2 DEF Put, History
  <2>4. PICK event : event = [kind |-> "live", key |-> put[w].key, entries |-> <<put[w].entry>>]
    OBVIOUS
  <2>5. event \in Event /\ event.key = put[w].key /\ event.entries = <<put[w].entry>>
    BY <2>3, <2>4 DEF Event
  <2>6. put[w].entry \in ToSet(store[put[w].key])
    BY <2>1 DEF SourceInv
  <2>7. ToSet(event.entries) = {put[w].entry}
    BY <2>5 DEF ToSet
  <2> QED BY <1>4, <2>1, <2>3, <2>4, <2>5, <2>6, <2>7
<1>7. CASE StreamSnapshotClosed(s) \/ StreamLiveClosed(s)
  <2>1. \E kind \in Marks : Emit(s, Mark(kind))
    BY <1>7 DEF StreamSnapshotClosed, StreamLiveClosed, Marks
  <2>2. PICK event \in Event : Emit(s, event) /\ event.kind \in Marks
    BY <2>1, MarkTypes DEF Marks
  <2> QED BY <1>4, <2>2
<1>8. CASE Consume(s)
  <2>1. wire'[s] = Tail(wire[s]) /\ wire[s] # <<>>
    BY <1>1, <1>8 DEF Consume
  <2>2. i + 1 \in DOMAIN wire[s] /\ wire'[s][i] = wire[s][i + 1]
    BY <1>1, <2>1, TailIndex
  <2> QED BY <1>2, <2>2
<1>9. CASE Drop(s)
  <2>1. PICK n \in 0..Len(wire[s]) : wire' = [wire EXCEPT ![s] = SubSeq(@, 1, n)]
    BY <1>9 DEF Drop
  <2>2. wire'[s] = SubSeq(wire[s], 1, n)
    BY <1>1, <2>1
  <2>3. i \in DOMAIN wire[s] /\ wire'[s][i] = wire[s][i]
    BY <1>1, <2>2, PrefixIndex
  <2> QED BY <1>2, <2>3
<1>10. CASE \/ SnapSteps(s) \/ StreamReturn(s) \/ TickSteps(s) \/ Request(s) \/ Ready(s)
            \/ ChangeState(s) \/ RequestFails(s) \/ ConsumeBroken(s)
  <2>1. wire' = wire
    BY <1>10 DEF SnapSteps, SnapSize, SnapGet, SnapInstall, SnapCopy, SnapSent, StreamReturn,
       TickSteps, TickClose, TickReset, Request, Ready, ChangeState, RequestFails, ConsumeBroken
  <2> QED BY <1>3, <2>1
<1>11. CASE \E r \in Streams : r # s /\ StepOf(r)
  BY <1>3, <1>11, OthersAlone DEF SameAt
<1>12. CASE OtherStep
  BY <1>3, <1>12, AllAlone
<1> QED
  BY <1>5, <1>6, <1>7, <1>8, <1>9, <1>10, <1>11, <1>12, NextSplit
     DEF StepOf, StreamSteps, JoinerSteps

LEMMA SourceStep ==
  ASSUME TypeOK, ControlInv, WireInv, SourceInv, RoutedInv, Next
  PROVE  SourceInv'
<1>1. \A k \in Keys : OneEach(store'[k]) /\ \A v \in Vals(store'[k]) : v <= writes'
  BY StoreValuesStep
<1>2. \A s \in Streams, k \in Keys : ToSet(snap'[s].copy[k]) \subseteq ToSet(store'[k])
  BY CopySourceStep
<1>3. \A s \in Streams : \A i \in DOMAIN wire'[s] : wire'[s][i].kind \notin Marks =>
        ToSet(wire'[s][i].entries) \subseteq ToSet(store'[wire'[s][i].key])
  BY WireSourceStep
<1>4. \A w \in Writers : put'[w].pc \in {"hook", "sending"} =>
        put'[w].entry \in ToSet(store'[put'[w].key])
  BY PutSourceStep
<1> QED BY <1>1, <1>2, <1>3, <1>4 DEF SourceInv, OneEach, Vals, ToSet

LEMMA ValsNat ==
  ASSUME NEW es \in History
  PROVE  Vals(es) \subseteq Nat
<1>1. \A i \in DOMAIN es : es[i] \in Entry
  <2>1. es \in Seq(Entry)
    BY DEF History
  <2> QED BY <2>1
<1> QED BY <1>1 DEF Vals, Entry

(* A put that is routed was so before, or is the only one the step routes. *)
LEMMA RoutedFrom ==
  ASSUME TypeOK, Next, NEW w \in Writers, put'[w].pc = "routed"
  PROVE  \/ put[w].pc = "routed" /\ put'[w] = put[w]
         \/ /\ Route(w) \/ Replicate(w)
            /\ put[w].pc = "idle"
            /\ put'[w].entry.val = writes' /\ writes' = writes + 1
            /\ \A u \in Writers : u # w => put'[u] = put[u]
<1>1. put \in [Writers -> Put] /\ limits \in Limits
  BY DEF TypeOK
<1>2. NoPut.pc = "idle" /\ [NoPut EXCEPT !.pc = "panicked"].pc = "panicked"
  BY DEF NoPut
<1>3. CASE put' = put
  BY <1>3
<1>4. CASE \E u \in Writers : Route(u) \/ Replicate(u)
  <2>1. PICK u \in Writers : Route(u) \/ Replicate(u)
    BY <1>4
  <2>2. PICK k, version :
          put' = [put EXCEPT ![u] = [pc |-> "routed", key |-> k,
                    entry |-> [val |-> writes', ver |-> version], caught |-> put[u].caught]]
    BY <1>1, <2>1, RouteEffect
  <2>3. CASE w = u
    <3>1. put[w].pc = "idle" /\ writes' = writes + 1
      BY <2>1, <2>3 DEF Route, Replicate
    <3>2. put'[w].entry.val = writes'
      BY <1>1, <2>2, <2>3
    <3>3. \A x \in Writers : x # w => put'[x] = put[x]
      BY <1>1, <2>2, <2>3
    <3> QED BY <2>1, <2>3, <3>1, <3>2, <3>3
  <2>4. CASE w # u
    BY <1>1, <2>2, <2>4
  <2> QED BY <2>3, <2>4
<1>5. CASE \E u \in Writers : Commit(u)
  <2>1. PICK u \in Writers : Commit(u)
    BY <1>5
  <2>2. PICK key, entry, caught :
          put' = [put EXCEPT ![u] = [pc |-> "hook", key |-> key, entry |-> entry,
                                     caught |-> caught]]
    BY <1>1, <2>1, CommitEffect
  <2>3. w # u
    BY <1>1, <2>2
  <2> QED BY <1>1, <2>2, <2>3
<1>6. CASE \E u \in Writers : PutDone(u) \/ PutPanics(u)
  <2>1. PICK u \in Writers : PutDone(u) \/ PutPanics(u)
    BY <1>6
  <2>2. w # u
    BY <1>1, <1>2, <2>1 DEF PutDone, PutPanics
  <2> QED BY <1>1, <2>1, <2>2 DEF PutDone, PutPanics
<1>7. CASE \E u \in Writers : put' = [put EXCEPT ![u].pc = "sending", ![u].caught = hook]
  <2>1. PICK u \in Writers : put' = [put EXCEPT ![u].pc = "sending", ![u].caught = hook]
    BY <1>7
  <2>2. put' = [put EXCEPT ![u] = [pc |-> "sending", key |-> put[u].key,
                                   entry |-> put[u].entry, caught |-> hook]]
    BY <1>1, <2>1, HookCalledEffect
  <2>3. w # u
    BY <1>1, <2>2
  <2> QED BY <1>1, <2>2, <2>3
<1>8. \/ put' = put
      \/ \E u \in Writers : \/ Route(u) \/ Replicate(u) \/ Commit(u)
                          \/ CallHook(u) \/ SendOnClosed(u)
      \/ \E s \in Streams : StreamLive(s)
  BY DEF Next, PutSteps, SnapSteps, SnapSize, SnapGet, SnapInstall, SnapCopy, SnapSent,
     StreamSteps, StreamSnapshot, StreamSnapshotClosed, StreamLiveClosed, StreamReturn,
     TickSteps, TickClose, TickReset, Request, Learn, DebugSnapshot, Ready, ChangeState, RequestFails,
     JoinerSteps, Consume, ConsumeBroken, Drop, JoinerPut, source
<1>9. ASSUME NEW u \in Writers, CallHook(u) \/ SendOnClosed(u)
      PROVE  \/ PutDone(u) \/ PutPanics(u)
             \/ put' = [put EXCEPT ![u].pc = "sending", ![u].caught = hook]
  BY <1>9 DEF CallHook, SendOnClosed
<1>10. ASSUME NEW s \in Streams, StreamLive(s) PROVE \E u \in Writers : PutDone(u)
  BY <1>10 DEF StreamLive
<1> QED BY <1>3, <1>4, <1>5, <1>6, <1>7, <1>8, <1>9, <1>10

(* What a joiner stores was there, comes from the source, or is new. *)
LEMMA JoinerStep ==
  ASSUME TypeOK, WireInv, Next
  PROVE  \/ jstore' = jstore
         \/ \E s \in Streams : Consume(s) /\ wire[s][1].kind \notin Marks
         \/ \E j \in Joiners : JoinerPut(j)
<1>1. ASSUME NEW s \in Streams, Consume(s), wire[s][1].kind \in Marks PROVE jstore' = jstore
  <2>1. Head(wire[s]) = wire[s][1]
    BY <1>1, TailIndex DEF TypeOK, Consume
  <2> QED BY <1>1, <2>1 DEF Consume, Marks
<1> QED
  BY <1>1 DEF Next, PutSteps, Route, Replicate, Commit, CallHook, SendOnClosed, SnapSteps, SnapSize, SnapGet,
     SnapInstall, SnapCopy, SnapSent, StreamSteps, StreamSnapshot, StreamSnapshotClosed,
     StreamLive, StreamLiveClosed, StreamReturn, TickSteps, TickClose, TickReset, Request,
     Learn, DebugSnapshot, Ready, ChangeState, RequestFails, JoinerSteps, ConsumeBroken, Drop, joiner

(* What one JoinerPut stores. *)
LEMMA JoinerPutEffect ==
  ASSUME TypeOK, NEW j \in Joiners, JoinerPut(j)
  PROVE  /\ writes \in Nat /\ writes' = writes + 1
         /\ \E k \in Keys, version \in Nat \cup {NoVersion} :
              \E es \in PutRaw(jstore[j][k], writes', version) :
                jstore[j][k] \in History /\ jstore' = [jstore EXCEPT ![j][k] = es]
<1>1. writes \in Nat /\ jstore \in [Joiners -> [Keys -> History]]
  BY LimitsAssumption DEF TypeOK
<1>2. PICK k \in Covers[j], version \in Nat \cup {NoVersion} :
        \E es \in PutRaw(jstore[j][k], writes', version) : jstore' = [jstore EXCEPT ![j][k] = es]
  BY LimitsAssumption DEF JoinerPut, TypeOK
<1>3. k \in Keys
  BY CoversAssumption
<1>4. jstore[j][k] \in History
  BY <1>1, <1>3
<1>5. writes' = writes + 1
  BY DEF JoinerPut
<1> QED BY <1>1, <1>2, <1>3, <1>4, <1>5

LEMMA JoinerVals ==
  ASSUME TypeOK, WireInv, SourceInv, Next, NEW j \in Joiners, NEW k \in Keys,
         NEW v \in Vals(jstore'[j][k])
  PROVE  \/ v \in Vals(jstore[j][k])
         \/ v \in Vals(store[k])
         \/ v = writes' /\ writes' = writes + 1
<1>1. jstore \in [Joiners -> [Keys -> History]] /\ writes \in Nat
  BY LimitsAssumption DEF TypeOK
<1>2. CASE jstore' = jstore
  BY <1>2
<1>3. CASE \E s \in Streams : Consume(s) /\ wire[s][1].kind \notin Marks
  <2>1. PICK s \in Streams : Consume(s) /\ wire[s][1].kind \notin Marks
    BY <1>3
  <2>2. PICK event : event = wire[s][1]
    OBVIOUS
  <2>3. PICK es \in PutAll(jstore[Of(s)][event.key], event.entries) :
          /\ jstore' = [jstore EXCEPT ![Of(s)][event.key] = es]
          /\ event.key \in Keys /\ event.entries \in History
          /\ jstore[Of(s)][event.key] \in History
    BY <2>1, <2>2, ConsumeArrives
  <2>4. Vals(es) = Vals(jstore[Of(s)][event.key]) \cup Vals(event.entries)
    BY <2>3, PutAllVals
  <2>5. CASE j = Of(s) /\ k = event.key
    <3>1. jstore'[j][k] = es
      BY <1>1, <2>3, <2>5
    <3>2. 1 \in DOMAIN wire[s]
      BY <2>1, TailIndex DEF TypeOK, Consume
    <3>3. ToSet(event.entries) \subseteq ToSet(store[k])
      BY <2>1, <2>2, <2>5, <3>2 DEF SourceInv
    <3>4. Vals(event.entries) \subseteq Vals(store[k])
      BY <3>3, ValsOfSet
    <3> QED BY <2>4, <2>5, <3>1, <3>4
  <2>6. CASE ~(j = Of(s) /\ k = event.key)
    <3>1. jstore'[j][k] = jstore[j][k]
      BY <1>1, <2>3, <2>6
    <3> QED BY <3>1
  <2> QED BY <2>5, <2>6
<1>4. CASE \E i \in Joiners : JoinerPut(i)
  <2>1. PICK i \in Joiners : JoinerPut(i)
    BY <1>4
  <2>2. PICK m \in Keys, version \in Nat \cup {NoVersion} :
          \E es \in PutRaw(jstore[i][m], writes', version) :
            jstore[i][m] \in History /\ jstore' = [jstore EXCEPT ![i][m] = es]
    BY <2>1, JoinerPutEffect
  <2>3. PICK es \in PutRaw(jstore[i][m], writes', version) :
          jstore[i][m] \in History /\ jstore' = [jstore EXCEPT ![i][m] = es]
    BY <2>2
  <2>4. writes' = writes + 1 /\ writes' \in Nat
    BY <2>1, JoinerPutEffect
  <2>5. Vals(es) = Vals(jstore[i][m]) \cup {writes'}
    BY <2>3, <2>4, PutRawVals
  <2>6. CASE j = i /\ k = m
    BY <1>1, <2>3, <2>4, <2>5, <2>6
  <2>7. CASE ~(j = i /\ k = m)
    <3>1. jstore'[j][k] = jstore[j][k]
      BY <1>1, <2>3, <2>7
    <3> QED BY <3>1
  <2> QED BY <2>6, <2>7
<1> QED BY <1>2, <1>3, <1>4, JoinerStep

LEMMA RoutedStep ==
  ASSUME TypeOK, WireInv, SourceInv, RoutedInv, Next
  PROVE  RoutedInv'
<1>1. /\ writes \in Nat /\ writes' \in Nat /\ writes <= writes'
      /\ put \in [Writers -> Put] /\ store \in [Keys -> History]
      /\ jstore \in [Joiners -> [Keys -> History]]
  BY WritesGrow DEF TypeOK
<1>2. \A k \in Keys : Vals(store[k]) \subseteq Nat /\ \A v \in Vals(store[k]) : v <= writes
  BY <1>1, ValsNat DEF SourceInv
<1>3. \A j \in Joiners, k \in Keys :
        Vals(jstore[j][k]) \subseteq Nat /\ \A v \in Vals(jstore[j][k]) : v <= writes
  BY <1>1, ValsNat DEF RoutedInv
<1>4. ASSUME NEW w \in Writers, Route(w) \/ Replicate(w), put'[w].entry.val = writes',
             writes' = writes + 1
      PROVE  /\ put'[w].entry.val <= writes'
             /\ \A k \in Keys : put'[w].entry.val \notin Vals(store'[k])
             /\ \A j \in Joiners, k \in Keys : put'[w].entry.val \notin Vals(jstore'[j][k])
  <2>1. store' = store /\ jstore' = jstore
    BY <1>4 DEF Route, Replicate, joiner
  <2> QED BY <1>1, <1>2, <1>3, <1>4, <2>1
<1>5. ASSUME NEW w \in Writers, put[w].pc = "routed", put'[w] = put[w]
      PROVE  /\ put'[w].entry.val <= writes'
             /\ \A k \in Keys : put'[w].entry.val \notin Vals(store'[k])
             /\ \A j \in Joiners, k \in Keys : put'[w].entry.val \notin Vals(jstore'[j][k])
  <2>1. PICK v : v = put[w].entry.val
    OBVIOUS
  <2>2. v \in Nat /\ v <= writes
    BY <1>1, <1>5, <2>1 DEF RoutedInv, Put, Entry
  <2>3. ASSUME NEW k \in Keys PROVE v \notin Vals(store'[k])
    <3>1. v \notin Vals(store[k])
      BY <1>5, <2>1 DEF RoutedInv
    <3>2. CASE store' = store
      BY <3>1, <3>2
    <3>3. CASE store' # store
      <4>1. PICK u \in Writers, e \in Entry :
              /\ put[u].pc = "routed" /\ put[u].key \in Keys
              /\ e.val = put[u].entry.val
              /\ \E es \in SortedInserts(store[put[u].key], e) :
                   store' = [store EXCEPT ![put[u].key] = es]
              /\ put' = [put EXCEPT ![u] = [pc |-> "hook", key |-> put[u].key, entry |-> e,
                                           caught |-> hook]]
        BY <3>3, StoreStep
      <4>2. PICK m : m = put[u].key
        OBVIOUS
      <4>3. PICK es \in SortedInserts(store[m], e) : store' = [store EXCEPT ![m] = es]
        BY <4>1, <4>2
      <4>4. m \in Keys /\ store[m] \in History
        BY <1>1, <4>1, <4>2
      <4>5. Vals(es) = Vals(store[m]) \cup {e.val}
        <5>1. ToSet(es) = ToSet(store[m]) \cup {e}
          BY <4>3, <4>4, SortedInsertsAdd
        <5> QED BY <5>1, ValsOfSet
      <4>6. u # w
        <5>1. put'[u].pc = "hook"
          BY <1>1, <4>1
        <5> QED BY <1>5, <5>1
      <4>7. e.val # v
        BY <1>5, <2>1, <4>1, <4>6 DEF RoutedInv
      <4>8. CASE k = m
        BY <1>1, <3>1, <4>3, <4>5, <4>7, <4>8
      <4>9. CASE k # m
        BY <1>1, <3>1, <4>3, <4>9
      <4> QED BY <4>8, <4>9
    <3> QED BY <3>2, <3>3
  <2>4. ASSUME NEW j \in Joiners, NEW k \in Keys, v \in Vals(jstore'[j][k]) PROVE FALSE
    <3>1. v \notin Vals(store[k]) /\ v \notin Vals(jstore[j][k])
      BY <1>5, <2>1 DEF RoutedInv
    <3>2. v = writes' /\ writes' = writes + 1
      BY <2>4, <3>1, JoinerVals
    <3> QED BY <1>1, <2>2, <3>2
  <2> QED BY <1>1, <1>5, <2>1, <2>2, <2>3, <2>4
<1>6. ASSUME NEW w \in Writers, put'[w].pc = "routed"
      PROVE  /\ put'[w].entry.val <= writes'
             /\ \A k \in Keys : put'[w].entry.val \notin Vals(store'[k])
             /\ \A j \in Joiners, k \in Keys : put'[w].entry.val \notin Vals(jstore'[j][k])
  BY <1>4, <1>5, <1>6, RoutedFrom
<1>7. ASSUME NEW w \in Writers, NEW u \in Writers, put'[w].pc = "routed", put'[u].pc = "routed",
             put'[w].entry.val = put'[u].entry.val, w # u
      PROVE  FALSE
  <2>1. ASSUME NEW x \in Writers, put[x].pc = "routed" PROVE put[x].entry.val <= writes
    BY <2>1 DEF RoutedInv
  <2>2. ASSUME NEW x \in Writers PROVE put[x].entry.val \in Nat
    BY <1>1 DEF Put, Entry
  <2>3. CASE /\ put[w].pc = "routed" /\ put'[w] = put[w]
             /\ put[u].pc = "routed" /\ put'[u] = put[u]
    BY <1>7, <2>3 DEF RoutedInv
  <2>4. CASE ~(put[w].pc = "routed" /\ put'[w] = put[w])
    <3>1. /\ put'[w].entry.val = writes' /\ writes' = writes + 1 /\ put'[u] = put[u]
      BY <1>7, <2>4, RoutedFrom
    <3>2. put[u].entry.val <= writes /\ put[u].entry.val \in Nat
      BY <1>7, <2>1, <2>2, <3>1
    <3>3. put'[u].entry.val = writes + 1
      BY <1>7, <3>1
    <3> QED BY <1>1, <3>1, <3>2, <3>3
  <2>5. CASE ~(put[u].pc = "routed" /\ put'[u] = put[u])
    <3>1. /\ put'[u].entry.val = writes' /\ writes' = writes + 1 /\ put'[w] = put[w]
      BY <1>7, <2>5, RoutedFrom
    <3>2. put[w].entry.val <= writes /\ put[w].entry.val \in Nat
      BY <1>7, <2>1, <2>2, <3>1
    <3>3. put'[w].entry.val = writes + 1
      BY <1>7, <3>1
    <3> QED BY <1>1, <3>1, <3>2, <3>3
  <2> QED BY <2>3, <2>4, <2>5
<1>8. ASSUME NEW j \in Joiners, NEW k \in Keys, NEW v \in Vals(jstore'[j][k])
      PROVE  v <= writes'
  <2>1. \/ v \in Nat /\ v <= writes
        \/ v = writes'
    BY <1>2, <1>3, <1>8, JoinerVals
  <2> QED BY <1>1, <2>1
<1> QED BY <1>6, <1>7, <1>8 DEF RoutedInv, Vals

(* As Restamped, of any history and any source. *)
Bad(h, S) == {i \in DOMAIN h : \E m \in ToSet(S) : m.val = h[i].val /\ m.ver # h[i].ver}

Stamped(h, S) == \A i, n \in Bad(h, S) : i = n /\ h[i].ver = 1

LEMMA StampedEach ==
  RestampsAtMostFirst <=> \A j \in Joiners, k \in Keys : Stamped(jstore[j][k], store[k])
<1>1. ASSUME NEW j \in Joiners, NEW k \in Keys
      PROVE  Restamped(j, k) = Bad(jstore[j][k], store[k])
  BY DEF Restamped, Bad, ToSet
<1>2. ASSUME NEW j \in Joiners, NEW k \in Keys
      PROVE  (\A i, n \in Restamped(j, k) : i = n /\ jstore[j][k][i].ver = 1)
               <=> Stamped(jstore[j][k], store[k])
  BY <1>1 DEF Stamped
<1> QED BY <1>2 DEF RestampsAtMostFirst

(* An entry that is as the source has it is added to no harm. *)
LEMMA StampedInsert ==
  ASSUME NEW h \in History, NEW e \in Entry, NEW new \in SortedInserts(h, e), NEW S,
         Stamped(h, S), \A m \in ToSet(S) : m.val = e.val => m.ver = e.ver
  PROVE  Stamped(new, S)
<1>1. PICK i \in 1..(Len(h) + 1) :
        /\ new \in Seq(Entry) /\ Len(new) = Len(h) + 1
        /\ \A j \in 1..(Len(h) + 1) :
             new[j] = IF j < i THEN h[j] ELSE IF j = i THEN e ELSE h[j - 1]
  BY InsertedAt
<1>2. DOMAIN h = 1..Len(h) /\ DOMAIN new = 1..(Len(h) + 1) /\ Len(h) \in Nat
  BY <1>1, LenProperties DEF History
<1> DEFINE from(j) == IF j < i THEN j ELSE j - 1
<1>3. ASSUME NEW j \in DOMAIN new, j # i
      PROVE  from(j) \in DOMAIN h /\ new[j] = h[from(j)]
  BY <1>1, <1>2, <1>3
<1>4. new[i] = e
  BY <1>1, <1>2
<1>5. ASSUME NEW j \in Bad(new, S)
      PROVE  j # i /\ j \in DOMAIN new /\ from(j) \in Bad(h, S) /\ new[j] = h[from(j)]
  <2>1. j \in DOMAIN new
    BY <1>5 DEF Bad
  <2>2. j # i
    BY <1>4, <1>5 DEF Bad
  <2>3. from(j) \in DOMAIN h /\ new[j] = h[from(j)]
    BY <1>3, <2>1, <2>2
  <2> HIDE DEF from
  <2>4. from(j) \in Bad(h, S)
    BY <1>5, <2>3 DEF Bad
  <2> QED BY <2>1, <2>2, <2>3, <2>4
<1>6. ASSUME NEW j \in Bad(new, S), NEW n \in Bad(new, S)
      PROVE  j = n /\ new[j].ver = 1
  <2>1. from(j) = from(n) /\ h[from(j)].ver = 1
    <3> HIDE DEF from
    <3>1. from(j) \in Bad(h, S) /\ from(n) \in Bad(h, S)
      BY <1>5
    <3> QED BY <3>1 DEF Stamped
  <2>2. new[j] = h[from(j)] /\ j # i /\ n # i /\ j \in DOMAIN new /\ n \in DOMAIN new
    BY <1>5
  <2>3. j = n
    BY <2>1, <2>2, <1>2
  <2> HIDE DEF from
  <2> QED BY <2>1, <2>2, <2>3
<1> QED BY <1>6 DEF Stamped

(* PutRaw keeps it when the entry is as the source has it, or when it is   *)
(* the first one, which gets version 1.                                    *)
LEMMA StampedPut ==
  ASSUME NEW h \in History, NEW val, NEW version, NewEntry(h, val, version) \in Entry,
         NEW new \in PutRaw(h, val, version), NEW S, Stamped(h, S),
         h # <<>> => \A m \in ToSet(S) : m.val = val => m.ver = NewVersion(h, version)
  PROVE  Stamped(new, S)
<1>1. PICK e : e = NewEntry(h, val, version)
  OBVIOUS
<1>2. e \in Entry /\ e.val = val /\ e.ver = NewVersion(h, version)
  BY <1>1 DEF NewEntry
<1>3. new \in SortedInserts(h, e)
  BY <1>1 DEF PutRaw
<1>4. CASE h = <<>>
  <2>1. e.ver = 1
    BY <1>2, <1>4 DEF NewVersion
  <2>2. Len(new) = 1 /\ new \in Seq(Entry) /\ ToSet(new) = {e}
    <3>1. ToSet(h) = {} /\ Len(h) = 0
      BY <1>4 DEF ToSet
    <3>2. Len(new) = Len(h) + 1 /\ new \in History
      BY <1>2, <1>3, SortedInsertsType
    <3>3. ToSet(new) = ToSet(h) \cup {e}
      BY <1>2, <1>3, SortedInsertsAdd
    <3> QED BY <3>1, <3>2, <3>3 DEF History
  <2>3. DOMAIN new = {1} /\ new[1] = e
    <3>1. DOMAIN new = 1..1
      BY <2>2, LenProperties
    <3>2. DOMAIN new = {1}
      BY <3>1
    <3> QED BY <2>2, <3>2 DEF ToSet
  <2> QED BY <2>1, <2>3 DEF Stamped, Bad
<1>5. CASE h # <<>>
  BY <1>2, <1>3, <1>5, StampedInsert
<1> QED BY <1>4, <1>5

LEMMA StampedPutAll ==
  ASSUME NEW h \in History, NEW entries \in History, NEW S \in History, OneEach(S),
         Stamped(h, S), ToSet(entries) \subseteq ToSet(S)
  PROVE  \A new \in PutAll(h, entries) : Stamped(new, S)
<1> DEFINE Good == {g \in History : Stamped(g, S)}
           T == [n \in 0..Len(entries) |-> Good]
<1>1. /\ Len(entries) \in Nat /\ DOMAIN entries = 1..Len(entries)
      /\ \A n \in 1..Len(entries) : entries[n] \in Entry
  BY DEF History
<1>2. h \in T[0] /\ T[Len(entries)] = Good
  BY <1>1
<1>3. ASSUME NEW n \in 1..Len(entries), NEW g \in T[n - 1]
      PROVE  PutRaw(g, entries[n].val, entries[n].ver) \subseteq T[n]
  <2>1. T[n - 1] = Good /\ T[n] = Good
    BY <1>1
  <2>2. g \in History /\ Stamped(g, S)
    BY <2>1
  <2>3. entries[n].val \in Nat /\ entries[n].ver \in Nat
    BY <1>1 DEF Entry
  <2>4. \A m \in ToSet(S) : m.val = entries[n].val => m.ver = entries[n].ver
    <3>1. entries[n] \in ToSet(S)
      BY <1>1 DEF ToSet
    <3> QED BY <3>1 DEF OneEach, ToSet
  <2>5. ASSUME NEW new \in PutRaw(g, entries[n].val, entries[n].ver)
        PROVE  new \in History /\ Stamped(new, S)
    <3>1. new \in History
      BY <2>2, <2>3, <2>5, PutRawType
    <3>2. NewEntry(g, entries[n].val, entries[n].ver) \in Entry
      BY <2>2, <2>3, NewEntryType
    <3>3. g # <<>> => NewVersion(g, entries[n].ver) = entries[n].ver
      BY <2>3, NoVersionAssumption DEF NewVersion
    <3>4. g # <<>> => \A m \in ToSet(S) :
            m.val = entries[n].val => m.ver = NewVersion(g, entries[n].ver)
      BY <2>4, <3>3
    <3> QED BY <2>2, <2>5, <3>1, <3>2, <3>4, StampedPut
  <2> QED BY <2>1, <2>5
<1> HIDE DEF T
<1>4. PutAll(h, entries) \subseteq T[Len(entries)]
  BY <1>2, <1>3, PutAllWithin
<1> QED BY <1>2, <1>4

(* What the source adds has a value no joiner has yet. *)
LEMMA StampedGrow ==
  ASSUME NEW h, NEW S, NEW R, NEW e, ToSet(R) = ToSet(S) \cup {e},
         e.val \notin Vals(h), Stamped(h, S)
  PROVE  Stamped(h, R)
<1>1. Bad(h, R) \subseteq Bad(h, S)
  BY DEF Bad, Vals
<1> QED BY <1>1 DEF Stamped

LEMMA RestampStep ==
  ASSUME TypeOK, WireInv, SourceInv, RoutedInv, RestampsAtMostFirst, Next
  PROVE  RestampsAtMostFirst'
<1> SUFFICES ASSUME NEW j \in Joiners, NEW k \in Keys
    PROVE  Stamped(jstore'[j][k], store'[k])
  <2>1. RestampsAtMostFirst' <=> \A j \in Joiners, k \in Keys : Stamped(jstore'[j][k], store'[k])
    <3>1. ASSUME NEW j \in Joiners, NEW k \in Keys
          PROVE  Restamped(j, k)' = Bad(jstore'[j][k], store'[k])
      BY DEF Restamped, Bad, ToSet
    <3> QED BY <3>1 DEF RestampsAtMostFirst, Stamped
  <2> QED BY <2>1
<1>1. /\ jstore \in [Joiners -> [Keys -> History]] /\ store \in [Keys -> History]
      /\ store[k] \in History
  BY DEF TypeOK
<1>2. Stamped(jstore[j][k], store[k])
  BY StampedEach
<1>3. CASE store'[k] = store[k] /\ jstore'[j][k] = jstore[j][k]
  BY <1>2, <1>3
<1>4. CASE \E s \in Streams : Consume(s) /\ wire[s][1].kind \notin Marks
  <2>1. PICK s \in Streams : Consume(s) /\ wire[s][1].kind \notin Marks
    BY <1>4
  <2>2. PICK event : event = wire[s][1]
    OBVIOUS
  <2>3. PICK es \in PutAll(jstore[Of(s)][event.key], event.entries) :
          /\ jstore' = [jstore EXCEPT ![Of(s)][event.key] = es]
          /\ event.key \in Keys /\ event.entries \in History
          /\ jstore[Of(s)][event.key] \in History
    BY <2>1, <2>2, ConsumeArrives
  <2>4. store' = store
    BY <2>1 DEF Consume, source
  <2>5. CASE j = Of(s) /\ k = event.key
    <3>1. jstore'[j][k] = es
      BY <1>1, <2>3, <2>5
    <3>2. 1 \in DOMAIN wire[s]
      BY <2>1, TailIndex DEF TypeOK, Consume
    <3>3. ToSet(event.entries) \subseteq ToSet(store[k]) /\ OneEach(store[k])
      BY <2>1, <2>2, <2>5, <3>2 DEF SourceInv
    <3>4. Stamped(es, store[k])
      BY <1>1, <1>2, <2>3, <2>5, <3>3, StampedPutAll
    <3> QED BY <2>4, <3>1, <3>4
  <2>6. CASE ~(j = Of(s) /\ k = event.key)
    BY <1>1, <1>3, <2>3, <2>4, <2>6
  <2> QED BY <2>5, <2>6
<1>5. CASE \E i \in Joiners : JoinerPut(i)
  <2>1. PICK i \in Joiners : JoinerPut(i)
    BY <1>5
  <2>2. PICK m \in Keys, version \in Nat \cup {NoVersion} :
          \E es \in PutRaw(jstore[i][m], writes', version) :
            jstore[i][m] \in History /\ jstore' = [jstore EXCEPT ![i][m] = es]
    BY <2>1, JoinerPutEffect
  <2>3. PICK es \in PutRaw(jstore[i][m], writes', version) :
          jstore[i][m] \in History /\ jstore' = [jstore EXCEPT ![i][m] = es]
    BY <2>2
  <2>4. store' = store
    BY <2>1 DEF JoinerPut, source
  <2>5. CASE j = i /\ k = m
    <3>1. jstore'[j][k] = es
      BY <1>1, <2>3, <2>5
    <3>2. writes \in Nat /\ writes' = writes + 1
      BY <2>1, JoinerPutEffect
    <3>3. writes' \notin Vals(store[k])
      <4>1. Vals(store[k]) \subseteq Nat /\ \A v \in Vals(store[k]) : v <= writes
        BY <1>1, ValsNat DEF SourceInv
      <4> QED BY <3>2, <4>1
    <3>4. \A e \in ToSet(store[k]) : e.val # writes'
      BY <3>3, ValsOfSet
    <3>5. Stamped(es, store[k])
      <4>1. jstore[j][k] \in History /\ es \in PutRaw(jstore[j][k], writes', version)
        BY <2>3, <2>5
      <4>2. NewEntry(jstore[j][k], writes', version) \in Entry
        <5>1. writes' \in Nat
          BY <3>2
        <5> QED BY <4>1, <5>1, NewEntryType
      <4> QED BY <1>2, <3>4, <4>1, <4>2, StampedPut
    <3> QED BY <2>4, <3>1, <3>5
  <2>6. CASE ~(j = i /\ k = m)
    BY <1>1, <1>3, <2>3, <2>4, <2>6
  <2> QED BY <2>5, <2>6
<1>6. CASE jstore' = jstore /\ store'[k] # store[k]
  <2>1. PICK u \in Writers, e \in Entry :
          /\ put[u].pc = "routed" /\ put[u].key \in Keys
          /\ e.val = put[u].entry.val
          /\ \E es \in SortedInserts(store[put[u].key], e) :
               store' = [store EXCEPT ![put[u].key] = es]
    BY <1>6, StoreStep
  <2>2. put[u].key = k
    BY <1>1, <1>6, <2>1
  <2>3. store'[k] \in SortedInserts(store[k], e)
    BY <1>1, <2>1, <2>2
  <2>4. ToSet(store'[k]) = ToSet(store[k]) \cup {e}
    BY <1>1, <2>3, SortedInsertsAdd
  <2>5. e.val \notin Vals(jstore[j][k])
    BY <2>1 DEF RoutedInv
  <2> QED BY <1>2, <1>6, <2>4, <2>5, StampedGrow
<1> QED BY <1>3, <1>4, <1>5, <1>6, JoinerStep

-----------------------------------------------------------------------------
(* The invariant holds at the start, and every step keeps it. *)

LEMMA InvInit ==
  ASSUME Init PROVE IInv
<1>1. TypeOK
  BY TypeInit
<1>2. \A s \in Streams :
        /\ snap[s] = FreshSnap /\ tick[s] = "off" /\ stream[s] = FreshStream
        /\ wire[s] = <<>> /\ ~conn[s] /\ ended[s] = "no" /\ asked[s] = "no"
  BY DEF Init, FreshSnap, FreshStream
<1>3. hook = NoStream /\ ~crashed /\ writes = 0
  BY DEF Init
<1>4. \A w \in Writers : put[w].pc = "idle"
  BY DEF Init, NoPut
<1>5. \A j \in Joiners : state[j] = "JOINING" /\ jstore[j] = EmptyStore
  BY DEF Init
<1>6. \A s \in Streams : s # NoStream
  BY NoStreamAssumption
<1>7. DOMAIN <<>> = {} /\ ToSet(<<>>) = {} /\ Vals(<<>>) = {}
  BY DEF ToSet, Vals
<1>8. \A k \in Keys : EmptyStore[k] = <<>>
  BY DEF EmptyStore
<1>9. ControlInv
  <2> SUFFICES ASSUME NEW s \in Streams PROVE FreshAt(s) /\ OrderAt(s) /\ HookAt(s)
    BY DEF ControlInv
  <2>1. FreshAt(s)
    BY <1>2 DEF FreshAt
  <2>2. /\ snap[s].pc = "off" /\ snap[s].todo = {} /\ snap[s].copy = EmptyStore
        /\ stream[s].ss = "open" /\ stream[s].live = "open" /\ tick[s] = "off"
        /\ stream[s].ssSent = FALSE /\ stream[s].liveSent = FALSE
    BY <1>2 DEF FreshSnap, FreshStream
  <2>3. OrderAt(s)
    BY <2>2 DEF OrderAt
  <2>4. HookAt(s)
    BY <1>3, <1>6 DEF HookAt
  <2> QED BY <2>1, <2>3, <2>4
<1>10. WireInv
  BY <1>2, <1>7 DEF WireInv, WireAt
<1>11. ResetAssigned
  BY <1>3 DEF ResetAssigned
<1>12. \A s \in Streams, k \in Keys : snap[s].copy[k] = <<>>
  BY <1>2, <1>8 DEF FreshSnap
<1>13. CopyInv
  BY <1>7, <1>12 DEF CopyInv, CopyAt
<1>14. AvailInv
  BY <1>5 DEF AvailInv
<1>15. AccountInv
  BY <1>3, <1>6 DEF AccountInv, Replicating
<1>16. SourceInv
  <2>1. \A k \in Keys : store[k] = <<>> \/ store[k] = <<[val |-> 0, ver |-> 1]>>
    BY DEF Init
  <2>2. ASSUME NEW k \in Keys
        PROVE  OneEach(store[k]) /\ \A v \in Vals(store[k]) : v <= writes
    <3>1. CASE store[k] = <<>>
      BY <1>7, <3>1 DEF OneEach
    <3>2. CASE store[k] = <<[val |-> 0, ver |-> 1]>>
      <4>1. DOMAIN store[k] = {1} /\ store[k][1].val = 0
        BY <3>2
      <4> QED BY <1>3, <4>1 DEF OneEach, Vals
    <3> QED BY <2>1, <3>1, <3>2
  <2> QED BY <1>2, <1>4, <1>7, <1>12, <2>2 DEF SourceInv
<1>17. \A j \in Joiners, k \in Keys : jstore[j][k] = <<>>
  BY <1>5, <1>8
<1>18. RoutedInv
  BY <1>4, <1>7, <1>17 DEF RoutedInv
<1>19. RestampsAtMostFirst
  BY <1>7, <1>17 DEF RestampsAtMostFirst, Restamped
<1> QED BY <1>1, <1>9, <1>10, <1>11, <1>13, <1>14, <1>15, <1>16, <1>18, <1>19 DEF IInv

LEMMA InvStutter ==
  ASSUME IInv, UNCHANGED vars PROVE IInv'
<1> USE DEF vars, system, source, joiner
<1>1. TypeOK'
  BY DEF IInv, TypeOK
<1>2. ControlInv'
  BY DEF IInv, ControlInv, FreshAt, OrderAt, HookAt
<1>3. WireInv'
  BY DEF IInv, WireInv, WireAt, Finished
<1>4. ResetAssigned'
  BY DEF IInv, ResetAssigned
<1>11. ASSUME NEW s, NEW k, NEW v
       PROVE  /\ InSnapshot(s, k, v)' <=> InSnapshot(s, k, v)
              /\ OnWire(s, k, v)' <=> OnWire(s, k, v)
              /\ Arrived(Of(s), k, v)' <=> Arrived(Of(s), k, v)
              /\ InHookOf(s, k, v)' <=> InHookOf(s, k, v)
  BY DEF InSnapshot, OnWire, Arrived, InHookOf, Vals, Of
<1>12. ASSUME NEW s, NEW i, NEW k, NEW v
       PROVE  Before(s, i, k, v)' <=> Before(s, i, k, v)
  BY DEF Before, Vals
<1>5. CopyInv'
  <2> SUFFICES ASSUME NEW s \in Streams, NEW k \in Keys, NEW v \in Vals(snap'[s].copy[k])
               PROVE  /\ conn'[s] /\ ~stream'[s].ssSent =>
                           InSnapshot(s, k, v)' \/ OnWire(s, k, v)' \/ Arrived(Of(s), k, v)'
                      /\ \A i \in DOMAIN wire'[s] : wire'[s][i].kind = "snapshotComplete" =>
                           Before(s, i, k, v)' \/ Arrived(Of(s), k, v)'
    BY DEF CopyInv, CopyAt, Vals
  <2>1. snap' = snap /\ conn' = conn /\ stream' = stream /\ wire' = wire
    OBVIOUS
  <2>2. v \in Vals(snap[s].copy[k])
    BY <2>1
  <2>3. /\ conn[s] /\ ~stream[s].ssSent =>
             InSnapshot(s, k, v) \/ OnWire(s, k, v) \/ Arrived(Of(s), k, v)
        /\ \A i \in DOMAIN wire[s] : wire[s][i].kind = "snapshotComplete" =>
             Before(s, i, k, v) \/ Arrived(Of(s), k, v)
    BY <2>2 DEF IInv, CopyInv, CopyAt
  <2> HIDE DEF vars, system, source, joiner
  <2> QED BY <2>1, <2>3, <1>11, <1>12
<1>6. AvailInv'
  <2> SUFFICES ASSUME NEW j \in Joiners, state'[j] = "AVAILABLE"
               PROVE  \E s \in Streams : PastMark(s, j)'
    BY DEF AvailInv
  <2>1. PICK s \in Streams : PastMark(s, j)
    BY DEF IInv, AvailInv
  <2>2. Of(s)' = Of(s) /\ snap' = snap /\ jstore' = jstore /\ stream' = stream /\ wire' = wire
    BY DEF Of
  <2>3. \A k \in Keys : Vals(snap'[s].copy[k]) \subseteq Vals(jstore'[j][k])
    BY <2>1, <2>2 DEF PastMark
  <2>4. PastMark(s, j)'
    BY <2>1, <2>2, <2>3 DEF PastMark, Vals
  <2> QED BY <2>4
<1>7. AccountInv'
  <2> SUFFICES ASSUME NEW s \in Streams, Replicating(s)', NEW k \in Covers[Of(s)],
                      NEW v \in Vals(store'[k])
               PROVE  Accounted(s, k, v)'
    BY DEF AccountInv, Vals, Of
  <2>1. Replicating(s) /\ v \in Vals(store[k])
    BY DEF Replicating
  <2>2. Accounted(s, k, v)
    BY <2>1 DEF IInv, AccountInv
  <2> QED BY <2>2, <1>11 DEF Accounted
<1>8. SourceInv'
  <2>1. /\ store' = store /\ writes' = writes /\ snap' = snap /\ wire' = wire /\ put' = put
    OBVIOUS
  <2>2. \A k \in Keys : OneEach(store'[k]) /\ \A v \in Vals(store'[k]) : v <= writes'
    BY <2>1 DEF IInv, SourceInv
  <2>3. \A s \in Streams, k \in Keys : ToSet(snap'[s].copy[k]) \subseteq ToSet(store'[k])
    BY <2>1 DEF IInv, SourceInv
  <2>4. \A s \in Streams : \A i \in DOMAIN wire'[s] : wire'[s][i].kind \notin Marks =>
          ToSet(wire'[s][i].entries) \subseteq ToSet(store'[wire'[s][i].key])
    BY <2>1 DEF IInv, SourceInv
  <2>5. \A w \in Writers : put'[w].pc \in {"hook", "sending"} =>
          put'[w].entry \in ToSet(store'[put'[w].key])
    BY <2>1 DEF IInv, SourceInv
  <2> HIDE DEF vars, system, source, joiner
  <2> QED BY <2>2, <2>3, <2>4, <2>5 DEF SourceInv, OneEach, Vals, ToSet
<1>9. RoutedInv'
  BY DEF IInv, RoutedInv, Vals
<1>10. RestampsAtMostFirst'
  BY DEF IInv, RestampsAtMostFirst, Restamped
<1> QED BY <1>1, <1>2, <1>3, <1>4, <1>5, <1>6, <1>7, <1>8, <1>9, <1>10 DEF IInv

LEMMA InvStep ==
  ASSUME IInv, Next PROVE IInv'
<1>1. /\ TypeOK /\ ControlInv /\ WireInv /\ ResetAssigned
      /\ CopyInv /\ AvailInv /\ AccountInv
      /\ SourceInv /\ RoutedInv /\ RestampsAtMostFirst
  BY DEF IInv
<1>2. TypeOK' /\ ControlInv' /\ WireInv' /\ ResetAssigned'
  BY <1>1, TypeStep, ControlStep, WireInvStep, ResetStep
<1>3. CopyInv'
  BY <1>1, CopyStep DEF CopyInv
<1>4. AvailInv' /\ AccountInv'
  BY <1>1, AvailStep, AccountStep
<1>5. SourceInv' /\ RoutedInv' /\ RestampsAtMostFirst'
  BY <1>1, SourceStep, RoutedStep, RestampStep
<1> QED BY <1>2, <1>3, <1>4, <1>5 DEF IInv

(* It holds in every reachable state. *)
LEMMA Invariance == Spec => []IInv
<1>1. Init => IInv
  BY InvInit
<1>2. IInv /\ [Next]_vars => IInv'
  BY InvStep, InvStutter
<1> QED BY <1>1, <1>2, PTL DEF Spec

-----------------------------------------------------------------------------
(* What the runs check *)

(* Every variable keeps its type: what a handler writes to a stream and    *)
(* what a joiner stores are events and histories.                          *)
THEOREM TypeCorrect == Spec => []TypeOK
<1>1. IInv => TypeOK
  BY DEF IInv
<1> QED BY <1>1, Invariance, PTL

(* From the copy on, and as long as the stream has its hook, its channel   *)
(* and its connection, no write of the source that concerns the joiner is  *)
(* lost (Snapshot installs the hook before it copies).                     *)
THEOREM WritesAccounted == Spec => []WriteAccounted
<1>1. IInv => WriteAccounted
  <2> SUFFICES ASSUME IInv, NEW s \in Streams, Replicating(s), NEW k \in Covers[Of(s)],
                      NEW v \in Vals(store[k])
               PROVE  InSnapshot(s, k, v) \/ InHook(k, v) \/ OnWire(s, k, v)
                        \/ Arrived(Of(s), k, v)
    BY DEF WriteAccounted, Replicating
  <2>1. Accounted(s, k, v)
    BY DEF IInv, AccountInv
  <2>2. InHookOf(s, k, v) => InHook(k, v)
    BY NoStreamAssumption DEF InHookOf, InHook
  <2> QED BY <2>1, <2>2 DEF Accounted
<1> QED BY <1>1, Invariance, PTL

(* A node that handleBootstrapping made AVAILABLE holds all of a snapshot  *)
(* it was sent, whatever live mutations and other streams came between.    *)
THEOREM AvailableIsFull == Spec => []AvailableHasSnapshot
<1>1. IInv => AvailableHasSnapshot
  <2> SUFFICES ASSUME IInv, NEW j \in Joiners, state[j] = "AVAILABLE"
               PROVE  \E s \in Streams :
                        /\ Of(s) = j /\ stream[s].ssSent
                        /\ \A k \in Covers[j] : Vals(snap[s].copy[k]) \subseteq Vals(jstore[j][k])
    BY DEF AvailableHasSnapshot
  <2>1. PICK s \in Streams : PastMark(s, j)
    BY DEF IInv, AvailInv
  <2> QED BY <2>1, CoversAssumption DEF PastMark
<1> QED BY <1>1, Invariance, PTL

(* PutRaw gives the first entry of a key version 1 whatever the source     *)
(* says; no other entry of a joiner differs from the source's.             *)
THEOREM OnlyFirstRestamped == Spec => []RestampsAtMostFirst
<1>1. IInv => RestampsAtMostFirst
  BY DEF IInv
<1> QED BY <1>1, Invariance, PTL

(* A stream says snapshotComplete once, after all of the snapshot, and     *)
(* liveComplete last; a node is AVAILABLE only past a snapshotComplete.    *)
THEOREM InOrder == Spec => []StreamInOrder
<1>1. IInv => StreamInOrder
  <2> SUFFICES ASSUME IInv PROVE StreamInOrder
    OBVIOUS
  <2>1. WireInv /\ AvailInv
    BY DEF IInv
  <2>2. ASSUME NEW s \in Streams
        PROVE  /\ \A i \in DOMAIN wire[s] :
                    /\ wire[s][i].kind = "liveComplete" => i = Len(wire[s])
                    /\ wire[s][i].kind = "snapshotComplete" =>
                         \A n \in DOMAIN wire[s] : n > i => wire[s][n].kind \in AfterSnapshot
               /\ ended[s] = "complete" => wire[s] = <<>> /\ Finished(s)
    BY <2>1 DEF WireInv, WireAt
  <2>3. ASSUME NEW j \in Joiners, state[j] = "AVAILABLE"
        PROVE  \E s \in Streams :
                 /\ Of(s) = j /\ stream[s].ssSent
                 /\ \A i \in DOMAIN wire[s] : wire[s][i].kind \in AfterSnapshot
    BY <2>1, <2>3 DEF AvailInv, PastMark
  <2> QED BY <2>2, <2>3 DEF StreamInOrder
<1> QED BY <1>1, Invariance, PTL

(* When the ticker of a stream is done, the store has not got its hook:    *)
(* the reset was assigned before the ticker could call it.                 *)
THEOREM HookGone == Spec => []NoHookAfterStop
<1>1. IInv => NoHookAfterStop
  BY DEF IInv, ControlInv, HookAt, NoHookAfterStop
<1> QED BY <1>1, Invariance, PTL

(* The process ends only where the reset was never going to be assigned,   *)
(* for a joiner that gossip had not announced.                             *)
THEOREM ResetWasAssigned == Spec => []ResetAssigned
<1>1. IInv => ResetAssigned
  BY DEF IInv
<1> QED BY <1>1, Invariance, PTL
=============================================================================
