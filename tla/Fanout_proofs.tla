---------------------------- MODULE Fanout_proofs ---------------------------
(***************************************************************************)
(* The promises of RunUntilMinSuccessOrTimeout, for any number of workers  *)
(* and any quorum.                                                         *)
(***************************************************************************)
EXTENDS Fanout, FiniteSetTheorems, SequenceTheorems, TLAPS

(* The workers whose result has gone into the channel, those of them with  *)
(* a good one, and those of these that have not counted it yet.            *)
Pushed == {r.of : r \in ToSet(rChan) \cup ToSet(output)}
Good == {r.of : r \in Results(rChan, TRUE) \cup Results(output, TRUE)}
Counting == {w \in Work : worker[w] = "counting"}

(* success counts the good results but for those in "counting"; a worker   *)
(* sends one result, and a good one only when the other node has done the  *)
(* work.                                                                   *)
CountInv ==
  /\ success = Cardinality(Good \ Counting)
  /\ Counting \subseteq Good
  /\ Good \subseteq served
  /\ \A w \in Work : worker[w] = "ok" => w \in served
  /\ \A w \in Pushed : worker[w] \in {"counting", "finished"}

(* The caller returns after all workers. *)
EndInv ==
  /\ closed => \A w \in Work : worker[w] = "finished"
  /\ caller = "returned" => closed /\ rChan = <<>>

(* Until the caller returns the context ends for two reasons only, and     *)
(* without them no worker drops its result.                                *)
Enough == timedOut \/ success >= minSuccess
QuorumInv ==
  /\ done => Enough \/ caller = "returned"
  /\ \A w \in Work : worker[w] = "finished" => w \in Pushed \/ Enough

IInv == TypeOK /\ CountInv /\ EndInv /\ QuorumInv

-----------------------------------------------------------------------------
(* Sequences of results as sets *)

(* What is appended is added. *)
LEMMA AppendSet ==
  ASSUME NEW S, NEW s \in Seq(S), NEW e \in S
  PROVE  ToSet(Append(s, e)) = ToSet(s) \cup {e}
<1>1. DOMAIN s = 1..Len(s) /\ Len(s) \in Nat
  BY LenProperties
<1>2. /\ DOMAIN Append(s, e) = 1..(Len(s) + 1)
      /\ \A i \in 1..Len(s) : Append(s, e)[i] = s[i]
      /\ Append(s, e)[Len(s) + 1] = e
  BY AppendProperties, LenProperties
<1>3. 1..(Len(s) + 1) = 1..Len(s) \cup {Len(s) + 1}
  BY <1>1
<1> QED BY <1>1, <1>2, <1>3 DEF ToSet

(* The head and the rest make up the sequence. *)
LEMMA HeadTailSet ==
  ASSUME NEW S, NEW s \in Seq(S), s # <<>>
  PROVE  /\ ToSet(s) = {Head(s)} \cup ToSet(Tail(s))
         /\ Head(s) \in S /\ Tail(s) \in Seq(S)
<1>1. /\ Head(s) \in S /\ Tail(s) \in Seq(S)
      /\ Len(Tail(s)) = Len(s) - 1
      /\ \A i \in 1..Len(Tail(s)) : Tail(s)[i] = s[i + 1]
      /\ Head(s) = s[1]
  BY HeadTailProperties
<1>2. DOMAIN s = 1..Len(s) /\ Len(s) \in Nat \ {0} /\ DOMAIN Tail(s) = 1..Len(Tail(s))
  BY <1>1, LenProperties, EmptySeq
<1>3. \A i \in DOMAIN s : s[i] \in {Head(s)} \cup ToSet(Tail(s))
  <2> SUFFICES ASSUME NEW i \in DOMAIN s PROVE s[i] \in {Head(s)} \cup ToSet(Tail(s))
    OBVIOUS
  <2>1. CASE i = 1
    BY <2>1, <1>1
  <2>2. CASE i # 1
    <3>1. i - 1 \in DOMAIN Tail(s) /\ Tail(s)[i - 1] = s[i]
      BY <2>2, <1>1, <1>2
    <3> QED BY <3>1 DEF ToSet
  <2> QED BY <2>1, <2>2
<1>4. \A i \in DOMAIN Tail(s) : i + 1 \in DOMAIN s /\ Tail(s)[i] = s[i + 1]
  BY <1>1, <1>2
<1>5. Head(s) \in ToSet(s)
  BY <1>1, <1>2 DEF ToSet
<1>6. ToSet(Tail(s)) \subseteq ToSet(s)
  BY <1>4 DEF ToSet
<1>7. ToSet(s) \subseteq {Head(s)} \cup ToSet(Tail(s))
  BY <1>3 DEF ToSet
<1> QED BY <1>1, <1>5, <1>6, <1>7

(* The sets of workers are finite. *)
LEMMA Finite ==
  ASSUME TypeOK
  PROVE  /\ Pushed \subseteq Work /\ Good \subseteq Pushed /\ Counting \subseteq Work
         /\ \A S \in SUBSET Work : IsFiniteSet(S) /\ Cardinality(S) \in Nat
                                  /\ Cardinality(S) <= Cardinality(Work)
<1>1. ToSet(rChan) \subseteq Result /\ ToSet(output) \subseteq Result
  BY DEF TypeOK, ToSet
<1>2. Pushed \subseteq Work
  BY <1>1 DEF Pushed, Result
<1>3. Good \subseteq Pushed
  BY DEF Good, Pushed, Results
<1>4. \A S \in SUBSET Work : IsFiniteSet(S) /\ Cardinality(S) \in Nat
                          /\ Cardinality(S) <= Cardinality(Work)
  BY WorkAssumption, FS_Subset, FS_CardinalityType
<1> QED BY <1>2, <1>3, <1>4 DEF Counting
-----------------------------------------------------------------------------
(* The inductive invariant *)

(* It holds at the start. *)
LEMMA InitInv == Init => IInv
<1> SUFFICES ASSUME Init PROVE IInv
  OBVIOUS
<1>1. TypeOK
  <2>1. 0 \in 0..Cardinality(Work)
    BY WorkAssumption, FS_CardinalityType
  <2>2. <<>> \in Seq(Result)
    BY EmptySeq
  <2> QED BY <2>1, <2>2 DEF Init, TypeOK
<1>2. Pushed = {} /\ Good = {} /\ Counting = {}
  <2>1. ToSet(<<>>) = {}
    BY DEF ToSet
  <2> QED BY <2>1 DEF Init, Pushed, Good, Results, Counting
<1>3. CountInv
  BY <1>2, FS_EmptySet DEF Init, CountInv
<1> QED BY <1>1, <1>3 DEF Init, IInv, EndInv, QuorumInv

(* A step that neither sends nor counts a result. *)
LEMMA QuietStep ==
  ASSUME IInv, TypeOK', UNCHANGED <<minSuccess, success, rChan, output>>,
         served \subseteq served',
         \A w \in Work : worker'[w] = "counting" <=> worker[w] = "counting",
         \A w \in Work : worker[w] = "finished" => worker'[w] = "finished",
         \A w \in Work : worker'[w] = "ok" => w \in served'
  PROVE  CountInv' /\ UNCHANGED <<Pushed, Good>>
<1>1. UNCHANGED <<Pushed, Good, Counting>>
  BY DEF Pushed, Good, Results, Counting
<1>2. Pushed \subseteq Work
  BY Finite DEF IInv
<1> QED BY <1>1, <1>2 DEF IInv, CountInv

(* Starting the workers. *)
LEMMA StartInv ==
  ASSUME IInv, (\E w \in Work : Start(w)) \/ AllStarted
  PROVE  IInv'
<1> USE DEF http, ctx, Goto
<1>1. TypeOK'
  BY DEF IInv, TypeOK, Start, AllStarted
<1>2. CountInv' /\ UNCHANGED <<Pushed, Good>>
  <2>1. /\ UNCHANGED <<minSuccess, success, rChan, output, served>>
        /\ \A w \in Work : worker'[w] = "counting" <=> worker[w] = "counting"
        /\ \A w \in Work : worker[w] = "finished" => worker'[w] = "finished"
        /\ \A w \in Work : worker'[w] = "ok" => worker[w] = "ok"
    BY DEF IInv, TypeOK, Start, AllStarted
  <2>2. \A w \in Work : worker'[w] = "ok" => w \in served'
    BY <2>1 DEF IInv, CountInv
  <2> QED BY <1>1, <2>1, <2>2, QuietStep
<1>3. EndInv'
  BY DEF IInv, TypeOK, EndInv, Start, AllStarted
<1>4. QuorumInv'
  BY <1>2 DEF IInv, TypeOK, QuorumInv, Enough, Start, AllStarted
<1> QED BY <1>1, <1>2, <1>3, <1>4 DEF IInv

(* Collecting moves a result to the output. *)
LEMMA CollectInv ==
  ASSUME IInv, Collect
  PROVE  IInv'
<1>1. /\ ToSet(rChan) = {Head(rChan)} \cup ToSet(Tail(rChan))
      /\ Head(rChan) \in Result /\ Tail(rChan) \in Seq(Result)
  BY HeadTailSet DEF IInv, TypeOK, Collect
<1>2. output' \in Seq(Result) /\ ToSet(output') = ToSet(output) \cup {Head(rChan)}
  BY <1>1, AppendSet, AppendProperties DEF IInv, TypeOK, Collect
<1>3. TypeOK'
  BY <1>1, <1>2 DEF IInv, TypeOK, Collect, http, ctx
<1>4. ToSet(rChan') \cup ToSet(output') = ToSet(rChan) \cup ToSet(output)
  BY <1>1, <1>2 DEF Collect
<1>5. UNCHANGED <<Pushed, Good, Counting>>
  BY <1>4 DEF Pushed, Good, Results, Counting, Collect
<1> QED
  BY <1>3, <1>5 DEF IInv, CountInv, EndInv, QuorumInv, Enough, Collect, http, ctx

(* Closing the channel, returning, and the timeout. *)
LEMMA EndStepsInv ==
  ASSUME IInv, Close \/ Return \/ TimeOut
  PROVE  IInv'
<1> USE DEF http, ctx
<1>1. TypeOK'
  BY DEF IInv, TypeOK, Close, Return, TimeOut
<1>2. CountInv' /\ UNCHANGED <<Pushed, Good>>
  <2>1. UNCHANGED <<minSuccess, success, rChan, output, served, worker>>
    BY DEF Close, Return, TimeOut
  <2> QED BY <1>1, <2>1, QuietStep DEF IInv, CountInv
<1> QED
  BY <1>1, <1>2 DEF IInv, EndInv, QuorumInv, Enough, Close, Return, TimeOut

(* Making the request, and its outcome. *)
LEMMA RequestInv ==
  ASSUME IInv, NEW v \in Work, Call(v) \/ Answer(v) \/ Fail(v) \/ Serve(v) \/ Lose(v)
  PROVE  IInv'
<1> USE DEF http, ctx, Goto
<1>1. TypeOK'
  BY DEF IInv, TypeOK, Call, Answer, Fail, Serve, Lose, inflight
<1>2. /\ UNCHANGED <<minSuccess, success, rChan, output, closed, caller, ctx>>
      /\ served \subseteq served'
      /\ \A w \in Work : worker'[w] = "counting" <=> worker[w] = "counting"
      /\ \A w \in Work : worker'[w] = "finished" <=> worker[w] = "finished"
      /\ \A w \in Work : worker'[w] = "ok" => worker[w] = "ok" \/ w \in served
  BY DEF IInv, TypeOK, Call, Answer, Fail, Serve, Lose
<1>3. CountInv' /\ UNCHANGED <<Pushed, Good>>
  <2>1. \A w \in Work : worker'[w] = "ok" => w \in served'
    BY <1>2 DEF IInv, CountInv
  <2> QED BY <1>1, <1>2, <2>1, QuietStep
<1> QED BY <1>1, <1>2, <1>3 DEF IInv, EndInv, QuorumInv, Enough

(* Sending the result: a good one is not counted before its worker is.     *)
LEMMA PushInv ==
  ASSUME IInv, NEW v \in Work, Push(v)
  PROVE  IInv'
<1> USE DEF http, ctx, Goto
<1> DEFINE r == [of |-> v, ok |-> worker[v] = "ok"]
<1>1. /\ worker[v] \in {"ok", "err"} /\ r \in Result /\ rChan' = Append(rChan, r)
      /\ UNCHANGED <<minSuccess, http, success, ctx, closed, caller, output>>
  BY DEF Push, Result
<1>2. rChan' \in Seq(Result) /\ ToSet(rChan') = ToSet(rChan) \cup {r}
  BY <1>1, AppendSet, AppendProperties DEF IInv, TypeOK
<1>3. TypeOK'
  BY <1>2 DEF IInv, TypeOK, Push
<1>4. Pushed' = Pushed \cup {v}
  BY <1>1, <1>2 DEF Pushed
<1>5. /\ worker'[v] = IF worker[v] = "ok" THEN "counting" ELSE "finished"
      /\ \A w \in Work : w # v => worker'[w] = worker[w]
  BY DEF IInv, TypeOK, Push
<1>6. v \notin Pushed /\ v \notin Good /\ Good \subseteq Pushed /\ Pushed \subseteq Work
  BY <1>1, Finite DEF IInv, CountInv
<1>r. r.of = v /\ r.ok = (worker[v] = "ok")
  OBVIOUS
<1> HIDE DEF r
<1>7. CASE worker[v] = "ok"
  <2>0. Results(rChan', TRUE) = Results(rChan, TRUE) \cup {r}
    <3>1. r.ok = TRUE
      BY <1>r, <1>7
    <3> QED BY <1>2, <3>1 DEF Results
  <2>1. Good' = Good \cup {v}
    BY <1>1, <1>r, <2>0 DEF Good, Results
  <2>2. Counting' = Counting \cup {v}
    BY <1>5, <1>7 DEF Counting
  <2>3. Good' \ Counting' = Good \ Counting
    BY <1>6, <2>1, <2>2
  <2>4. CountInv'
    BY <1>1, <1>4, <1>5, <1>6, <1>7, <2>1, <2>2, <2>3 DEF IInv, CountInv
  <2>5. QuorumInv'
    BY <1>1, <1>4, <1>5, <1>7 DEF IInv, QuorumInv, Enough
  <2>6. EndInv'
    BY <1>1, <1>5 DEF IInv, EndInv
  <2> QED BY <1>3, <2>4, <2>5, <2>6 DEF IInv
<1>8. CASE worker[v] = "err"
  <2>0. Results(rChan', TRUE) = Results(rChan, TRUE)
    <3>1. r.ok # TRUE
      BY <1>r, <1>8
    <3> QED BY <1>2, <3>1 DEF Results
  <2>1. Good' = Good
    BY <1>1, <2>0 DEF Good, Results
  <2>2. Counting' = Counting
    BY <1>5, <1>8 DEF Counting
  <2>3. CountInv'
    BY <1>1, <1>4, <1>5, <1>6, <1>8, <2>1, <2>2 DEF IInv, CountInv
  <2>4. QuorumInv'
    BY <1>1, <1>4, <1>5, <1>8 DEF IInv, QuorumInv, Enough
  <2>5. EndInv'
    BY <1>1, <1>5 DEF IInv, EndInv
  <2> QED BY <1>3, <2>3, <2>4, <2>5 DEF IInv
<1> QED BY <1>1, <1>7, <1>8

(* Counting a good result, which may end the context. *)
LEMMA CountStepInv ==
  ASSUME IInv, NEW v \in Work, Count(v)
  PROVE  IInv'
<1> USE DEF http, ctx, Goto
<1>1. /\ worker[v] = "counting" /\ success' = success + 1
      /\ done' = (done \/ success' >= minSuccess)
      /\ UNCHANGED <<minSuccess, http, timedOut, rChan, closed, caller, output>>
      /\ worker'[v] = "finished"
      /\ \A w \in Work : w # v => worker'[w] = worker[w]
  BY DEF Count, IInv, TypeOK
<1>2. UNCHANGED <<Pushed, Good>>
  BY <1>1 DEF Pushed, Good, Results
<1>3. Counting' = Counting \ {v} /\ v \in Counting
  BY <1>1 DEF Counting
<1>4. /\ Good \subseteq Work /\ v \in Good /\ Pushed \subseteq Work
      /\ v \notin Good \ Counting /\ IsFiniteSet(Good \ Counting)
      /\ Good' \ Counting' = (Good \ Counting) \cup {v}
  BY <1>2, <1>3, Finite DEF IInv, CountInv
<1>5. success' = Cardinality(Good' \ Counting') /\ success' \in 0..Cardinality(Work)
  <2>1. Cardinality((Good \ Counting) \cup {v}) = Cardinality(Good \ Counting) + 1
    BY <1>4, FS_AddElement
  <2>2. success' = Cardinality(Good' \ Counting')
    BY <1>1, <1>4, <2>1 DEF IInv, CountInv
  <2>3. (Good \ Counting) \cup {v} \in SUBSET Work
    BY <1>4
  <2> QED BY <1>4, <2>2, <2>3, Finite, WorkAssumption, FS_CardinalityType DEF IInv
<1>6. TypeOK'
  BY <1>1, <1>5 DEF IInv, TypeOK, Count
<1>7. CountInv'
  BY <1>1, <1>2, <1>3, <1>4, <1>5 DEF IInv, CountInv
<1>8. EndInv'
  BY <1>1 DEF IInv, EndInv
<1>9. QuorumInv'
  <2>1. Enough => Enough'
    BY <1>1, QuorumsAssumption DEF IInv, TypeOK, Enough
  <2>2. v \in Pushed
    BY <1>4, Finite DEF IInv
  <2> QED BY <1>1, <1>2, <2>1, <2>2 DEF IInv, QuorumInv, Enough
<1> QED BY <1>6, <1>7, <1>8, <1>9 DEF IInv

(* Dropping the result, which only happens when the context is done, and   *)
(* before the caller returns.                                              *)
LEMMA GiveUpInv ==
  ASSUME IInv, NEW v \in Work, GiveUp(v)
  PROVE  IInv'
<1> USE DEF http, ctx, Goto
<1>1. TypeOK'
  BY DEF IInv, TypeOK, GiveUp
<1>2. /\ UNCHANGED <<minSuccess, http, success, ctx, rChan, closed, caller, output>>
      /\ worker[v] \in {"ok", "err"} /\ worker'[v] = "finished" /\ done
      /\ \A w \in Work : w # v => worker'[w] = worker[w]
  BY DEF IInv, TypeOK, GiveUp
<1>3. CountInv' /\ UNCHANGED <<Pushed, Good>>
  BY <1>1, <1>2, QuietStep DEF IInv, CountInv
<1>4. caller # "returned"
  BY <1>2 DEF IInv, EndInv
<1>5. Enough
  BY <1>2, <1>4 DEF IInv, QuorumInv
<1>6. QuorumInv'
  BY <1>2, <1>3, <1>5 DEF IInv, QuorumInv, Enough
<1>7. EndInv'
  BY <1>2 DEF IInv, EndInv
<1> QED BY <1>1, <1>3, <1>6, <1>7 DEF IInv

(* The step of the induction. *)
LEMMA StepInv == IInv /\ [Next]_vars => IInv'
<1> SUFFICES ASSUME IInv, [Next]_vars PROVE IInv'
  OBVIOUS
<1>1. CASE UNCHANGED vars
  <2>1. UNCHANGED <<Pushed, Good, Counting>>
    BY <1>1 DEF vars, Pushed, Good, Results, Counting
  <2> QED
    BY <1>1, <2>1 DEF vars, http, ctx, IInv, TypeOK, CountInv, EndInv, QuorumInv, Enough
<1>2. CASE CallerStep
  BY <1>2, StartInv, CollectInv, EndStepsInv DEF CallerStep
<1>3. CASE TimeOut
  BY <1>3, EndStepsInv
<1>4. ASSUME NEW w \in Work, WorkerStep(w) \/ Fail(w) \/ Serve(w) \/ Lose(w)
      PROVE  IInv'
  BY <1>4, RequestInv, PushInv, CountStepInv, GiveUpInv DEF WorkerStep
<1> QED BY <1>1, <1>2, <1>3, <1>4 DEF Next

(* It holds in every reachable state. *)
LEMMA Invariance == Spec => []IInv
  BY InitInv, StepInv, PTL DEF Spec

-----------------------------------------------------------------------------
(* Every variable keeps its type: success never exceeds the workers.       *)
THEOREM TypeCorrect == Spec => []TypeOK
<1>1. IInv => TypeOK
  BY DEF IInv
<1> QED BY <1>1, Invariance, PTL

(* The number postData answers with and the results it collects are those  *)
(* of replicas that carried the write out, however the requests are lost   *)
(* or late and wherever the timeout falls.                                 *)
THEOREM HonestCount == Spec => []CountHonest
<1>1. IInv => CountHonest
  <2> SUFFICES ASSUME IInv PROVE CountHonest
    OBVIOUS
  <2>1. {r.of : r \in Results(output, TRUE)} \subseteq served
    BY DEF IInv, CountInv, Good
  <2>2. served \subseteq Work /\ Good \ Counting \subseteq served
    BY DEF IInv, TypeOK, CountInv
  <2>3. IsFiniteSet(served)
    BY <2>2, Finite DEF IInv
  <2>4. Cardinality(Good \ Counting) <= Cardinality(served)
    BY <2>2, <2>3, FS_Subset
  <2> QED BY <2>1, <2>4 DEF CountHonest, IInv, CountInv
<1> QED BY <1>1, Invariance, PTL

(* There are as many good results in the output as workers they are of. *)
LEMMA OutputCount ==
  ASSUME TypeOK
  PROVE  Cardinality(Results(output, TRUE)) = Cardinality({r.of : r \in Results(output, TRUE)})
<1> DEFINE R == Results(output, TRUE)
           G == {r.of : r \in R}
           f == [w \in G |-> [of |-> w, ok |-> TRUE]]
<1>1. ASSUME NEW r \in R PROVE r.of \in Work /\ r = [of |-> r.of, ok |-> TRUE]
  <2>1. r \in Result /\ r.ok = TRUE
    <3>1. ToSet(output) \subseteq Result
      BY DEF TypeOK, ToSet
    <3> QED BY <3>1 DEF Results
  <2>2. PICK w \in Work, b \in BOOLEAN : r = [of |-> w, ok |-> b]
    BY <2>1 DEF Result
  <2>3. r.of = w /\ r.ok = b
    BY <2>2
  <2>4. b = TRUE
    BY <2>1, <2>3
  <2> QED BY <2>2, <2>3, <2>4
<1>3. f \in Bijection(G, R)
  <2>1. f \in [G -> R]
    BY <1>1
  <2>2. IsInjective(f)
    BY DEF IsInjective
  <2>3. \A r \in R : \E w \in G : f[w] = r
    BY <1>1
  <2> QED BY <2>1, <2>2, <2>3 DEF Bijection, Injection, Surjection
<1>4. IsFiniteSet(G)
  <2>1. G \subseteq Work
    BY <1>1
  <2> QED BY <2>1, Finite
<1> QED BY <1>3, <1>4, FS_Bijection DEF ExistsBijection

(* The caller returns with minSuccess good results unless the time was up  *)
(* or every worker has reported: no good result is dropped before there    *)
(* are enough, although select may drop one in any worker once the context *)
(* is done.                                                                *)
THEOREM QuorumReached == Spec => []QuorumInOutput
<1>1. IInv => QuorumInOutput
  <2> SUFFICES ASSUME IInv, caller = "returned", ~timedOut,
                      {r.of : r \in ToSet(output)} # Work
               PROVE  Cardinality(Results(output, TRUE)) >= minSuccess
    BY DEF QuorumInOutput
  <2>1. rChan = <<>> /\ \A w \in Work : worker[w] = "finished"
    BY DEF IInv, EndInv
  <2>2. ToSet(rChan) = {}
    BY <2>1 DEF ToSet
  <2>3. Pushed = {r.of : r \in ToSet(output)} /\ Good = {r.of : r \in Results(output, TRUE)}
    BY <2>2 DEF Pushed, Good, Results
  <2>4. \E w \in Work : w \notin Pushed
    BY <2>3, Finite DEF IInv
  <2>5. success >= minSuccess
    BY <2>1, <2>4 DEF IInv, QuorumInv, Enough
  <2>6. Counting = {}
    BY <2>1 DEF Counting
  <2>7. success = Cardinality(Good)
    BY <2>6 DEF IInv, CountInv
  <2>8. success \in Nat /\ minSuccess \in Nat
    BY <2>7, Finite, QuorumsAssumption, WorkAssumption, FS_CardinalityType DEF IInv, TypeOK
  <2>9. Cardinality(Results(output, TRUE)) = success
    BY <2>3, <2>7, OutputCount DEF IInv
  <2> QED BY <2>5, <2>8, <2>9
<1> QED BY <1>1, Invariance, PTL
-----------------------------------------------------------------------------
(* The fan-out as one step *)

(* No worker's result is twice in a list, nor in both. *)
Distinct(s) == \A i, j \in DOMAIN s : s[i].of = s[j].of => i = j

OnceInv ==
  /\ Distinct(output) /\ Distinct(rChan)
  /\ \A i \in DOMAIN output, j \in DOMAIN rChan : output[i].of # rChan[j].of

(* A result of a worker that is not in the list yet. *)
LEMMA AppendDistinct ==
  ASSUME NEW s \in Seq(Result), NEW r \in Result, Distinct(s),
         \A i \in DOMAIN s : s[i].of # r.of
  PROVE  /\ Distinct(Append(s, r))
         /\ \A i \in DOMAIN Append(s, r) : Append(s, r)[i] = r
              \/ (i \in DOMAIN s /\ Append(s, r)[i] = s[i])
<1> DEFINE t == Append(s, r)
<1>1. /\ DOMAIN s = 1..Len(s) /\ Len(s) \in Nat /\ DOMAIN t = 1..(Len(s) + 1)
      /\ \A i \in 1..Len(s) : t[i] = s[i]
      /\ t[Len(s) + 1] = r
  BY AppendProperties, LenProperties
<1> HIDE DEF t
<1>2. \A i \in DOMAIN t : (i \in DOMAIN s /\ t[i] = s[i]) \/ (i = Len(s) + 1 /\ t[i] = r)
  BY <1>1
<1>3. Distinct(t)
  BY <1>2 DEF Distinct
<1> QED BY <1>2, <1>3 DEF t

(* The rest of a list, without its head's worker. *)
LEMMA TailDistinct ==
  ASSUME NEW s \in Seq(Result), s # <<>>, Distinct(s)
  PROVE  /\ Distinct(Tail(s))
         /\ \A i \in DOMAIN Tail(s) : Tail(s)[i].of # Head(s).of
         /\ \A i \in DOMAIN Tail(s) : \E j \in DOMAIN s : Tail(s)[i] = s[j]
         /\ \E j \in DOMAIN s : Head(s) = s[j]
<1>1. /\ Len(Tail(s)) = Len(s) - 1 /\ Tail(s) \in Seq(Result)
      /\ \A i \in 1..Len(Tail(s)) : Tail(s)[i] = s[i + 1]
      /\ Head(s) = s[1]
  BY HeadTailProperties
<1>2. DOMAIN s = 1..Len(s) /\ Len(s) \in Nat \ {0} /\ DOMAIN Tail(s) = 1..(Len(s) - 1)
  BY <1>1, LenProperties, EmptySeq
<1>3. \A i \in DOMAIN Tail(s) : i \in Nat /\ i + 1 # 1 /\ i + 1 \in DOMAIN s /\ Tail(s)[i] = s[i + 1]
  BY <1>1, <1>2
<1>4. 1 \in DOMAIN s
  BY <1>2
<1>5. Distinct(Tail(s))
  <2> SUFFICES ASSUME NEW i \in DOMAIN Tail(s), NEW j \in DOMAIN Tail(s),
                      Tail(s)[i].of = Tail(s)[j].of
               PROVE  i = j
    BY DEF Distinct
  <2>1. i + 1 = j + 1
    BY <1>3 DEF Distinct
  <2> QED BY <2>1, <1>3
<1>6. \A i \in DOMAIN Tail(s) : Tail(s)[i].of # Head(s).of
  BY <1>1, <1>3, <1>4 DEF Distinct
<1> QED BY <1>1, <1>3, <1>4, <1>5, <1>6

(* Collecting moves a result from one list to the other; a worker that     *)
(* sends one has not sent one before.                                      *)
LEMMA StepOnce == IInv /\ OnceInv /\ [Next]_vars => OnceInv'
<1> SUFFICES ASSUME IInv, OnceInv, [Next]_vars PROVE OnceInv'
  OBVIOUS
<1>1. rChan \in Seq(Result) /\ output \in Seq(Result)
  BY DEF IInv, TypeOK
<1>2. CASE UNCHANGED <<rChan, output>>
  BY <1>2 DEF OnceInv, Distinct
<1>3. CASE Collect
  <2>1. /\ Distinct(Tail(rChan)) /\ Tail(rChan) = rChan' /\ output' = Append(output, Head(rChan))
        /\ \A i \in DOMAIN Tail(rChan) : Tail(rChan)[i].of # Head(rChan).of
        /\ \A i \in DOMAIN Tail(rChan) : \E j \in DOMAIN rChan : Tail(rChan)[i] = rChan[j]
        /\ \E j \in DOMAIN rChan : Head(rChan) = rChan[j]
    BY <1>1, <1>3, TailDistinct DEF Collect, OnceInv
  <2>2. Head(rChan) \in Result
    BY <1>1, <1>3, HeadTailSet DEF Collect
  <2>3. /\ Distinct(output')
        /\ \A i \in DOMAIN output' : output'[i] = Head(rChan)
             \/ (i \in DOMAIN output /\ output'[i] = output[i])
    BY <1>1, <2>1, <2>2, AppendDistinct DEF OnceInv
  <2>4. \A i \in DOMAIN output', j \in DOMAIN rChan' : output'[i].of # rChan'[j].of
    <3> SUFFICES ASSUME NEW i \in DOMAIN output', NEW j \in DOMAIN rChan'
                 PROVE  output'[i].of # rChan'[j].of
      OBVIOUS
    <3>1. PICK k \in DOMAIN rChan : rChan'[j] = rChan[k]
      BY <2>1
    <3>2. rChan'[j].of # Head(rChan).of
      BY <2>1
    <3>3. CASE output'[i] = Head(rChan)
      BY <3>2, <3>3
    <3>4. CASE i \in DOMAIN output /\ output'[i] = output[i]
      BY <3>1, <3>4 DEF OnceInv
    <3> QED BY <2>3, <3>3, <3>4
  <2> QED BY <2>1, <2>3, <2>4 DEF OnceInv
<1>4. ASSUME NEW v \in Work, Push(v) PROVE OnceInv'
  <2> DEFINE r == [of |-> v, ok |-> worker[v] = "ok"]
  <2>1. r \in Result /\ r.of = v /\ rChan' = Append(rChan, r) /\ output' = output
    BY <1>4 DEF Push, Result
  <2>2. v \notin Pushed
    BY <1>4 DEF Push, IInv, CountInv
  <2>3. /\ \A i \in DOMAIN rChan : rChan[i].of # v
        /\ \A i \in DOMAIN output : output[i].of # v
    BY <2>2 DEF Pushed, ToSet
  <2> HIDE DEF r
  <2>4. /\ Distinct(rChan')
        /\ \A i \in DOMAIN rChan' : rChan'[i] = r \/ (i \in DOMAIN rChan /\ rChan'[i] = rChan[i])
    BY <1>1, <2>1, <2>3, AppendDistinct DEF OnceInv
  <2>5. \A i \in DOMAIN output', j \in DOMAIN rChan' : output'[i].of # rChan'[j].of
    BY <2>1, <2>3, <2>4 DEF OnceInv
  <2> QED BY <2>1, <2>4, <2>5 DEF OnceInv
<1> QED BY <1>2, <1>3, <1>4 DEF Next, CallerStep, Start, AllStarted, Return, Close, TimeOut,
           WorkerStep, Call, Answer, Fail, GiveUp, Count, Serve, Lose, vars, http, ctx

(* What is counted in the list are different replicas, all of which stored *)
(* the write.                                                              *)
LEMMA CountedStored ==
  ASSUME IInv, OnceInv
  PROVE  ReplicaCount \in 0..Cardinality(served)
<1> DEFINE K == {i \in DOMAIN output : output[i].ok}
           of == [i \in K |-> output[i].of]
<1>1. served \in SUBSET Work /\ IsFiniteSet(served) /\ Cardinality(served) \in Nat
  BY Finite DEF IInv, TypeOK
<1>2. ASSUME NEW i \in K PROVE output[i].of \in served
  <2>1. output[i] \in ToSet(output) /\ output[i] \in Result
    BY DEF ToSet, IInv, TypeOK
  <2>2. output[i].ok = TRUE
    BY <2>1 DEF Result
  <2>3. output[i].of \in Good
    BY <2>1, <2>2 DEF Good, Results
  <2> QED BY <2>3 DEF IInv, CountInv
<1>3. of \in [K -> served] /\ \A i, j \in K : of[i] = of[j] => i = j
  BY <1>2 DEF OnceInv, Distinct
<1> HIDE DEF of
<1>4. of \in Injection(K, served)
  BY <1>3 DEF Injection, IsInjective
<1>5. IsFiniteSet(K) /\ Cardinality(K) <= Cardinality(served)
  BY <1>1, <1>4, FS_Injection
<1>6. Cardinality(K) \in Nat
  BY <1>5, FS_CardinalityType
<1> QED BY <1>1, <1>5, <1>6 DEF ReplicaCount

(* The fan-out implements what Requests takes it for: a replica that       *)
(* carries the write out stores it, the return of the caller is the answer,*)
(* and no other step of the goroutines is seen.  Nothing is put into the   *)
(* list after the caller has returned, so the number stays what it was.    *)
THEOREM Refinement == Spec => CountsTruly
<1>1. Init => OnceInv /\ Abstract!Init
  BY DEF Init, OnceInv, Distinct, Abstract!Init
<1>2. IInv /\ OnceInv /\ [Next]_vars => [Abstract!Next]_(Abstract!vars)
  <2> SUFFICES ASSUME IInv, OnceInv, [Next]_vars PROVE [Abstract!Next]_(Abstract!vars)
    OBVIOUS
  <2> DEFINE counted == IF caller = "returned" THEN ReplicaCount ELSE 0
  <2>1. CASE /\ UNCHANGED <<served, output>>
             /\ caller' = caller \/ (caller # "returned" /\ caller' # "returned")
    <3>1. UNCHANGED <<served, caller = "returned", counted>>
      BY <2>1 DEF ReplicaCount
    <3> QED BY <3>1 DEF Abstract!vars
  <2>2. CASE Collect
    <3>1. caller = "collecting" /\ caller' = "collecting" /\ served' = served
      BY <2>2 DEF Collect, http
    <3> QED BY <3>1 DEF Abstract!vars
  <2>3. CASE Return
    <3>1. caller = "collecting" /\ caller' = "returned" /\ served' = served /\ output' = output
      BY <2>3 DEF Return, http
    <3>2. ReplicaCount' = ReplicaCount /\ ReplicaCount \in 0..Cardinality(served)
      BY <3>1, CountedStored DEF ReplicaCount
    <3>3. counted' = ReplicaCount
      BY <3>1, <3>2
    <3>4. Abstract!Answer
      <4>1. Abstract!Cardinality(served) = Cardinality(served)
        BY DEF Abstract!Cardinality, Cardinality
      <4> QED BY <4>1, <3>1, <3>2, <3>3 DEF Abstract!Answer
    <3> QED BY <3>4 DEF Abstract!Next
  <2>4. ASSUME NEW w \in Work, Serve(w) PROVE Abstract!Next
    <3>1. w \notin served /\ served' = served \cup {w} /\ caller' = caller /\ output' = output
      BY <2>4 DEF Serve, inflight
    <3>2. UNCHANGED <<caller = "returned", counted>>
      BY <3>1 DEF ReplicaCount
    <3> QED BY <3>1, <3>2 DEF Abstract!Next, Abstract!Store
  <2> QED BY <2>1, <2>2, <2>3, <2>4 DEF Next, CallerStep, Start, AllStarted, Close, TimeOut,
             WorkerStep, Call, Answer, Fail, Push, GiveUp, Count, Lose, vars, http, ctx
<1> QED BY <1>1, <1>2, StepOnce, Invariance, PTL DEF Spec, CountsTruly, Abstract!Spec
=============================================================================
