------------------------------- MODULE Fanout -------------------------------
(***************************************************************************)
(* RunUntilMinSuccessOrTimeout (src/helper/helper.go): one goroutine per   *)
(* replica makes a request, and the caller collects the results until      *)
(* enough of them are good or the time is up.  postData and getData use it,*)
(* with requests that carry the context (apiclient.PostRawKeyValue,        *)
(* apiclient.GetKeyValue).                                                 *)
(*                                                                         *)
(* A request that has left the node is out of the caller's hands: when its *)
(* context ends the other node may still carry it out.                     *)
(***************************************************************************)
EXTENDS Naturals, SequencesExt

CONSTANTS
  Work,             \* the inputs, one goroutine each
  Quorums           \* the values of minSuccess callers may pass

ASSUME QuorumsAssumption == Quorums \subseteq Nat
ASSUME WorkAssumption == IsFiniteSet(Work)

VARIABLES
  minSuccess,
  worker,           \* where each goroutine is
  sent,             \* the requests that have left the node
  lost,             \* those the network lost
  served,           \* those the other node has carried out
  success,
  done,             \* the context is done
  timedOut,         \* and it was by the timeout, or because the client left
  rChan, closed,    \* the channel of results
  caller,
  output

http == <<sent, lost, served>>
ctx == <<done, timedOut>>
vars == <<minSuccess, worker, http, success, ctx, rChan, closed, caller, output>>

Result == [of : Work, ok : BOOLEAN]

TypeOK ==
  /\ minSuccess \in Quorums
  /\ worker \in [Work -> {"unborn", "calling", "waiting", "ok", "err", "counting", "finished"}]
  /\ sent \subseteq Work
  /\ lost \subseteq sent /\ served \subseteq sent
  /\ success \in 0..Cardinality(Work)
  /\ done \in BOOLEAN /\ timedOut \in BOOLEAN /\ closed \in BOOLEAN
  /\ rChan \in Seq(Result) /\ output \in Seq(Result)
  /\ caller \in {"starting", "collecting", "returned"}

Init ==
  /\ minSuccess \in Quorums
  /\ worker = [w \in Work |-> "unborn"]
  /\ sent = {} /\ lost = {} /\ served = {}
  /\ success = 0
  /\ done = FALSE /\ timedOut = FALSE /\ closed = FALSE
  /\ rChan = <<>> /\ output = <<>>
  /\ caller = "starting"

(* The requests that are on the network. *)
inflight == sent \ (lost \cup served)

Goto(w, place) == worker' = [worker EXCEPT ![w] = place]

Results(rs, ok) == {r \in ToSet(rs) : r.ok = ok}

-----------------------------------------------------------------------------
(* The caller *)

Start(w) ==
  /\ caller = "starting"
  /\ worker[w] = "unborn"
  /\ Goto(w, "calling")
  /\ UNCHANGED <<minSuccess, http, success, ctx, rChan, closed, caller, output>>

AllStarted ==
  /\ caller = "starting"
  /\ \A w \in Work : worker[w] # "unborn"
  /\ caller' = "collecting"
  /\ done' = (done \/ minSuccess = 0)
  /\ UNCHANGED <<minSuccess, worker, http, success, timedOut, rChan, closed, output>>

Collect ==
  /\ caller = "collecting"
  /\ rChan # <<>>
  /\ output' = Append(output, Head(rChan))
  /\ rChan' = Tail(rChan)
  /\ UNCHANGED <<minSuccess, worker, http, success, ctx, closed, caller>>

Return ==
  /\ caller = "collecting"
  /\ rChan = <<>>
  /\ closed
  /\ caller' = "returned"
  /\ done' = TRUE
  /\ UNCHANGED <<minSuccess, worker, http, success, timedOut, rChan, closed, output>>

(* The goroutine that waits for the others and closes the channel. *)
Close ==
  /\ caller # "starting"
  /\ ~closed
  /\ \A w \in Work : worker[w] = "finished"
  /\ closed' = TRUE
  /\ UNCHANGED <<minSuccess, worker, http, success, ctx, rChan, caller, output>>

(* WRITE_CONFIRMATION_TIMEOUT, or the end of the client's own request. *)
TimeOut ==
  /\ ~done
  /\ done' = TRUE
  /\ timedOut' = TRUE
  /\ UNCHANGED <<minSuccess, worker, http, success, rChan, closed, caller, output>>

-----------------------------------------------------------------------------
(* A worker *)

(* client.Do sends nothing once the context is done. *)
Call(w) ==
  /\ worker[w] = "calling"
  /\ \/ /\ ~done
        /\ sent' = sent \cup {w}
        /\ Goto(w, "waiting")
     \/ /\ done
        /\ Goto(w, "err")
        /\ UNCHANGED sent
  /\ UNCHANGED <<minSuccess, lost, served, success, ctx, rChan, closed, caller, output>>

(* Any answer is taken for a confirmation, whatever its status.  There is  *)
(* one only from a node that has served the request: PutRaw returns no     *)
(* error, and if its hook panics the entry is stored before the 500.       *)
Answer(w) ==
  /\ worker[w] = "waiting"
  /\ w \in served
  /\ Goto(w, "ok")
  /\ UNCHANGED <<minSuccess, http, success, ctx, rChan, closed, caller, output>>

(* Mutants of Fail: the error is dropped; the request has no context. *)
Fail_ignored(w) ==
  /\ worker[w] = "waiting"
  /\ done \/ w \notin inflight
  /\ Goto(w, "ok")
  /\ UNCHANGED <<minSuccess, http, success, ctx, rChan, closed, caller, output>>
Fail_noContext(w) ==
  /\ worker[w] = "waiting"
  /\ w \notin inflight
  /\ Goto(w, "err")
  /\ UNCHANGED <<minSuccess, http, success, ctx, rChan, closed, caller, output>>

(* No answer: the context is done, or the request or the response is lost. *)
Fail(w) ==
  /\ worker[w] = "waiting"
  /\ done \/ w \notin inflight
  /\ Goto(w, "err")
  /\ UNCHANGED <<minSuccess, http, success, ctx, rChan, closed, caller, output>>

(* select: the channel has room for every result, so the first case is     *)
(* always ready; the second one is when the context is done, and then      *)
(* either is taken.                                                        *)
Push(w) ==
  /\ worker[w] \in {"ok", "err"}
  /\ Len(rChan) < Cardinality(Work)
  /\ rChan' = Append(rChan, [of |-> w, ok |-> worker[w] = "ok"])
  /\ Goto(w, IF worker[w] = "ok" THEN "counting" ELSE "finished")
  /\ UNCHANGED <<minSuccess, http, success, ctx, closed, caller, output>>

GiveUp(w) ==
  /\ worker[w] \in {"ok", "err"}
  /\ done
  /\ Goto(w, "finished")
  /\ UNCHANGED <<minSuccess, http, success, ctx, rChan, closed, caller, output>>

(* Mutant of Count: cancel comes one success early. *)
Count_early(w) ==
  /\ worker[w] = "counting"
  /\ success' = success + 1
  /\ done' = (done \/ success' + 1 >= minSuccess)
  /\ Goto(w, "finished")
  /\ UNCHANGED <<minSuccess, http, timedOut, rChan, closed, caller, output>>

Count(w) ==
  /\ worker[w] = "counting"
  /\ success' = success + 1
  /\ done' = (done \/ success' >= minSuccess)
  /\ Goto(w, "finished")
  /\ UNCHANGED <<minSuccess, http, timedOut, rChan, closed, caller, output>>

-----------------------------------------------------------------------------
(* The network and the other node *)

(* postReplicaData at the other node, or its getData for a read. *)
Serve(w) ==
  /\ w \in inflight
  /\ served' = served \cup {w}
  /\ UNCHANGED <<minSuccess, worker, sent, lost, success, ctx, rChan, closed, caller, output>>

Lose(w) ==
  /\ w \in inflight
  /\ lost' = lost \cup {w}
  /\ UNCHANGED <<minSuccess, worker, sent, served, success, ctx, rChan, closed, caller, output>>

WorkerStep(w) == Call(w) \/ Answer(w) \/ (done /\ Fail(w)) \/ Push(w) \/ GiveUp(w) \/ Count(w)

CallerStep == (\E w \in Work : Start(w)) \/ AllStarted \/ Collect \/ Return \/ Close

Next ==
  \/ CallerStep
  \/ TimeOut
  \/ \E w \in Work : WorkerStep(w) \/ Fail(w) \/ Serve(w) \/ Lose(w)

Spec == Init /\ [][Next]_vars

(* Goroutines run and the timer fires.  Nothing is assumed of the network  *)
(* or of the other node.                                                   *)
FairSpec ==
  Spec /\ WF_vars(CallerStep) /\ WF_vars(TimeOut) /\ \A w \in Work : WF_vars(WorkerStep(w))

-----------------------------------------------------------------------------
(* The results of successful workers are not thrown away before there are  *)
(* enough of them: an answer with fewer than minSuccess good results means *)
(* that the time was up or that every worker has reported.  The select     *)
(* that drops results, the counter and cancel are in separate steps of     *)
(* concurrent goroutines.                                                  *)
QuorumInOutput ==
  caller = "returned" =>
    \/ Cardinality(Results(output, TRUE)) >= minSuccess
    \/ timedOut
    \/ {r.of : r \in ToSet(output)} = Work

(* The replica count in a write's answer never exceeds the number of nodes *)
(* that carried the write out, however late or lost the requests are.      *)
CountHonest ==
  {r.of : r \in Results(output, TRUE)} \subseteq served /\ success <= Cardinality(served)

(* What postData counts in the list it gets back. *)
ReplicaCount == Cardinality({i \in DOMAIN output : output[i].ok})

Abstract ==
  INSTANCE Confirmations
    WITH Nodes <- Work, stored <- served, answered <- caller = "returned",
         count <- IF caller = "returned" THEN ReplicaCount ELSE 0

(* The fan-out with its goroutines, channel and context is the one step    *)
(* that Requests takes it for: whatever is dropped, late or lost, the      *)
(* number postData counts is, when it gets the list and from then on, one  *)
(* of replicas that had stored the write by then; no worker reports twice. *)
CountsTruly == Abstract!Spec

(* "it waits for atmost 'timeout' duration" (helper.go:176): whatever the  *)
(* other nodes do, the caller returns.                                     *)
CallerReturns == <>(caller = "returned")
=============================================================================
