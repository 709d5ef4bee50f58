------------------------- MODULE ActorRuntimeProofs -------------------------
(***************************************************************************)
(* Proofs about ActorRuntime, for every set of nodes and texts, any number  *)
(* of requests, with cancellation and deletion at any time.                *)
(***************************************************************************)
EXTENDS ActorRuntime, TLAPS

-----------------------------------------------------------------------------
(***************************************************************************)
(* Types of the values the actions build                                   *)
(***************************************************************************)

\* A request that enqueue builds is a request.
LEMMA NewRequestType ==
  ASSUME TypeOK, NEW n \in Nodes, NEW c \in Codes, asked[n] < MaxRequests[n]
  PROVE  NewRequest(n, c) \in Request
<1>1. asked[n] + 1 \in Stamps
  BY DEF TypeOK, Stamps
<1>2. FastPath(n, c) \in BOOLEAN
  BY DEF FastPath
<1>3. QED
  BY <1>1, <1>2 DEF NewRequest, Request

\* spawn_eval hands a well-formed closure to the pool.
LEMMA SpawnedJobType ==
  ASSUME NEW n \in Nodes, NEW req \in Request, NEW cached \in Env \cup {None}
  PROVE  SpawnedJob(n, req, cached) \in Job
BY DEF SpawnedJob, TakenEnv, Job

\* Every outcome of an evaluation is a well-formed result of its node.
LEMMA EvalResultType ==
  ASSUME NEW j \in Job, NEW r \in EvalResults(j) \cup {ErrorResult(j)}
  PROVE  /\ r \in Result
         /\ r.node = j.node
         /\ r.stamp = j.req.stamp
<1>1. /\ j.node \in Nodes /\ j.req \in Request /\ j.env \in Env \cup {None}
      /\ j.req.stamp \in Stamps /\ j.req.code \in Codes /\ j.req.fast \in BOOLEAN
  BY DEF Job, Request
<1>2. ASSUME j.env # None
      PROVE  j.env \in Env /\ j.env.origin \in Stamps
  BY <1>1, <1>2 DEF Env
<1>3. CASE r = ErrorResult(j)
  BY <1>1, <1>3 DEF ErrorResult, Result
<1>4. CASE r \in EvalResults(j) /\ OnFastPath(j)
  <2>1. j.env # None
    BY <1>4 DEF OnFastPath
  <2>2. PICK h \in BOOLEAN : r = ComputedResult(j, j.env, h)
    BY <1>4 DEF EvalResults, FastResults
  <2>3. QED
    BY <1>1, <1>2, <2>1, <2>2 DEF ComputedResult, Result
<1>5. CASE r \in EvalResults(j) /\ ~OnFastPath(j)
  <2>1. \A pre \in BOOLEAN : EvalEnv(j, pre) \in Env
    BY <1>1, <1>2 DEF EvalEnv, Env
  <2>2. PICK h \in BOOLEAN, e \in Env : r = ComputedResult(j, e, h)
    BY <1>5, <2>1 DEF EvalResults, FullResults
  <2>3. QED
    BY <1>1, <2>2 DEF ComputedResult, Result
<1>6. QED
  BY <1>3, <1>4, <1>5

\* The result at the head of the channel is well formed.
LEMMA HeadType ==
  ASSUME TypeOK, results # <<>>
  PROVE  /\ Head(results) \in Result /\ Tail(results) \in Seq(Result)
         /\ Head(results).node \in Nodes /\ Head(results).stamp \in Stamps
         /\ Head(results).env \in Env \cup {None}
<1>1. Head(results) \in Result /\ Tail(results) \in Seq(Result)
  BY DEF TypeOK
<1>2. QED
  BY <1>1 DEF Result

\* The closures flush_debounced starts are well formed.
LEMMA FlushedJobsType ==
  ASSUME TypeOK
  PROVE  FlushedJobs \subseteq Job
<1>1. ASSUME NEW n \in Flushed
      PROVE  n \in Nodes /\ debounce[n] \in Request /\ envCache[n] \in Env \cup {None}
  BY <1>1 DEF Flushed, TypeOK
<1>2. QED
  BY <1>1, SpawnedJobType DEF FlushedJobs
-----------------------------------------------------------------------------
(***************************************************************************)
(* Type correctness                                                        *)
(***************************************************************************)

\* The variables keep their types: in particular every stamp, in a slot, in
\* the pool or in the channel, is that of a request, and a mailbox never
\* counts below zero.
THEOREM TypeCorrect == Spec => []TypeOK
<1>1. Init => TypeOK
  BY ConstantsAssumption DEF Init, TypeOK
<1>2. TypeOK /\ [Next]_vars => TypeOK'
  <2> SUFFICES ASSUME TypeOK, [Next]_vars
               PROVE  TypeOK'
    OBVIOUS
  <2>1. ASSUME NEW n \in Nodes, NEW c \in Codes, Compute(n, c)
        PROVE  TypeOK'
    <3>1. NewRequest(n, c) \in Request
      BY <2>1, NewRequestType DEF Compute
    <3>2. asked' \in [Nodes -> Nat]
      BY <2>1, ConstantsAssumption DEF Compute, TypeOK
    <3>3. CASE Busy(n)
      BY <2>1, <3>1, <3>2, <3>3 DEF Compute, TypeOK, DirtyWith
    <3>4. CASE ~Busy(n)
      <4>1. SpawnedJob(n, NewRequest(n, c), envCache[n]) \in Job
        BY <3>1, SpawnedJobType DEF TypeOK
      <4>2. QED
        BY <2>1, <3>2, <3>4, <4>1
           DEF Compute, TypeOK, DebounceWithout, CacheWithout
    <3>5. QED
      BY <3>3, <3>4
  <2>2. ASSUME NEW n \in Nodes, NEW c \in Codes, ComputeDebounced(n, c)
        PROVE  TypeOK'
    <3>1. NewRequest(n, c) \in Request
      BY <2>2, NewRequestType DEF ComputeDebounced
    <3>2. asked' \in [Nodes -> Nat]
      BY <2>2, ConstantsAssumption DEF ComputeDebounced, TypeOK
    <3>3. /\ dirty' \in [Nodes -> Request \cup {None}]
          /\ debounce' \in [Nodes -> Request \cup {None}]
          /\ expired' \subseteq Nodes
      <4>1. CASE Busy(n)
        BY <2>2, <3>1, <4>1 DEF ComputeDebounced, TypeOK, DirtyWith
      <4>2. CASE ~Busy(n)
        BY <2>2, <3>1, <4>2 DEF ComputeDebounced, TypeOK
      <4>3. QED
        BY <4>1, <4>2
    <3>4. QED
      BY <2>2, <3>2, <3>3 DEF ComputeDebounced, TypeOK
  <2>3. ASSUME NEW n \in Nodes, DebounceExpires(n)
        PROVE  TypeOK'
    BY <2>3 DEF DebounceExpires, TypeOK
  <2>4. ASSUME NEW n \in Nodes, SendMessage(n)
        PROVE  TypeOK'
    BY <2>4, ConstantsAssumption DEF SendMessage, TypeOK
  <2>5. ASSUME NEW n \in Nodes, Remove(n)
        PROVE  TypeOK'
    BY <2>5 DEF Remove, TypeOK, CacheWithout
  <2>6. ASSUME NEW j \in jobs, Evaluate(j)
        PROVE  TypeOK'
    <3>1. j \in Job /\ j.node \in Nodes
      BY DEF TypeOK, Job
    <3>2. PICK r \in EvalResults(j) \cup {ErrorResult(j)} :
            /\ results' = Append(results, r)
            /\ \E left \in MailLeft(j, r) : mail' = [mail EXCEPT ![j.node] = left]
      BY <2>6 DEF Evaluate
    <3>3. results' \in Seq(Result)
      BY <3>1, <3>2, EvalResultType DEF TypeOK
    <3>4. MailLeft(j, r) \subseteq Nat
      BY <3>1, ConstantsAssumption DEF MailLeft, TypeOK
    <3>5. mail' \in [Nodes -> Nat]
      BY <3>2, <3>4 DEF TypeOK
    <3>6. QED
      BY <2>6, <3>3, <3>5 DEF Evaluate, TypeOK
  <2>7. CASE PollFlush
    BY <2>7, FlushedJobsType
       DEF PollFlush, TypeOK, DebounceAfterFlush, CacheWithout, InFlightAfterFlush
  <2>8. CASE PollResult
    <3> DEFINE r == Head(results)
               m == r.node
               cache == CacheAfter(r)
               again == Again(m)
               restarted == IF again = None THEN {} ELSE {m}
    <3>1. r \in Result /\ Tail(results) \in Seq(Result)
      BY <2>8, HeadType DEF PollResult
    <3>2. m \in Nodes /\ r.env \in Env \cup {None} /\ r.stamp \in Stamps
      BY <2>8, HeadType DEF PollResult
    <3>3. cache \in [Nodes -> Env \cup {None}]
      BY <3>2 DEF CacheAfter, CacheWithout, TypeOK
    <3>4. {SpawnedJob(m, again, cache[m]) : n \in restarted} \subseteq Job
      <4>1. CASE again = None
        BY <4>1
      <4>2. CASE again # None
        <5>1. again \in Request /\ cache[m] \in Env \cup {None}
          BY <3>2, <3>3, <4>2 DEF Again, TypeOK
        <5>2. SpawnedJob(m, again, cache[m]) \in Job
          BY <3>2, <5>1, SpawnedJobType
        <5>3. QED
          BY <5>2
      <4>3. QED
        BY <4>1, <4>2
    <3>5. jobs' \subseteq Job
      BY <2>8, <3>4, FlushedJobsType DEF PollResult, TypeOK
    <3>6. envCache' \in [Nodes -> Env \cup {None}]
      BY <2>8, <3>3 DEF PollResult, CacheWithout
    <3>7. handlers' \subseteq Nodes
      BY <2>8, <3>2 DEF PollResult, HandlersAfter, TypeOK
    <3>8. inFlight' \in [Nodes -> BOOLEAN]
      BY <2>8, <3>2 DEF PollResult, InFlightAfter, InFlightAfterFlush, TypeOK
    <3>9. dirty' \in [Nodes -> Request \cup {None}]
      BY <2>8, <3>2 DEF PollResult, TypeOK
    <3>10. debounce' \in [Nodes -> Request \cup {None}]
      BY <2>8 DEF PollResult, DebounceAfterFlush, TypeOK
    <3>11. emitted' \in [Nodes -> Nat]
      BY <2>8, <3>2, ConstantsAssumption DEF PollResult, TypeOK, Stamps
    <3>12. QED
      BY <2>8, <3>1, <3>5, <3>6, <3>7, <3>8, <3>9, <3>10, <3>11
         DEF PollResult, TypeOK
  <2>9. CASE CancelAll
    BY <2>9 DEF CancelAll, TypeOK
  <2>10. CASE UNCHANGED vars
    BY <2>10 DEF vars, TypeOK
  <2>11. QED
    BY <2>1, <2>2, <2>3, <2>4, <2>5, <2>6, <2>7, <2>8, <2>9, <2>10 DEF Next
<1>3. QED
  BY <1>1, <1>2, PTL DEF Spec
-----------------------------------------------------------------------------
(***************************************************************************)
(* The slots of a node agree                                               *)
(***************************************************************************)

\* A debounce entry that is flushed belongs to an idle node.
LEMMA FlushedIdle ==
  ASSUME TypeOK, SlotsAgree, NEW n \in Flushed
  PROVE  n \in Nodes /\ debounce[n] # None /\ ~inFlight[n] /\ dirty[n] = None
BY DEF TypeOK, SlotsAgree, Flushed

\* Whatever is cancelled or deleted, a node in flight has no timer running and
\* no cached environment, and a dirty request waits only behind an evaluation.
THEOREM SlotsAlwaysAgree == Spec => []SlotsAgree
<1>1. Init => SlotsAgree
  BY DEF Init, SlotsAgree
<1>2. TypeOK /\ SlotsAgree /\ [Next]_vars => SlotsAgree'
  <2> SUFFICES ASSUME TypeOK, SlotsAgree, [Next]_vars
               PROVE  SlotsAgree'
    OBVIOUS
  <2>1. ASSUME NEW n \in Nodes, NEW c \in Codes, Compute(n, c)
        PROVE  SlotsAgree'
    <3>1. CASE Busy(n)
      <4>1. ~NewRequest(n, c).fast
        BY <3>1 DEF NewRequest, FastPath, Busy, SlotsAgree
      <4>2. QED
        BY <2>1, <3>1, <4>1 DEF Compute, Busy, DirtyWith, SlotsAgree, TypeOK
    <3>2. CASE ~Busy(n)
      BY <2>1, <3>2
         DEF Compute, Busy, DebounceWithout, CacheWithout, SlotsAgree, TypeOK
    <3>3. QED
      BY <3>1, <3>2
  <2>2. ASSUME NEW n \in Nodes, NEW c \in Codes, ComputeDebounced(n, c)
        PROVE  SlotsAgree'
    <3>1. CASE Busy(n)
      <4>1. ~NewRequest(n, c).fast
        BY <3>1 DEF NewRequest, FastPath, Busy, SlotsAgree
      <4>2. QED
        BY <2>2, <3>1, <4>1 DEF ComputeDebounced, Busy, DirtyWith, SlotsAgree, TypeOK
    <3>2. CASE ~Busy(n)
      BY <2>2, <3>2 DEF ComputeDebounced, Busy, SlotsAgree, TypeOK
    <3>3. QED
      BY <3>1, <3>2
  <2>3. ASSUME NEW n \in Nodes, DebounceExpires(n)
        PROVE  SlotsAgree'
    BY <2>3 DEF DebounceExpires, SlotsAgree
  <2>4. ASSUME NEW n \in Nodes, SendMessage(n)
        PROVE  SlotsAgree'
    BY <2>4 DEF SendMessage, SlotsAgree
  <2>5. ASSUME NEW n \in Nodes, Remove(n)
        PROVE  SlotsAgree'
    BY <2>5 DEF Remove, SlotsAgree, TypeOK, CacheWithout
  <2>6. ASSUME NEW j \in jobs, Evaluate(j)
        PROVE  SlotsAgree'
    BY <2>6 DEF Evaluate, SlotsAgree
  <2>7. CASE PollFlush
    BY <2>7, FlushedIdle
       DEF PollFlush, SlotsAgree, DebounceAfterFlush, CacheWithout,
           InFlightAfterFlush
  <2>8. CASE PollResult
    <3> DEFINE m == Head(results).node
    <3>1. m \in Nodes
      BY <2>8, HeadType DEF PollResult
    <3>2. ASSUME NEW n \in Nodes, inFlight'[n]
          PROVE  debounce'[n] = None /\ envCache'[n] = None
      <4>1. CASE n = m
        <5>1. dirty[m] # None
          BY <2>8, <3>1, <3>2, <4>1
             DEF PollResult, InFlightAfter, InFlightAfterFlush, Again
        <5>2. debounce[m] = None
          BY <3>1, <5>1 DEF SlotsAgree
        <5>3. QED
          BY <2>8, <3>1, <4>1, <5>1, <5>2
             DEF PollResult, Again, DebounceAfterFlush, CacheWithout
      <4>2. CASE n # m
        BY <2>8, <3>1, <3>2, <4>2
           DEF PollResult, InFlightAfter, InFlightAfterFlush, DebounceAfterFlush,
               CacheWithout, CacheAfter, SlotsAgree
      <4>3. QED
        BY <4>1, <4>2
    <3>3. ASSUME NEW n \in Nodes, dirty'[n] # None
          PROVE  inFlight'[n] /\ ~dirty'[n].fast
      BY <2>8, <3>1, <3>3
         DEF PollResult, InFlightAfter, InFlightAfterFlush, SlotsAgree, TypeOK
    <3>4. QED
      BY <3>2, <3>3 DEF SlotsAgree
  <2>9. CASE CancelAll
    BY <2>9 DEF CancelAll, SlotsAgree
  <2>10. CASE UNCHANGED vars
    BY <2>10 DEF vars, SlotsAgree
  <2>11. QED
    BY <2>1, <2>2, <2>3, <2>4, <2>5, <2>6, <2>7, <2>8, <2>9, <2>10 DEF Next
<1>3. QED
  BY <1>1, <1>2, TypeCorrect, PTL DEF Spec
-----------------------------------------------------------------------------
(***************************************************************************)
(* One evaluation of a node at a time                                      *)
(***************************************************************************)

\* The elements of a sequence after Tail and after Append.
LEMMA TailElements ==
  ASSUME NEW S, NEW s \in Seq(S), s # <<>>
  PROVE  \A i \in DOMAIN Tail(s) : i + 1 \in DOMAIN s /\ Tail(s)[i] = s[i + 1]
OBVIOUS

LEMMA AppendElements ==
  ASSUME NEW S, NEW s \in Seq(S), NEW e \in S
  PROVE  \A i \in DOMAIN Append(s, e) :
           \/ i \in DOMAIN s /\ Append(s, e)[i] = s[i]
           \/ i = Len(s) + 1 /\ Append(s, e)[i] = e
OBVIOUS

\* What poll leaves of the results: those of the channel but the first, each
\* one place nearer.
LEMMA ResultsAfterPoll ==
  ASSUME TypeOK, PollResult, NEW n, NEW i \in ResultsOf(n)'
  PROVE  i + 1 \in ResultsOf(n) /\ i + 1 # 1 /\ results'[i] = results[i + 1]
<1>1. results \in Seq(Result) /\ results # <<>> /\ results' = Tail(results)
  BY DEF TypeOK, PollResult
<1>2. i \in DOMAIN results' /\ results'[i].node = n
  BY DEF ResultsOf
<1>3. i + 1 \in DOMAIN results /\ results'[i] = results[i + 1]
  BY <1>1, <1>2, TailElements
<1>4. i \in Nat /\ i # 0
  BY <1>1, <1>2
<1>5. QED
  BY <1>2, <1>3, <1>4 DEF ResultsOf

\* The first result is one of its node.
LEMMA HeadIsResult ==
  ASSUME TypeOK, results # <<>>
  PROVE  1 \in ResultsOf(Head(results).node) /\ results[1] = Head(results)
<1>1. results \in Seq(Result) /\ 1 \in DOMAIN results /\ results[1] = Head(results)
  BY DEF TypeOK
<1>2. QED
  BY <1>1 DEF ResultsOf

\* The jobs poll adds are those of the flushed nodes and of the restarted one.
LEMMA JobsAfterPoll ==
  ASSUME PollResult, NEW j \in jobs'
  PROVE  \/ j \in jobs
         \/ \E n \in Flushed : j = SpawnedJob(n, debounce[n], envCache[n])
         \/ LET m == Head(results).node IN
              dirty[m] # None /\ j = SpawnedJob(m, dirty[m], CacheAfter(Head(results))[m])
BY DEF PollResult, FlushedJobs, Again

\* An evaluation turns a job into a result of the same node and request.
LEMMA ResultsAfterEvaluate ==
  ASSUME TypeOK, NEW j \in jobs, Evaluate(j), NEW n, NEW i \in ResultsOf(n)'
  PROVE  \/ i \in ResultsOf(n) /\ results'[i] = results[i]
         \/ /\ i = Len(results) + 1 /\ n = j.node
            /\ results'[i].stamp = j.req.stamp
<1>1. PICK r \in EvalResults(j) \cup {ErrorResult(j)} : results' = Append(results, r)
  BY DEF Evaluate
<1>2. j \in Job
  BY DEF TypeOK
<1>3. r \in Result /\ r.node = j.node /\ r.stamp = j.req.stamp
  BY <1>1, <1>2, EvalResultType
<1>4. i \in DOMAIN results' /\ results'[i].node = n
  BY DEF ResultsOf
<1>5. \/ i \in DOMAIN results /\ results'[i] = results[i]
      \/ i = Len(results) + 1 /\ results'[i] = r
  <2>1. results \in Seq(Result)
    BY DEF TypeOK
  <2>2. QED
    BY <1>1, <1>3, <1>4, <2>1, AppendElements
<1>6. QED
  BY <1>3, <1>4, <1>5 DEF ResultsOf

\* The inductive invariant: an evaluation under way is never overlooked by
\* in_flight, so that no second one starts.
OneAtATime == SingleEvaluation /\ InFlightCovers

\* OneAtATime for one node.
Alone(n) ==
  /\ \A j, k \in JobsOf(n) : j = k
  /\ \A i, k \in ResultsOf(n) : i = k
  /\ JobsOf(n) = {} \/ ResultsOf(n) = {}
  /\ JobsOf(n) # {} \/ ResultsOf(n) # {} => inFlight[n]

\* in_flight covers every evaluation of a node that is not deleted, which is
\* evaluated at most once at a time, however requests, timers, polls,
\* cancellations and the deletion of other nodes interleave.
THEOREM NoOverlap == Spec => []OneAtATime
<1>1. Init => OneAtATime
  BY DEF Init, OneAtATime, SingleEvaluation, InFlightCovers, Outstanding, JobsOf,
         ResultsOf, Lasting
<1>2. TypeOK /\ SlotsAgree /\ OneAtATime /\ [Next]_vars => OneAtATime'
  <2> SUFFICES ASSUME TypeOK, SlotsAgree, OneAtATime, [Next]_vars,
                      NEW k \in Lasting
               PROVE  Alone(k)'
    BY DEF OneAtATime, SingleEvaluation, InFlightCovers, Outstanding, Alone
  <2>0. k \in Nodes /\ k \notin Removable /\ Alone(k)
    BY DEF OneAtATime, SingleEvaluation, InFlightCovers, Outstanding, Alone, Lasting
  <2>1. ASSUME NEW n \in Nodes, NEW c \in Codes, Compute(n, c)
        PROVE  Alone(k)'
    <3>1. ResultsOf(k)' = ResultsOf(k)
      BY <2>1 DEF Compute, ResultsOf
    <3>2. CASE k # n
      <4>1. JobsOf(k)' = JobsOf(k) /\ inFlight'[k] = inFlight[k]
        BY <2>0, <2>1, <3>2 DEF Compute, JobsOf, SpawnedJob, TypeOK
      <4>2. QED
        BY <2>0, <3>1, <4>1 DEF Alone
    <3>3. CASE k = n /\ Busy(n)
      <4>1. JobsOf(k)' = JobsOf(k) /\ inFlight' = inFlight
        BY <2>1, <3>3 DEF Compute, JobsOf
      <4>2. QED
        BY <2>0, <3>1, <4>1 DEF Alone
    <3>4. CASE k = n /\ ~Busy(n)
      <4>1. JobsOf(k) = {} /\ ResultsOf(k) = {}
        BY <2>0, <3>4 DEF Busy, Alone
      <4>2. JobsOf(k)' = {SpawnedJob(n, NewRequest(n, c), envCache[n])}
        BY <2>1, <3>4, <4>1 DEF Compute, JobsOf, SpawnedJob
      <4>3. inFlight'[k]
        BY <2>0, <2>1, <3>4 DEF Compute, TypeOK
      <4>4. QED
        BY <3>1, <4>1, <4>2, <4>3 DEF Alone
    <3>5. QED
      BY <3>2, <3>3, <3>4
  <2>2. ASSUME NEW n \in Nodes, NEW c \in Codes, ComputeDebounced(n, c)
        PROVE  Alone(k)'
    BY <2>0, <2>2 DEF ComputeDebounced, Alone, JobsOf, ResultsOf
  <2>3. ASSUME NEW n \in Nodes, DebounceExpires(n)
        PROVE  Alone(k)'
    BY <2>0, <2>3 DEF DebounceExpires, Alone, JobsOf, ResultsOf
  <2>4. ASSUME NEW n \in Nodes, SendMessage(n)
        PROVE  Alone(k)'
    BY <2>0, <2>4 DEF SendMessage, Alone, JobsOf, ResultsOf
  <2>5. ASSUME NEW n \in Nodes, Remove(n)
        PROVE  Alone(k)'
    <3>1. JobsOf(k)' = JobsOf(k) /\ ResultsOf(k)' = ResultsOf(k)
      BY <2>5 DEF Remove, JobsOf, ResultsOf
    <3>2. inFlight'[k] = inFlight[k]
      BY <2>0, <2>5 DEF Remove, TypeOK
    <3>3. QED
      BY <2>0, <3>1, <3>2 DEF Alone
  <2>6. ASSUME NEW j \in jobs, Evaluate(j)
        PROVE  Alone(k)'
    <3>1. jobs' = jobs \ {j} /\ inFlight' = inFlight
      BY <2>6 DEF Evaluate
    <3>2. JobsOf(k)' = JobsOf(k) \ {j}
      BY <3>1 DEF JobsOf
    <3>3. \A i \in ResultsOf(k)' :
            \/ i \in ResultsOf(k)
            \/ i = Len(results) + 1 /\ k = j.node
      BY <2>6, ResultsAfterEvaluate
    <3>4. CASE k = j.node
      <4>1. JobsOf(k) = {j} /\ ResultsOf(k) = {} /\ inFlight[k]
        BY <2>0, <3>4 DEF Alone, JobsOf
      <4>2. QED
        BY <3>1, <3>2, <3>3, <4>1 DEF Alone
    <3>5. CASE k # j.node
      <4>1. JobsOf(k)' = JobsOf(k)
        BY <3>2, <3>5 DEF JobsOf
      <4>2. QED
        BY <2>0, <3>1, <3>3, <3>5, <4>1 DEF Alone
    <3>6. QED
      BY <3>4, <3>5
  <2>7. CASE PollFlush
    <3>1. /\ ResultsOf(k)' = ResultsOf(k)
          /\ inFlight'[k] = (inFlight[k] \/ k \in Flushed)
      BY <2>0, <2>7 DEF PollFlush, ResultsOf, InFlightAfterFlush
    <3>2. CASE k \in Flushed
      <4>1. JobsOf(k) = {} /\ ResultsOf(k) = {}
        BY <2>0, <3>2, FlushedIdle DEF Alone
      <4>2. JobsOf(k)' = {SpawnedJob(k, debounce[k], envCache[k])}
        BY <2>7, <3>2, <4>1 DEF PollFlush, JobsOf, FlushedJobs, SpawnedJob
      <4>3. QED
        BY <3>1, <3>2, <4>1, <4>2 DEF Alone
    <3>3. CASE k \notin Flushed
      <4>1. JobsOf(k)' = JobsOf(k)
        BY <2>7, <3>3 DEF PollFlush, JobsOf, FlushedJobs, SpawnedJob
      <4>2. QED
        BY <2>0, <3>1, <3>3, <4>1 DEF Alone
    <3>4. QED
      BY <3>2, <3>3
  <2>8. CASE PollResult
    <3>0. PICK m \in Nodes : m = Head(results).node
      BY <2>8, HeadType DEF PollResult
    <3>1. 1 \in ResultsOf(m)
      BY <2>8, <3>0, HeadIsResult DEF PollResult
    <3>2. \A i \in ResultsOf(k)' : i \in Nat /\ i + 1 \in ResultsOf(k) /\ i + 1 # 1
      <4>1. \A i \in ResultsOf(k)' : i \in Nat
        BY <2>8, HeadType DEF PollResult, ResultsOf
      <4>2. QED
        BY <2>8, <4>1, ResultsAfterPoll
    <3>3. inFlight'[k] = IF k = m THEN dirty[k] # None
                                  ELSE inFlight[k] \/ k \in Flushed
      BY <2>0, <2>8, <3>0
         DEF PollResult, InFlightAfter, InFlightAfterFlush, Again, TypeOK
    <3>4. CASE k = m
      <4>1. JobsOf(k) = {} /\ inFlight[k] /\ \A i \in ResultsOf(k) : i = 1
        BY <2>0, <3>1, <3>4 DEF Alone
      <4>2. ResultsOf(k)' = {}
        BY <3>2, <4>1
      <4>3. ASSUME NEW j \in JobsOf(k)'
            PROVE  /\ j = SpawnedJob(k, dirty[k], CacheAfter(Head(results))[k])
                   /\ dirty[k] # None
        <5>1. j \in jobs' /\ j.node = k /\ j \notin jobs
          BY <4>1 DEF JobsOf
        <5>2. \A n \in Flushed : j # SpawnedJob(n, debounce[n], envCache[n])
          BY <4>1, <5>1, FlushedIdle DEF SpawnedJob
        <5>3. QED
          BY <2>8, <3>0, <3>4, <5>1, <5>2, JobsAfterPoll
      <4>4. QED
        BY <3>3, <3>4, <4>2, <4>3 DEF Alone
    <3>5. CASE k # m
      <4>1. jobs \subseteq jobs' /\ FlushedJobs \subseteq jobs'
        BY <2>8 DEF PollResult
      <4>2. ASSUME NEW j \in JobsOf(k)'
            PROVE  \/ j \in JobsOf(k)
                   \/ k \in Flushed /\ j = SpawnedJob(k, debounce[k], envCache[k])
        <5>1. j \in jobs' /\ j.node = k
          BY DEF JobsOf
        <5>2. j # SpawnedJob(m, dirty[m], CacheAfter(Head(results))[m])
          BY <3>5, <5>1 DEF SpawnedJob
        <5>3. CASE \E n \in Flushed : j = SpawnedJob(n, debounce[n], envCache[n])
          BY <5>1, <5>3 DEF SpawnedJob
        <5>4. QED
          BY <2>8, <3>0, <5>1, <5>2, <5>3, JobsAfterPoll DEF JobsOf
      <4>3. JobsOf(k) \subseteq JobsOf(k)'
        BY <4>1 DEF JobsOf
      <4>4. ResultsOf(k) = {} => ResultsOf(k)' = {}
        BY <3>2
      <4>5. \A i, l \in ResultsOf(k)' : i = l
        <5>1. \A i, l \in ResultsOf(k)' : i + 1 = l + 1
          BY <2>0, <3>2 DEF Alone
        <5>2. QED
          BY <3>2, <5>1
      <4>6. CASE k \in Flushed
        <5>1. JobsOf(k) = {} /\ ResultsOf(k) = {}
          BY <2>0, <4>6, FlushedIdle DEF Alone
        <5>2. QED
          BY <3>3, <3>5, <4>2, <4>4, <4>6, <5>1 DEF Alone
      <4>7. CASE k \notin Flushed
        <5>1. JobsOf(k)' = JobsOf(k)
          BY <4>2, <4>3, <4>7
        <5>2. inFlight'[k] = inFlight[k]
          BY <2>0, <3>3, <3>5, <4>7 DEF TypeOK
        <5>3. QED
          BY <2>0, <4>4, <4>5, <5>1, <5>2 DEF Alone
      <4>8. QED
        BY <4>6, <4>7
    <3>6. QED
      BY <3>4, <3>5
  <2>9. CASE CancelAll
    BY <2>0, <2>9 DEF CancelAll, Alone, JobsOf, ResultsOf
  <2>10. CASE UNCHANGED vars
    BY <2>0, <2>10 DEF vars, Alone, JobsOf, ResultsOf
  <2>11. QED
    BY <2>1, <2>2, <2>3, <2>4, <2>5, <2>6, <2>7, <2>8, <2>9, <2>10 DEF Next
<1>3. QED
  BY <1>1, <1>2, TypeCorrect, SlotsAlwaysAgree, PTL DEF Spec

\* The property the runs check.
THEOREM SingleEvaluationHolds == Spec => []SingleEvaluation
<1>1. OneAtATime => SingleEvaluation
  BY DEF OneAtATime
<1>2. QED
  BY <1>1, NoOverlap, PTL
-----------------------------------------------------------------------------
(***************************************************************************)
(* Results come in the order of the requests                               *)
(***************************************************************************)

\* The stamps in jobs, requests and counters are numbers.
LEMMA StampTypes ==
  ASSUME TypeOK, NEW n \in Nodes
  PROVE  /\ asked[n] \in Nat /\ emitted[n] \in Nat
         /\ dirty[n] # None => dirty[n].stamp \in Nat
         /\ debounce[n] # None => debounce[n].stamp \in Nat
         /\ \A j \in JobsOf(n) : j.req.stamp \in Nat
         /\ \A i \in ResultsOf(n) : results[i].stamp \in Nat
<1>1. Stamps \subseteq Nat
  BY DEF Stamps
<1>2. asked[n] \in Nat /\ emitted[n] \in Nat
  BY <1>1 DEF TypeOK
<1>3. /\ dirty[n] # None => dirty[n] \in Request
      /\ debounce[n] # None => debounce[n] \in Request
      /\ \A j \in JobsOf(n) : j.req \in Request
  BY DEF TypeOK, JobsOf, Job
<1>4. \A q \in Request : q.stamp \in Nat
  BY <1>1 DEF Request
<1>5. \A i \in ResultsOf(n) : results[i] \in Result
  BY DEF TypeOK, ResultsOf
<1>6. \A r \in Result : r.stamp \in Nat
  BY <1>1 DEF Result
<1>7. QED
  BY <1>2, <1>3, <1>4, <1>5, <1>6

\* StampsOrdered for one node, from which StampsOrdered follows.
NodeOrdered(n) ==
  /\ emitted[n] <= asked[n]
  /\ \A j \in JobsOf(n) : emitted[n] < j.req.stamp /\ j.req.stamp <= asked[n]
  /\ \A i \in ResultsOf(n) :
       emitted[n] < results[i].stamp /\ results[i].stamp <= asked[n]
  /\ dirty[n] # None =>
       /\ dirty[n].stamp = asked[n] /\ emitted[n] < asked[n]
       /\ \A j \in JobsOf(n) : j.req.stamp < asked[n]
       /\ \A i \in ResultsOf(n) : results[i].stamp < asked[n]
  /\ debounce[n] # None => debounce[n].stamp = asked[n] /\ emitted[n] < asked[n]

\* For a node that is not deleted, what is evaluated is newer than what was
\* delivered, and what waits is newest.
THEOREM StampsAlwaysOrdered == Spec => []StampsOrdered
<1>1. Init => StampsOrdered
  BY DEF Init, StampsOrdered, JobsOf, ResultsOf, Lasting
<1>2. /\ TypeOK /\ SlotsAgree /\ OneAtATime /\ StampsOrdered
      /\ [Next]_vars
      => StampsOrdered'
  <2> SUFFICES ASSUME TypeOK, SlotsAgree, OneAtATime, [Next]_vars,
                      \A n \in Lasting : NodeOrdered(n),
                      NEW k \in Lasting
               PROVE  NodeOrdered(k)'
    BY DEF StampsOrdered, NodeOrdered
  <2>0. NodeOrdered(k)
    OBVIOUS
  <2>b. k \in Nodes /\ k \notin Removable /\ Alone(k)
    BY DEF OneAtATime, SingleEvaluation, InFlightCovers, Outstanding, Alone, Lasting
  <2>a. /\ asked[k] \in Nat /\ emitted[k] \in Nat
        /\ \A j \in JobsOf(k) : j.req.stamp \in Nat
        /\ \A i \in ResultsOf(k) : results[i].stamp \in Nat
    BY <2>b, StampTypes
  <2>1. ASSUME NEW n \in Nodes, NEW c \in Codes, Compute(n, c)
        PROVE  NodeOrdered(k)'
    <3>1. /\ asked' = [asked EXCEPT ![n] = @ + 1] /\ emitted' = emitted
          /\ results' = results /\ ResultsOf(k)' = ResultsOf(k)
      BY <2>1 DEF Compute, ResultsOf
    <3>2. NewRequest(n, c).stamp = asked[n] + 1
      BY DEF NewRequest
    <3>3. CASE k # n
      <4>1. JobsOf(k)' = JobsOf(k)
        BY <2>1, <3>3 DEF Compute, JobsOf, SpawnedJob
      <4>2. asked'[k] = asked[k] /\ dirty'[k] = dirty[k] /\ debounce'[k] = debounce[k]
        BY <2>b, <2>1, <3>3 DEF Compute, DirtyWith, DebounceWithout, TypeOK
      <4>3. QED
        BY <2>0, <3>1, <4>1, <4>2 DEF NodeOrdered
    <3>4. CASE k = n /\ Busy(n)
      <4>1. JobsOf(k)' = JobsOf(k) /\ debounce'[k] = None
        BY <2>1, <3>4 DEF Compute, JobsOf, Busy, SlotsAgree
      <4>2. asked'[k] = asked[k] + 1 /\ dirty'[k].stamp = asked[k] + 1
        BY <2>1, <3>2, <3>4 DEF Compute, DirtyWith, TypeOK
      <4>3. QED
        BY <2>0, <2>a, <3>1, <4>1, <4>2 DEF NodeOrdered
    <3>5. CASE k = n /\ ~Busy(n)
      <4>1. JobsOf(k) = {} /\ ResultsOf(k) = {} /\ dirty[k] = None
        BY <2>b, <3>5 DEF Busy, Alone, SlotsAgree
      <4>2. \A j \in JobsOf(k)' : j.req = NewRequest(n, c)
        BY <2>1, <3>5, <4>1 DEF Compute, JobsOf, SpawnedJob
      <4>3. asked'[k] = asked[k] + 1 /\ dirty'[k] = None /\ debounce'[k] = None
        BY <2>1, <3>5, <4>1 DEF Compute, DebounceWithout, TypeOK
      <4>4. QED
        BY <2>0, <2>a, <3>1, <3>2, <3>5, <4>1, <4>2, <4>3 DEF NodeOrdered
    <3>6. QED
      BY <3>3, <3>4, <3>5
  <2>2. ASSUME NEW n \in Nodes, NEW c \in Codes, ComputeDebounced(n, c)
        PROVE  NodeOrdered(k)'
    <3>1. /\ asked' = [asked EXCEPT ![n] = @ + 1] /\ emitted' = emitted
          /\ results' = results
          /\ ResultsOf(k)' = ResultsOf(k) /\ JobsOf(k)' = JobsOf(k)
      BY <2>2 DEF ComputeDebounced, ResultsOf, JobsOf
    <3>2. NewRequest(n, c).stamp = asked[n] + 1
      BY DEF NewRequest
    <3>3. CASE k # n
      <4>1. asked'[k] = asked[k] /\ dirty'[k] = dirty[k] /\ debounce'[k] = debounce[k]
        BY <2>b, <2>2, <3>3 DEF ComputeDebounced, DirtyWith, TypeOK
      <4>2. QED
        BY <2>0, <3>1, <4>1 DEF NodeOrdered
    <3>4. CASE k = n /\ Busy(n)
      <4>1. asked'[k] = asked[k] + 1 /\ dirty'[k].stamp = asked[k] + 1
        BY <2>2, <3>2, <3>4 DEF ComputeDebounced, DirtyWith, TypeOK
      <4>2. debounce'[k] = None
        BY <2>2, <3>4 DEF ComputeDebounced, Busy, SlotsAgree
      <4>3. QED
        BY <2>0, <2>a, <3>1, <4>1, <4>2 DEF NodeOrdered
    <3>5. CASE k = n /\ ~Busy(n)
      <4>1. JobsOf(k) = {} /\ ResultsOf(k) = {} /\ dirty'[k] = None
        BY <2>b, <2>2, <3>5 DEF ComputeDebounced, Busy, Alone, SlotsAgree
      <4>2. asked'[k] = asked[k] + 1 /\ debounce'[k].stamp = asked[k] + 1
        BY <2>2, <3>2, <3>5 DEF ComputeDebounced, TypeOK
      <4>3. QED
        BY <2>0, <2>a, <3>1, <4>1, <4>2 DEF NodeOrdered
    <3>6. QED
      BY <3>3, <3>4, <3>5
  <2>3. ASSUME NEW n \in Nodes, DebounceExpires(n)
        PROVE  NodeOrdered(k)'
    BY <2>0, <2>3 DEF DebounceExpires, NodeOrdered, JobsOf, ResultsOf
  <2>4. ASSUME NEW n \in Nodes, SendMessage(n)
        PROVE  NodeOrdered(k)'
    BY <2>0, <2>4 DEF SendMessage, NodeOrdered, JobsOf, ResultsOf
  <2>5. ASSUME NEW n \in Nodes, Remove(n)
        PROVE  NodeOrdered(k)'
    <3>1. JobsOf(k)' = JobsOf(k) /\ ResultsOf(k)' = ResultsOf(k)
      BY <2>5 DEF Remove, JobsOf, ResultsOf
    <3>2. dirty'[k] = dirty[k] /\ debounce'[k] = debounce[k]
      BY <2>b, <2>5 DEF Remove, TypeOK
    <3>3. QED
      BY <2>0, <2>5, <3>1, <3>2 DEF Remove, NodeOrdered
  <2>6. ASSUME NEW j \in jobs, Evaluate(j)
        PROVE  NodeOrdered(k)'
    <3>1. /\ asked' = asked /\ emitted' = emitted /\ dirty' = dirty
          /\ debounce' = debounce /\ jobs' = jobs \ {j}
      BY <2>6 DEF Evaluate
    <3>2. JobsOf(k)' \subseteq JobsOf(k)
      BY <3>1 DEF JobsOf
    <3>3. j \in JobsOf(j.node)
      BY DEF JobsOf
    <3>4. ASSUME NEW i \in ResultsOf(k)'
          PROVE  \/ i \in ResultsOf(k) /\ results'[i].stamp = results[i].stamp
                 \/ j \in JobsOf(k) /\ results'[i].stamp = j.req.stamp
      BY <2>6, <3>3, <3>4, ResultsAfterEvaluate
    <3>5. QED
      BY <2>0, <3>1, <3>2, <3>4 DEF NodeOrdered
  <2>7. CASE PollFlush
    <3>1. /\ asked' = asked /\ emitted' = emitted /\ dirty' = dirty
          /\ results' = results /\ ResultsOf(k)' = ResultsOf(k)
          /\ jobs' = jobs \cup FlushedJobs
          /\ debounce' = DebounceAfterFlush
      BY <2>7 DEF PollFlush, ResultsOf
    <3>2. CASE k \in Flushed
      <4>1. debounce[k] # None /\ dirty[k] = None /\ JobsOf(k) = {}
        BY <2>b, <3>2, FlushedIdle DEF Alone
      <4>2. \A j \in JobsOf(k)' : j.req = debounce[k]
        BY <3>1, <4>1 DEF JobsOf, FlushedJobs, SpawnedJob
      <4>3. debounce'[k] = None
        BY <2>b, <3>1, <3>2 DEF DebounceAfterFlush
      <4>4. QED
        BY <2>0, <2>a, <3>1, <4>1, <4>2, <4>3 DEF NodeOrdered
    <3>3. CASE k \notin Flushed
      <4>1. JobsOf(k)' = JobsOf(k) /\ debounce'[k] = debounce[k]
        BY <2>b, <3>1, <3>3 DEF JobsOf, FlushedJobs, SpawnedJob, DebounceAfterFlush
      <4>2. QED
        BY <2>0, <3>1, <4>1 DEF NodeOrdered
    <3>4. QED
      BY <3>2, <3>3
  <2>8. CASE PollResult
    <3>0. PICK m \in Nodes : m = Head(results).node
      BY <2>8, HeadType DEF PollResult
    <3>1. 1 \in ResultsOf(m) /\ results[1] = Head(results)
      BY <2>8, <3>0, HeadIsResult DEF PollResult
    <3>2. /\ asked' = asked
          /\ emitted' = [emitted EXCEPT ![m] = results[1].stamp]
          /\ dirty' = [dirty EXCEPT ![m] = None]
          /\ debounce' = DebounceAfterFlush
      BY <2>8, <3>0, <3>1 DEF PollResult
    <3>3. k = m => /\ inFlight[m] /\ debounce[m] = None /\ JobsOf(m) = {}
                   /\ \A i \in ResultsOf(m) : i = 1
      BY <2>b, <3>1 DEF Alone, SlotsAgree
    <3>4. \A i \in ResultsOf(k)' :
            i + 1 \in ResultsOf(k) /\ i + 1 # 1 /\ results'[i] = results[i + 1]
      BY <2>8, ResultsAfterPoll
    <3>5. CASE k = m
      <4>1. ResultsOf(k)' = {}
        BY <3>3, <3>4, <3>5
      <4>2. ASSUME NEW j \in JobsOf(k)'
            PROVE  dirty[k] # None /\ j.req = dirty[k]
        <5>1. j \in jobs' /\ j.node = m /\ j \notin jobs
          BY <3>3, <3>5 DEF JobsOf
        <5>2. \A n \in Flushed : n # m
          BY <3>3, <3>5, FlushedIdle
        <5>3. QED
          BY <2>8, <3>0, <3>5, <5>1, <5>2, JobsAfterPoll DEF SpawnedJob
      <4>3. dirty'[k] = None /\ debounce'[k] = None /\ emitted'[k] = results[1].stamp
        BY <3>2, <3>3, <3>5 DEF TypeOK, DebounceAfterFlush
      <4>4. /\ results[1].stamp \in Nat /\ results[1].stamp <= asked[k]
            /\ dirty[k] # None =>
                 dirty[k].stamp = asked[k] /\ results[1].stamp < asked[k]
        BY <2>0, <2>a, <3>1, <3>5 DEF NodeOrdered
      <4>5. QED
        BY <2>a, <3>2, <4>1, <4>2, <4>3, <4>4 DEF NodeOrdered
    <3>6. CASE k # m
      <4>1. emitted'[k] = emitted[k] /\ dirty'[k] = dirty[k]
        BY <2>b, <3>2, <3>6 DEF TypeOK
      <4>2. ASSUME NEW j \in JobsOf(k)'
            PROVE  \/ j \in JobsOf(k)
                   \/ k \in Flushed /\ j.req = debounce[k]
        <5>1. j \in jobs' /\ j.node = k
          BY DEF JobsOf
        <5>2. QED
          BY <2>8, <3>0, <3>6, <5>1, JobsAfterPoll DEF SpawnedJob, JobsOf
      <4>3. k \in Flushed => /\ debounce[k] # None /\ dirty[k] = None
                             /\ ResultsOf(k) = {}
        BY <2>b, FlushedIdle DEF Alone
      <4>4. debounce'[k] # None => debounce'[k] = debounce[k]
        BY <2>b, <3>2 DEF DebounceAfterFlush
      <4>5. QED
        BY <2>0, <2>a, <3>2, <3>4, <4>1, <4>2, <4>3, <4>4 DEF NodeOrdered
    <3>7. QED
      BY <3>5, <3>6
  <2>9. CASE CancelAll
    <3>1. JobsOf(k)' = JobsOf(k) /\ ResultsOf(k)' = {}
      BY <2>9 DEF CancelAll, JobsOf, ResultsOf
    <3>2. QED
      BY <2>0, <2>b, <2>9, <3>1 DEF CancelAll, NodeOrdered
  <2>10. CASE UNCHANGED vars
    BY <2>0, <2>10 DEF vars, NodeOrdered, JobsOf, ResultsOf
  <2>11. QED
    BY <2>1, <2>2, <2>3, <2>4, <2>5, <2>6, <2>7, <2>8, <2>9, <2>10 DEF Next
<1>3. QED
  BY <1>1, <1>2, TypeCorrect, SlotsAlwaysAgree, NoOverlap, PTL DEF Spec

\* The owner never sees an older result of a node that is not deleted after a
\* newer one: only poll delivers, and what it delivers is newer than the last.
THEOREM ResultsComeInOrder == Spec => ResultsInOrder
<1> DEFINE NoneOlder == \A n \in Lasting : emitted'[n] # emitted[n] => emitted'[n] > emitted[n]
<1>1. TypeOK /\ StampsOrdered /\ [Next]_vars => [NoneOlder]_vars
  <2> SUFFICES ASSUME TypeOK, StampsOrdered, Next
               PROVE  NoneOlder
    BY DEF vars
  <2>1. CASE emitted' = emitted
    BY <2>1
  <2>2. CASE PollResult
    <3>1. PICK m \in Nodes : m = Head(results).node
      BY <2>2, HeadType DEF PollResult
    <3>2. 1 \in ResultsOf(m) /\ results[1] = Head(results)
      BY <2>2, <3>1, HeadIsResult DEF PollResult
    <3>3. emitted' = [emitted EXCEPT ![m] = results[1].stamp]
      BY <2>2, <3>1, <3>2 DEF PollResult
    <3>4. m \in Lasting =>
            emitted[m] < results[1].stamp /\ emitted[m] \in Nat /\ results[1].stamp \in Nat
      BY <3>2, StampTypes DEF StampsOrdered
    <3>5. \A n \in Nodes : emitted'[n] = IF n = m THEN results[1].stamp ELSE emitted[n]
      BY <3>3 DEF TypeOK
    <3>6. QED
      BY <3>4, <3>5 DEF Lasting
  <2>3. QED
    BY <2>1, <2>2
       DEF Next, Compute, ComputeDebounced, DebounceExpires, SendMessage, Remove,
           Evaluate, PollFlush, CancelAll
<1>2. QED
  BY <1>1, TypeCorrect, StampsAlwaysOrdered, PTL DEF Spec, ResultsInOrder
-----------------------------------------------------------------------------
(***************************************************************************)
(* Every node that is not deleted is a NodeExecutor                        *)
(***************************************************************************)

\* The only member of a set is the one that is chosen.
LEMMA ChooseOnly ==
  ASSUME NEW S, NEW x \in S, \A y \in S : y = x
  PROVE  (CHOOSE y \in S : TRUE) = x
OBVIOUS

\* What is being evaluated of a node is its one closure, else its one result.
LEMMA CurrentIsOnly ==
  ASSUME NEW n, Alone(n)
  PROVE  /\ \A j \in JobsOf(n) : CurrentOf(n) = j.req.stamp
         /\ \A i \in ResultsOf(n) : CurrentOf(n) = results[i].stamp
         /\ JobsOf(n) = {} /\ ResultsOf(n) = {} => CurrentOf(n) = 0
<1>1. ASSUME NEW j \in JobsOf(n)
      PROVE  CurrentOf(n) = j.req.stamp
  <2>1. (CHOOSE y \in JobsOf(n) : TRUE) = j
    BY <1>1, ChooseOnly DEF Alone
  <2>2. QED
    BY <1>1, <2>1 DEF CurrentOf
<1>2. ASSUME NEW i \in ResultsOf(n)
      PROVE  CurrentOf(n) = results[i].stamp
  <2>1. (CHOOSE y \in ResultsOf(n) : TRUE) = i
    BY <1>2, ChooseOnly DEF Alone
  <2>2. JobsOf(n) = {}
    BY <1>2 DEF Alone
  <2>3. QED
    BY <1>2, <2>1, <2>2 DEF CurrentOf
<1>3. QED
  BY <1>1, <1>2 DEF CurrentOf

\* A step of the runtime is, for each node that is not deleted, a step of its
\* executor or none.
LEMMA StepOfExecutor ==
  ASSUME TypeOK, SlotsAgree, OneAtATime, StampsOrdered, OneAtATime', Next,
         NEW k \in Lasting
  PROVE  \/ Executor(k)!Next
         \/ UNCHANGED <<asked[k], WaitingOf(k), CurrentOf(k), emitted[k]>>
<1>a. k \in Nodes /\ k \notin Removable /\ Alone(k) /\ Alone(k)'
  BY DEF OneAtATime, SingleEvaluation, InFlightCovers, Outstanding, Alone, Lasting
<1>b. /\ \A j \in JobsOf(k) : CurrentOf(k) = j.req.stamp
      /\ \A i \in ResultsOf(k) : CurrentOf(k) = results[i].stamp
      /\ JobsOf(k) = {} /\ ResultsOf(k) = {} => CurrentOf(k) = 0
  BY <1>a, CurrentIsOnly
<1>c. /\ \A j \in JobsOf(k)' : CurrentOf(k)' = j.req.stamp
      /\ \A i \in ResultsOf(k)' : CurrentOf(k)' = results'[i].stamp
      /\ JobsOf(k)' = {} /\ ResultsOf(k)' = {} => CurrentOf(k)' = 0
  <2>1. Alone(k)' => /\ \A j \in JobsOf(k)' : (CHOOSE y \in JobsOf(k)' : TRUE) = j
                     /\ \A i \in ResultsOf(k)' : (CHOOSE y \in ResultsOf(k)' : TRUE) = i
                     /\ JobsOf(k)' = {} \/ ResultsOf(k)' = {}
    BY ChooseOnly DEF Alone
  <2>2. QED
    BY <1>a, <2>1 DEF CurrentOf
<1>d. /\ asked[k] \in Nat /\ emitted[k] \in Nat
      /\ dirty[k] # None => dirty[k].stamp = asked[k] /\ dirty[k].stamp # 0
      /\ debounce[k] # None => debounce[k].stamp = asked[k] /\ debounce[k].stamp # 0
      /\ \A i \in ResultsOf(k) : results[i].stamp \in Nat /\ results[i].stamp # 0
  BY <1>a, StampTypes DEF StampsOrdered
<1>e. UNCHANGED <<dirty[k], debounce[k]>> => WaitingOf(k)' = WaitingOf(k)
  BY DEF WaitingOf
<1>1. ASSUME NEW n \in Nodes, NEW c \in Codes, Compute(n, c)
      PROVE  \/ Executor(k)!Submit
             \/ UNCHANGED <<asked[k], WaitingOf(k), CurrentOf(k), emitted[k]>>
  <2>1. /\ asked' = [asked EXCEPT ![n] = @ + 1] /\ emitted' = emitted
        /\ results' = results /\ ResultsOf(k)' = ResultsOf(k)
        /\ NewRequest(n, c).stamp = asked[n] + 1
    BY <1>1 DEF Compute, ResultsOf, NewRequest
  <2>2. CASE k # n
    <3>1. JobsOf(k)' = JobsOf(k)
      BY <1>1, <2>2 DEF Compute, JobsOf, SpawnedJob
    <3>2. asked'[k] = asked[k] /\ dirty'[k] = dirty[k] /\ debounce'[k] = debounce[k]
      BY <1>a, <1>1, <2>2 DEF Compute, DirtyWith, DebounceWithout, TypeOK
    <3>3. CurrentOf(k)' = CurrentOf(k)
      BY <2>1, <3>1 DEF CurrentOf
    <3>4. QED
      BY <1>e, <2>1, <3>2, <3>3
  <2>3. CASE k = n /\ Busy(n)
    <3>1. CurrentOf(k)' = CurrentOf(k)
      BY <1>1, <2>1, <2>3 DEF Compute, JobsOf, CurrentOf
    <3>2. asked'[k] = asked[k] + 1 /\ dirty'[k] = NewRequest(k, c)
      BY <1>1, <2>1, <2>3 DEF Compute, DirtyWith, TypeOK
    <3>3. dirty'[k] # None
      BY <1>1, <2>3, <3>2, NewRequestType, NoneAssumption DEF Compute
    <3>4. WaitingOf(k)' = asked'[k]
      BY <2>1, <2>3, <3>2, <3>3 DEF WaitingOf
    <3>5. QED
      BY <2>1, <3>1, <3>2, <3>4 DEF Executor!Submit
  <2>4. CASE k = n /\ ~Busy(n)
    <3>1. JobsOf(k) = {} /\ ResultsOf(k) = {} /\ dirty[k] = None
      BY <1>a, <2>4 DEF Busy, Alone, SlotsAgree
    <3>2. SpawnedJob(n, NewRequest(n, c), envCache[n]) \in JobsOf(k)'
      BY <1>1, <2>4 DEF Compute, JobsOf, SpawnedJob
    <3>3. asked'[k] = asked[k] + 1 /\ dirty'[k] = None /\ debounce'[k] = None
      BY <1>1, <2>4, <3>1 DEF Compute, DebounceWithout, TypeOK
    <3>4. CurrentOf(k)' = asked'[k] /\ CurrentOf(k) = 0 /\ WaitingOf(k)' = 0
      BY <1>b, <1>c, <2>1, <2>4, <3>1, <3>2, <3>3 DEF SpawnedJob, WaitingOf, StampOf
    <3>5. QED
      BY <2>1, <3>3, <3>4 DEF Executor!Submit
  <2>5. QED
    BY <2>2, <2>3, <2>4
<1>2. ASSUME NEW n \in Nodes, NEW c \in Codes, ComputeDebounced(n, c)
      PROVE  \/ Executor(k)!Submit
             \/ UNCHANGED <<asked[k], WaitingOf(k), CurrentOf(k), emitted[k]>>
  <2>1. /\ asked' = [asked EXCEPT ![n] = @ + 1] /\ emitted' = emitted
        /\ CurrentOf(k)' = CurrentOf(k) /\ NewRequest(n, c).stamp = asked[n] + 1
    BY <1>2 DEF ComputeDebounced, ResultsOf, JobsOf, CurrentOf, NewRequest
  <2>2. CASE k # n
    <3>1. asked'[k] = asked[k] /\ dirty'[k] = dirty[k] /\ debounce'[k] = debounce[k]
      BY <1>a, <1>2, <2>2 DEF ComputeDebounced, DirtyWith, TypeOK
    <3>2. QED
      BY <1>e, <2>1, <3>1
  <2>3. CASE k = n
    <3>1. NewRequest(n, c) # None
      BY <1>2, NewRequestType, NoneAssumption DEF ComputeDebounced
    <3>2. CASE Busy(n)
      BY <1>2, <2>1, <2>3, <3>1, <3>2
         DEF ComputeDebounced, DirtyWith, TypeOK, WaitingOf, Executor!Submit
    <3>3. CASE ~Busy(n)
      <4>1. dirty[k] = None
        BY <2>3, <3>3 DEF Busy, SlotsAgree
      <4>2. QED
        BY <1>2, <2>1, <2>3, <3>1, <3>3, <4>1
           DEF ComputeDebounced, TypeOK, WaitingOf, StampOf, Executor!Submit
    <3>4. QED
      BY <3>2, <3>3
  <2>4. QED
    BY <2>2, <2>3
<1>3. ASSUME NEW n \in Nodes, DebounceExpires(n) \/ SendMessage(n)
      PROVE  UNCHANGED <<asked[k], WaitingOf(k), CurrentOf(k), emitted[k]>>
  <2>1. /\ asked' = asked /\ emitted' = emitted /\ UNCHANGED <<dirty[k], debounce[k]>>
        /\ JobsOf(k)' = JobsOf(k) /\ ResultsOf(k)' = ResultsOf(k) /\ results' = results
    BY <1>3 DEF DebounceExpires, SendMessage, JobsOf, ResultsOf
  <2>2. QED
    BY <1>e, <2>1 DEF CurrentOf
<1>4. ASSUME NEW n \in Nodes, Remove(n)
      PROVE  UNCHANGED <<asked[k], WaitingOf(k), CurrentOf(k), emitted[k]>>
  <2>1. dirty'[k] = dirty[k] /\ debounce'[k] = debounce[k]
    BY <1>a, <1>4 DEF Remove, TypeOK
  <2>2. CurrentOf(k)' = CurrentOf(k)
    BY <1>4 DEF Remove, CurrentOf, JobsOf, ResultsOf
  <2>3. QED
    BY <1>4, <1>e, <2>1, <2>2 DEF Remove
<1>5. ASSUME NEW j \in jobs, Evaluate(j)
      PROVE  UNCHANGED <<asked[k], WaitingOf(k), CurrentOf(k), emitted[k]>>
  <2>1. UNCHANGED <<asked[k], WaitingOf(k), emitted[k]>> /\ jobs' = jobs \ {j}
    BY <1>5 DEF Evaluate, WaitingOf
  <2>2. CASE k = j.node
    <3>1. PICK r \in EvalResults(j) \cup {ErrorResult(j)} : results' = Append(results, r)
      BY <1>5 DEF Evaluate
    <3>2. j \in Job
      BY DEF TypeOK
    <3>3. r \in Result /\ r.node = j.node /\ r.stamp = j.req.stamp
      BY <3>1, <3>2, EvalResultType
    <3>4. results \in Seq(Result)
      BY DEF TypeOK
    <3>5. Len(results) + 1 \in DOMAIN results' /\ results'[Len(results) + 1] = r
      BY <3>1, <3>3, <3>4
    <3>6. Len(results) + 1 \in ResultsOf(k)'
      BY <2>2, <3>3, <3>5 DEF ResultsOf
    <3>7. j \in JobsOf(k)
      BY <2>2 DEF JobsOf
    <3>8. QED
      BY <1>b, <1>c, <2>1, <3>3, <3>5, <3>6, <3>7
  <2>3. CASE k # j.node
    <3>1. JobsOf(k)' = JobsOf(k)
      BY <2>1, <2>3 DEF JobsOf
    <3>2. \A i \in ResultsOf(k)' : i \in ResultsOf(k) /\ results'[i] = results[i]
      BY <1>5, <2>3, ResultsAfterEvaluate
    <3>3. ResultsOf(k) \subseteq ResultsOf(k)'
      <4>1. PICK r \in EvalResults(j) \cup {ErrorResult(j)} : results' = Append(results, r)
        BY <1>5 DEF Evaluate
      <4>2. results \in Seq(Result)
        BY DEF TypeOK
      <4>3. \A i \in DOMAIN results : i \in DOMAIN results' /\ results'[i] = results[i]
        BY <4>1, <4>2
      <4>4. QED
        BY <4>3 DEF ResultsOf
    <3>4. ResultsOf(k)' = ResultsOf(k)
      BY <3>2, <3>3
    <3>5. CurrentOf(k)' = CurrentOf(k)
      BY <1>b, <1>c, <3>1, <3>2, <3>4
    <3>6. QED
      BY <2>1, <3>5
  <2>4. QED
    BY <2>2, <2>3
<1>6. ASSUME k \in Flushed, SpawnedJob(k, debounce[k], envCache[k]) \in JobsOf(k)',
             debounce'[k] = None, UNCHANGED <<dirty[k], asked[k], emitted[k]>>
      PROVE  Executor(k)!Start
  <2>1. debounce[k] # None /\ dirty[k] = None /\ JobsOf(k) = {} /\ ResultsOf(k) = {}
    BY <1>a, <1>6, FlushedIdle DEF Alone
  <2>2. CurrentOf(k) = 0 /\ WaitingOf(k) = debounce[k].stamp
    BY <1>b, <2>1 DEF WaitingOf, StampOf
  <2>3. CurrentOf(k)' = debounce[k].stamp /\ WaitingOf(k)' = 0
    BY <1>c, <1>6, <2>1 DEF SpawnedJob, WaitingOf, StampOf
  <2>4. QED
    BY <1>d, <1>6, <2>1, <2>2, <2>3 DEF Executor!Start
<1>7. CASE PollFlush
  <2>1. /\ asked' = asked /\ emitted' = emitted /\ dirty' = dirty
        /\ results' = results /\ ResultsOf(k)' = ResultsOf(k)
        /\ jobs' = jobs \cup FlushedJobs
        /\ debounce' = DebounceAfterFlush
    BY <1>7 DEF PollFlush, ResultsOf
  <2>2. CASE k \in Flushed
    <3>1. SpawnedJob(k, debounce[k], envCache[k]) \in JobsOf(k)'
      BY <2>1, <2>2 DEF JobsOf, FlushedJobs, SpawnedJob
    <3>2. debounce'[k] = None
      BY <1>a, <2>1, <2>2 DEF DebounceAfterFlush
    <3>3. QED
      BY <1>6, <2>1, <2>2, <3>1, <3>2 DEF Executor!Next
  <2>3. CASE k \notin Flushed
    <3>1. JobsOf(k)' = JobsOf(k) /\ debounce'[k] = debounce[k]
      BY <1>a, <2>1, <2>3 DEF JobsOf, FlushedJobs, SpawnedJob, DebounceAfterFlush
    <3>2. QED
      BY <1>e, <2>1, <3>1 DEF CurrentOf
  <2>4. QED
    BY <2>2, <2>3
<1>8. CASE PollResult
  <2>0. PICK m \in Nodes : m = Head(results).node
    BY <1>8, HeadType DEF PollResult
  <2>1. 1 \in ResultsOf(m) /\ results[1] = Head(results)
    BY <1>8, <2>0, HeadIsResult DEF PollResult
  <2>2. /\ asked' = asked
        /\ emitted' = [emitted EXCEPT ![m] = results[1].stamp]
        /\ dirty' = [dirty EXCEPT ![m] = None]
        /\ debounce' = DebounceAfterFlush
        /\ jobs \cup FlushedJobs \subseteq jobs'
    BY <1>8, <2>0, <2>1 DEF PollResult
  <2>3. \A i \in ResultsOf(k)' :
          i + 1 \in ResultsOf(k) /\ i + 1 # 1 /\ results'[i] = results[i + 1]
    BY <1>8, ResultsAfterPoll
  <2>4. CASE k = m
    <3>1. /\ JobsOf(k) = {} /\ debounce[k] = None /\ \A i \in ResultsOf(k) : i = 1
          /\ CurrentOf(k) = results[1].stamp /\ CurrentOf(k) # 0
      BY <1>a, <1>b, <1>d, <2>1, <2>4 DEF Alone, SlotsAgree
    <3>2. ResultsOf(k)' = {}
      BY <2>3, <3>1
    <3>3. emitted'[k] = CurrentOf(k) /\ dirty'[k] = None /\ debounce'[k] = None
      BY <2>2, <2>4, <3>1 DEF TypeOK, DebounceAfterFlush
    <3>4. WaitingOf(k)' = 0
      BY <3>3 DEF WaitingOf, StampOf
    <3>5. CASE dirty[k] = None
      <4>1. ASSUME NEW j \in JobsOf(k)'
            PROVE  FALSE
        <5>1. j \in jobs' /\ j.node = m /\ j \notin jobs
          BY <2>4, <3>1 DEF JobsOf
        <5>2. \A n \in Flushed : n # m
          BY <2>1, <2>4, <3>1, FlushedIdle DEF Alone
        <5>3. QED
          BY <1>8, <2>0, <2>4, <3>5, <5>1, <5>2, JobsAfterPoll DEF SpawnedJob
      <4>2. CurrentOf(k)' = 0 /\ WaitingOf(k) = 0
        BY <1>c, <3>1, <3>2, <3>5, <4>1 DEF WaitingOf, StampOf
      <4>3. QED
        BY <2>2, <3>1, <3>3, <3>4, <4>2 DEF Executor!Next, Executor!Deliver
    <3>6. CASE dirty[k] # None
      <4>1. SpawnedJob(k, dirty[k], CacheAfter(Head(results))[k]) \in JobsOf(k)'
        BY <1>8, <2>0, <2>4, <3>6 DEF PollResult, Again, JobsOf, SpawnedJob
      <4>2. CurrentOf(k)' = dirty[k].stamp /\ WaitingOf(k) = dirty[k].stamp
        BY <1>c, <3>6, <4>1 DEF SpawnedJob, WaitingOf
      <4>3. QED
        BY <2>2, <3>1, <3>3, <3>4, <4>2 DEF Executor!Next, Executor!Deliver
    <3>7. QED
      BY <3>5, <3>6
  <2>5. CASE k # m
    <3>1. emitted'[k] = emitted[k] /\ dirty'[k] = dirty[k] /\ asked'[k] = asked[k]
      BY <1>a, <2>2, <2>5 DEF TypeOK
    <3>2. CASE k \in Flushed
      <4>1. SpawnedJob(k, debounce[k], envCache[k]) \in JobsOf(k)'
        BY <2>2, <3>2 DEF JobsOf, FlushedJobs, SpawnedJob
      <4>2. debounce'[k] = None
        BY <1>a, <2>2, <3>2 DEF DebounceAfterFlush
      <4>3. QED
        BY <1>6, <3>1, <3>2, <4>1, <4>2 DEF Executor!Next
    <3>3. CASE k \notin Flushed
      <4>1. debounce'[k] = debounce[k]
        BY <1>a, <2>2, <3>3 DEF DebounceAfterFlush
      <4>2. \A j \in JobsOf(k)' : j \in JobsOf(k)
        BY <1>8, <2>0, <2>5, <3>3, JobsAfterPoll DEF SpawnedJob, JobsOf
      <4>3. JobsOf(k) \subseteq JobsOf(k)'
        BY <2>2 DEF JobsOf
      <4>4. ASSUME NEW i \in ResultsOf(k)
            PROVE  ResultsOf(k)' # {}
        <5>1. results \in Seq(Result) /\ results # <<>> /\ results' = Tail(results)
          BY <1>8 DEF TypeOK, PollResult
        <5>2. i \in DOMAIN results /\ results[i].node = k /\ i # 1
          BY <2>0, <2>1, <2>5 DEF ResultsOf
        <5>3. i - 1 \in DOMAIN results' /\ results'[i - 1] = results[i]
          BY <5>1, <5>2
        <5>4. QED
          BY <5>2, <5>3 DEF ResultsOf
      <4>5. CurrentOf(k)' = CurrentOf(k)
        BY <1>b, <1>c, <2>3, <4>2, <4>3, <4>4
      <4>6. QED
        BY <1>e, <3>1, <4>1, <4>5
    <3>4. QED
      BY <3>2, <3>3
  <2>6. QED
    BY <2>4, <2>5
<1>9. CASE CancelAll
  <2>1. JobsOf(k)' = JobsOf(k) /\ ResultsOf(k)' = {}
    BY <1>9 DEF CancelAll, JobsOf, ResultsOf
  <2>2. CurrentOf(k)' \in {0, CurrentOf(k)}
    BY <1>b, <1>c, <2>1
  <2>3. WaitingOf(k)' = 0
    BY <1>a, <1>9 DEF CancelAll, WaitingOf, StampOf
  <2>4. QED
    BY <1>9, <2>2, <2>3 DEF CancelAll, Executor!Next, Executor!Cancel
<1>10. QED
  BY <1>1, <1>2, <1>3, <1>4, <1>5, <1>7, <1>8, <1>9 DEF Next, Executor!Next

\* The runtime implements, for each node that is not deleted, the executor that
\* evaluates one request at a time, keeps the latest one waiting and delivers in
\* order.
THEOREM RuntimeImplementsExecutors == Spec => NodesAreExecutors
<1> DEFINE StepAll == \A n \in Lasting :
             Executor(n)!Next \/ UNCHANGED <<asked[n], WaitingOf(n), CurrentOf(n), emitted[n]>>
<1>1. Init => \A n \in Lasting : Executor(n)!Init
  <2> SUFFICES ASSUME Init, NEW n \in Lasting
               PROVE  Executor(n)!Init
    OBVIOUS
  <2>1. JobsOf(n) = {} /\ ResultsOf(n) = {} /\ n \in Nodes
    BY DEF Init, JobsOf, ResultsOf, Lasting
  <2>2. WaitingOf(n) = 0 /\ CurrentOf(n) = 0 /\ asked[n] = 0 /\ emitted[n] = 0
    BY <2>1 DEF Init, WaitingOf, StampOf, CurrentOf
  <2>3. QED
    BY <2>2 DEF Executor!Init
<1>2. TypeOK /\ SlotsAgree /\ OneAtATime /\ StampsOrdered /\ OneAtATime' /\ [Next]_vars
        => [StepAll]_vars
  BY StepOfExecutor
<1>3. QED
  BY <1>1, <1>2, TypeCorrect, SlotsAlwaysAgree, NoOverlap, StampsAlwaysOrdered, PTL
     DEF Spec, NodesAreExecutors
-----------------------------------------------------------------------------
(***************************************************************************)
(* Environments                                                            *)
(***************************************************************************)

\* What a request, an environment and a result keep to: only a text that is not
\* blank is expanded, takes the fast path and registers a handler.
RequestFits(q) == q # None /\ q.fast => q.code # Blank
EnvFits(e) == e # None => (e.pre <=> e.code # Blank)
ResultFits(r) == EnvFits(r.env) /\ (r.env # None /\ r.handler => r.env.code # Blank)
JobFits(j) ==
  RequestFits(j.req) /\ EnvFits(j.env) /\ (j.env # None => j.env.code = j.req.code)

\* The inductive invariant behind EnvFitsText.
TextsFit ==
  /\ \A j \in jobs : JobFits(j)
  /\ \A i \in DOMAIN results : ResultFits(results[i])
  /\ \A n \in Nodes :
       /\ RequestFits(dirty[n]) /\ RequestFits(debounce[n]) /\ EnvFits(envCache[n])
       /\ n \in handlers /\ envCache[n] # None => envCache[n].code # Blank

\* Two environments, and whether they are one.
Shares(e, f) == e # None /\ f # None /\ e.origin = f.origin

\* Request s of node n is still to be evaluated; environment e of n was made by a
\* request that is not.
Waits(n, s) ==
  \/ dirty[n] # None /\ dirty[n].stamp = s
  \/ debounce[n] # None /\ debounce[n].stamp = s
  \/ \E j \in JobsOf(n) : j.req.stamp = s
Known(n, e) == e # None => e.origin <= asked[n] /\ ~Waits(n, e.origin)

\* The inductive invariant behind EnvHasOneHolder: requests to be evaluated have
\* stamps of their own, which no environment is named by, and each environment
\* is in one place.
OwnEnvs(n) ==
  /\ \A q \in {dirty[n], debounce[n]} : q # None =>
       q.stamp <= asked[n] /\ \A j \in JobsOf(n) : j.req.stamp # q.stamp
  /\ \A j \in JobsOf(n) :
       /\ j.req.stamp <= asked[n] /\ Known(n, j.env) /\ ~Shares(j.env, envCache[n])
       /\ \A l \in JobsOf(n) : j.req.stamp = l.req.stamp \/ Shares(j.env, l.env) => j = l
       /\ \A i \in ResultsOf(n) : ~Shares(j.env, results[i].env)
  /\ \A i \in ResultsOf(n) :
       /\ Known(n, results[i].env) /\ ~Shares(results[i].env, envCache[n])
       /\ \A l \in ResultsOf(n) : Shares(results[i].env, results[l].env) => i = l
  /\ Known(n, envCache[n])

\* What EvalEnv, EvalResults and SpawnedJob build from what fits, fits.
LEMMA SpawnedJobFits ==
  ASSUME NEW n, NEW q, NEW e, q # None, RequestFits(q), EnvFits(e)
  PROVE  JobFits(SpawnedJob(n, q, e))
BY DEF SpawnedJob, TakenEnv, JobFits, RequestFits, EnvFits

LEMMA EvaluationFits ==
  ASSUME NEW j \in Job, JobFits(j), NEW r \in EvalResults(j) \cup {ErrorResult(j)}
  PROVE  ResultFits(r)
<1>1. CASE r = ErrorResult(j)
  BY <1>1 DEF ErrorResult, ResultFits, EnvFits
<1>2. CASE r \in EvalResults(j) /\ OnFastPath(j)
  <2>1. PICK h \in BOOLEAN : r = ComputedResult(j, j.env, h)
    BY <1>2 DEF EvalResults, FastResults
  <2>2. j.req # None
    BY NoneAssumption DEF Job
  <2>3. j.env.code # Blank
    BY <1>2, <2>2 DEF OnFastPath, JobFits, RequestFits
  <2>4. QED
    BY <2>1, <2>3 DEF ComputedResult, ResultFits, JobFits
<1>3. CASE r \in EvalResults(j) /\ ~OnFastPath(j) /\ j.req.code = Blank
  <2>1. r = ComputedResult(j, EvalEnv(j, FALSE), FALSE)
    BY <1>3 DEF EvalResults, FullResults
  <2>2. QED
    BY <1>3, <2>1 DEF ComputedResult, EvalEnv, ResultFits, EnvFits
<1>4. CASE r \in EvalResults(j) /\ ~OnFastPath(j) /\ j.req.code # Blank
  <2>1. PICK h \in BOOLEAN : r = ComputedResult(j, EvalEnv(j, TRUE), h)
    BY <1>4 DEF EvalResults, FullResults
  <2>2. QED
    BY <1>4, <2>1 DEF ComputedResult, EvalEnv, ResultFits, EnvFits
<1>5. QED
  BY <1>1, <1>2, <1>3, <1>4

\* What poll leaves in the cache: the environment of the result it took, or what
\* was there, and nothing where it started an evaluation.
LEMMA CacheAfterPoll ==
  ASSUME TypeOK, PollResult, NEW n \in Nodes, envCache'[n] # None
  PROVE  LET r == Head(results) IN
         /\ n = r.node => dirty[n] = None
         /\ IF n = r.node /\ r.env # None THEN envCache'[n] = r.env
            ELSE envCache'[n] = envCache[n] /\ n \notin Flushed
<1> DEFINE r == Head(results)
           restarted == IF Again(r.node) = None THEN {} ELSE {r.node}
<1>1. envCache'[n] = CacheWithout(CacheAfter(r), restarted)[n]
  BY DEF PollResult
<1>2. n \notin restarted /\ envCache'[n] = CacheAfter(r)[n]
  BY <1>1 DEF CacheWithout
<1>3. n = r.node => dirty[n] = None
  BY <1>2 DEF Again
<1>4. CASE n = r.node /\ r.env # None
  BY <1>2, <1>3, <1>4 DEF CacheAfter
<1>5. CASE ~(n = r.node /\ r.env # None)
  BY <1>2, <1>3, <1>5 DEF CacheAfter, CacheWithout
<1>6. QED
  BY <1>3, <1>4, <1>5

\* Whatever is cancelled or deleted, every request, environment and result fits.
THEOREM TextsAlwaysFit == Spec => []TextsFit
<1>1. Init => TextsFit
  BY DEF Init, TextsFit, RequestFits, EnvFits
<1>2. TypeOK /\ SlotsAgree /\ TextsFit /\ [Next]_vars => TextsFit'
  <2> SUFFICES ASSUME TypeOK, SlotsAgree, TextsFit, [Next]_vars
               PROVE  TextsFit'
    OBVIOUS
  <2>0. \A n \in Nodes, c \in Codes : RequestFits(NewRequest(n, c))
    BY DEF NewRequest, FastPath, RequestFits, TextsFit
  <2>a. EnvFits(None) /\ RequestFits(None)
    BY DEF EnvFits, RequestFits
  <2>1. ASSUME NEW n \in Nodes, NEW c \in Codes, Compute(n, c)
        PROVE  TextsFit'
    <3>1. NewRequest(n, c) # None
      BY <2>1, NewRequestType, NoneAssumption DEF Compute
    <3>2. JobFits(SpawnedJob(n, NewRequest(n, c), envCache[n]))
      BY <2>0, <3>1, SpawnedJobFits DEF TextsFit
    <3>3. /\ \A k \in Nodes : RequestFits(dirty'[k]) /\ RequestFits(debounce'[k])
          /\ \A k \in Nodes : envCache'[k] \in {envCache[k], None}
          /\ jobs' \subseteq jobs \cup {SpawnedJob(n, NewRequest(n, c), envCache[n])}
          /\ results' = results /\ handlers' = handlers
      <4>1. CASE Busy(n)
        <5>1. /\ dirty' = DirtyWith(n, NewRequest(n, c))
              /\ UNCHANGED <<debounce, envCache, jobs, results, handlers>>
          BY <2>1, <4>1 DEF Compute
        <5>2. \A k \in Nodes : dirty'[k] \in {dirty[k], NewRequest(n, c)}
          BY <5>1 DEF DirtyWith, TypeOK
        <5>3. QED
          BY <2>0, <5>1, <5>2 DEF TextsFit
      <4>2. CASE ~Busy(n)
        <5>1. dirty' = dirty /\ \A k \in Nodes : debounce'[k] \in {debounce[k], None}
          BY <2>1, <4>2 DEF Compute, DebounceWithout, TypeOK
        <5>2. \A k \in Nodes : envCache'[k] \in {envCache[k], None}
          BY <2>1, <4>2 DEF Compute, CacheWithout
        <5>3. QED
          BY <2>1, <2>a, <4>2, <5>1, <5>2 DEF Compute, TextsFit
      <4>3. QED
        BY <4>1, <4>2
    <3>4. QED
      BY <2>a, <3>2, <3>3 DEF TextsFit
  <2>2. ASSUME NEW n \in Nodes, NEW c \in Codes, ComputeDebounced(n, c)
        PROVE  TextsFit'
    <3>1. /\ \A k \in Nodes : RequestFits(dirty'[k]) /\ RequestFits(debounce'[k])
          /\ envCache' = envCache /\ jobs' = jobs /\ results' = results
          /\ handlers' = handlers
      <4>1. /\ \A k \in Nodes : dirty'[k] \in {dirty[k], NewRequest(n, c)}
            /\ \A k \in Nodes : debounce'[k] \in {debounce[k], NewRequest(n, c)}
        BY <2>2 DEF ComputeDebounced, DirtyWith, TypeOK
      <4>2. QED
        BY <2>0, <2>2, <4>1 DEF ComputeDebounced, TextsFit
    <3>2. QED
      BY <3>1 DEF TextsFit
  <2>3. ASSUME NEW n \in Nodes, DebounceExpires(n) \/ SendMessage(n)
        PROVE  TextsFit'
    BY <2>3 DEF DebounceExpires, SendMessage, TextsFit
  <2>4. ASSUME NEW n \in Nodes, Remove(n)
        PROVE  TextsFit'
    BY <2>4, <2>a DEF Remove, CacheWithout, TypeOK, TextsFit
  <2>5. ASSUME NEW j \in jobs, Evaluate(j)
        PROVE  TextsFit'
    <3>1. PICK r \in EvalResults(j) \cup {ErrorResult(j)} : results' = Append(results, r)
      BY <2>5 DEF Evaluate
    <3>2. j \in Job /\ r \in Result
      BY EvalResultType DEF TypeOK
    <3>3. ResultFits(r)
      BY <3>2, EvaluationFits DEF TextsFit
    <3>4. \A i \in DOMAIN results' : ResultFits(results'[i])
      <4>1. results \in Seq(Result)
        BY DEF TypeOK
      <4>2. ASSUME NEW i \in DOMAIN results'
            PROVE  \/ i \in DOMAIN results /\ results'[i] = results[i]
                   \/ results'[i] = r
        BY <3>1, <3>2, <4>1, AppendElements
      <4>3. QED
        BY <3>3, <4>2 DEF TextsFit
    <3>5. QED
      BY <2>5, <3>4 DEF Evaluate, TextsFit
  <2>b. ASSUME NEW n \in Flushed
        PROVE  JobFits(SpawnedJob(n, debounce[n], envCache[n]))
    BY FlushedIdle, SpawnedJobFits DEF TextsFit
  <2>6. CASE PollFlush
    <3>1. \A j \in FlushedJobs : JobFits(j)
      BY <2>b DEF FlushedJobs
    <3>2. /\ \A n \in Nodes : envCache'[n] \in {envCache[n], None}
          /\ \A n \in Nodes : debounce'[n] \in {debounce[n], None}
          /\ jobs' = jobs \cup FlushedJobs
          /\ results' = results /\ handlers' = handlers /\ dirty' = dirty
      BY <2>6 DEF PollFlush, DebounceAfterFlush, CacheWithout
    <3>3. QED
      BY <2>a, <3>1, <3>2 DEF TextsFit
  <2>7. CASE PollResult
    <3> DEFINE r == Head(results)
               m == r.node
    <3>1. results # <<>> /\ m \in Nodes
      BY <2>7, HeadType DEF PollResult
    <3>2. 1 \in DOMAIN results /\ results[1] = r
      BY <3>1 DEF TypeOK
    <3>3. ResultFits(r)
      BY <3>2 DEF TextsFit
    <3>4. EnvFits(CacheAfter(r)[m])
      BY <2>a, <3>1, <3>3 DEF CacheAfter, CacheWithout, TextsFit, ResultFits
    <3>5. \A j \in jobs' : JobFits(j)
      <4>1. dirty[m] # None => JobFits(SpawnedJob(m, dirty[m], CacheAfter(r)[m]))
        BY <3>1, <3>4, SpawnedJobFits DEF TextsFit
      <4>2. QED
        BY <2>7, <2>b, <4>1, JobsAfterPoll DEF TextsFit
    <3>6. \A i \in DOMAIN results' : ResultFits(results'[i])
      <4>1. results \in Seq(Result) /\ results' = Tail(results)
        BY <2>7 DEF PollResult, TypeOK
      <4>2. QED
        BY <3>1, <4>1, TailElements DEF TextsFit
    <3>7. ASSUME NEW n \in Nodes
          PROVE  /\ RequestFits(dirty'[n]) /\ RequestFits(debounce'[n])
                 /\ EnvFits(envCache'[n])
                 /\ n \in handlers' /\ envCache'[n] # None => envCache'[n].code # Blank
      <4>1. dirty'[n] \in {dirty[n], None} /\ debounce'[n] \in {debounce[n], None}
        BY <2>7 DEF PollResult, DebounceAfterFlush, TypeOK
      <4>2. RequestFits(dirty'[n]) /\ RequestFits(debounce'[n])
        BY <2>a, <4>1 DEF TextsFit
      <4>3. CASE envCache'[n] = None
        BY <2>a, <4>2, <4>3
      <4>4. CASE envCache'[n] # None /\ n = m /\ r.env # None
        <5>1. envCache'[n] = r.env
          BY <2>7, <4>4, CacheAfterPoll
        <5>2. n \in handlers' => r.handler
          BY <2>7, <4>4 DEF PollResult, HandlersAfter
        <5>3. QED
          BY <3>3, <4>2, <4>4, <5>1, <5>2 DEF ResultFits
      <4>5. CASE envCache'[n] # None /\ ~(n = m /\ r.env # None)
        <5>1. envCache'[n] = envCache[n]
          BY <2>7, <4>5, CacheAfterPoll
        <5>2. n \in handlers' => n \in handlers
          BY <2>7, <4>5 DEF PollResult, HandlersAfter
        <5>3. QED
          BY <4>2, <5>1, <5>2 DEF TextsFit
      <4>6. QED
        BY <4>3, <4>4, <4>5
    <3>8. QED
      BY <3>5, <3>6, <3>7 DEF TextsFit
  <2>8. CASE CancelAll
    BY <2>8, <2>a DEF CancelAll, TextsFit
  <2>9. CASE UNCHANGED vars
    BY <2>9 DEF vars, TextsFit
  <2>10. QED
    BY <2>1, <2>2, <2>3, <2>4, <2>5, <2>6, <2>7, <2>8, <2>9 DEF Next
<1>3. QED
  BY <1>1, <1>2, TypeCorrect, SlotsAlwaysAgree, PTL DEF Spec

\* An environment is only handed to an evaluation of its text, and the fast path
\* finds the expanded text.
THEOREM EnvAlwaysFitsText == Spec => []EnvFitsText
<1>1. TypeOK /\ TextsFit => EnvFitsText
  <2>1. \A q \in Request : q # None
    BY NoneAssumption
  <2>2. QED
    BY <2>1 DEF TypeOK, TextsFit, JobFits, RequestFits, EnvFits, EnvFitsText, Job
<1>2. QED
  BY <1>1, TypeCorrect, TextsAlwaysFit, PTL

\* Origins are numbers.
LEMMA OriginTypes ==
  ASSUME TypeOK, NEW n \in Nodes
  PROVE  /\ envCache[n] # None => envCache[n].origin \in Nat
         /\ \A j \in JobsOf(n) : j.env # None => j.env.origin \in Nat
         /\ \A i \in ResultsOf(n) : results[i].env # None => results[i].env.origin \in Nat
<1>1. \A e \in Env : e.origin \in Nat
  BY DEF Env, Stamps
<1>2. /\ envCache[n] \in Env \cup {None}
      /\ \A j \in JobsOf(n) : j.env \in Env \cup {None}
      /\ \A i \in ResultsOf(n) : results[i] \in Result
  BY DEF TypeOK, JobsOf, ResultsOf, Job
<1>3. \A i \in ResultsOf(n) : results[i].env \in Env \cup {None}
  BY <1>2 DEF Result
<1>4. QED
  BY <1>1, <1>2, <1>3

\* The result of an evaluation carries the environment of its closure or one that
\* is named by its request.
LEMMA EvaluationOrigin ==
  ASSUME NEW j \in Job, NEW r \in EvalResults(j) \cup {ErrorResult(j)}, r.env # None
  PROVE  \/ j.env # None /\ r.env.origin = j.env.origin
         \/ r.env.origin = j.req.stamp
<1>1. r # ErrorResult(j)
  BY DEF ErrorResult
<1>2. \A pre \in BOOLEAN : EvalEnv(j, pre).origin \in {j.req.stamp} \cup
                             (IF j.env = None THEN {} ELSE {j.env.origin})
  BY DEF EvalEnv
<1>3. CASE OnFastPath(j)
  <2>1. PICK h \in BOOLEAN : r = ComputedResult(j, j.env, h)
    BY <1>1, <1>3 DEF EvalResults, FastResults
  <2>2. QED
    BY <1>3, <2>1 DEF OnFastPath, ComputedResult
<1>4. CASE ~OnFastPath(j)
  <2>1. PICK pre \in BOOLEAN, h \in BOOLEAN : r = ComputedResult(j, EvalEnv(j, pre), h)
    BY <1>1, <1>4 DEF EvalResults, FullResults
  <2>2. QED
    BY <1>2, <2>1 DEF ComputedResult
<1>5. QED
  BY <1>3, <1>4

\* Environment e of node n is in none of its closures and in none of the results R.
Apart(n, R, e) ==
  e # None =>
    /\ e.origin \in Nat /\ Known(n, e)
    /\ \A j \in JobsOf(n) : ~Shares(j.env, e)
    /\ \A i \in R : ~Shares(results[i].env, e)

\* A step that starts nothing: closures, results and slots are left or dropped, the
\* results move up by d places, and the cache gets an environment that is nowhere
\* else.
LEMMA OwnAfterKeep ==
  ASSUME TypeOK, NEW k \in Nodes, OwnEnvs(k), NEW R \in SUBSET ResultsOf(k), NEW d \in {0, 1},
         JobsOf(k)' \subseteq JobsOf(k),
         \A i \in ResultsOf(k)' : i \in Nat /\ i + d \in R /\ results'[i] = results[i + d],
         Apart(k, R, envCache'[k]),
         dirty'[k] \in {dirty[k], None}, debounce'[k] \in {debounce[k], None},
         asked'[k] = asked[k]
  PROVE  OwnEnvs(k)'
<1>1. ASSUME NEW e, Known(k, e)
      PROVE  Known(k, e)'
  BY <1>1 DEF Known, Waits
<1>2. \A q \in {dirty'[k], debounce'[k]} : q # None =>
        q.stamp <= asked'[k] /\ \A j \in JobsOf(k)' : j.req.stamp # q.stamp
  BY DEF OwnEnvs
<1>3. ASSUME NEW j \in JobsOf(k)'
      PROVE  /\ j.req.stamp <= asked'[k] /\ Known(k, j.env)' /\ ~Shares(j.env, envCache'[k])
             /\ \A l \in JobsOf(k)' : j.req.stamp = l.req.stamp \/ Shares(j.env, l.env) => j = l
             /\ \A i \in ResultsOf(k)' : ~Shares(j.env, results'[i].env)
  BY <1>1, <1>3 DEF OwnEnvs, Apart, Shares
<1>4. ASSUME NEW i \in ResultsOf(k)'
      PROVE  /\ Known(k, results[i].env)' /\ ~Shares(results'[i].env, envCache'[k])
             /\ \A l \in ResultsOf(k)' : Shares(results'[i].env, results'[l].env) => i = l
  <2>1. Known(k, results[i + d].env)
    BY <1>4 DEF OwnEnvs
  <2>2. Known(k, results[i].env)'
    BY <1>4, <2>1 DEF Known, Waits
  <2>3. ~Shares(results'[i].env, envCache'[k])
    BY <1>4 DEF Apart, Shares
  <2>4. ASSUME NEW l \in ResultsOf(k)', Shares(results'[i].env, results'[l].env)
        PROVE  i = l
    <3>1. i + d = l + d
      BY <1>4, <2>4 DEF OwnEnvs
    <3>2. QED
      BY <1>4, <2>4, <3>1
  <2>5. QED
    BY <2>2, <2>3, <2>4
<1>5. Known(k, envCache[k])'
  BY DEF Apart, Known, Waits
<1>6. QED
  BY <1>2, <1>3, <1>4, <1>5 DEF OwnEnvs

\* A step that starts an evaluation of an idle node, or of one whose result it takes:
\* for a request of a new stamp, or for the one that waited.  The closure and the
\* cache get environments that are nowhere else.
LEMMA OwnAfterStart ==
  ASSUME TypeOK, NEW k \in Nodes, OwnEnvs(k), NEW R \in SUBSET ResultsOf(k), NEW d \in {0, 1},
         NEW q \in Request, NEW e,
         JobsOf(k)' = JobsOf(k) \cup {SpawnedJob(k, q, e)},
         \A i \in ResultsOf(k)' : i \in Nat /\ i + d \in R /\ results'[i] = results[i + d],
         Apart(k, R, envCache'[k]), Apart(k, R, e), ~Shares(e, envCache'[k]),
         dirty'[k] = None, debounce'[k] = None,
         \/ q.stamp = asked[k] + 1 /\ asked'[k] = asked[k] + 1
         \/ q \in {dirty[k], debounce[k]} /\ asked'[k] = asked[k]
  PROVE  OwnEnvs(k)'
<1> DEFINE j0 == SpawnedJob(k, q, e)
<1>1. j0.req = q /\ j0.env \in {e, None} /\ q # None
  BY NoneAssumption DEF SpawnedJob, TakenEnv
<1>2. /\ asked[k] \in Nat /\ \A j \in JobsOf(k) : j.req.stamp \in Nat
      /\ asked'[k] \in Nat /\ asked[k] <= asked'[k]
      /\ q.stamp <= asked'[k] /\ \A j \in JobsOf(k) : j.req.stamp # q.stamp
  <2>1. asked[k] \in Nat /\ \A j \in JobsOf(k) : j.req.stamp \in Nat
    BY StampTypes
  <2>2. QED
    BY <1>1, <2>1 DEF OwnEnvs
<1>3. ASSUME NEW f, f # None => f.origin \in Nat, Known(k, f)
      PROVE  Known(k, f)'
  BY <1>1, <1>2, <1>3 DEF Known, Waits
<1>4. ASSUME NEW j \in JobsOf(k)'
      PROVE  j.req.stamp <= asked'[k] /\ Known(k, j.env)'
  <2>1. CASE j \in JobsOf(k)
    <3>1. j.req.stamp <= asked'[k]
      BY <1>2, <2>1 DEF OwnEnvs
    <3>2. QED
      BY <1>3, <2>1, <3>1, OriginTypes DEF OwnEnvs
  <2>2. CASE j = j0
    <3>1. Known(k, j.env) /\ (j.env # None => j.env.origin \in Nat)
      BY <1>1, <2>2 DEF Apart, Known
    <3>2. QED
      BY <1>1, <1>2, <1>3, <2>2, <3>1
  <2>3. QED
    BY <1>4, <2>1, <2>2
<1>5. ASSUME NEW j \in JobsOf(k)', NEW l \in JobsOf(k)',
             j.req.stamp = l.req.stamp \/ Shares(j.env, l.env)
      PROVE  j = l
  <2>1. CASE j \in JobsOf(k) /\ l \in JobsOf(k)
    BY <1>5, <2>1 DEF OwnEnvs
  <2>2. \A h \in JobsOf(k) : ~(h.req.stamp = q.stamp) /\ ~Shares(h.env, j0.env)
                             /\ ~Shares(j0.env, h.env)
    BY <1>1, <1>2 DEF Apart, Shares
  <2>3. QED
    BY <1>1, <1>5, <2>1, <2>2
<1>6. \A j \in JobsOf(k)' : ~Shares(j.env, envCache'[k])
  BY <1>1 DEF Apart, Shares
<1>7. \A j \in JobsOf(k)', i \in ResultsOf(k)' : ~Shares(j.env, results'[i].env)
  BY <1>1 DEF OwnEnvs, Apart, Shares
<1>8. ASSUME NEW i \in ResultsOf(k)'
      PROVE  /\ Known(k, results[i].env)' /\ ~Shares(results'[i].env, envCache'[k])
             /\ \A l \in ResultsOf(k)' : Shares(results'[i].env, results'[l].env) => i = l
  <2>1. Known(k, results[i + d].env)
        /\ (results[i + d].env # None => results[i + d].env.origin \in Nat)
    BY <1>8, OriginTypes DEF OwnEnvs
  <2>2. Known(k, results[i].env)'
    BY <1>1, <1>2, <1>8, <2>1 DEF Known, Waits
  <2>3. ~Shares(results'[i].env, envCache'[k])
    BY <1>8 DEF Apart, Shares
  <2>4. ASSUME NEW l \in ResultsOf(k)', Shares(results'[i].env, results'[l].env)
        PROVE  i = l
    <3>1. i + d = l + d
      BY <1>8, <2>4 DEF OwnEnvs
    <3>2. QED
      BY <1>8, <2>4, <3>1
  <2>5. QED
    BY <2>2, <2>3, <2>4
<1>9. Known(k, envCache[k])'
  BY <1>1, <1>2 DEF Apart, Known, Waits
<1>10. QED
  BY <1>4, <1>5, <1>6, <1>7, <1>8, <1>9 DEF OwnEnvs

EnvsOwned == \A n \in Nodes : OwnEnvs(n)

\* The cached environment is nowhere else, and an absent one nowhere at all.
LEMMA CachedIsApart ==
  ASSUME TypeOK, NEW k \in Nodes, OwnEnvs(k)
  PROVE  /\ Apart(k, ResultsOf(k), envCache[k])
         /\ \A R : Apart(k, R, None)
         /\ \A e : ~Shares(e, None) /\ ~Shares(None, e)
BY OriginTypes DEF OwnEnvs, Apart, Shares

\* An evaluation that ends hands the environment of its closure, or a new one, to its
\* result.
LEMMA OwnAfterEvaluate ==
  ASSUME TypeOK, NEW j \in jobs, Evaluate(j), OwnEnvs(j.node)
  PROVE  OwnEnvs(j.node)'
<1> DEFINE k == j.node
           N == Len(results) + 1
<1>1. j \in Job /\ k \in Nodes /\ j \in JobsOf(k) /\ results \in Seq(Result)
  BY DEF TypeOK, Job, JobsOf
<1>2. PICK r \in EvalResults(j) \cup {ErrorResult(j)} : results' = Append(results, r)
  BY DEF Evaluate
<1>3. r \in Result /\ r.node = k
  BY <1>1, <1>2, EvalResultType
<1>4. /\ jobs' = jobs \ {j} /\ dirty' = dirty /\ debounce' = debounce
      /\ envCache' = envCache /\ asked' = asked
  BY DEF Evaluate
<1>5. JobsOf(k)' = JobsOf(k) \ {j}
  BY <1>4 DEF JobsOf
<1>6. ASSUME NEW i \in ResultsOf(k)'
      PROVE  \/ i \in ResultsOf(k) /\ results'[i] = results[i]
             \/ i = N /\ results'[i] = r
  <2>1. i \in DOMAIN results' /\ results'[i].node = k
    BY <1>6 DEF ResultsOf
  <2>2. \/ i \in DOMAIN results /\ results'[i] = results[i]
        \/ i = N /\ results'[i] = r
    BY <1>1, <1>2, <1>3, <2>1, AppendElements
  <2>3. QED
    BY <2>1, <2>2 DEF ResultsOf
<1>7. r.env # None => \/ j.env # None /\ r.env.origin = j.env.origin
                      \/ r.env.origin = j.req.stamp
  BY <1>1, EvaluationOrigin
<1>8. ASSUME NEW e, Known(k, e)
      PROVE  Known(k, e)'
  BY <1>4, <1>5, <1>8 DEF Known, Waits
<1>9. Known(k, r.env)'
  BY <1>1, <1>4, <1>5, <1>7 DEF OwnEnvs, Known, Waits
<1>10. /\ ~Shares(r.env, envCache[k]) /\ ~Shares(envCache[k], r.env)
       /\ \A l \in JobsOf(k)' : ~Shares(l.env, r.env)
       /\ \A i \in ResultsOf(k) : ~Shares(r.env, results[i].env) /\ ~Shares(results[i].env, r.env)
  BY <1>1, <1>5, <1>7 DEF OwnEnvs, Known, Waits, Shares
<1>11. \A q \in {dirty'[k], debounce'[k]} : q # None =>
         q.stamp <= asked'[k] /\ \A l \in JobsOf(k)' : l.req.stamp # q.stamp
  BY <1>4, <1>5 DEF OwnEnvs
<1>12. ASSUME NEW l \in JobsOf(k)'
       PROVE  /\ l.req.stamp <= asked'[k] /\ Known(k, l.env)' /\ ~Shares(l.env, envCache'[k])
              /\ \A h \in JobsOf(k)' : l.req.stamp = h.req.stamp \/ Shares(l.env, h.env) => l = h
  BY <1>4, <1>5, <1>8, <1>12 DEF OwnEnvs
<1>13. \A l \in JobsOf(k)', i \in ResultsOf(k)' : ~Shares(l.env, results'[i].env)
  BY <1>5, <1>6, <1>10 DEF OwnEnvs
<1>14. ASSUME NEW i \in ResultsOf(k)'
       PROVE  /\ Known(k, results[i].env)' /\ ~Shares(results'[i].env, envCache'[k])
              /\ \A l \in ResultsOf(k)' : Shares(results'[i].env, results'[l].env) => i = l
  <2>1. CASE i \in ResultsOf(k) /\ results'[i] = results[i]
    <3>1. Known(k, results[i].env)'
      BY <1>4, <1>5, <2>1 DEF OwnEnvs, Known, Waits
    <3>2. QED
      BY <1>4, <1>6, <1>10, <2>1, <3>1 DEF OwnEnvs
  <2>2. CASE i = N /\ results'[i] = r
    <3>1. Known(k, results[i].env)'
      BY <1>9, <2>2 DEF Known, Waits
    <3>2. QED
      BY <1>4, <1>6, <1>10, <2>2, <3>1
  <2>3. QED
    BY <1>6, <1>14, <2>1, <2>2
<1>15. Known(k, envCache[k])'
  BY <1>4, <1>5 DEF OwnEnvs, Known, Waits
<1>16. QED
  BY <1>11, <1>12, <1>13, <1>14, <1>15 DEF OwnEnvs

\* Whatever is cancelled or deleted, each environment of a node is in one place.
THEOREM EnvsAlwaysOwned == Spec => []EnvsOwned
<1>1. Init => EnvsOwned
  BY DEF Init, EnvsOwned, OwnEnvs, Known, JobsOf, ResultsOf
<1>2. TypeOK /\ SlotsAgree /\ EnvsOwned /\ [Next]_vars => EnvsOwned'
  <2> SUFFICES ASSUME TypeOK, SlotsAgree, EnvsOwned, [Next]_vars, NEW k \in Nodes
               PROVE  OwnEnvs(k)'
    BY DEF EnvsOwned
  <2>0. OwnEnvs(k)
    BY DEF EnvsOwned
  <2>a. /\ Apart(k, ResultsOf(k), envCache[k]) /\ \A R : Apart(k, R, None)
        /\ \A e : ~Shares(e, None) /\ ~Shares(None, e)
    BY <2>0, CachedIsApart
  <2>b. ResultsOf(k) \subseteq Nat
    BY DEF TypeOK, ResultsOf
  <2>c. ASSUME JobsOf(k)' = JobsOf(k), results' = results,
               envCache'[k] \in {envCache[k], None}, dirty'[k] \in {dirty[k], None},
               debounce'[k] \in {debounce[k], None}, asked'[k] = asked[k]
        PROVE  OwnEnvs(k)'
    <3>1. ResultsOf(k)' = ResultsOf(k)
      BY <2>c DEF ResultsOf
    <3>2. Apart(k, ResultsOf(k), envCache'[k])
      BY <2>a, <2>c
    <3>3. \A i \in ResultsOf(k)' : i \in Nat /\ i + 0 \in ResultsOf(k) /\ results'[i] = results[i + 0]
      BY <2>b, <2>c, <3>1
    <3>4. QED
      BY <2>0, <2>c, <3>2, <3>3, OwnAfterKeep
  <2>d. ASSUME NEW q \in Request,
               JobsOf(k)' = JobsOf(k) \cup {SpawnedJob(k, q, envCache[k])}, results' = results,
               envCache'[k] = None, dirty'[k] = None, debounce'[k] = None,
               \/ q.stamp = asked[k] + 1 /\ asked'[k] = asked[k] + 1
               \/ q \in {dirty[k], debounce[k]} /\ asked'[k] = asked[k]
        PROVE  OwnEnvs(k)'
    <3>1. ResultsOf(k)' = ResultsOf(k)
      BY <2>d DEF ResultsOf
    <3>2. \A i \in ResultsOf(k)' : i \in Nat /\ i + 0 \in ResultsOf(k) /\ results'[i] = results[i + 0]
      BY <2>b, <2>d, <3>1
    <3>3. QED
      BY <2>0, <2>a, <2>d, <3>2, OwnAfterStart
  <2>e. ASSUME NEW q \in Request, q.stamp = asked[k] + 1, asked'[k] = asked[k] + 1,
               \/ dirty'[k] = q /\ debounce'[k] \in {debounce[k], None}
               \/ dirty'[k] = None /\ debounce'[k] = q,
               JobsOf(k)' = JobsOf(k), results' = results, envCache'[k] = envCache[k]
        PROVE  OwnEnvs(k)'
    <3>1. ResultsOf(k)' = ResultsOf(k)
      BY <2>e DEF ResultsOf
    <3>2. /\ asked[k] \in Nat /\ \A j \in JobsOf(k) : j.req.stamp \in Nat
          /\ \A p \in {dirty[k], debounce[k]} : p # None => p.stamp \in Nat
      BY StampTypes
    <3>3. ASSUME NEW f, f # None => f.origin \in Nat, Known(k, f)
          PROVE  Known(k, f)'
      BY <2>e, <3>2, <3>3 DEF Known, Waits
    <3>4. \A p \in {dirty'[k], debounce'[k]} : p # None =>
            p.stamp <= asked'[k] /\ \A j \in JobsOf(k)' : j.req.stamp # p.stamp
      BY <2>0, <2>e, <3>2 DEF OwnEnvs
    <3>5. \A j \in JobsOf(k)' : j.req.stamp <= asked'[k] /\ Known(k, j.env)'
      BY <2>0, <2>e, <3>2, <3>3, OriginTypes DEF OwnEnvs
    <3>6. \A i \in ResultsOf(k)' : Known(k, results[i].env)'
      <4>1. \A i \in ResultsOf(k) : Known(k, results[i].env)
                                    /\ (results[i].env # None => results[i].env.origin \in Nat)
        BY <2>0, OriginTypes DEF OwnEnvs
      <4>2. QED
        BY <2>e, <3>1, <3>2, <4>1 DEF Known, Waits
    <3>7. Known(k, envCache[k])'
      <4>1. Known(k, envCache[k]) /\ (envCache[k] # None => envCache[k].origin \in Nat)
        BY <2>0, OriginTypes DEF OwnEnvs
      <4>2. QED
        BY <2>e, <3>2, <4>1 DEF Known, Waits
    <3>8. QED
      BY <2>0, <2>e, <3>1, <3>4, <3>5, <3>6, <3>7 DEF OwnEnvs
  <2>1. ASSUME NEW n \in Nodes, NEW c \in Codes, Compute(n, c)
        PROVE  OwnEnvs(k)'
    <3>1. /\ results' = results /\ asked' = [asked EXCEPT ![n] = @ + 1]
          /\ NewRequest(n, c) \in Request /\ NewRequest(n, c).stamp = asked[n] + 1
      <4>1. NewRequest(n, c) \in Request
        BY <2>1, NewRequestType DEF Compute
      <4>2. QED
        BY <2>1, <4>1 DEF Compute, NewRequest
    <3>2. CASE k # n
      <4>1. JobsOf(k)' = JobsOf(k)
        BY <2>1, <3>2 DEF Compute, JobsOf, SpawnedJob
      <4>2. /\ dirty'[k] = dirty[k] /\ debounce'[k] = debounce[k]
            /\ envCache'[k] = envCache[k] /\ asked'[k] = asked[k]
        BY <2>1, <3>2 DEF Compute, DirtyWith, DebounceWithout, CacheWithout, TypeOK
      <4>3. QED
        BY <2>c, <3>1, <4>1, <4>2
    <3>3. CASE k = n /\ Busy(n)
      <4>1. JobsOf(k)' = JobsOf(k) /\ envCache' = envCache /\ debounce' = debounce
        BY <2>1, <3>3 DEF Compute, JobsOf
      <4>2. dirty'[k] = NewRequest(n, c) /\ asked'[k] = asked[k] + 1
        BY <2>1, <3>3 DEF Compute, DirtyWith, TypeOK
      <4>3. QED
        BY <2>e, <3>1, <3>3, <4>1, <4>2
    <3>4. CASE k = n /\ ~Busy(n)
      <4>1. dirty'[k] = None /\ debounce'[k] = None /\ envCache'[k] = None
            /\ asked'[k] = asked[k] + 1
        BY <2>1, <3>4 DEF Compute, Busy, SlotsAgree, DebounceWithout, CacheWithout, TypeOK
      <4>2. JobsOf(k)' = JobsOf(k) \cup {SpawnedJob(k, NewRequest(n, c), envCache[k])}
        BY <2>1, <3>4 DEF Compute, JobsOf, SpawnedJob
      <4>3. QED
        BY <2>d, <3>1, <3>4, <4>1, <4>2
    <3>5. QED
      BY <3>2, <3>3, <3>4
  <2>2. ASSUME NEW n \in Nodes, NEW c \in Codes, ComputeDebounced(n, c)
        PROVE  OwnEnvs(k)'
    <3>1. /\ results' = results /\ asked' = [asked EXCEPT ![n] = @ + 1]
          /\ NewRequest(n, c) \in Request /\ NewRequest(n, c).stamp = asked[n] + 1
          /\ JobsOf(k)' = JobsOf(k) /\ envCache' = envCache
      <4>1. NewRequest(n, c) \in Request
        BY <2>2, NewRequestType DEF ComputeDebounced
      <4>2. QED
        BY <2>2, <4>1 DEF ComputeDebounced, NewRequest, JobsOf
    <3>2. CASE k # n
      <4>1. dirty'[k] = dirty[k] /\ debounce'[k] = debounce[k] /\ asked'[k] = asked[k]
        BY <2>2, <3>2 DEF ComputeDebounced, DirtyWith, TypeOK
      <4>2. QED
        BY <2>c, <3>1, <4>1
    <3>3. CASE k = n /\ Busy(n)
      <4>1. dirty'[k] = NewRequest(n, c) /\ debounce' = debounce /\ asked'[k] = asked[k] + 1
        BY <2>2, <3>3 DEF ComputeDebounced, DirtyWith, TypeOK
      <4>2. QED
        BY <2>e, <3>1, <3>3, <4>1
    <3>4. CASE k = n /\ ~Busy(n)
      <4>1. dirty'[k] = None /\ debounce'[k] = NewRequest(n, c) /\ asked'[k] = asked[k] + 1
        BY <2>2, <3>4 DEF ComputeDebounced, Busy, SlotsAgree, TypeOK
      <4>2. QED
        BY <2>e, <3>1, <3>4, <4>1
    <3>5. QED
      BY <3>2, <3>3, <3>4
  <2>3. ASSUME NEW n \in Nodes, DebounceExpires(n) \/ SendMessage(n)
        PROVE  OwnEnvs(k)'
    BY <2>c, <2>3 DEF DebounceExpires, SendMessage, JobsOf
  <2>4. ASSUME NEW n \in Nodes, Remove(n)
        PROVE  OwnEnvs(k)'
    BY <2>c, <2>4 DEF Remove, JobsOf, CacheWithout, TypeOK
  <2>5. ASSUME NEW j \in jobs, Evaluate(j)
        PROVE  OwnEnvs(k)'
    <3>1. CASE k = j.node
      BY <2>0, <2>5, <3>1, OwnAfterEvaluate
    <3>2. CASE k # j.node
      <4>1. /\ JobsOf(k)' = JobsOf(k) /\ envCache' = envCache /\ dirty' = dirty
            /\ debounce' = debounce /\ asked' = asked
        BY <2>5, <3>2 DEF Evaluate, JobsOf
      <4>2. \A i \in ResultsOf(k)' :
              i \in Nat /\ i + 0 \in ResultsOf(k) /\ results'[i] = results[i + 0]
        BY <2>5, <2>b, <3>2, ResultsAfterEvaluate
      <4>3. QED
        BY <2>0, <2>a, <4>1, <4>2, OwnAfterKeep
    <3>3. QED
      BY <3>1, <3>2
  <2>6. CASE PollFlush
    <3>1. /\ asked' = asked /\ dirty' = dirty /\ results' = results
          /\ jobs' = jobs \cup FlushedJobs /\ debounce' = DebounceAfterFlush
          /\ envCache' = CacheWithout(envCache, Flushed)
      BY <2>6 DEF PollFlush
    <3>2. CASE k \in Flushed
      <4>1. debounce[k] \in Request /\ dirty'[k] = None
        BY <3>1, <3>2, FlushedIdle DEF TypeOK
      <4>2. JobsOf(k)' = JobsOf(k) \cup {SpawnedJob(k, debounce[k], envCache[k])}
        BY <3>1, <3>2 DEF JobsOf, FlushedJobs, SpawnedJob
      <4>3. debounce'[k] = None /\ envCache'[k] = None
        BY <3>1, <3>2 DEF DebounceAfterFlush, CacheWithout
      <4>4. QED
        BY <2>d, <3>1, <4>1, <4>2, <4>3
    <3>3. CASE k \notin Flushed
      <4>1. JobsOf(k)' = JobsOf(k) /\ debounce'[k] = debounce[k] /\ envCache'[k] = envCache[k]
        BY <3>1, <3>3 DEF JobsOf, FlushedJobs, SpawnedJob, DebounceAfterFlush, CacheWithout
      <4>2. QED
        BY <2>c, <3>1, <4>1
    <3>4. QED
      BY <3>2, <3>3
  <2>7. CASE PollResult
    <3> DEFINE r == Head(results)
               m == r.node
               R == ResultsOf(k) \ {1}
    <3>1. m \in Nodes /\ r.env \in Env \cup {None}
      BY <2>7, HeadType DEF PollResult
    <3>2. 1 \in ResultsOf(m) /\ results[1] = r
      BY <2>7, HeadIsResult DEF PollResult
    <3>3. /\ asked' = asked /\ dirty' = [dirty EXCEPT ![m] = None]
          /\ debounce' = DebounceAfterFlush
          /\ jobs' = jobs \cup FlushedJobs \cup
               (IF dirty[m] = None THEN {}
                ELSE {SpawnedJob(m, dirty[m], CacheAfter(r)[m])})
      BY <2>7 DEF PollResult, Again
    <3>4. \A i \in ResultsOf(k)' : i \in Nat /\ i + 1 \in R /\ results'[i] = results[i + 1]
      <4>1. ResultsOf(k)' \subseteq Nat
        BY <2>7, HeadType DEF PollResult, ResultsOf
      <4>2. QED
        BY <2>7, <4>1, ResultsAfterPoll
    <3>5. Apart(k, R, envCache[k])
      BY <2>a DEF Apart
    <3>6. k = m => Apart(k, R, r.env) /\ ~Shares(r.env, envCache[k]) /\ ~Shares(envCache[k], r.env)
      BY <2>0, <3>2, OriginTypes DEF OwnEnvs, Apart, Shares
    <3>7. dirty'[k] \in {dirty[k], None} /\ debounce'[k] \in {debounce[k], None}
          /\ (k \in Flushed => debounce'[k] = None)
      BY <3>3 DEF DebounceAfterFlush, TypeOK
    <3>8. CASE k = m /\ dirty[k] # None
      <4>1. k \notin Flushed /\ debounce'[k] = None /\ dirty'[k] = None
        BY <3>3, <3>8, FlushedIdle DEF SlotsAgree, DebounceAfterFlush, TypeOK
      <4>2. JobsOf(k)' = JobsOf(k) \cup {SpawnedJob(k, dirty[k], CacheAfter(r)[k])}
        BY <3>3, <3>8, <4>1 DEF JobsOf, FlushedJobs, SpawnedJob
      <4>3. envCache'[k] = None
        BY <2>7, <3>8, CacheAfterPoll
      <4>4. CacheAfter(r)[k] \in {r.env, envCache[k]}
        BY <3>8, <4>1 DEF CacheAfter, CacheWithout
      <4>5. dirty[k] \in Request
        BY <3>8 DEF TypeOK
      <4>6. Apart(k, R, CacheAfter(r)[k])
        BY <3>5, <3>6, <3>8, <4>4
      <4>7. QED
        BY <2>0, <2>a, <3>3, <3>4, <4>1, <4>2, <4>3, <4>5, <4>6, OwnAfterStart
    <3>9. CASE ~(k = m /\ dirty[k] # None) /\ k \in Flushed
      <4>1. debounce[k] \in Request /\ dirty[k] = None /\ dirty'[k] = None /\ debounce'[k] = None
        BY <3>7, <3>9, FlushedIdle DEF TypeOK
      <4>2. JobsOf(k)' = JobsOf(k) \cup {SpawnedJob(k, debounce[k], envCache[k])}
        BY <3>3, <3>9 DEF JobsOf, FlushedJobs, SpawnedJob
      <4>3. envCache'[k] # None => k = m /\ envCache'[k] = r.env
        BY <2>7, <3>9, CacheAfterPoll
      <4>4. Apart(k, R, envCache'[k]) /\ ~Shares(envCache[k], envCache'[k])
        BY <2>a, <3>6, <4>3
      <4>5. QED
        BY <2>0, <3>3, <3>4, <3>5, <4>1, <4>2, <4>4, OwnAfterStart
    <3>10. CASE ~(k = m /\ dirty[k] # None) /\ k \notin Flushed
      <4>1. JobsOf(k)' = JobsOf(k)
        BY <3>3, <3>10 DEF JobsOf, FlushedJobs, SpawnedJob
      <4>2. ASSUME envCache'[k] # None
            PROVE  envCache'[k] = envCache[k] \/ (k = m /\ envCache'[k] = r.env)
        <5>1. IF k = m /\ r.env # None THEN envCache'[k] = r.env
              ELSE envCache'[k] = envCache[k] /\ k \notin Flushed
          BY <2>7, <4>2, CacheAfterPoll
        <5>2. CASE k = m /\ r.env # None
          BY <5>1, <5>2
        <5>3. CASE ~(k = m /\ r.env # None)
          BY <5>1, <5>3
        <5>4. QED
          BY <5>2, <5>3
      <4>3. Apart(k, R, envCache'[k])
        BY <2>a, <3>5, <3>6, <4>2
      <4>4. QED
        BY <2>0, <3>3, <3>4, <3>7, <4>1, <4>3, OwnAfterKeep
    <3>11. QED
      BY <3>8, <3>9, <3>10
  <2>8. CASE CancelAll
    <3>1. /\ JobsOf(k)' = JobsOf(k) /\ ResultsOf(k)' = {} /\ envCache'[k] = None
          /\ dirty'[k] = None /\ debounce'[k] = None /\ asked' = asked
      BY <2>8 DEF CancelAll, JobsOf, ResultsOf
    <3>2. QED
      BY <2>0, <2>a, <3>1, OwnAfterKeep
  <2>9. CASE UNCHANGED vars
    BY <2>9, <2>c DEF vars, JobsOf
  <2>10. QED
    BY <2>1, <2>2, <2>3, <2>4, <2>5, <2>6, <2>7, <2>8, <2>9 DEF Next
<1>3. QED
  BY <1>1, <1>2, TypeCorrect, SlotsAlwaysAgree, PTL DEF Spec

\* No environment is in two closures, results or cache entries, so no two threads
\* evaluate in it.
THEOREM EnvAlwaysHasOneHolder == Spec => []EnvHasOneHolder
<1>1. TypeOK /\ EnvsOwned => EnvHasOneHolder
  <2> SUFFICES ASSUME TypeOK, EnvsOwned, NEW n \in Nodes, NEW h \in EnvHolders(n),
                      NEW k \in EnvHolders(n), Shares(h[3], k[3])
               PROVE  h = k
    BY DEF EnvHasOneHolder, Shares
  <2>1. OwnEnvs(n)
    BY DEF EnvsOwned
  <2> DEFINE InJob(x, j) == x = <<"job", j.req.stamp, j.env>>
             InResult(x, i) == x = <<"result", results[i].stamp, results[i].env>>
             InCache(x) == x = <<"cache", 0, envCache[n]>>
  <2>2. \A x \in EnvHolders(n) : \/ \E j \in JobsOf(n) : InJob(x, j)
                                 \/ \E i \in ResultsOf(n) : InResult(x, i)
                                 \/ InCache(x)
    BY DEF EnvHolders
  <2>3. \A e, f : Shares(e, f) => Shares(f, e)
    BY DEF Shares
  <2>4. ASSUME NEW j \in JobsOf(n), InJob(h, j)
        PROVE  h = k
    BY <2>1, <2>2, <2>3, <2>4 DEF OwnEnvs
  <2>5. ASSUME NEW i \in ResultsOf(n), InResult(h, i)
        PROVE  h = k
    BY <2>1, <2>2, <2>3, <2>5 DEF OwnEnvs
  <2>6. CASE InCache(h)
    BY <2>1, <2>2, <2>3, <2>6 DEF OwnEnvs
  <2>7. QED
    BY <2>2, <2>4, <2>5, <2>6
<1>2. QED
  BY <1>1, TypeCorrect, EnvsAlwaysOwned, PTL
-----------------------------------------------------------------------------
(***************************************************************************)
(* Pending means that there is work                                        *)
(***************************************************************************)

\* An evaluation that ends leaves its result, and every other one as it is.
LEMMA OutstandingAfterEvaluate ==
  ASSUME TypeOK, NEW j \in jobs, Evaluate(j), NEW k, Outstanding(k)
  PROVE  Outstanding(k)'
<1>1. PICK r \in EvalResults(j) \cup {ErrorResult(j)} : results' = Append(results, r)
  BY DEF Evaluate
<1>2. j \in Job /\ results \in Seq(Result)
  BY DEF TypeOK
<1>3. r \in Result /\ r.node = j.node
  BY <1>1, <1>2, EvalResultType
<1>4. /\ \A i \in DOMAIN results : i \in DOMAIN results' /\ results'[i] = results[i]
      /\ Len(results) + 1 \in DOMAIN results' /\ results'[Len(results) + 1] = r
  BY <1>1, <1>2, <1>3
<1>5. ResultsOf(k) \subseteq ResultsOf(k)'
  BY <1>4 DEF ResultsOf
<1>6. j.node = k => ResultsOf(k)' # {}
  BY <1>3, <1>4 DEF ResultsOf
<1>7. j.node # k => JobsOf(k)' = JobsOf(k)
  BY DEF Evaluate, JobsOf
<1>8. QED
  BY <1>5, <1>6, <1>7 DEF Outstanding

\* poll takes no evaluation of another node away.
LEMMA OutstandingAfterPoll ==
  ASSUME TypeOK, PollResult, NEW k, k # Head(results).node, Outstanding(k)
  PROVE  Outstanding(k)'
<1>1. JobsOf(k) \subseteq JobsOf(k)'
  BY DEF PollResult, JobsOf
<1>2. ASSUME NEW i \in ResultsOf(k)
      PROVE  i - 1 \in ResultsOf(k)'
  <2>1. results \in Seq(Result) /\ results # <<>> /\ results' = Tail(results)
    BY DEF TypeOK, PollResult
  <2>2. i \in DOMAIN results /\ results[i].node = k /\ i # 1
    BY <2>1 DEF ResultsOf
  <2>3. i - 1 \in DOMAIN results' /\ results'[i - 1] = results[i]
    BY <2>1, <2>2
  <2>4. QED
    BY <2>2, <2>3 DEF ResultsOf
<1>3. QED
  BY <1>1, <1>2 DEF Outstanding

\* in_flight is not left behind when its evaluation is over.
BusyIsOutstanding == \A n \in Nodes : inFlight[n] => Outstanding(n)

\* Where nothing is cancelled or deleted, has_pending tells whether there is work;
\* with either it does not (the run that cancels shows it).
THEOREM PendingAlwaysMeansWork ==
  ASSUME ~AllowCancel, Removable = {}
  PROVE  Spec => []PendingMeansWork
<1>1. Init => BusyIsOutstanding
  BY DEF Init, BusyIsOutstanding
<1>2. TypeOK /\ SlotsAgree /\ BusyIsOutstanding /\ [Next]_vars => BusyIsOutstanding'
  <2> SUFFICES ASSUME TypeOK, SlotsAgree, BusyIsOutstanding, [Next]_vars,
                      NEW k \in Nodes, inFlight'[k]
               PROVE  Outstanding(k)'
    BY DEF BusyIsOutstanding
  <2>0. inFlight[k] => Outstanding(k)
    BY DEF BusyIsOutstanding
  <2>a. JobsOf(k)' # {} => Outstanding(k)'
    BY DEF Outstanding
  <2>b. UNCHANGED <<jobs, results>> => Outstanding(k)' = Outstanding(k)
    BY DEF Outstanding, JobsOf, ResultsOf
  <2>1. ASSUME NEW n \in Nodes, NEW c \in Codes, Compute(n, c)
        PROVE  Outstanding(k)'
    <3>1. CASE Busy(n)
      BY <2>0, <2>1, <2>b, <3>1 DEF Compute
    <3>2. CASE ~Busy(n) /\ k = n
      <4>1. SpawnedJob(n, NewRequest(n, c), envCache[n]) \in JobsOf(k)'
        BY <2>1, <3>2 DEF Compute, JobsOf, SpawnedJob
      <4>2. QED
        BY <2>a, <4>1
    <3>3. CASE ~Busy(n) /\ k # n
      <4>1. inFlight[k] /\ results' = results /\ JobsOf(k)' = JobsOf(k)
        BY <2>1, <3>3 DEF Compute, JobsOf, SpawnedJob, TypeOK
      <4>2. QED
        BY <2>0, <4>1 DEF Outstanding, ResultsOf
    <3>4. QED
      BY <3>1, <3>2, <3>3
  <2>2. ASSUME NEW n \in Nodes, NEW c \in Codes, ComputeDebounced(n, c)
        PROVE  Outstanding(k)'
    BY <2>0, <2>2, <2>b DEF ComputeDebounced
  <2>3. ASSUME NEW n \in Nodes, DebounceExpires(n) \/ SendMessage(n)
        PROVE  Outstanding(k)'
    BY <2>0, <2>3, <2>b DEF DebounceExpires, SendMessage
  <2>4. ASSUME NEW j \in jobs, Evaluate(j)
        PROVE  Outstanding(k)'
    BY <2>0, <2>4, OutstandingAfterEvaluate DEF Evaluate
  <2>c. ASSUME jobs \cup FlushedJobs \subseteq jobs', k \in Flushed
        PROVE  Outstanding(k)'
    <3>1. SpawnedJob(k, debounce[k], envCache[k]) \in JobsOf(k)'
      BY <2>c DEF JobsOf, FlushedJobs, SpawnedJob
    <3>2. QED
      BY <2>a, <3>1
  <2>5. CASE PollFlush
    <3>1. /\ inFlight[k] \/ k \in Flushed
          /\ jobs' = jobs \cup FlushedJobs /\ results' = results
      BY <2>5 DEF PollFlush, InFlightAfterFlush
    <3>2. inFlight[k] => Outstanding(k)'
      BY <2>0, <3>1 DEF Outstanding, JobsOf, ResultsOf
    <3>3. QED
      BY <2>c, <3>1, <3>2
  <2>6. CASE PollResult
    <3> DEFINE m == Head(results).node
    <3>1. m \in Nodes /\ jobs \cup FlushedJobs \subseteq jobs'
      BY <2>6, HeadType DEF PollResult
    <3>2. IF k = m THEN dirty[k] # None ELSE inFlight[k] \/ k \in Flushed
      BY <2>6, <3>1 DEF PollResult, InFlightAfter, InFlightAfterFlush, Again
    <3>3. CASE k = m
      <4>1. SpawnedJob(k, dirty[k], CacheAfter(Head(results))[k]) \in JobsOf(k)'
        BY <2>6, <3>2, <3>3 DEF PollResult, Again, JobsOf, SpawnedJob
      <4>2. QED
        BY <2>a, <4>1
    <3>4. CASE k # m
      BY <2>0, <2>6, <2>c, <3>1, <3>2, <3>4, OutstandingAfterPoll
    <3>5. QED
      BY <3>3, <3>4
  <2>7. CASE UNCHANGED vars
    BY <2>0, <2>7, <2>b DEF vars
  <2>8. QED
    BY <2>1, <2>2, <2>3, <2>4, <2>5, <2>6, <2>7 DEF Next, Remove, CancelAll
<1>3. TypeOK /\ SlotsAgree /\ OneAtATime /\ BusyIsOutstanding => PendingMeansWork
  <2> SUFFICES ASSUME TypeOK, SlotsAgree, OneAtATime, BusyIsOutstanding
               PROVE  PendingMeansWork
    OBVIOUS
  <2>1. \A n \in Nodes : Outstanding(n) <=> inFlight[n]
    BY DEF BusyIsOutstanding, OneAtATime, InFlightCovers, Lasting
  <2>2. jobs # {} => \E n \in Nodes : Outstanding(n)
    BY DEF TypeOK, Job, Outstanding, JobsOf
  <2>3. results # <<>> => \E n \in Nodes : Outstanding(n)
    <3>1. ASSUME results # <<>>
          PROVE  Outstanding(Head(results).node) /\ Head(results).node \in Nodes
      BY <3>1, HeadType, HeadIsResult DEF Outstanding
    <3>2. QED
      BY <3>1
  <2>4. \A n \in Nodes : Outstanding(n) => jobs # {} \/ results # <<>>
    BY DEF TypeOK, Outstanding, JobsOf, ResultsOf
  <2>5. \A n \in Nodes : dirty[n] # None => inFlight[n]
    BY DEF SlotsAgree
  <2>6. QED
    BY <2>1, <2>2, <2>3, <2>4, <2>5 DEF PendingMeansWork, HasPending
<1>4. QED
  BY <1>1, <1>2, <1>3, TypeCorrect, SlotsAlwaysAgree, NoOverlap, PTL DEF Spec
=============================================================================
