---------------------------- MODULE ActorRuntime ----------------------------
(***************************************************************************)
(* The per-node evaluation runtime of src/src/actor.rs.                     *)
(*                                                                         *)
(* The owner of the runtime (the GUI frame loop, the peer daemon loop or   *)
(* an nREPL command executed by one of them) asks for evaluations with     *)
(* Compute and ComputeDebounced and collects their results with Poll.  A   *)
(* pool of worker threads runs the evaluations and sends each result down  *)
(* an mpsc channel.  While a node is being evaluated a new request waits   *)
(* in the node's "dirty" slot, where a later request overwrites it.        *)
(*                                                                         *)
(* Requests of a node are numbered 1, 2, ... in the order they are made;   *)
(* the number stands for everything the request carries that the code      *)
(* copies without looking at it (inputs, resolved imports, database        *)
(* handle).  Environments are named by the request whose evaluation made   *)
(* them.  The bounds of the module are MaxRequests and MaxMail.             *)
(***************************************************************************)
EXTENDS Naturals, Sequences, FiniteSets

CONSTANTS
  Nodes,        \* the node identifiers
  Codes,        \* the script texts a node may hold (a text stands for its hash)
  Blank,        \* the text that is empty after trim()
  Importers,    \* the nodes with module or hash imports
  MaxRequests,  \* bound: requests made for each node
  MaxMail,      \* bound: messages waiting in each mailbox
  AllowCancel,  \* TRUE: the user may press Cancel
  Removable,    \* the nodes that may be deleted (and restored by undo)
  None          \* an absent request, environment or cache entry

ASSUME ConstantsAssumption ==
  /\ Blank \in Codes
  /\ Importers \subseteq Nodes
  /\ MaxRequests \in [Nodes -> Nat]
  /\ MaxMail \in [Nodes -> Nat]
  /\ AllowCancel \in BOOLEAN
  /\ Removable \subseteq Nodes

VARIABLES
  inFlight,   \* node_states[n].in_flight (FALSE when there is no entry)
  dirty,      \* node_states[n].dirty
  debounce,   \* debounce_queue
  expired,    \* the nodes whose debounce entry is debounce_ms old
  envCache,   \* env_cache
  handlers,   \* handler_nodes
  jobs,       \* closures handed to the pool and not yet finished
  results,    \* the result channel
  mail,       \* number of messages in each node's mailbox
  asked,      \* number of requests made so far for each node
  emitted     \* the request of the last result Poll returned for each node

vars == <<inFlight, dirty, debounce, expired, envCache, handlers, jobs,
          results, mail, asked, emitted>>

\* The numbers of requests.
Stamps == Nat \ {0}

\* ActorMsg: which request, of which text, and whether the mailbox fast path
\* was chosen for it.
Request == [stamp : Stamps, code : Codes, fast : BOOLEAN]

\* CachedEnv: the request that created the environment, the text it was left
\* by, and whether its expanded text ("preprocessed") is kept with it.
Env == [origin : Stamps, code : Codes, pre : BOOLEAN]

\* A closure in the pool: its node, its request and the environment it owns.
Job == [node : Nodes, req : Request, env : Env \cup {None}]

\* ActorResult; env is None for ActorResult::Error.
Result == [node : Nodes, stamp : Stamps, env : Env \cup {None},
           handler : BOOLEAN]

\* What is absent is neither a request nor an environment.
ASSUME NoneAssumption == None \notin Request /\ None \notin Env

Init ==
  /\ inFlight = [n \in Nodes |-> FALSE]
  /\ dirty    = [n \in Nodes |-> None]
  /\ debounce = [n \in Nodes |-> None]
  /\ expired  = {}
  /\ envCache = [n \in Nodes |-> None]
  /\ handlers = {}
  /\ jobs     = {}
  /\ results  = <<>>
  /\ mail     = [n \in Nodes |-> 0]
  /\ asked    = [n \in Nodes |-> 0]
  /\ emitted  = [n \in Nodes |-> 0]

-----------------------------------------------------------------------------
(***************************************************************************)
(* Requests                                                                *)
(***************************************************************************)

\* should_fast_path: a node that registered a message handler, whose cached
\* environment was left by the same text, and that has mail.
FastPath(n, c) ==
  /\ n \in handlers
  /\ envCache[n] # None
  /\ envCache[n].code = c
  /\ mail[n] > 0

\* The request enqueue builds from a call of compute or compute_debounced.
NewRequest(n, c) ==
  [stamp |-> asked[n] + 1, code |-> c, fast |-> FastPath(n, c)]

\* Mutants: enqueue overlooks an evaluation in flight; it forgets the debounce
\* entry that an immediate request replaces; it keeps the oldest waiting
\* request instead of the newest.
NeverBusy(n) == FALSE
DebounceKept(n) == debounce
DirtyFirst(n, req) ==
  [dirty EXCEPT ![n] = IF dirty[n] = None THEN req ELSE dirty[n]]

\* A request for a node in flight waits; a later one takes its place.
Busy(n) == inFlight[n]
DirtyWith(n, req) == [dirty EXCEPT ![n] = req]

\* An immediate request supersedes the debounced one.
DebounceWithout(n) == [debounce EXCEPT ![n] = None]

\* Mutants: spawn_eval reads the cached environment without removing it, or
\* does not compare the text.
CacheKept(cache, S) == cache
TakenEnvAnyText(cached, req) == cached

\* spawn_eval takes the environment of every node it starts out of the cache
\* and uses it only if the text did not change.
CacheWithout(cache, S) == [n \in Nodes |-> IF n \in S THEN None ELSE cache[n]]
TakenEnv(cached, req) ==
  IF cached # None /\ cached.code = req.code THEN cached ELSE None

SpawnedJob(n, req, cached) ==
  [node |-> n, req |-> req, env |-> TakenEnv(cached, req)]

\* compute: evaluate now, or wait in the dirty slot of a node in flight.
Compute(n, c) ==
  LET req == NewRequest(n, c) IN
  /\ asked[n] < MaxRequests[n]
  /\ asked' = [asked EXCEPT ![n] = @ + 1]
  /\ \/ /\ Busy(n)
        /\ dirty' = DirtyWith(n, req)
        /\ UNCHANGED <<inFlight, debounce, expired, envCache, jobs>>
     \/ /\ ~Busy(n)
        /\ debounce' = DebounceWithout(n)
        /\ expired' = {k \in expired : debounce'[k] # None}
        /\ envCache' = CacheWithout(envCache, {n})
        /\ inFlight' = [inFlight EXCEPT ![n] = TRUE]
        /\ jobs' = jobs \cup {SpawnedJob(n, req, envCache[n])}
        /\ UNCHANGED dirty
  /\ UNCHANGED <<handlers, results, mail, emitted>>

\* compute_debounced: the same, but an idle node waits for its timer, which a
\* later debounced request restarts.
ComputeDebounced(n, c) ==
  LET req == NewRequest(n, c) IN
  /\ asked[n] < MaxRequests[n]
  /\ asked' = [asked EXCEPT ![n] = @ + 1]
  /\ \/ /\ Busy(n)
        /\ dirty' = DirtyWith(n, req)
        /\ UNCHANGED <<debounce, expired>>
     \/ /\ ~Busy(n)
        /\ debounce' = [debounce EXCEPT ![n] = req]
        /\ expired' = expired \ {n}
        /\ UNCHANGED dirty
  /\ UNCHANGED <<inFlight, envCache, handlers, jobs, results, mail, emitted>>

\* The clock: a debounce entry reaches the age of debounce_ms.
DebounceExpires(n) ==
  /\ debounce[n] # None
  /\ n \notin expired
  /\ expired' = expired \cup {n}
  /\ UNCHANGED <<inFlight, dirty, debounce, envCache, handlers, jobs, results,
                 mail, asked, emitted>>

-----------------------------------------------------------------------------
(***************************************************************************)
(* Worker threads                                                          *)
(***************************************************************************)

ErrorResult(j) ==
  [node |-> j.node, stamp |-> j.req.stamp, env |-> None, handler |-> FALSE]

ComputedResult(j, env, handler) ==
  [node |-> j.node, stamp |-> j.req.stamp, env |-> env, handler |-> handler]

\* execute_script_cached reuses the environment unless the node has imports.
EvalEnv(j, pre) ==
  [origin |-> IF j.env = None \/ (pre /\ j.node \in Importers)
              THEN j.req.stamp ELSE j.env.origin,
   code |-> j.req.code, pre |-> pre]

OnFastPath(j) == j.req.fast /\ j.env # None

\* Fast path of execute_on_thread: the handler drains the mailbox, then the
\* expanded text kept with the environment, if any, is evaluated again.
FastResults(j) ==
  {ComputedResult(j, j.env, h) : h \in IF j.env.pre THEN BOOLEAN ELSE {TRUE}}

\* Full evaluation: a blank script leaves the environment as it is; any other is
\* expanded and evaluated, and registers a message handler or not, as it likes.
FullResults(j) ==
  IF j.req.code = Blank THEN {ComputedResult(j, EvalEnv(j, FALSE), FALSE)}
  ELSE {ComputedResult(j, EvalEnv(j, TRUE), h) : h \in BOOLEAN}

EvalResults(j) == IF OnFastPath(j) THEN FastResults(j) ELSE FullResults(j)

\* A blank script cannot fail; any other evaluation may (Scheme error, panic).
MayFail(j) == OnFastPath(j) \/ j.req.code # Blank

\* Mutant: the drain takes a message out of a mailbox without looking.
MailLeftBlindPop(j, r) == {mail[j.node] - 1}

\* What the evaluation leaves in the mailbox: a handler drains it, a script
\* that fails, or one that calls receive itself, takes out some messages.
MailLeft(j, r) ==
  IF r.env # None /\ (r.handler \/ OnFastPath(j)) THEN {0}
  ELSE IF MayFail(j) THEN 0 .. mail[j.node]
  ELSE {mail[j.node]}

\* A worker finishes a closure: execute_on_thread, then tx.send.
Evaluate(j) ==
  /\ j \in jobs
  /\ \E r \in EvalResults(j) \cup (IF MayFail(j) THEN {ErrorResult(j)} ELSE {}) :
       /\ results' = Append(results, r)
       /\ \E left \in MailLeft(j, r) : mail' = [mail EXCEPT ![j.node] = left]
  /\ jobs' = jobs \ {j}
  /\ UNCHANGED <<inFlight, dirty, debounce, expired, envCache, handlers, asked,
                 emitted>>

\* Another actor, the user or a peer puts a message in the mailbox.
SendMessage(n) ==
  /\ mail[n] < MaxMail[n]
  /\ mail' = [mail EXCEPT ![n] = @ + 1]
  /\ UNCHANGED <<inFlight, dirty, debounce, expired, envCache, handlers, jobs,
                 results, asked, emitted>>

-----------------------------------------------------------------------------
(***************************************************************************)
(* The owner's other operations                                            *)
(***************************************************************************)

\* flush_debounced starts every entry whose timer ran out.
Flushed == {n \in expired : debounce[n] # None}

FlushedJobs == {SpawnedJob(n, debounce[n], envCache[n]) : n \in Flushed}

DebounceAfterFlush ==
  [n \in Nodes |-> IF n \in Flushed THEN None ELSE debounce[n]]

InFlightAfterFlush == [n \in Nodes |-> inFlight[n] \/ n \in Flushed]

\* poll with an empty channel: flush_debounced only.
PollFlush ==
  /\ Flushed # {}
  /\ results = <<>>
  /\ debounce' = DebounceAfterFlush
  /\ expired' = {}
  /\ envCache' = CacheWithout(envCache, Flushed)
  /\ inFlight' = InFlightAfterFlush
  /\ jobs' = jobs \cup FlushedJobs
  /\ UNCHANGED <<dirty, handlers, results, mail, asked, emitted>>

\* Mutants: the dirty request is not looked at when a result arrives; an error
\* does not end the in-flight state.
NothingWaits(m) == None
InFlightUnlessError(r, again) ==
  [InFlightAfterFlush EXCEPT ![r.node] = again # None \/ r.env = None]

\* poll updates the handler nodes from a computed result only.
HandlersAfter(r) ==
  IF r.env = None THEN handlers
  ELSE IF r.handler THEN handlers \cup {r.node}
  ELSE handlers \ {r.node}

\* The environment of a computed result goes to the cache.
CacheAfter(r) ==
  [n \in Nodes |-> IF n = r.node /\ r.env # None THEN r.env
                   ELSE CacheWithout(envCache, Flushed)[n]]

\* The coalesced request that follows a result.
Again(m) == dirty[m]
InFlightAfter(r, again) ==
  [InFlightAfterFlush EXCEPT ![r.node] = again # None]

\* poll with a result r of node m: flush_debounced, then the environment goes
\* back to the cache, the node leaves the in-flight state and, if a request
\* waits in its dirty slot, is evaluated again at once; r goes to the caller.
PollResult ==
  /\ results # <<>>
  /\ LET r == Head(results)
         m == r.node
         cache == CacheAfter(r)
         again == Again(m)
         restarted == IF again = None THEN {} ELSE {m}
     IN
     /\ results' = Tail(results)
     /\ debounce' = DebounceAfterFlush
     /\ handlers' = HandlersAfter(r)
     /\ dirty' = [dirty EXCEPT ![m] = None]
     /\ inFlight' = InFlightAfter(r, again)
     /\ envCache' = CacheWithout(cache, restarted)
     /\ jobs' = jobs \cup FlushedJobs
                     \cup {SpawnedJob(m, again, cache[m]) : n \in restarted}
     /\ emitted' = [emitted EXCEPT ![m] = r.stamp]
  /\ expired' = {}
  /\ UNCHANGED <<mail, asked>>

Poll == PollFlush \/ PollResult

\* cancel_all: drops what waits, the caches and the results not yet collected.
CancelAll ==
  /\ AllowCancel
  /\ debounce' = [n \in Nodes |-> None]
  /\ expired' = {}
  /\ envCache' = [n \in Nodes |-> None]
  /\ handlers' = {}
  /\ dirty' = [n \in Nodes |-> None]
  /\ results' = <<>>
  /\ UNCHANGED <<inFlight, jobs, mail, asked, emitted>>

\* remove: the node was deleted.  Undo may bring the same identifier back, so
\* requests for it may follow.
Remove(n) ==
  /\ n \in Removable
  /\ envCache' = CacheWithout(envCache, {n})
  /\ inFlight' = [inFlight EXCEPT ![n] = FALSE]
  /\ dirty' = [dirty EXCEPT ![n] = None]
  /\ debounce' = [debounce EXCEPT ![n] = None]
  /\ expired' = expired \ {n}
  /\ UNCHANGED <<handlers, jobs, results, mail, asked, emitted>>

Next ==
  \/ \E n \in Nodes, c \in Codes : Compute(n, c) \/ ComputeDebounced(n, c)
  \/ \E n \in Nodes : DebounceExpires(n) \/ SendMessage(n) \/ Remove(n)
  \/ \E j \in jobs : Evaluate(j)
  \/ PollFlush
  \/ PollResult
  \/ CancelAll

Spec == Init /\ [][Next]_vars

\* The owner polls on every frame and asks for another frame while anything
\* is pending; the pool runs what it was given; time passes.  Nobody promises
\* to ask for evaluations, to send messages, to cancel or to delete.
Fairness ==
  /\ WF_vars(Poll)
  /\ \A n \in Nodes : WF_vars(\E j \in jobs : j.node = n /\ Evaluate(j))
  /\ \A n \in Nodes : WF_vars(DebounceExpires(n))

FairSpec == Spec /\ Fairness

-----------------------------------------------------------------------------
(***************************************************************************)
(* Properties                                                              *)
(***************************************************************************)

\* Type invariant.
TypeOK ==
  /\ inFlight \in [Nodes -> BOOLEAN]
  /\ dirty \in [Nodes -> Request \cup {None}]
  /\ debounce \in [Nodes -> Request \cup {None}]
  /\ expired \subseteq Nodes
  /\ envCache \in [Nodes -> Env \cup {None}]
  /\ handlers \subseteq Nodes
  /\ jobs \subseteq Job
  /\ results \in Seq(Result)
  /\ mail \in [Nodes -> Nat]
  /\ asked \in [Nodes -> Nat]
  /\ emitted \in [Nodes -> Nat]

JobsOf(n) == {j \in jobs : j.node = n}
ResultsOf(n) == {i \in DOMAIN results : results[i].node = n}

\* The nodes that are never deleted.
Lasting == Nodes \ Removable

\* An evaluation of n was given to the pool and the owner has not collected
\* its result.
Outstanding(n) == JobsOf(n) # {} \/ ResultsOf(n) # {}

\* No node is evaluated twice at a time, although flush_debounced starts its
\* entries without looking at in_flight (actor.rs: "If new data arrived while
\* eval was in-flight, store it here").  Remove, which forgets the in-flight state
\* of its node, breaks it for that node, and must not for any other.
SingleEvaluation ==
  \A n \in Lasting :
    /\ \A j, k \in JobsOf(n) : j = k
    /\ \A i, k \in ResultsOf(n) : i = k
    /\ JobsOf(n) = {} \/ ResultsOf(n) = {}

\* in_flight is set as long as a result is to come.
InFlightCovers == \A n \in Lasting : Outstanding(n) => inFlight[n]

\* What is being evaluated is newer than everything the owner has seen, and
\* what waits is the newest request of all.
StampsOrdered ==
  \A n \in Lasting :
    /\ emitted[n] <= asked[n]
    /\ \A j \in JobsOf(n) : emitted[n] < j.req.stamp /\ j.req.stamp <= asked[n]
    /\ \A i \in ResultsOf(n) :
         emitted[n] < results[i].stamp /\ results[i].stamp <= asked[n]
    /\ dirty[n] # None =>
         /\ dirty[n].stamp = asked[n] /\ emitted[n] < asked[n]
         /\ \A j \in JobsOf(n) : j.req.stamp < asked[n]
         /\ \A i \in ResultsOf(n) : results[i].stamp < asked[n]
    /\ debounce[n] # None => debounce[n].stamp = asked[n] /\ emitted[n] < asked[n]

\* While a node is in flight, nothing of it waits for a timer and no
\* environment of it is in the cache; a dirty request waits only behind an
\* evaluation, where poll will find it.  This is what lets flush_debounced and
\* should_fast_path skip the in_flight test, whatever is cancelled or deleted.
SlotsAgree ==
  \A n \in Nodes :
    /\ inFlight[n] => debounce[n] = None /\ envCache[n] = None
    /\ dirty[n] # None => inFlight[n] /\ ~dirty[n].fast

\* The environments that closures in the pool, results in the channel and the
\* cache hold for n, each with the place that holds it.
EnvHolders(n) ==
  {<<"job", j.req.stamp, j.env>> : j \in JobsOf(n)}
    \cup {<<"result", results[i].stamp, results[i].env>> : i \in ResultsOf(n)}
    \cup {<<"cache", 0, envCache[n]>>}

\* A Scheme environment, which evaluations mutate without a lock, has one
\* holder: the cache, one closure in the pool or one result in the channel.
EnvHasOneHolder ==
  \A n \in Nodes : \A h, k \in EnvHolders(n) :
    h[3] # None /\ k[3] # None /\ h[3].origin = k[3].origin => h = k

\* An environment is only ever handed to an evaluation of the text that left
\* it, and the fast path always finds the expanded text to evaluate again (the
\* drain-only branch of execute_on_thread is never taken).
EnvFitsText ==
  \A j \in jobs : j.env # None =>
    /\ j.env.code = j.req.code
    /\ j.req.fast => j.env.pre

\* The owner sees the results of a node in the order of its requests, never an
\* older one after a newer one, whatever happens to other nodes.
ResultsInOrder ==
  [][\A n \in Lasting : emitted'[n] # emitted[n] => emitted'[n] > emitted[n]]_vars

\* Every request is answered, by its own result or by that of a later request
\* that took its place.
EveryRequestAnswered ==
  \A n \in Nodes : \A s \in 1 .. MaxRequests[n] : asked[n] >= s ~> emitted[n] >= s

\* has_pending: true exactly while an evaluation is in the pool, its result is
\* in the channel or a request waits (actor.rs: "Whether any work is in-flight
\* or debounce-pending").
HasPending ==
  \E n \in Nodes : debounce[n] # None \/ inFlight[n] \/ dirty[n] # None

PendingMeansWork ==
  HasPending <=> (jobs # {} \/ results # <<>> \/ \E n \in Nodes : debounce[n] # None)

-----------------------------------------------------------------------------
(***************************************************************************)
(* What the runtime promises for each node, and the mapping to it.          *)
(***************************************************************************)

StampOf(req) == IF req = None THEN 0 ELSE req.stamp

WaitingOf(n) == IF dirty[n] # None THEN dirty[n].stamp ELSE StampOf(debounce[n])

CurrentOf(n) ==
  IF JobsOf(n) # {} THEN (CHOOSE j \in JobsOf(n) : TRUE).req.stamp
  ELSE IF ResultsOf(n) # {} THEN results[CHOOSE i \in ResultsOf(n) : TRUE].stamp
  ELSE 0

Executor(n) == INSTANCE NodeExecutor
  WITH asked <- asked[n], waiting <- WaitingOf(n), current <- CurrentOf(n),
       delivered <- emitted[n]

\* Each node is a NodeExecutor: one evaluation at a time, the latest request
\* waits, results in order.
NodesAreExecutors ==
  /\ \A n \in Lasting : Executor(n)!Init
  /\ [][\A n \in Lasting :
           Executor(n)!Next \/ UNCHANGED <<asked[n], WaitingOf(n), CurrentOf(n), emitted[n]>>]_vars
=============================================================================
