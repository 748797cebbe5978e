---------------------------- MODULE CompilePool ----------------------------
(***************************************************************************)
(* Asynchronous shader compilation: job nodes (MG_Util/Async/JobNode.cpp), *)
(* the bounded worker pool (MG_Util/Async/ShaderCompilePool.cpp) and their *)
(* users, the compile nodes several shader objects may share               *)
(* (ShaderObject.cpp, ShaderCompileAdoptionMap.cpp) and the link and       *)
(* SPIR-V nodes chained behind them (ProgramObject.cpp,                    *)
(* ProgramLinkTask.cpp, ProgramSpirvTask.cpp).                             *)
(*                                                                         *)
(* A thread runs nested calls: a transition runs continuations, one of     *)
(* which posts a node, which on a stopped pool runs its body, and so on.   *)
(* work[t] is what the thread has still to do, its head first; a step of a *)
(* thread replaces the head by the calls it makes.  The pool's mutex is    *)
(* held over several steps, so a call made under it is seen to be.         *)
(***************************************************************************)
EXTENDS Naturals, Sequences, FiniteSets

CONSTANTS GL,            \* GL threads, one context and share group each
          Workers,       \* the pool's threads (threadCount)
          PerContext,    \* shader objects of a context
          NumTexts,      \* distinct shader sources
          MaxCompiles, MaxLinks,   \* nodes ever created
          MaxFailures,   \* allocations that throw
          MaxCalls,      \* GL calls made
          None

ASSUME PoolAssumption ==
    /\ GL \cap Workers = {} /\ IsFiniteSet(Workers) /\ Workers # {}
    /\ IsFiniteSet(GL) /\ PerContext \in Nat /\ NumTexts \in Nat
    /\ MaxCompiles \in Nat /\ MaxLinks \in Nat
    /\ MaxFailures \in Nat /\ MaxCalls \in Nat

Threads == GL \cup Workers
Texts == 1 .. NumTexts
CompileNode == {"compile"} \X (1 .. MaxCompiles)
Link(i) == <<"link", i>>
Spirv(i) == <<"spirv", i>>
Shaders == GL \X (1 .. PerContext)
Node == CompileNode \cup {Link(i) : i \in 1 .. MaxLinks} \cup {Spirv(i) : i \in 1 .. MaxLinks}

ASSUME NoneAssumption == None \notin CompileNode

VARIABLES
    \* JobNode
    state, cancelReq, conts,
    \* ProgramLinkTask: m_remainingDeps, in.shaders, artifacts.linkStatus
    remaining, snap, verdict,
    \* ShaderCompilePool::Impl, and the nodes handed to asio and not yet begun
    lock, queue, handed, inFlight, budget, stopped, hasPool,
    suspended,           \* g_asyncSuspendedByApplication
    drained,             \* StopAndDrain has returned
    \* ShaderObject: m_source, m_compiled; ShaderCompileTask: m_adopters, m_linkReferenced
    src, compiled, adopters, pinned,
    index,               \* ShaderCompileAdoptionMap::m_entries
    pendingLink, pendingSpirv,   \* ProgramObject
    work,
    failures, calls

nodeVars == <<state, cancelReq, conts>>
linkVars == <<remaining, snap, verdict>>
poolVars == <<lock, queue, handed, inFlight, budget, stopped, hasPool>>
modeVars == <<suspended, drained>>
shaderVars == <<src, compiled, adopters, pinned, index>>
progVars == <<pendingLink, pendingSpirv>>
boundVars == <<failures, calls>>
vars == <<nodeVars, linkVars, poolVars, modeVars, shaderVars, progVars, work, boundVars>>

Terminal(n) == state[n] \in {"Complete", "Canceled"}

\* Nodes are used in order of creation.
MadeCompiles == Cardinality({n \in CompileNode : state[n] # "none"})
MadeLinks == Cardinality({i \in 1 .. MaxLinks : state[Link(i)] # "none"})

Init ==
    /\ state = [n \in Node |-> "none"] /\ cancelReq = [n \in Node |-> FALSE]
    /\ conts = [n \in Node |-> <<>>]
    /\ remaining = [i \in 1 .. MaxLinks |-> 0] /\ snap = [i \in 1 .. MaxLinks |-> {}]
    /\ verdict = [i \in 1 .. MaxLinks |-> FALSE]
    /\ lock = None /\ queue = <<>> /\ handed = {} /\ inFlight = 0
    /\ budget = Cardinality(Workers) /\ stopped = FALSE /\ hasPool = FALSE
    /\ suspended = FALSE /\ drained = FALSE
    \* Every assignment of texts, up to renaming those of a context.
    /\ src \in {f \in [Shaders -> Texts] : \A s \in Shaders : f[s] <= s[2]}
    /\ compiled = [s \in Shaders |-> None]
    /\ adopters = [n \in CompileNode |-> 0] /\ pinned = [n \in CompileNode |-> FALSE]
    /\ index = [g \in GL |-> [x \in Texts |-> None]]
    /\ pendingLink = [g \in GL |-> 0] /\ pendingSpirv = [g \in GL |-> 0]
    /\ work = [t \in Threads |-> <<>>]
    /\ failures = 0 /\ calls = 0

-----------------------------------------------------------------------------
(* The steps of a thread inside a call. *)

Cancel(n) == << <<"cancel", n>> >>
CancelAll(ns) == [k \in 1 .. Len(ns) |-> <<"cancel", ns[k]>>]

At(t, op) == work[t] # <<>> /\ Head(work[t])[1] = op
Arg(t) == Head(work[t])[2]
Into(t, tasks) == work' = [work EXCEPT ![t] = tasks \o Tail(@)]

\* TryTransition to a terminal state: the list is taken in the critical section
\* that publishes the state and run by this thread after it.
Continuations(n) == [k \in 1 .. Len(conts[n]) |-> <<"dep", conts[n][k]>>]
Transition(t, n, to) ==
    /\ state' = [state EXCEPT ![n] = to]
    /\ conts' = [conts EXCEPT ![n] = <<>>]
    /\ Into(t, Continuations(n))

\* JobNode::Cancel.  A running node only learns of the request: it settles when
\* its body returns.
CancelNode(t) ==
    /\ At(t, "cancel")
    /\ IF state[Arg(t)] = "Pending"
       THEN Transition(t, Arg(t), "Canceled")
       ELSE Into(t, <<>>) /\ UNCHANGED <<state, conts>>
    /\ cancelReq' = [cancelReq EXCEPT ![Arg(t)] = TRUE]
    /\ UNCHANGED <<linkVars, poolVars, modeVars, shaderVars, progVars, boundVars>>

RunAgain(t) ==
    /\ At(t, "run")
    /\ state' = [state EXCEPT ![Arg(t)] = "Running"]
    /\ Into(t, << <<"finish", Arg(t)>> >>)
    /\ UNCHANGED <<cancelReq, conts, linkVars, poolVars, modeVars, shaderVars, progVars, boundVars>>

\* JobNode::Run up to its body.  (A Cancel between Run's check and its transition
\* settles the node, and Run then finds nothing left to do: as if it came first.)
Run(t) ==
    /\ At(t, "run")
    /\ IF state[Arg(t)] # "Pending" THEN Into(t, <<>>) /\ UNCHANGED <<state, conts>>
       ELSE IF cancelReq[Arg(t)] THEN Transition(t, Arg(t), "Canceled")
       ELSE /\ state' = [state EXCEPT ![Arg(t)] = "Running"]
            /\ Into(t, << <<"finish", Arg(t)>> >>)
            /\ UNCHANGED conts
    /\ UNCHANGED <<cancelReq, linkVars, poolVars, modeVars, shaderVars, progVars, boundVars>>

\* ProgramLinkTask::RunBody reads each snapshot node through CompiledArtifacts:
\* one that is missing or not Complete reads as never compiled.
LinkVerdict(i) == \A n \in snap[i] : n # None /\ state[n] = "Complete"

\* RunBody returns, or throws.
Finish(t) ==
    /\ At(t, "finish")
    /\ \E throws \in {0, 1} :
         /\ failures + throws <= MaxFailures
         /\ failures' = failures + throws
         /\ Transition(t, Arg(t), IF throws = 1 \/ cancelReq[Arg(t)] THEN "Canceled" ELSE "Complete")
    /\ IF Arg(t)[1] = "link"
       THEN verdict' = [verdict EXCEPT ![Arg(t)[2]] = LinkVerdict(Arg(t)[2])]
       ELSE UNCHANGED verdict
    /\ UNCHANGED <<cancelReq, remaining, snap, poolVars, modeVars, shaderVars, progVars, calls>>

DepSettledLate(t) ==
    /\ At(t, "dep") /\ Arg(t)[1] = "link"
    /\ remaining' = [remaining EXCEPT ![Arg(t)[2]] = @ - 1]
    /\ Into(t, IF remaining[Arg(t)[2]] = 0 THEN << <<"post", Arg(t)>> >> ELSE <<>>)
    /\ UNCHANGED <<nodeVars, snap, verdict, poolVars, modeVars, shaderVars, progVars, boundVars>>
\* A continuation: ProgramLinkTask::OnDepSettled, whose last caller posts the
\* link, and the lambda of ProgramSpirvTask::SubmitAfter.
DepSettled(t) ==
    /\ At(t, "dep") /\ Arg(t)[1] = "link"
    /\ remaining' = [remaining EXCEPT ![Arg(t)[2]] = @ - 1]
    /\ Into(t, IF remaining[Arg(t)[2]] = 1 THEN << <<"post", Arg(t)>> >> ELSE <<>>)
    /\ UNCHANGED <<nodeVars, snap, verdict, poolVars, modeVars, shaderVars, progVars, boundVars>>

Chain(t) ==
    /\ At(t, "dep") /\ Arg(t)[1] = "spirv"
    /\ LET i == Arg(t)[2]
           ready == state[Link(i)] = "Complete" /\ verdict[i]
       IN  Into(t, IF ready /\ ~cancelReq[Arg(t)] THEN << <<"post", Arg(t)>> >> ELSE Cancel(Arg(t)))
    /\ UNCHANGED <<nodeVars, linkVars, poolVars, modeVars, shaderVars, progVars, boundVars>>

\* JobNode::OnTerminal for one edge of a link: appended, or run inline.
Edge(t) ==
    /\ At(t, "edge")
    /\ LET dep == Arg(t).dep
           link == Arg(t).link
       IN  IF Terminal(dep)
           THEN Into(t, << <<"dep", link>> >>) /\ UNCHANGED conts
           ELSE conts' = [conts EXCEPT ![dep] = Append(@, link)] /\ Into(t, <<>>)
    /\ UNCHANGED <<state, cancelReq, linkVars, poolVars, modeVars, shaderVars, progVars, boundVars>>

-----------------------------------------------------------------------------
(* The pool. *)

\* The numbers of S in order.
InOrder(S) == {e \in [1 .. Cardinality(S) -> S] :
                 \A j, k \in 1 .. Cardinality(S) : j < k => e[j] < e[k]}

AcceptsAlways == TRUE
Accepting == ~stopped

\* ShaderCompilePool::Post: a stopped pool runs the node on the caller.
PostStopped(t) ==
    /\ At(t, "post") /\ lock = None /\ ~Accepting
    /\ Into(t, << <<"run", Arg(t)>> >>)
    /\ UNCHANGED <<nodeVars, linkVars, poolVars, modeVars, shaderVars, progVars, boundVars>>

\* The construction of the threads or the push throws: the node is cancelled.
PostThrows(t) ==
    /\ At(t, "post") /\ lock = None /\ Accepting /\ failures < MaxFailures
    /\ failures' = failures + 1
    /\ hasPool' \in {hasPool, TRUE}
    /\ Into(t, Cancel(Arg(t)))
    /\ UNCHANGED <<nodeVars, linkVars, lock, queue, handed, inFlight, budget, stopped,
                   modeVars, shaderVars, progVars, calls>>

\* DispatchLocked over the queue q with `slots` taken: k nodes leave it, the
\* hand-over of those in F throws, which gives the slot back; the loop ends with
\* the queue empty or the budget spent.  The failed ones are cancelled only after
\* the mutex is released: a cancel runs continuations, and one of them may post.
Leaving(t, cancels) ==
    IF cancels = <<>> THEN lock' = None /\ Into(t, <<>>)
                      ELSE lock' = t /\ Into(t, << <<"unlock", None>> >> \o cancels)
Dispatch(t, q, slots, limit) ==
    \E k \in 0 .. Len(q), F \in SUBSET (1 .. Len(q)) :
      LET given == {j \in 1 .. k : j \notin F}
          taken == slots + Cardinality(given)
      IN  /\ F \subseteq 1 .. k /\ failures + Cardinality(F) <= MaxFailures
          /\ given # {} => taken <= limit
          /\ taken < limit => k = Len(q)
          /\ taken >= limit => k \notin F /\ (given = {} => k = 0)
          /\ inFlight' = taken
          /\ queue' = SubSeq(q, k + 1, Len(q))
          /\ handed' = handed \cup {q[j] : j \in given}
          /\ failures' = failures + Cardinality(F)
          /\ \E e \in InOrder(F) : Leaving(t, [j \in 1 .. Cardinality(F) |-> <<"cancel", q[e[j]]>>])

Unlock(t) ==
    /\ At(t, "unlock")
    /\ lock' = None
    /\ Into(t, <<>>)
    /\ UNCHANGED <<nodeVars, linkVars, queue, handed, inFlight, budget, stopped, hasPool,
                   modeVars, shaderVars, progVars, boundVars>>

Post(t) ==
    /\ At(t, "post") /\ lock = None /\ Accepting
    /\ hasPool' = TRUE
    /\ Dispatch(t, Append(queue, Arg(t)), inFlight, budget)
    /\ UNCHANGED <<nodeVars, linkVars, budget, stopped, modeVars, shaderVars, progVars, calls>>

\* RunOnWorker: asio starts a handler on an idle thread (they are all alike);
\* afterwards the slot is returned and the next node dispatched.
IdleWorkers == {w \in Workers : work[w] = <<>>}
Take(w) ==
    /\ w \in IdleWorkers /\ w = CHOOSE v \in IdleWorkers : TRUE
    /\ \E n \in handed :
         /\ handed' = handed \ {n}
         /\ work' = [work EXCEPT ![w] = (IF stopped THEN Cancel(n) ELSE <<>>)
                                        \o << <<"run", n>>, <<"return", n>> >>]
    /\ UNCHANGED <<nodeVars, linkVars, lock, queue, inFlight, budget, stopped, hasPool,
                   modeVars, shaderVars, progVars, boundVars>>

ReturnAndStop(t) ==
    /\ At(t, "return") /\ lock = None
    /\ inFlight' = inFlight - 1 /\ Into(t, <<>>)
    /\ UNCHANGED <<nodeVars, linkVars, lock, queue, handed, budget, stopped, hasPool,
                   modeVars, shaderVars, progVars, boundVars>>
ReturnSlot(t) ==
    /\ At(t, "return") /\ lock = None
    /\ Dispatch(t, queue, inFlight - 1, IF stopped THEN 0 ELSE budget)
    /\ UNCHANGED <<nodeVars, linkVars, budget, stopped, hasPool, modeVars, shaderVars, progVars, calls>>

\* SetMaxConcurrency.
SetBudget(t) ==
    /\ At(t, "budget") /\ lock = None
    /\ budget' = Arg(t)
    /\ IF hasPool
       THEN Dispatch(t, queue, inFlight, budget')
       ELSE Into(t, <<>>) /\ UNCHANGED <<lock, queue, handed, inFlight, failures>>
    /\ UNCHANGED <<nodeVars, linkVars, stopped, hasPool, modeVars, shaderVars, progVars, calls>>

Resume(t) ==
    /\ At(t, "resume")
    /\ suspended' = FALSE
    /\ Into(t, <<>>)
    /\ UNCHANGED <<nodeVars, linkVars, poolVars, drained, shaderVars, progVars, boundVars>>

\* StopAndDrain: everything queued is settled here, everything handed over is
\* waited for (thread_pool::join).
StopPool(t) ==
    /\ At(t, "stop") /\ lock = None
    /\ stopped' = TRUE /\ hasPool' = FALSE
    /\ queue' = <<>>
    /\ Into(t, CancelAll(queue) \o << <<"join", None>> >>)
    /\ UNCHANGED <<nodeVars, linkVars, lock, handed, inFlight, budget,
                   modeVars, shaderVars, progVars, boundVars>>

WorkersDone == handed = {} /\ \A w \in Workers : work[w] = <<>>
JoinPool(t) ==
    /\ At(t, "join") /\ WorkersDone /\ lock = None
    /\ inFlight' = 0 /\ drained' = TRUE
    /\ Into(t, <<>>)
    /\ UNCHANGED <<nodeVars, linkVars, lock, queue, handed, budget, stopped, hasPool,
                   suspended, shaderVars, progVars, boundVars>>

-----------------------------------------------------------------------------
(* The GL calls.  One begins when its thread has nothing left to do. *)

Own(g) == {g} \X (1 .. PerContext)
Idle(g) == work[g] = <<>> /\ calls < MaxCalls
Begin(g, tasks) == work' = [work EXCEPT ![g] = tasks] /\ calls' = calls + 1

HasMemoizedCompile(s) == compiled[s] # None /\ state[compiled[s]] # "Canceled"
Hold(s, n) == compiled' = [compiled EXCEPT ![s] = n]

\* The count after an object lets go of `old` and takes `new`.
Moved(old, new) == [n \in CompileNode |-> adopters[n] - (IF n = old THEN 1 ELSE 0)
                                                      + (IF n = new THEN 1 ELSE 0)]

\* ReleaseCompileNode may cancel only as the last holder, with no link waiting.
MayCancelShared(n) == ~Terminal(n) /\ ~pinned[n]
MayCancel(n) == ~Terminal(n) /\ adopters[n] = 1 /\ ~pinned[n]
Release(n) == IF n # None /\ MayCancel(n) THEN Cancel(n) ELSE <<>>

\* glShaderSource with another text; or glDeleteShader of an object nothing is
\* attached to, and a new object with text x.  Both leave an object without a node.
LetGo(g, s, x) ==
    /\ Idle(g) /\ compiled[s] # None
    /\ Begin(g, Release(compiled[s]))
    /\ adopters' = Moved(compiled[s], None)
    /\ Hold(s, None)
    /\ src' = [src EXCEPT ![s] = x]
    /\ UNCHANGED <<nodeVars, linkVars, poolVars, modeVars, pinned, index, progVars, failures>>

\* ShaderCompileAdoptionMap::FindAdoptable.  The entry is weak: a node no shader
\* object holds may be gone already.
Adoptable(g, x) ==
    LET n == index[g][x]
    IN  n # None /\ state[n] # "Canceled" /\ ~cancelReq[n]
Kept(n) == \E s \in Shaders : compiled[s] = n

Adopt(g, s) ==
    /\ Idle(g) /\ ~HasMemoizedCompile(s)
    /\ ~suspended /\ Adoptable(g, src[s])
    /\ adopters' = Moved(compiled[s], index[g][src[s]])
    /\ Hold(s, index[g][src[s]])
    /\ Begin(g, <<>>)
    /\ UNCHANGED <<nodeVars, linkVars, poolVars, modeVars, src, pinned, index, progVars, failures>>

Compile(g, s) ==
    /\ Idle(g) /\ ~HasMemoizedCompile(s)
    /\ MadeCompiles < MaxCompiles
    /\ suspended \/ ~Adoptable(g, src[s]) \/ ~Kept(index[g][src[s]])
    /\ LET n == <<"compile", MadeCompiles + 1>>
       IN  /\ state' = [state EXCEPT ![n] = "Pending"]
           /\ adopters' = Moved(compiled[s], n)
           /\ Hold(s, n)
           /\ IF suspended
              THEN Begin(g, << <<"run", n>>, <<"pull", s>> >>) /\ UNCHANGED index
              ELSE Begin(g, << <<"post", n>> >>) /\ index' = [index EXCEPT ![g][src[s]] = n]
    /\ UNCHANGED <<cancelReq, conts, linkVars, poolVars, modeVars, src, pinned, progVars, failures>>

\* JoinPendingCompile: waits, and drops a node that settled without a result.
JoinCompile(g, s) ==
    /\ Idle(g) /\ compiled[s] # None /\ state[compiled[s]] # "Complete"
    /\ Begin(g, << <<"pull", s>> >>)
    /\ UNCHANGED <<nodeVars, linkVars, poolVars, modeVars, shaderVars, progVars, failures>>

Pull(g) ==
    /\ At(g, "pull") /\ Terminal(compiled[Arg(g)])
    /\ LET lost == state[compiled[Arg(g)]] = "Canceled"
       IN  /\ adopters' = IF lost THEN Moved(compiled[Arg(g)], None) ELSE adopters
           /\ compiled' = IF lost THEN [compiled EXCEPT ![Arg(g)] = None] ELSE compiled
    /\ Into(g, <<>>)
    /\ UNCHANGED <<nodeVars, linkVars, poolVars, modeVars, src, pinned, index, progVars, boundVars>>

\* ProgramObject::CancelLink, the SPIR-V job first.
CancelLink(g) == (IF pendingSpirv[g] = 0 THEN <<>> ELSE Cancel(Spirv(pendingSpirv[g])))
              \o (IF pendingLink[g] = 0 THEN <<>> ELSE Cancel(Link(pendingLink[g])))
DropPending(g) == /\ pendingLink' = [pendingLink EXCEPT ![g] = 0]
                  /\ pendingSpirv' = [pendingSpirv EXCEPT ![g] = 0]

\* Calls that have not made their link yet count against the bound.
Linking == {h \in GL : \E k \in DOMAIN work[h] : work[h][k][1] = "link"}

\* glLinkProgram with the shaders Q attached (they may be detached, re-sourced
\* and deleted right after).
LinkProgram(g, Q) ==
    /\ Idle(g) /\ MadeLinks + Cardinality(Linking) < MaxLinks
    /\ Begin(g, CancelLink(g) \o << <<"link", Q>> >>)
    /\ DropPending(g)
    /\ UNCHANGED <<nodeVars, linkVars, poolVars, modeVars, shaderVars, failures>>

\* ~ProgramObject, glProgramBinary.
AbandonProgram(g) ==
    /\ Idle(g) /\ pendingSpirv[g] # 0
    /\ Begin(g, CancelLink(g))
    /\ DropPending(g)
    /\ UNCHANGED <<nodeVars, linkVars, poolVars, modeVars, shaderVars, failures>>

\* The rest of Link: the snapshot and both jobs.  Suspended, both bodies run
\* here; otherwise ProgramLinkTask::SubmitAfter registers one edge per unsettled
\* node and releases its guard slot last.
NoGuardSlot == 0
GuardSlot == 1

Edges(i, ks, e) == [k \in 1 .. Cardinality(ks) |->
                      <<"edge", [dep |-> <<"compile", e[k]>>, link |-> Link(i)]>>]

EnqueueLink(g) ==
    /\ At(g, "link") /\ MadeLinks < MaxLinks
    /\ LET i == MadeLinks + 1
           nodes == {compiled[s] : s \in Arg(g)}
           pending == {k \in 1 .. MaxCompiles : <<"compile", k>> \in nodes
                                                /\ ~Terminal(<<"compile", k>>)}
       IN  /\ snap' = [snap EXCEPT ![i] = nodes]
           /\ pinned' = [n \in CompileNode |-> pinned[n] \/ n \in nodes]
           /\ state' = [state EXCEPT ![Link(i)] = "Pending", ![Spirv(i)] = "Pending"]
           /\ pendingLink' = [pendingLink EXCEPT ![g] = i]
           /\ pendingSpirv' = [pendingSpirv EXCEPT ![g] = i]
           /\ IF suspended
              THEN /\ Into(g, << <<"run", Link(i)>>, <<"run", Spirv(i)>>, <<"publish", None>>, <<"publishB", None>> >>)
                   /\ UNCHANGED <<conts, remaining>>
              ELSE /\ conts' = [conts EXCEPT ![Link(i)] = << Spirv(i) >>]
                   /\ remaining' = [remaining EXCEPT ![i] = Cardinality(pending) + GuardSlot]
                   /\ \E e \in InOrder(pending) :
                        Into(g, Edges(i, pending, e) \o << <<"dep", Link(i)>> >>)
    /\ UNCHANGED <<cancelReq, verdict, poolVars, modeVars, src, compiled, adopters, index, boundVars>>

\* JoinPendingLink and JoinPendingSpirv.
JoinLink(g) ==
    /\ Idle(g) /\ pendingLink[g] # 0
    /\ Begin(g, << <<"publish", None>> >>)
    /\ UNCHANGED <<nodeVars, linkVars, poolVars, modeVars, shaderVars, progVars, failures>>

JoinSpirv(g) ==
    /\ Idle(g) /\ pendingSpirv[g] # 0
    /\ Begin(g, << <<"publish", None>>, <<"publishB", None>> >>)
    /\ UNCHANGED <<nodeVars, linkVars, poolVars, modeVars, shaderVars, progVars, failures>>

Publish(g) ==
    /\ At(g, "publish") /\ (pendingLink[g] # 0 => Terminal(Link(pendingLink[g])))
    /\ pendingLink' = [pendingLink EXCEPT ![g] = 0]
    /\ Into(g, <<>>)
    /\ UNCHANGED <<nodeVars, linkVars, poolVars, modeVars, shaderVars, pendingSpirv, boundVars>>

PublishB(g) ==
    /\ At(g, "publishB") /\ (pendingSpirv[g] # 0 => Terminal(Spirv(pendingSpirv[g])))
    /\ pendingSpirv' = [pendingSpirv EXCEPT ![g] = 0]
    /\ Into(g, <<>>)
    /\ UNCHANGED <<nodeVars, linkVars, poolVars, modeVars, shaderVars, pendingLink, boundVars>>

\* glMaxShaderCompilerThreadsKHR(0): suspend first, then JoinAllPendingWork.
Pulls(g, ks, e) == [k \in 1 .. Cardinality(ks) |-> <<"pull", <<g, e[k]>> >>]

Suspend(g) ==
    /\ Idle(g) /\ ~suspended
    /\ suspended' = TRUE
    /\ LET held == {k \in 1 .. PerContext : compiled[<<g, k>>] # None}
       IN  \E e \in InOrder(held) :
             Begin(g, << <<"publish", None>>, <<"publishB", None>> >> \o Pulls(g, held, e))
    /\ UNCHANGED <<nodeVars, linkVars, poolVars, drained, shaderVars, progVars, failures>>

SetThreads(g, k) ==
    /\ Idle(g) /\ (suspended \/ k # budget)
    /\ Begin(g, << <<"budget", k>>, <<"resume", None>> >>)
    /\ UNCHANGED <<nodeVars, linkVars, poolVars, modeVars, shaderVars, progVars, failures>>

\* eglTerminate, process exit.
Stop(g) ==
    /\ Idle(g) /\ ~stopped
    /\ Begin(g, << <<"stop", None>> >>)
    /\ UNCHANGED <<nodeVars, linkVars, poolVars, modeVars, shaderVars, progVars, failures>>

-----------------------------------------------------------------------------
Step(t) == \/ CancelNode(t) \/ Run(t) \/ Finish(t)
           \/ DepSettled(t) \/ Chain(t) \/ Edge(t)
           \/ PostStopped(t) \/ PostThrows(t) \/ Post(t) \/ Unlock(t)
           \/ ReturnSlot(t) \/ SetBudget(t) \/ Resume(t) \/ StopPool(t) \/ JoinPool(t)

GLStep(g) == Step(g) \/ Pull(g) \/ EnqueueLink(g) \/ Publish(g) \/ PublishB(g)

Call(g) == \/ \E s \in Own(g) : \/ \E x \in Texts : LetGo(g, s, x)
                                \/ Compile(g, s) \/ Adopt(g, s) \/ JoinCompile(g, s)
           \/ \E Q \in SUBSET Own(g) \ {{}} : LinkProgram(g, Q)
           \/ AbandonProgram(g) \/ JoinLink(g) \/ JoinSpirv(g)
           \/ Suspend(g) \/ (\E k \in 1 .. Cardinality(Workers) : SetThreads(g, k)) \/ Stop(g)

WorkerStep(w) == Step(w) \/ Take(w)

Next == \/ \E g \in GL : GLStep(g) \/ Call(g)
        \/ \E w \in Workers : WorkerStep(w)

Spec == Init /\ [][Next]_vars

\* A thread in a call runs on, a body returns, and asio starts what it was
\* handed.  Nothing obliges the application to make a call.
FairSpec == /\ Spec
            /\ \A g \in GL : WF_vars(GLStep(g))
            /\ \A w \in Workers : WF_vars(WorkerStep(w))
-----------------------------------------------------------------------------
(* Properties. *)

Busy == {w \in Workers : \E k \in 1 .. Len(work[w]) : work[w][k][1] = "return"}

TypeOK ==
    /\ state \in [Node -> {"none", "Pending", "Running", "Complete", "Canceled"}]
    /\ cancelReq \in [Node -> BOOLEAN]
    /\ remaining \in [1 .. MaxLinks -> 0 .. MaxCompiles + 1]
    /\ snap \in [1 .. MaxLinks -> SUBSET (CompileNode \cup {None})]
    /\ lock \in Threads \cup {None} /\ handed \subseteq Node
    /\ inFlight \in 0 .. Cardinality(Workers) /\ budget \in 1 .. Cardinality(Workers)
    /\ adopters \in [CompileNode -> 0 .. Cardinality(Shaders)]

\* A slot of the budget is held by exactly the nodes handed over and the workers
\* that have not returned theirs: a lost one would shrink the pool for good
\* (ShaderCompilePool.cpp:185-189).
SlotsHeld == inFlight = Cardinality(handed) + Cardinality(Busy)

\* Whenever the mutex is free, no node waits in the queue while a slot is free.
NoSlotIdle == lock = None /\ ~stopped /\ queue # <<>> => inFlight >= budget

\* The count that says who may cancel a shared compile is the number of shader
\* objects that hold it (ShaderCompileTask.h:203-247).
Holders(n) == {s \in Shaders : compiled[s] = n}
HoldersCounted == \A n \in CompileNode : adopters[n] = Cardinality(Holders(n))

\* Types, and the counts the pool and the shader objects keep: slots and holders.
IInv == TypeOK /\ SlotsHeld /\ NoSlotIdle /\ HoldersCounted

\* Nobody asks a compile to stop while a shader object or an unsettled link
\* still needs its result, unless the pool is being drained or memory ran out
\* (ShaderObject.cpp:195-212).
Needed(n) == \/ \E s \in Shaders : compiled[s] = n
             \/ \E i \in 1 .. MaxLinks : n \in snap[i] /\ ~Terminal(Link(i)) /\ ~cancelReq[Link(i)]
WantedIsNotCancelled == \A n \in CompileNode : cancelReq[n] /\ Needed(n) => stopped \/ failures > 0

\* A link reports failure only if one of its shaders really has no compile: a
\* compile that is still going to succeed is waited for.
LinkVerdictTrue == \A i \in 1 .. MaxLinks :
    state[Link(i)] = "Complete" /\ ~verdict[i] => \E n \in snap[i] : n = None \/ state[n] = "Canceled"

\* Once StopAndDrain has returned no worker runs or receives anything again
\* (ShaderCompilePool.h:101-103).
DrainedIsQuiet == drained => WorkersDone /\ queue = <<>> /\ ~hasPool

\* Bodies run after what they depend on, and every job settles exactly once.
Needs(n) == IF n[1] = "link" THEN snap[n[2]] \ {None}
            ELSE IF n[1] = "spirv" THEN {Link(n[2])} ELSE {}
Jobs == INSTANCE JobGraph WITH deps <- [n \in Node |-> Needs(n)]
ImplementsJobGraph == Jobs!Spec

\* Every call returns and every job settles: no join, drain or lock waits for
\* ever, and no node is left where nothing will dispatch it.
Quiet == /\ \A t \in Threads : work[t] = <<>>
         /\ \A n \in Node : state[n] \notin {"Pending", "Running"}
EverythingSettles == []<>Quiet
=============================================================================
