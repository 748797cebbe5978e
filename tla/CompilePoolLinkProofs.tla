------------------------ MODULE CompilePoolLinkProofs ------------------------
(***************************************************************************)
(* Links over the compile pool: what a program object learns from its      *)
(* link, and the life of every job node, for every number of shader        *)
(* objects, texts, nodes, workers, failures and calls.                     *)
(*                                                                         *)
(* The argument: a link's count is what it still waits for, the edges its  *)
(* thread has to register and the continuations to run                     *)
(* (ProgramLinkTask.cpp:753-790), so it comes to zero only when there are  *)
(* none, and a link that runs has every compile of its snapshot settled.   *)
(* Its SPIR-V job is chained to it, or behind it on the thread that runs   *)
(* both.  An inline link has no count (ProgramObject.cpp:699-703): it may  *)
(* read its compiles because the one context, when it suspended the pool,  *)
(* waited for every compile it holds.                                      *)
(*                                                                         *)
(* That last step is true of one context, or of several that do not        *)
(* suspend the pool (Calm).  With several and a suspension it is false:    *)
(* the run of CompilePoolContexts.cfg shows the wrong verdict.             *)
(***************************************************************************)
EXTENDS CompilePoolProofs

(* Only a running node has a body to finish.                               *)
RunInv == \A t \in Threads : \A k \in DOMAIN work[t] :
    work[t][k][1] = "finish" => state[work[t][k][2]] = "Running"

(* What link i still waits for: the edges its thread has to register and   *)
(* the continuations to run, at their places; and those compiles keep.     *)
Waiting(c, i) == c = <<"dep", Link(i)>> \/ (c[1] = "edge" /\ c[2].link = Link(i))
Spots(i) == {p \in Threads \X Nat : p[2] \in DOMAIN work[p[1]] /\ Waiting(work[p[1]][p[2]], i)}
Listed(i) == {p \in CompileNode \X Nat : p[2] \in DOMAIN conts[p[1]] /\ conts[p[1]][p[2]] = Link(i)}
OutOf(i) ==
    /\ IsFiniteSet(Spots(i)) /\ IsFiniteSet(Listed(i))
    /\ Cardinality(Spots(i)) + Cardinality(Listed(i)) <= remaining[i]
    /\ remaining[i] <= MaxCompiles + 1
OutInv == \A i \in 1 .. MaxLinks : OutOf(i)

HasAt(u, c) == \E k \in DOMAIN work[u] : work[u][k] = c
Has(c) == \E u \in Threads : HasAt(u, c)

(* A link waits for every compile of its snapshot that has not settled.    *)
EdgeTo(n, i) == <<"edge", [dep |-> n, link |-> Link(i)]>>
Awaited(n, i) == Has(EdgeTo(n, i)) \/ \E k \in DOMAIN conts[n] : conts[n][k] = Link(i)
PendInv == \A i \in 1 .. MaxLinks : \A n \in snap[i] \cap CompileNode : Terminal(n) \/ Awaited(n, i)

(* The SPIR-V job is behind its link: chained to it, or behind it on the   *)
(* thread that runs both.                                                  *)
Runs(c, i) == (c = <<"run", Link(i)>> /\ state[Link(i)] = "Pending") \/ c = <<"finish", Link(i)>>
Inline(i) == \E t \in Threads : \E j, k \in DOMAIN work[t] :
    j < k /\ work[t][k] = <<"run", Spirv(i)>> /\ Runs(work[t][j], i)
SpirvInv == \A i \in 1 .. MaxLinks :
    state[Link(i)] = "none" \/ Terminal(Link(i)) \/ conts[Link(i)] = <<Spirv(i)>> \/ Inline(i)

(* The only context, once it has suspended the pool, waits for every       *)
(* compile it holds before it does anything else.                          *)
OneContext == \A g, h \in GL : g = h
Calm == OneContext \/ ~suspended
HeldInv == OneContext /\ suspended => \A s \in Shaders :
    compiled[s] \in CompileNode => Terminal(compiled[s]) \/ HasAt(s[1], <<"pull", s>>)
LinkAlone == \A t \in Threads : \A j, k \in DOMAIN work[t] :
    ~(work[t][j][1] = "link" /\ work[t][k][1] = "pull")

VerdictType == verdict \in [1 .. MaxLinks -> BOOLEAN]
LockInv == lock \in Threads \cup {None}
-----------------------------------------------------------------------------
(* The shapes of a step *)

Among(tasks, c) == \E k \in DOMAIN tasks : tasks[k] = c
HeadIs(t, c) == 1 \in DOMAIN work[t] /\ work[t][1] = c

(* A shape says what a step does to the nodes and what it gives its thread *)
(* to do; Outside is what every step has in common.                        *)
HeldOk(t, tasks) == OneContext /\ suspended' => \A s \in Shaders : compiled'[s] \in CompileNode =>
    \/ t = s[1] /\ Among(tasks, <<"pull", s>>)
    \/ state'[compiled'[s]] \in {"Complete", "Canceled"}
    \/ suspended /\ compiled'[s] = compiled[s] /\ ~HeadIs(t, <<"pull", s>>)
Outside(t, tasks) ==
    /\ tasks \in Seq(Task) /\ Puts(t, tasks)
    /\ lock' = lock \/ lock' = None \/ lock' = t
    /\ work[t] # <<>> => \A k \in DOMAIN tasks : tasks[k][1] \notin {"pull", "link"}
    /\ \A j, k \in DOMAIN tasks : ~(tasks[j][1] = "link" /\ tasks[k][1] = "pull")
    /\ HeldOk(t, tasks)

(* Tasks that are nobody's body, edge or continuation of a link.           *)
Inert(c) == c[1] \notin {"finish", "edge"} /\ (c[1] = "dep" => c[2][1] # "link")
AllInert(tasks) == \A k \in DOMAIN tasks : Inert(tasks[k])

Stays(t, tasks) ==
    /\ AllInert(tasks) /\ UNCHANGED <<state, conts, remaining, snap, verdict>>
    /\ work[t] # <<>> => /\ 1 \in DOMAIN work[t] /\ Inert(work[t][1])
                         /\ work[t][1][1] = "run" => state[work[t][1][2]] # "Pending"

NewVerdicts(t) == /\ verdict' \in [1 .. MaxLinks -> BOOLEAN]
                  /\ \A i \in 1 .. MaxLinks :
                       verdict'[i] = IF HeadIs(t, <<"finish", Link(i)>>) THEN LinkVerdict(i) ELSE verdict[i]
Settles(t, tasks) == \E n \in Node, to \in {"Complete", "Canceled"} :
    /\ \/ HeadIs(t, <<"finish", n>>)
       \/ state[n] = "Pending" /\ to = "Canceled" /\ (HeadIs(t, <<"cancel", n>>) \/ HeadIs(t, <<"run", n>>))
    /\ state' = [state EXCEPT ![n] = to] /\ conts' = [conts EXCEPT ![n] = <<>>]
    /\ tasks = Continuations(n) /\ UNCHANGED <<remaining, snap>> /\ NewVerdicts(t)

Starts(t, tasks) == \E n \in Node :
    /\ HeadIs(t, <<"run", n>>) /\ state[n] = "Pending" /\ state' = [state EXCEPT ![n] = "Running"]
    /\ tasks = << <<"finish", n>> >> /\ UNCHANGED <<conts, remaining, snap, verdict>>

Counts(t, tasks) == \E i \in 1 .. MaxLinks :
    /\ HeadIs(t, <<"dep", Link(i)>>) /\ remaining' = [remaining EXCEPT ![i] = @ - 1]
    /\ AllInert(tasks) /\ UNCHANGED <<state, conts, snap, verdict>>

Registers(t, tasks) == \E n \in CompileNode, i \in 1 .. MaxLinks :
    /\ HeadIs(t, EdgeTo(n, i)) /\ UNCHANGED <<state, remaining, snap, verdict>>
    /\ \/ Terminal(n) /\ tasks = << <<"dep", Link(i)>> >> /\ conts' = conts
       \/ ~Terminal(n) /\ tasks = <<>> /\ conts' = [conts EXCEPT ![n] = Append(@, Link(i))]

MakesCompile(t, tasks) == \E n \in CompileNode :
    /\ state[n] = "none" /\ work[t] = <<>> /\ state' = [state EXCEPT ![n] = "Pending"]
    /\ AllInert(tasks) /\ UNCHANGED <<conts, remaining, snap, verdict>>

(* The compiles of a snapshot that have not settled.                       *)
Unsettled(nodes) == {k \in 1 .. MaxCompiles : <<"compile", k>> \in nodes /\ ~Terminal(<<"compile", k>>)}
InlineList(i) == << <<"run", Link(i)>>, <<"run", Spirv(i)>>, <<"publish", None>>, <<"publishB", None>> >>
MakesLink(t, tasks) == \E i \in 1 .. MaxLinks, Q \in SUBSET Shaders, nodes \in SUBSET Compiled :
    /\ t \in GL /\ state[Link(i)] = "none" /\ HeadIs(t, <<"link", Q>>) /\ nodes = {compiled[s] : s \in Q}
    /\ snap' = [snap EXCEPT ![i] = nodes] /\ verdict' = verdict
    /\ state' = [state EXCEPT ![Link(i)] = "Pending", ![Spirv(i)] = "Pending"]
    /\ \/ suspended /\ tasks = InlineList(i) /\ UNCHANGED <<conts, remaining>>
       \/ /\ conts' = [conts EXCEPT ![Link(i)] = <<Spirv(i)>>]
          /\ remaining' = [remaining EXCEPT ![i] = Cardinality(Unsettled(nodes)) + GuardSlot]
          /\ \E e \in InOrder(Unsettled(nodes)) :
               tasks = Edges(i, Unsettled(nodes), e) \o << <<"dep", Link(i)>> >>

Shape(t, tasks) ==
    /\ Outside(t, tasks)
    /\ \/ Stays(t, tasks) \/ Settles(t, tasks) \/ Starts(t, tasks) \/ Counts(t, tasks)
       \/ Registers(t, tasks) \/ MakesCompile(t, tasks) \/ MakesLink(t, tasks)
Shaped(t) == \E tasks : Shape(t, tasks)
-----------------------------------------------------------------------------
(* Every step has a shape *)

Light(tasks) == \A k \in DOMAIN tasks :
    tasks[k][1] \notin {"finish", "edge", "pull", "link"} /\ (tasks[k][1] = "dep" => tasks[k][2][1] # "link")

(* A step inside a call that changes no node.                              *)
LEMMA StayingInside ==
    ASSUME Types, NEW t \in Threads, NEW op, At(t, op), op \notin {"finish", "edge", "pull"},
           op = "dep" => Arg(t)[1] # "link", op = "run" => state[Arg(t)] # "Pending",
           NEW tasks \in Seq(Task), Light(tasks), Into(t, tasks),
           lock' = lock \/ lock' = None \/ lock' = t, UNCHANGED compiled,
           suspended' = suspended \/ suspended' = FALSE,
           UNCHANGED <<state, conts, remaining, snap, verdict>>
    PROVE  Shaped(t)
<1>1. /\ work[t] # <<>> /\ 1 \in DOMAIN work[t] /\ work[t][1][1] = op /\ work[t][1][2] = Arg(t)
  BY AtTask DEF Types
<1>2. \A s : ~HeadIs(t, <<"pull", s>>)
  BY <1>1 DEF HeadIs
<1>3. Puts(t, tasks)
  BY <1>1, IntoPuts
<1>4. Outside(t, tasks)
  BY <1>2, <1>3 DEF Outside, HeldOk, Light
<1>5. AllInert(tasks)
  BY DEF AllInert, Inert, Light
<1>6. Stays(t, tasks)
  BY <1>1, <1>5 DEF Stays, Inert
<1>7. QED
  BY <1>4, <1>6 DEF Shaped, Shape

(* What is outside the nodes, of a step inside a call.                     *)
LEMMA InsideOut ==
    ASSUME Types, NEW t \in Threads, NEW op, At(t, op), op # "pull", NEW tasks \in Seq(Task),
           Into(t, tasks), \A k \in DOMAIN tasks : tasks[k][1] \notin {"pull", "link"},
           lock' = lock, UNCHANGED <<compiled, suspended>>
    PROVE  Outside(t, tasks) /\ 1 \in DOMAIN work[t] /\ work[t][1] = <<op, Arg(t)>>
<1>1. /\ work[t] # <<>> /\ 1 \in DOMAIN work[t] /\ work[t][1][1] = op /\ work[t][1] = <<op, Arg(t)>>
  BY AtTask DEF Types
<1>2. \A s : ~HeadIs(t, <<"pull", s>>)
  BY <1>1 DEF HeadIs
<1>3. Puts(t, tasks)
  BY <1>1, IntoPuts
<1>4. QED
  BY <1>1, <1>2, <1>3 DEF Outside, HeldOk

LEMMA LightTasks ==
    /\ Light(<<>>)
    /\ \A c : c[1] \notin {"finish", "edge", "pull", "link", "dep"} => Light(<<c>>)
    /\ \A tasks : Requests(tasks) => Light(tasks)
<1>1. Light(<<>>)
  BY DEF Light
<1>2. ASSUME NEW c, c[1] \notin {"finish", "edge", "pull", "link", "dep"} PROVE Light(<<c>>)
  <2>1. \A k \in DOMAIN <<c>> : <<c>>[k] = c
    OBVIOUS
  <2>2. QED
    BY <1>2, <2>1 DEF Light
<1>3. ASSUME NEW tasks, Requests(tasks) PROVE Light(tasks)
  BY <1>3 DEF Light, Requests
<1>4. QED
  BY <1>1, <1>2, <1>3

LEMMA PoolStepShape ==
    ASSUME PoolInv, NEW t \in Threads,
           \/ Chain(t) \/ PostStopped(t) \/ PostThrows(t) \/ Unlock(t) \/ Resume(t) \/ JoinPool(t)
    PROVE  Shaped(t)
<1>0. Types
  BY DEF PoolInv
<1>1. CASE Chain(t)
  <2>1. /\ At(t, "dep") /\ Arg(t)[1] # "link"
        /\ Into(t, << <<"post", Arg(t)>> >>) \/ Into(t, << <<"cancel", Arg(t)>> >>)
        /\ lock' = lock /\ UNCHANGED <<compiled, suspended>>
        /\ UNCHANGED <<state, conts, remaining, snap, verdict>>
    BY <1>1 DEF Chain, Cancel, nodeVars, linkVars, poolVars, modeVars, shaderVars
  <2>2. Arg(t) \in Node
    BY <1>0, <2>1, NodeArg DEF NodeOps
  <2>3. PICK c \in Task : Into(t, <<c>>) /\ c[1] \in {"post", "cancel"}
    <3>1. <<"post", Arg(t)>> \in Task /\ <<"cancel", Arg(t)>> \in Task
      BY <2>2, NodeTask DEF NodeOps
    <3>2. <<"post", Arg(t)>>[1] = "post" /\ <<"cancel", Arg(t)>>[1] = "cancel"
      OBVIOUS
    <3>3. QED
      BY <2>1, <3>1, <3>2
  <2>4. <<c>> \in Seq(Task) /\ Light(<<c>>)
    BY <2>3, OneTask, LightTasks
  <2>5. QED
    BY <1>0, <2>1, <2>3, <2>4, StayingInside
<1>2. CASE PostStopped(t)
  <2>1. /\ At(t, "post") /\ Into(t, << <<"run", Arg(t)>> >>)
        /\ lock' = lock /\ UNCHANGED <<compiled, suspended>>
        /\ UNCHANGED <<state, conts, remaining, snap, verdict>>
    BY <1>2 DEF PostStopped, nodeVars, linkVars, poolVars, modeVars, shaderVars
  <2>2. PICK c \in Task : c = <<"run", Arg(t)>>
    BY <1>0, <2>1, NodeArg, NodeTask DEF NodeOps
  <2>3. <<c>> \in Seq(Task) /\ Light(<<c>>)
    BY <2>2, OneTask, LightTasks
  <2>4. Into(t, <<c>>)
    BY <2>1, <2>2
  <2>5. QED
    BY <1>0, <2>1, <2>3, <2>4, StayingInside
<1>3. CASE PostThrows(t)
  <2>1. /\ At(t, "post") /\ Into(t, << <<"cancel", Arg(t)>> >>)
        /\ lock' = lock /\ UNCHANGED <<compiled, suspended>>
        /\ UNCHANGED <<state, conts, remaining, snap, verdict>>
    BY <1>3 DEF PostThrows, Cancel, nodeVars, linkVars, modeVars, shaderVars
  <2>2. PICK c \in Task : c = <<"cancel", Arg(t)>>
    BY <1>0, <2>1, NodeArg, NodeTask DEF NodeOps
  <2>3. <<c>> \in Seq(Task) /\ Light(<<c>>)
    BY <2>2, OneTask, LightTasks
  <2>4. Into(t, <<c>>)
    BY <2>1, <2>2
  <2>5. QED
    BY <1>0, <2>1, <2>3, <2>4, StayingInside
<1>4. CASE Unlock(t) \/ Resume(t) \/ JoinPool(t)
  <2>1. <<>> \in Seq(Task) /\ Light(<<>>)
    BY NoTask, LightTasks
  <2>2. /\ Into(t, <<>>) /\ compiled' = compiled
        /\ UNCHANGED <<state, conts, remaining, snap, verdict>>
    BY <1>4 DEF Unlock, Resume, JoinPool, nodeVars, linkVars, shaderVars
  <2>3. CASE Unlock(t)
    <3>1. At(t, "unlock") /\ lock' = None /\ suspended' = suspended
      BY <2>3 DEF Unlock, modeVars
    <3>2. QED
      BY <1>0, <2>1, <2>2, <3>1, StayingInside
  <2>4. CASE Resume(t)
    <3>1. At(t, "resume") /\ lock' = lock /\ suspended' = FALSE
      BY <2>4 DEF Resume, poolVars
    <3>2. QED
      BY <1>0, <2>1, <2>2, <3>1, StayingInside
  <2>5. CASE JoinPool(t)
    <3>1. At(t, "join") /\ lock' = lock /\ suspended' = suspended
      BY <2>5 DEF JoinPool
    <3>2. QED
      BY <1>0, <2>1, <2>2, <3>1, StayingInside
  <2>6. QED
    BY <1>4, <2>3, <2>4, <2>5
<1>5. QED
  BY <1>1, <1>2, <1>3, <1>4

LEMMA DispatchShape ==
    ASSUME PoolInv, NEW t \in Threads, NEW op \in {"post", "return", "budget"}, At(t, op),
           NEW q \in Seq(Node), NEW slots \in Int, NEW limit \in Int, Dispatch(t, q, slots, limit),
           UNCHANGED <<compiled, suspended, state, conts, remaining, snap, verdict>>
    PROVE  Shaped(t)
<1>0. Types
  BY DEF PoolInv
<1>1. PICK tasks \in Seq(Task) : Into(t, tasks) /\ Requests(tasks)
  BY <1>0, DispatchParts DEF Dispatched
<1>2. lock' = None \/ lock' = t
  BY DEF Dispatch, Leaving
<1>3. QED
  BY <1>0, <1>1, <1>2, LightTasks, StayingInside

LEMMA PostShape ==
    ASSUME PoolInv, NEW t \in Threads, Post(t) \/ ReturnSlot(t) \/ SetBudget(t)
    PROVE  Shaped(t)
<1>0. Types
  BY DEF PoolInv
<1>1. /\ UNCHANGED <<compiled, suspended, state, conts, remaining, snap, verdict>>
      /\ inFlight \in Int /\ budget \in Int /\ queue \in Seq(Node)
  <2>1. UNCHANGED <<compiled, suspended, state, conts, remaining, snap, verdict>>
    BY DEF Post, ReturnSlot, SetBudget, nodeVars, linkVars, modeVars, shaderVars
  <2>2. QED
    BY <1>0, <2>1 DEF Types
<1>2. CASE Post(t)
  <2>1. At(t, "post") /\ Dispatch(t, Append(queue, Arg(t)), inFlight, budget)
    BY <1>2 DEF Post
  <2>2. Arg(t) \in Node
    BY <1>0, <2>1, NodeArg DEF NodeOps
  <2>3. Append(queue, Arg(t)) \in Seq(Node)
    BY <1>1, <2>2, Appended
  <2>4. QED
    BY <1>1, <2>1, <2>3, DispatchShape
<1>3. CASE ReturnSlot(t)
  <2>1. PICK limit : limit = IF stopped THEN 0 ELSE budget
    OBVIOUS
  <2>2. At(t, "return") /\ Dispatch(t, queue, inFlight - 1, limit)
    BY <1>3, <2>1 DEF ReturnSlot
  <2>3. limit \in Int /\ inFlight - 1 \in Int
    BY <1>1, <2>1
  <2>4. QED
    BY <1>1, <2>2, <2>3, DispatchShape
<1>4. CASE SetBudget(t)
  <2>1. At(t, "budget") /\ budget' = Arg(t)
    BY <1>4 DEF SetBudget
  <2>2. PICK limit \in Int : limit = budget'
    <3>1. work[t][1] \in Task /\ work[t][1][1] = "budget" /\ work[t][1][2] = Arg(t)
      BY <1>0, <2>1, AtTask DEF Types
    <3>2. Arg(t) \in 1 .. Cardinality(Workers)
      BY <3>1, TaskParts
    <3>3. Arg(t) \in Int
      BY <3>2, NodesFinite
    <3>4. QED
      BY <2>1, <3>3
  <2>3. CASE hasPool
    <3>1. Dispatch(t, queue, inFlight, limit)
      BY <1>4, <2>2, <2>3 DEF SetBudget
    <3>2. QED
      BY <1>1, <2>1, <3>1, DispatchShape
  <2>4. CASE ~hasPool
    <3>1. Into(t, <<>>) /\ lock' = lock
      BY <1>4, <2>4 DEF SetBudget
    <3>2. QED
      BY <1>0, <1>1, <2>1, <3>1, NoTask, LightTasks, StayingInside
  <2>5. QED
    BY <2>3, <2>4
<1>5. QED
  BY <1>2, <1>3, <1>4

LEMMA StopPoolShape ==
    ASSUME PoolInv, NEW t \in Threads, StopPool(t)
    PROVE  Shaped(t)
<1>0. Types
  BY DEF PoolInv
<1>1. /\ At(t, "stop") /\ Into(t, CancelAll(queue) \o << <<"join", None>> >>) /\ lock' = lock
      /\ UNCHANGED <<compiled, suspended, state, conts, remaining, snap, verdict>>
  BY DEF StopPool, nodeVars, linkVars, modeVars, shaderVars
<1>2. PICK s \in Seq(Node), n \in Nat : s = queue /\ n = Len(s) /\ \A k \in 1 .. n : s[k] \in Node
  <2>1. PICK s \in Seq(Node) : s = queue
    BY <1>0 DEF Types
  <2>2. QED
    BY <2>1, SeqElements
<1>3. PICK c \in Seq(Task) : c = CancelAll(queue) /\ \A k \in DOMAIN c : c[k][1] = "cancel"
  <2>1. \A k \in 1 .. n : <<"cancel", s[k]>> \in Task
    BY <1>2, NodeTask DEF NodeOps
  <2>2. PICK c : c = [k \in 1 .. n |-> <<"cancel", s[k]>>]
    OBVIOUS
  <2>3. c \in [1 .. n -> Task] /\ DOMAIN c = 1 .. n /\ \A k \in 1 .. n : c[k] = <<"cancel", s[k]>>
    BY <2>1, <2>2
  <2>4. c \in Seq(Task)
    BY <2>3, SeqDef
  <2>5. c = CancelAll(queue)
    BY <1>2, <2>2 DEF CancelAll
  <2>6. QED
    BY <2>3, <2>4, <2>5
<1>4. PICK j \in Task : j = <<"join", None>>
  BY DEF Task, PlainOps
<1>5. <<j>> \in Seq(Task) /\ \A k \in DOMAIN <<j>> : <<j>>[k] = j
  BY OneTask
<1>6. PICK d \in Seq(Task) : d = <<j>>
  BY <1>5
<1>7. PICK tasks \in Seq(Task) : tasks = c \o d
  BY Joined
<1>8. \A k \in DOMAIN tasks : tasks[k][1] \in {"cancel", "join"}
  <2>1. \A k \in DOMAIN d : d[k][1] = "join"
    BY <1>4, <1>5, <1>6
  <2>2. \A k \in DOMAIN tasks : k \in DOMAIN c \/ (k - Len(c) \in DOMAIN d /\ tasks[k] = d[k - Len(c)])
    BY <1>7, Behind
  <2>3. \A k \in DOMAIN c : tasks[k] = c[k]
    BY <1>7, Behind
  <2>4. QED
    BY <1>3, <2>1, <2>2, <2>3
<1>9. Light(tasks)
  BY <1>8 DEF Light
<1>10. Into(t, tasks)
  BY <1>1, <1>3, <1>4, <1>6, <1>7
<1>11. QED
  BY <1>0, <1>1, <1>9, <1>10, StayingInside

LEMMA ContinuationsOutside ==
    ASSUME Types, NEW t \in Threads, NEW op \in {"cancel", "run", "finish"}, At(t, op), NEW n \in Node,
           n = Arg(t), NEW to, Transition(t, n, to), lock' = lock, UNCHANGED <<compiled, suspended>>
    PROVE  /\ Outside(t, Continuations(n)) /\ HeadIs(t, <<op, n>>)
           /\ state' = [state EXCEPT ![n] = to] /\ conts' = [conts EXCEPT ![n] = <<>>]
<1>1. /\ Continuations(n) \in Seq(Task)
      /\ \A k \in DOMAIN Continuations(n) : Continuations(n)[k] = <<"dep", conts[n][k]>>
  BY ContinuationTasks
<1>2. PICK tasks \in Seq(Task) : tasks = Continuations(n) /\ Into(t, tasks)
  BY <1>1 DEF Transition
<1>3. \A k \in DOMAIN tasks : tasks[k][1] \notin {"pull", "link"}
  BY <1>1, <1>2
<1>4. Outside(t, tasks) /\ HeadIs(t, <<op, n>>)
  BY <1>2, <1>3, InsideOut DEF HeadIs
<1>5. QED
  BY <1>2, <1>4 DEF Transition

LEMMA OldVerdicts ==
    ASSUME VerdictType, NEW t \in Threads, verdict' = verdict, \A i \in 1 .. MaxLinks : ~HeadIs(t, <<"finish", Link(i)>>)
    PROVE  NewVerdicts(t)
BY DEF VerdictType, NewVerdicts

LEMMA CancelNodeShape ==
    ASSUME PoolInv, VerdictType, NEW t \in Threads, CancelNode(t)
    PROVE  Shaped(t)
<1>0. Types
  BY DEF PoolInv
<1>1. /\ At(t, "cancel") /\ lock' = lock
      /\ UNCHANGED <<compiled, suspended, remaining, snap, verdict>>
  BY DEF CancelNode, linkVars, poolVars, modeVars, shaderVars
<1>2. PICK n \in Node : n = Arg(t)
  BY <1>0, <1>1, NodeArg DEF NodeOps
<1>3. CASE state[n] = "Pending"
  <2>1. Transition(t, n, "Canceled")
    BY <1>2, <1>3 DEF CancelNode
  <2>2. /\ Outside(t, Continuations(n)) /\ HeadIs(t, <<"cancel", n>>)
        /\ state' = [state EXCEPT ![n] = "Canceled"] /\ conts' = [conts EXCEPT ![n] = <<>>]
    BY <1>0, <1>1, <1>2, <2>1, ContinuationsOutside
  <2>3. NewVerdicts(t)
    BY <1>1, <2>2, OldVerdicts DEF HeadIs
  <2>4. Settles(t, Continuations(n))
    BY <1>1, <1>3, <2>2, <2>3 DEF Settles
  <2>5. QED
    BY <2>2, <2>4 DEF Shaped, Shape
<1>4. CASE state[n] # "Pending"
  <2>1. Into(t, <<>>) /\ UNCHANGED <<state, conts>>
    BY <1>2, <1>4 DEF CancelNode
  <2>2. QED
    BY <1>0, <1>1, <2>1, NoTask, LightTasks, StayingInside
<1>5. QED
  BY <1>3, <1>4

LEMMA RunShape ==
    ASSUME PoolInv, VerdictType, NEW t \in Threads, Run(t)
    PROVE  Shaped(t)
<1>0. Types
  BY DEF PoolInv
<1>1. /\ At(t, "run") /\ lock' = lock
      /\ UNCHANGED <<compiled, suspended, remaining, snap, verdict>>
  BY DEF Run, linkVars, poolVars, modeVars, shaderVars
<1>2. PICK n \in Node : n = Arg(t)
  BY <1>0, <1>1, NodeArg DEF NodeOps
<1>3. CASE state[n] # "Pending"
  <2>1. Into(t, <<>>) /\ UNCHANGED <<state, conts>>
    BY <1>2, <1>3 DEF Run
  <2>2. state[Arg(t)] # "Pending"
    BY <1>2, <1>3
  <2>3. QED
    BY <1>0, <1>1, <2>1, <2>2, NoTask, LightTasks, StayingInside
<1>4. CASE state[n] = "Pending" /\ cancelReq[n]
  <2>1. Transition(t, n, "Canceled")
    BY <1>2, <1>4 DEF Run
  <2>2. /\ Outside(t, Continuations(n)) /\ HeadIs(t, <<"run", n>>)
        /\ state' = [state EXCEPT ![n] = "Canceled"] /\ conts' = [conts EXCEPT ![n] = <<>>]
    BY <1>0, <1>1, <1>2, <2>1, ContinuationsOutside
  <2>3. NewVerdicts(t)
    BY <1>1, <2>2, OldVerdicts DEF HeadIs
  <2>4. Settles(t, Continuations(n))
    BY <1>1, <1>4, <2>2, <2>3 DEF Settles
  <2>5. QED
    BY <2>2, <2>4 DEF Shaped, Shape
<1>5. CASE state[n] = "Pending" /\ ~cancelReq[n]
  <2>1. /\ state' = [state EXCEPT ![n] = "Running"] /\ Into(t, << <<"finish", n>> >>) /\ conts' = conts
    BY <1>2, <1>5 DEF Run
  <2>2. PICK c \in Task : c = <<"finish", n>>
    BY NodeTask DEF NodeOps
  <2>3. <<c>> \in Seq(Task) /\ \A k \in DOMAIN <<c>> : <<c>>[k][1] \notin {"pull", "link"}
    BY <2>2, OneTask
  <2>4. Into(t, <<c>>)
    BY <2>1, <2>2
  <2>5. Outside(t, <<c>>) /\ HeadIs(t, <<"run", n>>)
    BY <1>0, <1>1, <1>2, <2>3, <2>4, InsideOut DEF HeadIs
  <2>6. Starts(t, <<c>>)
    BY <1>1, <1>5, <2>1, <2>2, <2>5 DEF Starts
  <2>7. QED
    BY <2>5, <2>6 DEF Shaped, Shape
<1>6. QED
  BY <1>3, <1>4, <1>5

LEMMA FinishShape ==
    ASSUME PoolInv, VerdictType, NEW t \in Threads, Finish(t)
    PROVE  Shaped(t)
<1>0. Types
  BY DEF PoolInv
<1>1. /\ At(t, "finish") /\ lock' = lock /\ UNCHANGED <<compiled, suspended, remaining, snap>>
  BY DEF Finish, poolVars, modeVars, shaderVars
<1>2. PICK n \in Node : n = Arg(t)
  BY <1>0, <1>1, NodeArg DEF NodeOps
<1>3. PICK to \in {"Complete", "Canceled"} : Transition(t, n, to)
  BY <1>2 DEF Finish
<1>4. /\ Outside(t, Continuations(n)) /\ HeadIs(t, <<"finish", n>>)
      /\ state' = [state EXCEPT ![n] = to] /\ conts' = [conts EXCEPT ![n] = <<>>]
  BY <1>0, <1>1, <1>2, <1>3, ContinuationsOutside
<1>5. NewVerdicts(t)
  <2>1. CASE n[1] = "link"
    <3>1. PICK j \in 1 .. MaxLinks : j = n[2] /\ n = Link(j)
      BY <2>1, NodeKinds
    <3>2. verdict' = [verdict EXCEPT ![j] = LinkVerdict(j)]
      BY <1>2, <2>1, <3>1 DEF Finish
    <3>3. LinkVerdict(j) \in BOOLEAN
      BY DEF LinkVerdict
    <3>4. /\ verdict' \in [1 .. MaxLinks -> BOOLEAN]
          /\ \A i \in 1 .. MaxLinks : verdict'[i] = IF i = j THEN LinkVerdict(j) ELSE verdict[i]
      BY <3>2, <3>3 DEF VerdictType
    <3>5. ASSUME NEW i \in 1 .. MaxLinks PROVE HeadIs(t, <<"finish", Link(i)>>) <=> i = j
      BY <1>4, <3>1 DEF HeadIs, Link
    <3>6. QED
      BY <3>4, <3>5 DEF NewVerdicts
  <2>2. CASE n[1] # "link"
    <3>1. verdict' = verdict
      BY <1>2, <2>2 DEF Finish
    <3>2. ASSUME NEW i \in 1 .. MaxLinks PROVE ~HeadIs(t, <<"finish", Link(i)>>)
      BY <1>4, <2>2 DEF HeadIs, Link
    <3>3. QED
      BY <3>1, <3>2, OldVerdicts
  <2>3. QED
    BY <2>1, <2>2
<1>6. Settles(t, Continuations(n))
  BY <1>1, <1>4, <1>5 DEF Settles
<1>7. QED
  BY <1>4, <1>6 DEF Shaped, Shape

LEMMA DepSettledShape ==
    ASSUME PoolInv, NEW t \in Threads, DepSettled(t)
    PROVE  Shaped(t)
<1>0. Types
  BY DEF PoolInv
<1>1. /\ At(t, "dep") /\ Arg(t)[1] = "link" /\ lock' = lock
      /\ UNCHANGED <<compiled, suspended, state, conts, snap, verdict>>
  BY DEF DepSettled, nodeVars, poolVars, modeVars, shaderVars
<1>2. PICK i \in 1 .. MaxLinks : Arg(t) = Link(i) /\ Arg(t)[2] = i /\ Link(i) \in Node
  <2>1. Arg(t) \in Node
    BY <1>0, <1>1, NodeArg DEF NodeOps
  <2>2. QED
    BY <1>1, <2>1, NodeKinds
<1>3. remaining' = [remaining EXCEPT ![i] = @ - 1]
  BY <1>2 DEF DepSettled
<1>4. PICK tasks \in Seq(Task) : Into(t, tasks) /\ Light(tasks)
  <2>1. PICK c \in Task : c = <<"post", Link(i)>>
    BY <1>2, NodeTask DEF NodeOps
  <2>2. <<c>> \in Seq(Task) /\ Light(<<c>>) /\ <<>> \in Seq(Task) /\ Light(<<>>)
    BY <2>1, OneTask, NoTask, LightTasks
  <2>3. Into(t, <<c>>) \/ Into(t, <<>>)
    BY <1>2, <2>1 DEF DepSettled
  <2>4. QED
    BY <2>2, <2>3
<1>5. Outside(t, tasks) /\ HeadIs(t, <<"dep", Link(i)>>)
  <2>1. \A k \in DOMAIN tasks : tasks[k][1] \notin {"pull", "link"}
    BY <1>4 DEF Light
  <2>2. QED
    BY <1>0, <1>1, <1>2, <1>4, <2>1, InsideOut DEF HeadIs
<1>6. AllInert(tasks)
  BY <1>4 DEF AllInert, Inert, Light
<1>7. Counts(t, tasks)
  BY <1>1, <1>3, <1>5, <1>6 DEF Counts
<1>8. QED
  BY <1>5, <1>7 DEF Shaped, Shape

LEMMA EdgeShape ==
    ASSUME PoolInv, NEW t \in Threads, Edge(t)
    PROVE  Shaped(t)
<1>0. Types
  BY DEF PoolInv
<1>1. /\ At(t, "edge") /\ lock' = lock
      /\ UNCHANGED <<compiled, suspended, state, remaining, snap, verdict>>
  BY DEF Edge, linkVars, poolVars, modeVars, shaderVars
<1>2. work[t][1] \in Task /\ work[t][1][1] = "edge" /\ work[t][1][2] = Arg(t) /\ work[t][1] = <<"edge", Arg(t)>>
  BY <1>0, <1>1, AtTask DEF Types
<1>3. PICK n \in CompileNode, i \in 1 .. MaxLinks : Arg(t) = [dep |-> n, link |-> Link(i)]
  <2>1. work[t][1] \in {"edge"} \X [dep : CompileNode, link : Links]
    BY <1>2 DEF Task, NodeOps, PlainOps
  <2>2. Arg(t) \in [dep : CompileNode, link : Links]
    BY <1>2, <2>1
  <2>3. PICK n \in CompileNode, l \in Links : Arg(t) = [dep |-> n, link |-> l]
    BY <2>2
  <2>4. QED
    BY <2>3 DEF Links
<1>4. Arg(t).dep = n /\ Arg(t).link = Link(i)
  BY <1>3
<1>5. CASE Terminal(n)
  <2>1. Into(t, << <<"dep", Link(i)>> >>) /\ conts' = conts
    BY <1>4, <1>5 DEF Edge
  <2>2. PICK c \in Task : c = <<"dep", Link(i)>>
    BY NodeKinds, NodeTask DEF NodeOps
  <2>3. <<c>> \in Seq(Task) /\ \A k \in DOMAIN <<c>> : <<c>>[k][1] \notin {"pull", "link"}
    BY <2>2, OneTask
  <2>4. Into(t, <<c>>)
    BY <2>1, <2>2
  <2>5. Outside(t, <<c>>) /\ HeadIs(t, EdgeTo(n, i))
    BY <1>0, <1>1, <1>3, <2>3, <2>4, InsideOut DEF HeadIs, EdgeTo
  <2>6. Registers(t, <<c>>)
    BY <1>1, <1>5, <2>1, <2>2, <2>5 DEF Registers
  <2>7. QED
    BY <2>5, <2>6 DEF Shaped, Shape
<1>6. CASE ~Terminal(n)
  <2>1. Into(t, <<>>) /\ conts' = [conts EXCEPT ![n] = Append(@, Link(i))]
    BY <1>4, <1>6 DEF Edge
  <2>2. <<>> \in Seq(Task) /\ \A k \in DOMAIN <<>> : FALSE
    BY NoTask
  <2>3. Outside(t, <<>>) /\ HeadIs(t, EdgeTo(n, i))
    BY <1>0, <1>1, <1>3, <2>1, <2>2, InsideOut DEF HeadIs, EdgeTo
  <2>4. Registers(t, <<>>)
    BY <1>1, <1>6, <2>1, <2>3 DEF Registers
  <2>5. QED
    BY <2>3, <2>4 DEF Shaped, Shape
<1>7. QED
  BY <1>5, <1>6

NoBoth(tasks) == \A j, k \in DOMAIN tasks : ~(tasks[j][1] = "link" /\ tasks[k][1] = "pull")

LEMMA CallShape ==
    ASSUME Types, NEW t \in Threads, work[t] = <<>>, NEW tasks \in Seq(Task), Puts(t, tasks),
           AllInert(tasks), NoBoth(tasks), HeldOk(t, tasks), lock' = lock,
           UNCHANGED <<state, conts, remaining, snap, verdict>>
    PROVE  Shaped(t)
<1>1. Outside(t, tasks)
  BY DEF Outside, NoBoth
<1>2. Stays(t, tasks)
  BY DEF Stays
<1>3. QED
  BY <1>1, <1>2 DEF Shaped, Shape

LEMMA HeldAsIs ==
    ASSUME NEW t \in Threads, work[t] = <<>>, NEW tasks, UNCHANGED <<compiled, suspended>>
    PROVE  HeldOk(t, tasks)
<1>1. \A c : ~HeadIs(t, c)
  BY DEF HeadIs
<1>2. QED
  BY <1>1 DEF HeldOk

(* A call that leaves the nodes and the objects alone.                     *)
LEMMA QuietCall ==
    ASSUME Types, NEW g \in GL, Idle(g), NEW tasks \in Seq(Task), Begin(g, tasks), AllInert(tasks),
           NoBoth(tasks), lock' = lock,
           UNCHANGED <<compiled, suspended, state, conts, remaining, snap, verdict>>
    PROVE  Shaped(g)
<1>1. g \in Threads /\ work[g] = <<>>
  BY GLThread DEF Idle
<1>2. Puts(g, tasks)
  BY <1>1, BeginPuts
<1>3. QED
  BY <1>1, <1>2, HeldAsIs, CallShape

LEMMA OneInert ==
    ASSUME NEW c \in Task, c[1] \notin {"finish", "edge", "dep"}
    PROVE  <<c>> \in Seq(Task) /\ AllInert(<<c>>) /\ NoBoth(<<c>>)
<1>1. <<c>> \in Seq(Task) /\ \A k \in DOMAIN <<c>> : <<c>>[k] = c
  BY OneTask
<1>2. QED
  BY <1>1 DEF AllInert, Inert, NoBoth

LEMMA TwoInert ==
    ASSUME NEW c \in Task, c[1] \notin {"finish", "edge", "dep", "link"},
           NEW d \in Task, d[1] \notin {"finish", "edge", "dep", "link"}
    PROVE  <<c, d>> \in Seq(Task) /\ AllInert(<<c, d>>) /\ NoBoth(<<c, d>>)
<1>1. <<c, d>> \in Seq(Task) /\ \A k \in DOMAIN <<c, d>> : <<c, d>>[k] = c \/ <<c, d>>[k] = d
  OBVIOUS
<1>2. QED
  BY <1>1 DEF AllInert, Inert, NoBoth

LEMMA CancelLinkInert ==
    ASSUME Types, NEW g \in GL
    PROVE  CancelLink(g) \in Seq(Task) /\ \A k \in DOMAIN CancelLink(g) : CancelLink(g)[k][1] = "cancel"
<1> DEFINE Part(p, n) == IF p = 0 THEN <<>> ELSE Cancel(n)
<1>1. ASSUME NEW p, NEW n, p # 0 => n \in Node
      PROVE  Part(p, n) \in Seq(Task) /\ \A k \in DOMAIN Part(p, n) : Part(p, n)[k][1] = "cancel"
  <2>1. CASE p = 0
    <3>1. Part(p, n) = <<>>
      BY <2>1
    <3>2. <<>> \in Seq(Task) /\ \A k \in DOMAIN <<>> : <<>>[k][1] = "cancel"
      BY NoTask
    <3>3. QED
      BY <3>1, <3>2
  <2>2. CASE p # 0
    <3>1. PICK c \in Task : c = <<"cancel", n>>
      BY <1>1, <2>2, NodeTask DEF NodeOps
    <3>2. Part(p, n) = <<c>>
      BY <2>2, <3>1 DEF Cancel
    <3>3. <<c>> \in Seq(Task) /\ \A k \in DOMAIN <<c>> : <<c>>[k] = c
      BY OneTask
    <3>4. QED
      BY <3>1, <3>2, <3>3
  <2>3. QED
    BY <2>1, <2>2
<1> HIDE DEF Part
<1>2. /\ pendingSpirv[g] # 0 => Spirv(pendingSpirv[g]) \in Node
      /\ pendingLink[g] # 0 => Link(pendingLink[g]) \in Node
  BY PendingTypes, NodeKinds
<1>3. PICK a \in Seq(Task), b \in Seq(Task) :
        /\ a = Part(pendingSpirv[g], Spirv(pendingSpirv[g])) /\ b = Part(pendingLink[g], Link(pendingLink[g]))
        /\ (\A k \in DOMAIN a : a[k][1] = "cancel") /\ (\A k \in DOMAIN b : b[k][1] = "cancel")
  BY <1>1, <1>2
<1>4. PICK c \in Seq(Task) : c = a \o b
  BY Joined
<1>5. \A k \in DOMAIN c : k \in DOMAIN a \/ (k - Len(a) \in DOMAIN b /\ c[k] = b[k - Len(a)])
  BY <1>4, Behind
<1>6. \A k \in DOMAIN a : c[k] = a[k]
  BY <1>4, Behind
<1>7. \A k \in DOMAIN c : c[k][1] = "cancel"
  BY <1>3, <1>5, <1>6
<1>8. c = CancelLink(g)
  BY <1>3, <1>4 DEF CancelLink, Part
<1>9. QED
  BY <1>7, <1>8

LEMMA LinkCallShape ==
    ASSUME PoolInv, NEW g \in GL,
           \/ (\E Q \in SUBSET Own(g) : LinkProgram(g, Q)) \/ AbandonProgram(g)
    PROVE  Shaped(g)
<1>0. Types
  BY DEF PoolInv
<1>1. /\ Idle(g) /\ lock' = lock
      /\ UNCHANGED <<compiled, suspended, state, conts, remaining, snap, verdict>>
  BY DEF LinkProgram, AbandonProgram, nodeVars, linkVars, poolVars, modeVars, shaderVars
<1>2. PICK a \in Seq(Task) : a = CancelLink(g) /\ \A k \in DOMAIN a : a[k][1] = "cancel"
  BY <1>0, CancelLinkInert
<1>3. ASSUME NEW Q \in SUBSET Own(g), LinkProgram(g, Q) PROVE Shaped(g)
  <2>1. PICK c \in Task : c = <<"link", Q>>
    BY DEF Own, Shaders, Task
  <2>2. <<c>> \in Seq(Task) /\ \A k \in DOMAIN <<c>> : <<c>>[k] = c
    BY OneTask
  <2>3. PICK b \in Seq(Task) : b = <<c>> /\ \A k \in DOMAIN b : b[k][1] = "link"
    BY <2>1, <2>2
  <2>4. PICK tasks \in Seq(Task) : tasks = a \o b
    BY Joined
  <2>5. \A k \in DOMAIN tasks : k \in DOMAIN a \/ (k - Len(a) \in DOMAIN b /\ tasks[k] = b[k - Len(a)])
    BY <2>4, Behind
  <2>6. \A k \in DOMAIN a : tasks[k] = a[k]
    BY <2>4, Behind
  <2>7. \A k \in DOMAIN tasks : tasks[k][1] \in {"cancel", "link"}
    BY <1>2, <2>3, <2>5, <2>6
  <2>8. AllInert(tasks) /\ NoBoth(tasks)
    BY <2>7 DEF AllInert, Inert, NoBoth
  <2>9. Begin(g, tasks)
    BY <1>2, <1>3, <2>1, <2>3, <2>4 DEF LinkProgram
  <2>10. QED
    BY <1>0, <1>1, <2>8, <2>9, QuietCall
<1>4. CASE AbandonProgram(g)
  <2>1. Begin(g, a)
    BY <1>2, <1>4 DEF AbandonProgram
  <2>2. AllInert(a) /\ NoBoth(a)
    BY <1>2 DEF AllInert, Inert, NoBoth
  <2>3. QED
    BY <1>0, <1>1, <2>1, <2>2, QuietCall
<1>5. QED
  BY <1>3, <1>4

Begun(g) == \E tasks \in Seq(Task) : Begin(g, tasks) /\ AllInert(tasks) /\ NoBoth(tasks)

LEMMA QuietCallShape ==
    ASSUME PoolInv, NEW g \in GL,
           \/ \E s \in Own(g) : JoinCompile(g, s)
           \/ JoinLink(g) \/ JoinSpirv(g) \/ Stop(g)
           \/ \E k \in 1 .. Cardinality(Workers) : SetThreads(g, k)
    PROVE  Shaped(g)
<1>0. Types
  BY DEF PoolInv
<1>1. /\ Idle(g) /\ lock' = lock
      /\ UNCHANGED <<compiled, suspended, state, conts, remaining, snap, verdict>>
  BY DEF JoinCompile, JoinLink, JoinSpirv, Stop, SetThreads, nodeVars, linkVars, poolVars, modeVars, shaderVars
<1>2. Begun(g)
  <2>1. ASSUME NEW s \in Own(g), JoinCompile(g, s) PROVE Begun(g)
    <3>1. PICK c \in Task : c = <<"pull", s>>
      BY DEF Own, Shaders, Task
    <3>2. Begin(g, <<c>>)
      BY <2>1, <3>1 DEF JoinCompile
    <3>3. QED
      BY <3>1, <3>2, OneInert DEF Begun
  <2>2. PICK p \in Task, b \in Task, st \in Task, r \in Task :
          p = <<"publish", None>> /\ b = <<"publishB", None>> /\ st = <<"stop", None>> /\ r = <<"resume", None>>
    <3>1. "publish" \in PlainOps /\ "publishB" \in PlainOps /\ "stop" \in PlainOps /\ "resume" \in PlainOps
      BY DEF PlainOps
    <3>2. <<"publish", None>> \in Task /\ <<"publishB", None>> \in Task
      BY <3>1, PlainTask
    <3>3. <<"stop", None>> \in Task /\ <<"resume", None>> \in Task
      BY <3>1, PlainTask
    <3>4. QED
      BY <3>2, <3>3
  <2>3. CASE JoinLink(g)
    <3>1. Begin(g, <<p>>)
      BY <2>2, <2>3 DEF JoinLink
    <3>2. QED
      BY <2>2, <3>1, OneInert DEF Begun
  <2>4. CASE JoinSpirv(g)
    <3>1. Begin(g, <<p, b>>)
      BY <2>2, <2>4 DEF JoinSpirv
    <3>2. QED
      BY <2>2, <3>1, TwoInert DEF Begun
  <2>5. CASE Stop(g)
    <3>1. Begin(g, <<st>>)
      BY <2>2, <2>5 DEF Stop
    <3>2. QED
      BY <2>2, <3>1, OneInert DEF Begun
  <2>6. ASSUME NEW k \in 1 .. Cardinality(Workers), SetThreads(g, k) PROVE Begun(g)
    <3>1. PICK c \in Task : c = <<"budget", k>>
      BY DEF Task
    <3>2. Begin(g, <<c, r>>)
      BY <2>2, <2>6, <3>1 DEF SetThreads
    <3>3. QED
      BY <2>2, <3>1, <3>2, TwoInert DEF Begun
  <2>7. QED
    BY <2>1, <2>3, <2>4, <2>5, <2>6
<1>3. QED
  BY <1>0, <1>1, <1>2, QuietCall DEF Begun

LEMMA InOrderOnto ==
    ASSUME NEW N \in Nat, NEW ks \in SUBSET (1 .. N), NEW e \in InOrder(ks)
    PROVE  /\ Cardinality(ks) \in Nat /\ IsFiniteSet(ks)
           /\ \A x \in ks : \E k \in 1 .. Cardinality(ks) : e[k] = x
           /\ \A k \in 1 .. Cardinality(ks) : e[k] \in ks
<1>1. IsFiniteSet(ks) /\ Cardinality(ks) \in Nat
  <2>1. IsFiniteSet(1 .. N)
    BY FS_Interval
  <2>2. IsFiniteSet(ks)
    BY <2>1, FS_Subset
  <2>3. QED
    BY <2>2, FS_CardinalityType
<1>2. PICK n \in Nat : n = Cardinality(ks)
  BY <1>1
<1>3. e \in [1 .. n -> ks] /\ \A j, k \in 1 .. n : j < k => e[j] < e[k]
  BY <1>2 DEF InOrder
<1>4. ASSUME NEW j \in 1 .. n, NEW k \in 1 .. n, e[j] = e[k] PROVE j = k
  <2>1. e[j] \in 1 .. N /\ e[k] \in 1 .. N
    BY <1>3
  <2>2. ~(e[j] < e[k]) /\ ~(e[k] < e[j])
    BY <1>4, <2>1
  <2>3. ~(j < k) /\ ~(k < j)
    BY <1>3, <2>2
  <2>4. QED
    BY <2>3
<1>5. e \in Injection(1 .. n, ks)
  BY <1>3, <1>4 DEF Injection, IsInjective
<1>6. Cardinality(1 .. n) = n
  BY FS_Interval
<1>7. e \in Surjection(1 .. n, ks)
  BY <1>1, <1>2, <1>5, <1>6, FS_Injection
<1>8. \A x \in ks : \E k \in 1 .. n : e[k] = x
  BY <1>7 DEF Surjection
<1>9. QED
  BY <1>1, <1>2, <1>3, <1>8

LEMMA SuspendShape ==
    ASSUME PoolInv, NEW g \in GL, Suspend(g)
    PROVE  Shaped(g)
<1>0. Types /\ g \in Threads /\ work[g] = <<>>
  BY GLThread DEF PoolInv, Suspend, Idle
<1>1. lock' = lock /\ UNCHANGED <<compiled, state, conts, remaining, snap, verdict>>
  BY DEF Suspend, nodeVars, linkVars, poolVars, shaderVars
<1>2. PICK ks \in SUBSET (1 .. PerContext) : /\ ks = {k \in 1 .. PerContext : compiled[<<g, k>>] # None}
        /\ \E e \in InOrder(ks) : Begin(g, << <<"publish", None>>, <<"publishB", None>> >> \o Pulls(g, ks, e))
  BY DEF Suspend
<1>3. PICK e \in InOrder(ks) : Begin(g, << <<"publish", None>>, <<"publishB", None>> >> \o Pulls(g, ks, e))
  BY <1>2
<1>4. PICK n \in Nat : n = Cardinality(ks)
  BY InOrderOnto, PoolAssumption
<1>5. (\A x \in ks : \E k \in 1 .. n : e[k] = x) /\ \A k \in 1 .. n : e[k] \in 1 .. PerContext
  <2>1. /\ \A x \in ks : \E k \in 1 .. Cardinality(ks) : e[k] = x
        /\ \A k \in 1 .. Cardinality(ks) : e[k] \in ks
    <3>1. PICK N \in Nat : N = PerContext
      BY PoolAssumption
    <3>2. ks \in SUBSET (1 .. N)
      BY <3>1
    <3>3. QED
      BY <3>2, InOrderOnto
  <2>2. QED
    BY <1>4, <2>1
<1>6. PICK p \in Seq(Task) : /\ p = Pulls(g, ks, e) /\ DOMAIN p = 1 .. n
                             /\ \A k \in 1 .. n : p[k] = <<"pull", <<g, e[k]>> >>
  <2>1. \A k \in 1 .. n : <<"pull", <<g, e[k]>> >> \in Task
    <3>1. ASSUME NEW s \in Shaders PROVE <<"pull", s>> \in Task
      BY DEF Task
    <3>2. \A k \in 1 .. n : <<g, e[k]>> \in Shaders
      BY <1>5 DEF Shaders
    <3>3. QED
      BY <3>1, <3>2
  <2>2. PICK p : p = [k \in 1 .. n |-> <<"pull", <<g, e[k]>> >>]
    OBVIOUS
  <2>3. p \in [1 .. n -> Task]
    BY <2>1, <2>2
  <2>4. p \in Seq(Task)
    BY <2>3, SeqDef
  <2>5. p = Pulls(g, ks, e)
    BY <1>4, <2>2 DEF Pulls
  <2>6. QED
    BY <2>2, <2>4, <2>5
<1>7. PICK a \in Seq(Task) : /\ a = << <<"publish", None>>, <<"publishB", None>> >>
                             /\ \A k \in DOMAIN a : a[k][1] \in {"publish", "publishB"}
  <2>1. PICK c \in Task, d \in Task : c = <<"publish", None>> /\ d = <<"publishB", None>>
    BY DEF Task, PlainOps
  <2>2. <<c, d>> \in Seq(Task) /\ \A k \in DOMAIN <<c, d>> : <<c, d>>[k] = c \/ <<c, d>>[k] = d
    OBVIOUS
  <2>3. PICK a \in Seq(Task) : a = <<c, d>> /\ \A k \in DOMAIN a : a[k] = c \/ a[k] = d
    BY <2>2
  <2>4. \A k \in DOMAIN a : a[k][1] \in {"publish", "publishB"}
    BY <2>1, <2>3
  <2>5. QED
    BY <2>1, <2>3, <2>4
<1>8. PICK tasks \in Seq(Task) : tasks = a \o p
  BY Joined
<1>9. \A k \in DOMAIN tasks : tasks[k][1] \in {"publish", "publishB", "pull"}
  <2>1. \A k \in DOMAIN tasks : k \in DOMAIN a \/ (k - Len(a) \in DOMAIN p /\ tasks[k] = p[k - Len(a)])
    BY <1>8, Behind
  <2>2. \A k \in DOMAIN a : tasks[k] = a[k]
    BY <1>8, Behind
  <2>3. \A k \in DOMAIN p : p[k][1] = "pull"
    BY <1>6
  <2>4. \A k \in DOMAIN a : tasks[k][1] \in {"publish", "publishB"}
    BY <1>7, <2>2
  <2>5. ASSUME NEW k \in DOMAIN tasks PROVE tasks[k][1] \in {"publish", "publishB", "pull"}
    <3>1. CASE k \in DOMAIN a
      BY <2>4, <3>1
    <3>2. CASE k - Len(a) \in DOMAIN p /\ tasks[k] = p[k - Len(a)]
      BY <2>3, <3>2
    <3>3. QED
      BY <2>1, <3>1, <3>2
  <2>6. QED
    BY <2>5
<1>10. AllInert(tasks) /\ NoBoth(tasks)
  BY <1>9 DEF AllInert, Inert, NoBoth
<1>11. Puts(g, tasks)
  BY <1>0, <1>3, <1>6, <1>7, <1>8, BeginPuts
<1>12. HeldOk(g, tasks)
  <2>1. ASSUME OneContext, NEW s \in Shaders, compiled[s] \in CompileNode
        PROVE  g = s[1] /\ Among(tasks, <<"pull", s>>)
    <3>1. s[1] \in GL /\ s[2] \in 1 .. PerContext /\ s = <<s[1], s[2]>>
      BY DEF Shaders
    <3>2. s[1] = g
      BY <2>1, <3>1 DEF OneContext
    <3>3. s[2] \in ks
      BY <1>2, <2>1, <3>1, <3>2, NodeKinds
    <3>4. PICK k \in 1 .. n : e[k] = s[2]
      BY <1>5, <3>3
    <3>5. p[k] = <<"pull", s>> /\ k \in DOMAIN p
      BY <1>6, <3>1, <3>2, <3>4
    <3>6. Len(a) + k \in DOMAIN tasks /\ tasks[Len(a) + k] = p[k]
      BY <1>8, <3>5, Behind
    <3>7. QED
      BY <3>2, <3>5, <3>6 DEF Among
  <2>2. QED
    BY <1>1, <2>1 DEF HeldOk
<1>13. QED
  BY <1>0, <1>1, <1>10, <1>11, <1>12, CallShape

LEMMA HoldShape ==
    ASSUME PoolInv, NEW g \in GL, NEW s \in Own(g), (\E x \in Texts : LetGo(g, s, x)) \/ Adopt(g, s)
    PROVE  Shaped(g)
<1>0. Types /\ g \in Threads /\ work[g] = <<>> /\ s \in Shaders
  BY GLThread DEF PoolInv, LetGo, Adopt, Idle, Own, Shaders
<1>1. lock' = lock /\ UNCHANGED <<suspended, state, conts, remaining, snap, verdict>>
  BY DEF LetGo, Adopt, nodeVars, linkVars, poolVars, modeVars
<1>2. \A c : ~HeadIs(g, c)
  BY <1>0 DEF HeadIs
<1>3. CASE Adopt(g, s)
  <2>1. Begin(g, <<>>) /\ ~suspended
    BY <1>3 DEF Adopt
  <2>2. <<>> \in Seq(Task) /\ AllInert(<<>>) /\ NoBoth(<<>>)
    BY NoTask DEF AllInert, NoBoth
  <2>3. Puts(g, <<>>)
    BY <1>0, <2>1, <2>2, BeginPuts
  <2>4. HeldOk(g, <<>>)
    BY <1>1, <2>1 DEF HeldOk
  <2>5. QED
    BY <1>0, <1>1, <2>2, <2>3, <2>4, CallShape
<1>4. ASSUME NEW x \in Texts, LetGo(g, s, x) PROVE Shaped(g)
  <2>1. /\ Begin(g, Release(compiled[s])) /\ compiled[s] # None
        /\ compiled' = [compiled EXCEPT ![s] = None]
    BY <1>4 DEF LetGo, Hold
  <2>2. PICK old \in CompileNode : old = compiled[s] /\ old \in Node
    BY <1>0, <2>1, NodeKinds DEF Types, Compiled
  <2>3. PICK c \in Task : c = <<"cancel", old>>
    BY <2>2, NodeTask DEF NodeOps
  <2>4. PICK tasks \in Seq(Task) : Begin(g, tasks) /\ AllInert(tasks) /\ NoBoth(tasks)
    <3>1. Begin(g, <<c>>) \/ Begin(g, <<>>)
      BY <2>1, <2>2, <2>3 DEF Release, Cancel
    <3>2. <<>> \in Seq(Task) /\ AllInert(<<>>) /\ NoBoth(<<>>)
      BY NoTask DEF AllInert, NoBoth
    <3>3. <<c>> \in Seq(Task) /\ AllInert(<<c>>) /\ NoBoth(<<c>>)
      BY <2>3, OneInert
    <3>4. QED
      BY <3>1, <3>2, <3>3
  <2>5. Puts(g, tasks)
    BY <1>0, <2>4, BeginPuts
  <2>6. HeldOk(g, tasks)
    <3>1. ASSUME NEW u \in Shaders, compiled'[u] \in CompileNode
          PROVE  compiled'[u] = compiled[u]
      <4>1. compiled'[s] = None /\ (u # s => compiled'[u] = compiled[u])
        BY <1>0, <2>1 DEF Types
      <4>2. u # s
        BY <3>1, <4>1, NodeKinds
      <4>3. QED
        BY <4>1, <4>2
    <3>2. QED
      BY <1>1, <1>2, <3>1 DEF HeldOk
  <2>7. QED
    BY <1>0, <1>1, <2>4, <2>5, <2>6, CallShape
<1>5. QED
  BY <1>3, <1>4

LEMMA PullShape ==
    ASSUME PoolInv, NEW g \in GL, Pull(g) \/ Publish(g) \/ PublishB(g)
    PROVE  Shaped(g)
<1>0. Types /\ g \in Threads
  BY GLThread DEF PoolInv
<1>1. /\ lock' = lock /\ UNCHANGED <<suspended, state, conts, remaining, snap, verdict>> /\ Into(g, <<>>)
  BY DEF Pull, Publish, PublishB, nodeVars, linkVars, poolVars, modeVars
<1>2. CASE Publish(g) \/ PublishB(g)
  <2>1. compiled' = compiled
    BY <1>2 DEF Publish, PublishB, shaderVars
  <2>2. <<>> \in Seq(Task) /\ Light(<<>>)
    BY NoTask, LightTasks
  <2>3. CASE Publish(g)
    <3>1. At(g, "publish")
      BY <2>3 DEF Publish
    <3>2. QED
      BY <1>0, <1>1, <2>1, <2>2, <3>1, StayingInside
  <2>4. CASE PublishB(g)
    <3>1. At(g, "publishB")
      BY <2>4 DEF PublishB
    <3>2. QED
      BY <1>0, <1>1, <2>1, <2>2, <3>1, StayingInside
  <2>5. QED
    BY <1>2, <2>3, <2>4
<1>3. CASE Pull(g)
  <2>1. At(g, "pull") /\ Terminal(compiled[Arg(g)])
    BY <1>3 DEF Pull
  <2>2. /\ work[g] # <<>> /\ 1 \in DOMAIN work[g] /\ work[g][1] = <<"pull", Arg(g)>> /\ work[g][1][1] = "pull"
        /\ Arg(g) \in Shaders
    <3>1. /\ work[g] # <<>> /\ 1 \in DOMAIN work[g] /\ work[g][1] = <<"pull", Arg(g)>> /\ work[g][1][1] = "pull"
          /\ work[g][1] \in Task /\ work[g][1][2] = Arg(g)
      BY <1>0, <2>1, AtTask DEF Types
    <3>2. QED
      BY <3>1, TaskParts
  <2>3. PICK s \in Shaders : s = Arg(g)
    BY <2>2
  <2>4. compiled' = compiled \/ compiled' = [compiled EXCEPT ![s] = None]
    BY <1>3, <2>3 DEF Pull
  <2>5. HeldOk(g, <<>>)
    <3>1. ASSUME NEW u \in Shaders, suspended', compiled'[u] \in CompileNode
          PROVE  \/ state'[compiled'[u]] \in {"Complete", "Canceled"}
                 \/ suspended /\ compiled'[u] = compiled[u] /\ ~HeadIs(g, <<"pull", u>>)
      <4>1. compiled'[u] = compiled[u]
        <5>1. compiled' = [compiled EXCEPT ![s] = None] => compiled'[s] = None /\ (u # s => compiled'[u] = compiled[u])
          BY <1>0 DEF Types
        <5>2. compiled'[u] # None
          BY <3>1, NodeKinds
        <5>3. QED
          BY <2>4, <5>1, <5>2
      <4>2. CASE u = s
        BY <1>1, <2>1, <2>3, <4>1, <4>2 DEF Terminal
      <4>3. CASE u # s
        BY <1>1, <2>2, <2>3, <3>1, <4>1, <4>3 DEF HeadIs
      <4>4. QED
        BY <4>2, <4>3
    <3>2. QED
      BY <3>1 DEF HeldOk
  <2>6. <<>> \in Seq(Task) /\ (\A k \in DOMAIN <<>> : FALSE) /\ Puts(g, <<>>)
    BY <1>0, <1>1, <2>2, NoTask, IntoPuts
  <2>7. Outside(g, <<>>)
    BY <1>1, <2>5, <2>6 DEF Outside
  <2>8. Stays(g, <<>>)
    BY <1>1, <2>2, <2>6 DEF Stays, AllInert, Inert
  <2>9. QED
    BY <2>7, <2>8 DEF Shaped, Shape
<1>4. QED
  BY <1>2, <1>3

LEMMA TakeShape ==
    ASSUME PoolInv, NEW w \in Workers, Take(w)
    PROVE  Shaped(w)
<1>0. Types
  BY DEF PoolInv
<1>1. /\ work[w] = <<>> /\ w \in Threads /\ lock' = lock
      /\ UNCHANGED <<compiled, suspended, state, conts, remaining, snap, verdict>>
  BY DEF Take, IdleWorkers, Threads, nodeVars, linkVars, modeVars, shaderVars
<1>2. PICK n \in Node : work' = [work EXCEPT ![w] = (IF stopped THEN Cancel(n) ELSE <<>>)
                                                   \o << <<"run", n>>, <<"return", n>> >>]
  BY <1>0 DEF Take, Types
<1>3. PICK c \in Task, r \in Task, d \in Task : c = <<"cancel", n>> /\ r = <<"run", n>> /\ d = <<"return", n>>
  BY NodeTask DEF NodeOps
<1>4. PICK a \in Seq(Task) : /\ a = IF stopped THEN Cancel(n) ELSE <<>>
                             /\ \A k \in DOMAIN a : a[k][1] = "cancel"
  <2>1. <<c>> \in Seq(Task) /\ \A k \in DOMAIN <<c>> : <<c>>[k] = c
    BY OneTask
  <2>2. <<>> \in Seq(Task) /\ \A k \in DOMAIN <<>> : FALSE
    BY NoTask
  <2>3. PICK x \in Seq(Task) : x = <<c>> /\ \A k \in DOMAIN x : x[k] = c
    BY <2>1
  <2>4. Cancel(n) = x /\ \A k \in DOMAIN x : x[k][1] = "cancel"
    BY <1>3, <2>3 DEF Cancel
  <2>5. CASE stopped
    BY <2>3, <2>4, <2>5
  <2>6. CASE ~stopped
    BY <2>2, <2>6
  <2>7. QED
    BY <2>5, <2>6
<1>5. PICK b \in Seq(Task) : b = <<r, d>> /\ \A k \in DOMAIN b : b[k] = r \/ b[k] = d
  <2>1. <<r, d>> \in Seq(Task) /\ \A k \in DOMAIN <<r, d>> : <<r, d>>[k] = r \/ <<r, d>>[k] = d
    OBVIOUS
  <2>2. QED
    BY <2>1
<1>6. PICK tasks \in Seq(Task) : tasks = a \o b
  BY Joined
<1>7. \A k \in DOMAIN tasks : tasks[k][1] \in {"cancel", "run", "return"}
  <2>1. \A k \in DOMAIN tasks : k \in DOMAIN a \/ (k - Len(a) \in DOMAIN b /\ tasks[k] = b[k - Len(a)])
    BY <1>6, Behind
  <2>2. \A k \in DOMAIN a : tasks[k] = a[k]
    BY <1>6, Behind
  <2>3. \A k \in DOMAIN b : b[k][1] \in {"run", "return"}
    <3>1. r[1] = "run" /\ d[1] = "return"
      BY <1>3
    <3>2. QED
      BY <1>5, <3>1
  <2>4. QED
    BY <1>4, <2>1, <2>2, <2>3
<1>8. AllInert(tasks) /\ NoBoth(tasks)
  BY <1>7 DEF AllInert, Inert, NoBoth
<1>9. Puts(w, tasks)
  <2>1. tasks \o <<>> = tasks
    BY ConcatEmptySeq
  <2>2. QED
    BY <1>1, <1>2, <1>3, <1>4, <1>5, <1>6, <2>1 DEF Puts, Rest
<1>10. QED
  BY <1>0, <1>1, <1>8, <1>9, HeldAsIs, CallShape

LEMMA CompileShape ==
    ASSUME PoolInv, NEW g \in GL, NEW s \in Own(g), Compile(g, s)
    PROVE  Shaped(g)
<1>0. /\ Types /\ MadeInv /\ g \in Threads /\ s \in Shaders /\ s[1] = g
  BY GLThread DEF PoolInv, Own, Shaders
<1>1. PICK m, n : /\ m \in 0 .. MaxCompiles /\ m = MadeCompiles
                  /\ n = <<"compile", m + 1>> /\ m < MaxCompiles
  BY <1>0, MadeOnes DEF Compile
<1>2. /\ work[g] = <<>> /\ lock' = lock
      /\ state' = [state EXCEPT ![n] = "Pending"] /\ compiled' = [compiled EXCEPT ![s] = n]
      /\ UNCHANGED <<suspended, conts, remaining, snap, verdict>>
      /\ \/ suspended /\ Begin(g, << <<"run", n>>, <<"pull", s>> >>)
         \/ ~suspended /\ Begin(g, << <<"post", n>> >>)
  BY <1>1 DEF Compile, Idle, Hold, nodeVars, linkVars, poolVars, modeVars
<1>3. MaxCompiles \in Nat /\ m \in Nat /\ m + 1 \in 1 .. MaxCompiles
  BY <1>1, PoolAssumption
<1>4. n \in CompileNode /\ n \in Node
  BY <1>1, <1>3, NodeKinds DEF CompileNode
<1>5. state[n] = "none"
  BY <1>0, <1>1, <1>3, MadeOnes
<1>6. PICK r \in Task, p \in Task, q \in Task : r = <<"run", n>> /\ p = <<"pull", s>> /\ q = <<"post", n>>
  BY <1>0, <1>4, NodeTask DEF NodeOps, Task
<1>7. PICK tasks \in Seq(Task) : /\ Begin(g, tasks) /\ AllInert(tasks) /\ NoBoth(tasks)
                                 /\ suspended => Among(tasks, p)
  <2>1. <<r, p>> \in Seq(Task) /\ AllInert(<<r, p>>) /\ NoBoth(<<r, p>>)
    BY <1>6, TwoInert
  <2>2. Among(<<r, p>>, p)
    <3>1. 2 \in DOMAIN <<r, p>> /\ <<r, p>>[2] = p
      OBVIOUS
    <3>2. QED
      BY <3>1 DEF Among
  <2>3. <<q>> \in Seq(Task) /\ AllInert(<<q>>) /\ NoBoth(<<q>>)
    BY <1>6, OneInert
  <2>4. QED
    BY <1>2, <1>6, <2>1, <2>2, <2>3
<1>8. Puts(g, tasks)
  BY <1>0, <1>2, <1>7, BeginPuts
<1>9. HeldOk(g, tasks)
  <2>1. \A c : ~HeadIs(g, c)
    BY <1>2 DEF HeadIs
  <2>2. ASSUME NEW u \in Shaders, suspended'
        PROVE  (g = u[1] /\ Among(tasks, <<"pull", u>>)) \/ (suspended /\ compiled'[u] = compiled[u])
    <3>1. suspended /\ Among(tasks, p)
      BY <1>2, <1>7, <2>2
    <3>2. CASE u = s
      BY <1>0, <1>6, <3>1, <3>2
    <3>3. CASE u # s
      BY <1>0, <1>2, <3>1, <3>3 DEF Types
    <3>4. QED
      BY <3>2, <3>3
  <2>3. QED
    BY <2>1, <2>2 DEF HeldOk
<1>10. Outside(g, tasks)
  BY <1>2, <1>7, <1>8, <1>9 DEF Outside, NoBoth
<1>11. MakesCompile(g, tasks)
  BY <1>2, <1>4, <1>5, <1>7 DEF MakesCompile
<1>12. QED
  BY <1>10, <1>11 DEF Shaped, Shape

LEMMA InlineInert ==
    ASSUME NEW i \in 1 .. MaxLinks
    PROVE  /\ InlineList(i) \in Seq(Task) /\ DOMAIN InlineList(i) = 1 .. 4
           /\ InlineList(i)[1] = <<"run", Link(i)>> /\ InlineList(i)[2] = <<"run", Spirv(i)>>
           /\ \A k \in DOMAIN InlineList(i) : InlineList(i)[k][1] \in {"run", "publish", "publishB"}
<1>1. Link(i) \in Node /\ Spirv(i) \in Node
  BY NodeKinds
<1>2. PICK a \in Task, b \in Task, c \in Task, d \in Task :
        a = <<"run", Link(i)>> /\ b = <<"run", Spirv(i)>> /\ c = <<"publish", None>> /\ d = <<"publishB", None>>
  <2>1. "run" \in NodeOps /\ "publish" \in PlainOps /\ "publishB" \in PlainOps
    BY DEF NodeOps, PlainOps
  <2>2. <<"run", Link(i)>> \in Task /\ <<"run", Spirv(i)>> \in Task
    BY <1>1, <2>1, NodeTask
  <2>3. <<"publish", None>> \in Task /\ <<"publishB", None>> \in Task
    BY <2>1, PlainTask
  <2>4. QED
    BY <2>2, <2>3
<1>3. PICK q : q = <<a, b, c, d>>
  OBVIOUS
<1>4. /\ q \in Seq(Task) /\ DOMAIN q = 1 .. 4 /\ q[1] = a /\ q[2] = b
      /\ \A k \in DOMAIN q : q[k] = a \/ q[k] = b \/ q[k] = c \/ q[k] = d
  BY <1>3
<1>5. q = InlineList(i)
  BY <1>2, <1>3 DEF InlineList
<1>6. \A k \in DOMAIN q : q[k][1] \in {"run", "publish", "publishB"}
  <2>1. a[1] = "run" /\ b[1] = "run" /\ c[1] = "publish" /\ d[1] = "publishB"
    BY <1>2
  <2>2. QED
    BY <1>4, <2>1
<1>7. QED
  BY <1>2, <1>4, <1>5, <1>6

LEMMA EnqueueLinkShape ==
    ASSUME PoolInv, NEW g \in GL, EnqueueLink(g)
    PROVE  Shaped(g)
<1>0. Types /\ MadeInv /\ g \in Threads /\ MaxLinks \in Nat
  BY GLThread, PoolAssumption DEF PoolInv
<1>1. PICK i \in 1 .. MaxLinks : i = MadeLinks + 1 /\ state[Link(i)] = "none"
  <2>1. PICK m \in 0 .. MaxLinks : m = MadeLinks /\ \A j \in 1 .. MaxLinks : state[Link(j)] = "none" <=> j > m
    BY <1>0, MadeOnes
  <2>2. m < MaxLinks
    BY <2>1 DEF EnqueueLink
  <2>3. m + 1 \in 1 .. MaxLinks /\ m + 1 > m
    BY <1>0, <2>2
  <2>4. QED
    BY <2>1, <2>3
<1>2. At(g, "link")
  BY DEF EnqueueLink
<1>3. PICK Q \in SUBSET Shaders : Q = Arg(g) /\ HeadIs(g, <<"link", Q>>)
  <2>1. /\ 1 \in DOMAIN work[g] /\ work[g][1] \in Task /\ work[g][1][1] = "link" /\ work[g][1][2] = Arg(g)
        /\ work[g][1] = <<"link", Arg(g)>>
    BY <1>0, <1>2, AtTask DEF Types
  <2>2. QED
    BY <2>1, TaskParts DEF HeadIs
<1>4. PICK nodes \in SUBSET Compiled : nodes = {compiled[s] : s \in Q}
  <2>1. PICK N : N = {compiled[s] : s \in Q}
    OBVIOUS
  <2>2. compiled \in [Shaders -> Compiled]
    BY <1>0 DEF Types
  <2>3. ASSUME NEW x \in N PROVE x \in Compiled
    <3>1. PICK s \in Q : x = compiled[s]
      BY <2>1
    <3>2. s \in Shaders
      BY <1>3
    <3>3. QED
      BY <2>2, <3>1, <3>2
  <2>4. QED
    BY <2>1, <2>3
<1>5. PICK ks \in SUBSET (1 .. MaxCompiles) : ks = Unsettled(nodes)
  BY DEF Unsettled
<1>6. /\ snap' = [snap EXCEPT ![i] = nodes]
      /\ state' = [state EXCEPT ![Link(i)] = "Pending", ![Spirv(i)] = "Pending"]
      /\ lock' = lock /\ UNCHANGED <<compiled, suspended, verdict>>
      /\ \/ suspended /\ Into(g, InlineList(i)) /\ UNCHANGED <<conts, remaining>>
         \/ /\ conts' = [conts EXCEPT ![Link(i)] = << Spirv(i) >>]
            /\ remaining' = [remaining EXCEPT ![i] = Cardinality(ks) + GuardSlot]
            /\ \E e \in InOrder(ks) : Into(g, Edges(i, ks, e) \o << <<"dep", Link(i)>> >>)
  BY <1>1, <1>3, <1>4, <1>5 DEF EnqueueLink, Unsettled, InlineList, poolVars, modeVars
<1>7. CASE suspended /\ Into(g, InlineList(i)) /\ UNCHANGED <<conts, remaining>>
  <2>1. PICK tasks \in Seq(Task) : tasks = InlineList(i)
    BY InlineInert
  <2>2. \A k \in DOMAIN tasks : tasks[k][1] \notin {"pull", "link"}
    BY <2>1, InlineInert
  <2>3. Outside(g, tasks)
    BY <1>0, <1>2, <1>6, <1>7, <2>1, <2>2, InsideOut
  <2>4. MakesLink(g, tasks)
    BY <1>1, <1>3, <1>4, <1>6, <1>7, <2>1 DEF MakesLink
  <2>5. QED
    BY <2>3, <2>4 DEF Shaped, Shape
<1>8. CASE /\ conts' = [conts EXCEPT ![Link(i)] = << Spirv(i) >>]
           /\ remaining' = [remaining EXCEPT ![i] = Cardinality(ks) + GuardSlot]
           /\ \E e \in InOrder(ks) : Into(g, Edges(i, ks, e) \o << <<"dep", Link(i)>> >>)
  <2>1. PICK e \in InOrder(ks) : Into(g, Edges(i, ks, e) \o << <<"dep", Link(i)>> >>)
    BY <1>8
  <2>2. PICK tasks : tasks = Edges(i, ks, e) \o << <<"dep", Link(i)>> >>
    OBVIOUS
  <2>3. tasks \in Seq(Task)
    <3>1. EdgeList(i, ks, e, tasks)
      BY <2>2, EdgeTasks
    <3>2. QED
      BY <3>1 DEF EdgeList
  <2>4. \A k \in DOMAIN tasks : tasks[k][1] \notin {"pull", "link"}
    <3>1. Enters(i, tasks)
      BY <2>2, EdgesEnter
    <3>2. QED
      BY <3>1 DEF Enters
  <2>5. Outside(g, tasks)
    BY <1>0, <1>2, <1>6, <2>1, <2>2, <2>3, <2>4, InsideOut
  <2>6. MakesLink(g, tasks)
    BY <1>1, <1>3, <1>4, <1>5, <1>6, <1>8, <2>2 DEF MakesLink
  <2>7. QED
    BY <2>5, <2>6 DEF Shaped, Shape
<1>9. QED
  BY <1>6, <1>7, <1>8

LEMMA StepShape ==
    ASSUME PoolInv, VerdictType, Next
    PROVE  \E t \in Threads : Shaped(t)
<1>1. ASSUME NEW t \in Threads, Step(t) PROVE Shaped(t)
  <2>1. CASE CancelNode(t) \/ Run(t) \/ Finish(t)
    BY <2>1, CancelNodeShape, RunShape, FinishShape
  <2>2. CASE DepSettled(t) \/ Edge(t)
    BY <2>2, DepSettledShape, EdgeShape
  <2>3. CASE Chain(t) \/ PostStopped(t) \/ PostThrows(t) \/ Unlock(t) \/ Resume(t) \/ JoinPool(t)
    BY <2>3, PoolStepShape
  <2>4. CASE Post(t) \/ ReturnSlot(t) \/ SetBudget(t)
    BY <2>4, PostShape
  <2>5. CASE StopPool(t)
    BY <2>5, StopPoolShape
  <2>6. QED
    BY <1>1, <2>1, <2>2, <2>3, <2>4, <2>5 DEF Step
<1>2. ASSUME NEW g \in GL, Call(g) PROVE Shaped(g)
  <2>1. ASSUME NEW s \in Own(g), (\E x \in Texts : LetGo(g, s, x)) \/ Adopt(g, s) PROVE Shaped(g)
    BY <2>1, HoldShape
  <2>2. ASSUME NEW s \in Own(g), Compile(g, s) PROVE Shaped(g)
    BY <2>2, CompileShape
  <2>3. CASE \/ \E s \in Own(g) : JoinCompile(g, s)
             \/ JoinLink(g) \/ JoinSpirv(g) \/ Stop(g)
             \/ \E k \in 1 .. Cardinality(Workers) : SetThreads(g, k)
    BY <2>3, QuietCallShape
  <2>4. ASSUME NEW Q \in SUBSET Own(g) \ {{}}, LinkProgram(g, Q) PROVE Shaped(g)
    <3>1. Q \in SUBSET Own(g)
      OBVIOUS
    <3>2. QED
      BY <2>4, <3>1, LinkCallShape
  <2>5. CASE AbandonProgram(g)
    BY <2>5, LinkCallShape
  <2>6. CASE Suspend(g)
    BY <2>6, SuspendShape
  <2>7. QED
    BY <1>2, <2>1, <2>2, <2>3, <2>4, <2>5, <2>6 DEF Call
<1>3. ASSUME NEW g \in GL, GLStep(g) PROVE Shaped(g)
  <2>1. g \in Threads
    BY GLThread
  <2>2. QED
    BY <1>1, <1>3, <2>1, PullShape, EnqueueLinkShape DEF GLStep
<1>4. ASSUME NEW w \in Workers, WorkerStep(w) PROVE Shaped(w)
  <2>1. w \in Threads
    BY DEF Threads
  <2>2. QED
    BY <1>1, <1>4, <2>1, TakeShape DEF WorkerStep
<1>5. QED
  BY <1>2, <1>3, <1>4, GLThread DEF Next, Threads
-----------------------------------------------------------------------------
(* What becomes of the tasks and of the states *)

(* A task is an old one, which was not its thread's task, or a new one.    *)
LEMMA OldTask ==
    ASSUME work \in [Threads -> Seq(Task)], NEW t \in Threads, NEW tasks \in Seq(Task), Puts(t, tasks),
           NEW u \in Threads, NEW k \in DOMAIN work'[u]
    PROVE  \/ \E j \in DOMAIN work[u] : work'[u][k] = work[u][j] /\ (u = t => j # 1)
           \/ u = t /\ k \in DOMAIN tasks /\ work'[u][k] = tasks[k]
<1>1. CASE u # t
  <2>1. work'[u] = work[u]
    BY <1>1, PutsWork
  <2>2. QED
    BY <1>1, <2>1
<1>2. CASE u = t
  <2>1. /\ Len(tasks) \in Nat /\ Len(work'[t]) \in Nat /\ DOMAIN work'[t] = 1 .. Len(work'[t])
        /\ \/ k \in DOMAIN tasks /\ work'[t][k] = tasks[k]
           \/ /\ k > Len(tasks) /\ k - Len(tasks) + 1 \in DOMAIN work[t]
              /\ work'[t][k] = work[t][k - Len(tasks) + 1]
    BY <1>2, PutsWork
  <2>2. CASE k > Len(tasks) /\ k - Len(tasks) + 1 \in DOMAIN work[t] /\ work'[t][k] = work[t][k - Len(tasks) + 1]
    <3>1. PICK a \in Nat, b \in Nat : a = Len(tasks) /\ b = k
      BY <1>2, <2>1
    <3>2. b > a => b - a + 1 # 1
      OBVIOUS
    <3>3. QED
      BY <1>2, <2>2, <3>1, <3>2
  <2>3. QED
    BY <1>2, <2>1, <2>2
<1>3. QED
  BY <1>1, <1>2

LEMMA HasAfter ==
    ASSUME work \in [Threads -> Seq(Task)], NEW t \in Threads, NEW tasks \in Seq(Task), Puts(t, tasks),
           NEW c
    PROVE  /\ \A u \in Threads : HasAt(u, c)' => HasAt(u, c) \/ (u = t /\ Among(tasks, c))
           /\ \A u \in Threads : HasAt(u, c) => HasAt(u, c)' \/ (u = t /\ HeadIs(t, c))
           /\ Among(tasks, c) => HasAt(t, c)'
<1>1. ASSUME NEW u \in Threads, HasAt(u, c)' PROVE HasAt(u, c) \/ (u = t /\ Among(tasks, c))
  <2>1. PICK k \in DOMAIN work'[u] : work'[u][k] = c
    BY <1>1 DEF HasAt
  <2>2. QED
    BY <2>1, OldTask DEF HasAt, Among
<1>2. ASSUME NEW u \in Threads, HasAt(u, c) PROVE HasAt(u, c)' \/ (u = t /\ HeadIs(t, c))
  <2>1. PICK j \in DOMAIN work[u] : work[u][j] = c
    BY <1>2 DEF HasAt
  <2>2. CASE u # t
    <3>1. work'[u] = work[u]
      BY <2>2, PutsWork
    <3>2. QED
      BY <2>1, <3>1 DEF HasAt
  <2>3. CASE u = t /\ j = 1
    BY <2>1, <2>3 DEF HeadIs
  <2>4. CASE u = t /\ j # 1
    <3>1. j > 1
      <4>1. DOMAIN work[t] = 1 .. Len(work[t]) /\ Len(work[t]) \in Nat
        BY PutsWork
      <4>2. QED
        BY <2>1, <2>4, <4>1
    <3>2. Len(tasks) + j - 1 \in DOMAIN work'[t] /\ work'[t][Len(tasks) + j - 1] = work[t][j]
      BY <2>1, <2>4, <3>1, PutsWork
    <3>3. QED
      BY <2>1, <2>4, <3>2 DEF HasAt
  <2>5. QED
    BY <2>2, <2>3, <2>4
<1>3. ASSUME Among(tasks, c) PROVE HasAt(t, c)'
  <2>1. PICK k \in DOMAIN tasks : tasks[k] = c
    BY <1>3 DEF Among
  <2>2. k \in DOMAIN work'[t] /\ work'[t][k] = tasks[k]
    BY <2>1, PutsWork
  <2>3. QED
    BY <2>1, <2>2 DEF HasAt
<1>4. QED
  BY <1>1, <1>2, <1>3

(* What a step does to the states: one node moves, or nodes are made.      *)
Moves(n, to) == \/ state[n] = "Pending" /\ to \in {"Running", "Canceled"}
                \/ state[n] = "Running" /\ to \in {"Complete", "Canceled"}
                \/ state[n] = "none" /\ to = "Pending"

LEMMA FinishRuns ==
    ASSUME Types, RunInv, NEW t \in Threads, NEW n \in Node, HeadIs(t, <<"finish", n>>)
    PROVE  state[n] = "Running"
<1>1. 1 \in DOMAIN work[t] /\ work[t][1][1] = "finish" /\ work[t][1][2] = n
  BY DEF HeadIs
<1>2. QED
  BY <1>1 DEF RunInv

LEMMA StatesMove ==
    ASSUME PoolInv, RunInv, NEW t \in Threads, NEW tasks, Shape(t, tasks)
    PROVE  \A n \in Node : state'[n] = state[n] \/ Moves(n, state'[n])
<1>0. Types /\ MadeInv
  BY DEF PoolInv
<1>1. CASE Stays(t, tasks) \/ Counts(t, tasks) \/ Registers(t, tasks)
  BY <1>1 DEF Stays, Counts, Registers
<1>2. CASE Settles(t, tasks)
  <2>1. PICK n \in Node, to \in {"Complete", "Canceled"} :
          /\ \/ HeadIs(t, <<"finish", n>>)
             \/ state[n] = "Pending" /\ to = "Canceled"
          /\ state' = [state EXCEPT ![n] = to]
    BY <1>2 DEF Settles
  <2>2. state[n] = "Running" \/ (state[n] = "Pending" /\ to = "Canceled")
    BY <1>0, <2>1, FinishRuns
  <2>3. \A m \in Node : state'[m] = IF m = n THEN to ELSE state[m]
    BY <1>0, <2>1 DEF Types
  <2>4. QED
    BY <2>2, <2>3 DEF Moves
<1>3. CASE Starts(t, tasks)
  <2>1. PICK n \in Node : state[n] = "Pending" /\ state' = [state EXCEPT ![n] = "Running"]
    BY <1>3 DEF Starts
  <2>2. \A m \in Node : state'[m] = IF m = n THEN "Running" ELSE state[m]
    BY <1>0, <2>1 DEF Types
  <2>3. QED
    BY <2>1, <2>2 DEF Moves
<1>4. CASE MakesCompile(t, tasks)
  <2>1. PICK n \in CompileNode : state[n] = "none" /\ state' = [state EXCEPT ![n] = "Pending"]
    BY <1>4 DEF MakesCompile
  <2>2. \A m \in Node : state'[m] = IF m = n THEN "Pending" ELSE state[m]
    BY <1>0, <2>1 DEF Types
  <2>3. QED
    BY <2>1, <2>2 DEF Moves
<1>5. CASE MakesLink(t, tasks)
  <2>1. PICK i \in 1 .. MaxLinks :
          state[Link(i)] = "none" /\ state' = [state EXCEPT ![Link(i)] = "Pending", ![Spirv(i)] = "Pending"]
    BY <1>5 DEF MakesLink
  <2>2. \A m \in Node : state'[m] = IF m = Link(i) \/ m = Spirv(i) THEN "Pending" ELSE state[m]
    BY <1>0, <2>1 DEF Types
  <2>3. state[Spirv(i)] = "none"
    BY <1>0, <2>1 DEF MadeInv
  <2>4. QED
    BY <2>1, <2>2, <2>3 DEF Moves
<1>6. QED
  BY <1>1, <1>2, <1>3, <1>4, <1>5 DEF Shape

(* What has settled stays as it is.                                        *)
LEMMA TerminalStays ==
    ASSUME PoolInv, RunInv, NEW t \in Threads, NEW tasks, Shape(t, tasks)
    PROVE  \A n \in Node : Terminal(n) => Terminal(n)' /\ state'[n] = state[n]
<1>1. \A n \in Node : state'[n] = state[n] \/ Moves(n, state'[n])
  BY StatesMove
<1>2. QED
  BY <1>1 DEF Moves, Terminal

LEMMA ShapeWork ==
    ASSUME PoolInv, NEW t \in Threads, NEW tasks, Shape(t, tasks)
    PROVE  Types /\ work \in [Threads -> Seq(Task)] /\ tasks \in Seq(Task) /\ Puts(t, tasks)
BY DEF Shape, Outside, PoolInv, Types

(* The only body a step enters is that of the node it starts.              *)
LEMMA BodiesEntered ==
    ASSUME PoolInv, NEW t \in Threads, NEW tasks, Shape(t, tasks)
    PROVE  \A k \in DOMAIN tasks : tasks[k][1] = "finish" => state'[tasks[k][2]] = "Running"
<1>0. Types
  BY DEF PoolInv
<1>1. CASE Stays(t, tasks) \/ Counts(t, tasks) \/ MakesCompile(t, tasks)
  BY <1>1 DEF Stays, Counts, MakesCompile, AllInert, Inert
<1>2. CASE Settles(t, tasks)
  <2>1. PICK n \in Node : tasks = Continuations(n)
    BY <1>2 DEF Settles
  <2>2. \A k \in DOMAIN tasks : tasks[k][1] = "dep"
    BY <1>0, <2>1, ContinuationTasks
  <2>3. QED
    BY <2>2
<1>3. CASE Starts(t, tasks)
  <2>1. PICK n \in Node : state' = [state EXCEPT ![n] = "Running"] /\ tasks = << <<"finish", n>> >>
    BY <1>3 DEF Starts
  <2>2. PICK c \in Task : c = <<"finish", n>>
    BY NodeTask DEF NodeOps
  <2>3. \A k \in DOMAIN tasks : tasks[k] = c
    BY <2>1, <2>2, OneTask
  <2>4. state'[n] = "Running"
    BY <1>0, <2>1 DEF Types
  <2>5. QED
    BY <2>2, <2>3, <2>4
<1>4. CASE Registers(t, tasks)
  <2>1. PICK i \in 1 .. MaxLinks : tasks = << <<"dep", Link(i)>> >> \/ tasks = <<>>
    BY <1>4 DEF Registers
  <2>2. PICK c \in Task : c = <<"dep", Link(i)>>
    BY NodeKinds, NodeTask DEF NodeOps
  <2>3. (\A k \in DOMAIN <<c>> : <<c>>[k] = c) /\ \A k \in DOMAIN <<>> : FALSE
    BY OneTask
  <2>4. \A k \in DOMAIN tasks : tasks[k] = c
    BY <2>1, <2>2, <2>3
  <2>5. QED
    BY <2>2, <2>4
<1>5. CASE MakesLink(t, tasks)
  <2>1. PICK i \in 1 .. MaxLinks, nodes \in SUBSET Compiled :
          \/ tasks = InlineList(i)
          \/ \E e \in InOrder(Unsettled(nodes)) : tasks = Edges(i, Unsettled(nodes), e) \o << <<"dep", Link(i)>> >>
    BY <1>5 DEF MakesLink
  <2>2. CASE tasks = InlineList(i)
    BY <2>2, InlineInert
  <2>3. ASSUME NEW e \in InOrder(Unsettled(nodes)), tasks = Edges(i, Unsettled(nodes), e) \o << <<"dep", Link(i)>> >>
        PROVE  \A k \in DOMAIN tasks : tasks[k][1] # "finish"
    <3>1. PICK ks \in SUBSET (1 .. MaxCompiles) : ks = Unsettled(nodes)
      BY DEF Unsettled
    <3>2. Enters(i, tasks)
      BY <2>3, <3>1, EdgesEnter
    <3>3. QED
      BY <3>2 DEF Enters
  <2>4. QED
    BY <2>1, <2>2, <2>3
<1>6. QED
  BY <1>1, <1>2, <1>3, <1>4, <1>5 DEF Shape

LEMMA RunInvKeeps ==
    ASSUME PoolInv, RunInv, NEW t \in Threads, NEW tasks, Shape(t, tasks)
    PROVE  RunInv'
<1>0. Types /\ OnceInv /\ work \in [Threads -> Seq(Task)] /\ tasks \in Seq(Task) /\ Puts(t, tasks)
  BY ShapeWork DEF PoolInv
<1>1. SUFFICES ASSUME NEW u \in Threads, NEW k \in DOMAIN work'[u], work'[u][k][1] = "finish"
               PROVE  state'[work'[u][k][2]] = "Running"
  BY DEF RunInv
<1>2. CASE u = t /\ k \in DOMAIN tasks /\ work'[u][k] = tasks[k]
  BY <1>1, <1>2, BodiesEntered
<1>3. ASSUME NEW j \in DOMAIN work[u], work'[u][k] = work[u][j], u = t => j # 1
      PROVE  state'[work'[u][k][2]] = "Running"
  <2>1. PICK n \in Node : work[u][j] = <<"finish", n>> /\ state[n] = "Running"
    <3>1. work[u][j] \in Task /\ work[u][j][1] = "finish"
      BY <1>0, <1>1, <1>3, WorkTasks
    <3>2. work[u][j] = <<"finish", work[u][j][2]>> /\ work[u][j][2] \in Node
      BY <3>1, TaskParts DEF NodeOps
    <3>3. QED
      BY <3>1, <3>2 DEF RunInv
  <2>2. ~HeadIs(t, <<"finish", n>>)
    <3>1. SUFFICES ASSUME HeadIs(t, <<"finish", n>>) PROVE FALSE
      OBVIOUS
    <3>2. 1 \in DOMAIN work[t] /\ Ticket(work[t][1], n) /\ Ticket(work[u][j], n)
      BY <2>1, <3>1 DEF HeadIs, Ticket
    <3>3. QED
      BY <1>0, <1>3, <3>2 DEF OnceInv
  <2>3. state'[n] = "Running"
    <3>1. CASE Settles(t, tasks)
      <4>1. PICK m \in Node, to \in {"Complete", "Canceled"} :
              /\ HeadIs(t, <<"finish", m>>) \/ state[m] = "Pending"
              /\ state' = [state EXCEPT ![m] = to]
        BY <3>1 DEF Settles
      <4>2. m # n
        BY <2>1, <2>2, <4>1
      <4>3. QED
        BY <1>0, <2>1, <4>1, <4>2 DEF Types
    <3>2. CASE Starts(t, tasks)
      BY <1>0, <2>1, <3>2 DEF Starts, Types
    <3>3. CASE ~Settles(t, tasks) /\ ~Starts(t, tasks)
      <4>1. state'[n] = state[n] \/ state[n] = "none"
        <5>1. CASE Stays(t, tasks) \/ Counts(t, tasks) \/ Registers(t, tasks)
          BY <5>1 DEF Stays, Counts, Registers
        <5>2. CASE MakesCompile(t, tasks)
          BY <1>0, <5>2 DEF MakesCompile, Types
        <5>3. CASE MakesLink(t, tasks)
          <6>1. PICK i \in 1 .. MaxLinks :
                  state[Link(i)] = "none" /\ state' = [state EXCEPT ![Link(i)] = "Pending", ![Spirv(i)] = "Pending"]
            BY <5>3 DEF MakesLink
          <6>2. state[Spirv(i)] = "none"
            BY <6>1 DEF PoolInv, MadeInv
          <6>3. QED
            BY <1>0, <6>1, <6>2 DEF Types
        <5>4. QED
          BY <3>3, <5>1, <5>2, <5>3 DEF Shape
      <4>2. QED
        BY <2>1, <4>1
    <3>4. QED
      BY <3>1, <3>2, <3>3
  <2>4. QED
    BY <1>3, <2>1, <2>3
<1>4. QED
  BY <1>0, <1>2, <1>3, OldTask

(* Who starts a node is its own task.                                      *)
LEMMA StartedHere ==
    ASSUME PoolInv, NEW t \in Threads, NEW tasks, Shape(t, tasks), NEW n \in Node,
           state[n] # "Running", state'[n] = "Running"
    PROVE  HeadIs(t, <<"run", n>>) /\ tasks = << <<"finish", n>> >>
<1>0. Types
  BY DEF PoolInv
<1>1. Starts(t, tasks)
  <2>1. ~(Stays(t, tasks) \/ Counts(t, tasks) \/ Registers(t, tasks))
    BY DEF Stays, Counts, Registers
  <2>2. ~Settles(t, tasks)
    BY <1>0 DEF Settles, Types
  <2>3. ~MakesCompile(t, tasks)
    BY <1>0 DEF MakesCompile, Types
  <2>4. ~MakesLink(t, tasks)
    BY <1>0 DEF MakesLink, Types
  <2>5. QED
    BY <2>1, <2>2, <2>3, <2>4 DEF Shape
<1>2. PICK m \in Node : /\ HeadIs(t, <<"run", m>>) /\ tasks = << <<"finish", m>> >>
                        /\ state' = [state EXCEPT ![m] = "Running"]
  BY <1>1 DEF Starts
<1>3. m = n
  BY <1>0, <1>2 DEF Types
<1>4. QED
  BY <1>2, <1>3

(* The list of a link is its SPIR-V job's until the link settles.          *)
LEMMA ChainKept ==
    ASSUME PoolInv, NEW t \in Threads, NEW tasks, Shape(t, tasks), NEW i \in 1 .. MaxLinks
    PROVE  \/ conts'[Link(i)] = conts[Link(i)] \/ Terminal(Link(i))'
           \/ state[Link(i)] = "none" /\ conts'[Link(i)] = <<Spirv(i)>>
<1>0. Types /\ Link(i) \in Node
  BY NodeKinds DEF PoolInv
<1>1. CASE Stays(t, tasks) \/ Starts(t, tasks) \/ Counts(t, tasks) \/ MakesCompile(t, tasks)
  BY <1>1 DEF Stays, Starts, Counts, MakesCompile
<1>2. CASE Settles(t, tasks)
  <2>1. PICK n \in Node, to \in {"Complete", "Canceled"} :
          state' = [state EXCEPT ![n] = to] /\ conts' = [conts EXCEPT ![n] = <<>>]
    BY <1>2 DEF Settles
  <2>2. CASE n = Link(i)
    BY <1>0, <2>1, <2>2 DEF Types, Terminal
  <2>3. CASE n # Link(i)
    BY <1>0, <2>1, <2>3 DEF Types
  <2>4. QED
    BY <2>2, <2>3
<1>3. CASE Registers(t, tasks)
  <2>1. PICK n \in CompileNode, j \in 1 .. MaxLinks : conts' = conts \/ conts' = [conts EXCEPT ![n] = Append(@, Link(j))]
    BY <1>3 DEF Registers
  <2>2. n # Link(i)
    <3>1. n[1] = "compile" /\ Link(i)[1] = "link"
      BY NodeKinds
    <3>2. QED
      BY <3>1
  <2>3. QED
    BY <1>0, <2>1, <2>2 DEF Types
<1>4. CASE MakesLink(t, tasks)
  <2>1. PICK j \in 1 .. MaxLinks : /\ state[Link(j)] = "none"
                                   /\ conts' = conts \/ conts' = [conts EXCEPT ![Link(j)] = <<Spirv(j)>>]
    BY <1>4 DEF MakesLink
  <2>2. CASE j = i
    BY <1>0, <2>1, <2>2 DEF Types
  <2>3. CASE j # i
    <3>1. Link(j) # Link(i)
      BY <2>3 DEF Link
    <3>2. QED
      BY <1>0, <2>1, <3>1 DEF Types
  <2>4. QED
    BY <2>2, <2>3
<1>5. QED
  BY <1>1, <1>2, <1>3, <1>4 DEF Shape

(* The body of a link that is on a thread's hands, after the step.         *)
LEMMA InlineKept ==
    ASSUME PoolInv, RunInv, NEW t \in Threads, NEW tasks, Shape(t, tasks), NEW i \in 1 .. MaxLinks,
           Inline(i)
    PROVE  Terminal(Link(i))' \/ Inline(i)'
<1>0. /\ Types /\ OnceInv /\ work \in [Threads -> Seq(Task)] /\ tasks \in Seq(Task) /\ Puts(t, tasks)
      /\ Link(i) \in Node
  BY ShapeWork, NodeKinds DEF PoolInv
<1>1. PICK u \in Threads : \E j, k \in DOMAIN work[u] :
        j < k /\ work[u][k] = <<"run", Spirv(i)>> /\ Runs(work[u][j], i)
  BY DEF Inline
<1>2. PICK j \in DOMAIN work[u], k \in DOMAIN work[u] :
        j < k /\ work[u][k] = <<"run", Spirv(i)>> /\ Runs(work[u][j], i)
  BY <1>1
<1>3. SUFFICES ASSUME ~Terminal(Link(i))' PROVE Inline(i)'
  OBVIOUS
<1>4. state'[Link(i)] = state[Link(i)] \/ Moves(Link(i), state'[Link(i)])
  BY <1>0, StatesMove
<1>5. \/ work[u][j] = <<"finish", Link(i)>>
      \/ work[u][j] = <<"run", Link(i)>> /\ state[Link(i)] = "Pending" /\ state'[Link(i)] = "Pending"
      \/ u = t /\ j = 1 /\ work[u][j] = <<"run", Link(i)>> /\ tasks = << <<"finish", Link(i)>> >>
  <2>1. CASE work[u][j] = <<"run", Link(i)>> /\ state[Link(i)] = "Pending" /\ state'[Link(i)] # "Pending"
    <3>1. state'[Link(i)] = "Running"
      BY <1>3, <1>4, <2>1 DEF Moves, Terminal
    <3>2. HeadIs(t, <<"run", Link(i)>>) /\ tasks = << <<"finish", Link(i)>> >>
      BY <1>0, <2>1, <3>1, StartedHere
    <3>3. 1 \in DOMAIN work[t] /\ Ticket(work[t][1], Link(i)) /\ Ticket(work[u][j], Link(i))
      BY <2>1, <3>2 DEF HeadIs, Ticket
    <3>4. u = t /\ j = 1
      BY <1>0, <3>3 DEF OnceInv
    <3>5. QED
      BY <2>1, <3>2, <3>4
  <2>2. QED
    BY <1>2, <2>1 DEF Runs
<1>6. CASE u # t
  <2>1. work'[u] = work[u]
    BY <1>0, <1>6, PutsWork
  <2>2. Runs(work[u][j], i)'
    BY <1>5, <1>6, <2>1 DEF Runs
  <2>3. QED
    BY <1>2, <2>1, <2>2 DEF Inline
<1>7. CASE u = t
  <2>0. PICK m \in Nat, w \in Nat : m = Len(tasks) /\ w = Len(work[t]) /\ DOMAIN work[t] = 1 .. w
    BY <1>0, PutsWork
  <2>1. j \in 1 .. w /\ k \in 1 .. w /\ k > 1
    BY <1>2, <1>7, <2>0
  <2>2. m + k - 1 \in DOMAIN work'[t] /\ work'[t][m + k - 1] = <<"run", Spirv(i)>>
    <3>1. Len(tasks) + k - 1 \in DOMAIN work'[t] /\ work'[t][Len(tasks) + k - 1] = work[t][k]
      BY <1>0, <1>2, <1>7, <2>1, PutsWork
    <3>2. QED
      BY <1>2, <1>7, <2>0, <3>1
  <2>3. CASE j # 1
    <3>1. m + j - 1 \in DOMAIN work'[t] /\ work'[t][m + j - 1] = work[t][j]
      <4>1. j > 1
        BY <2>1, <2>3
      <4>2. Len(tasks) + j - 1 \in DOMAIN work'[t] /\ work'[t][Len(tasks) + j - 1] = work[t][j]
        BY <1>0, <1>2, <1>7, <4>1, PutsWork
      <4>3. QED
        BY <2>0, <4>2
    <3>2. m + j - 1 < m + k - 1
      BY <1>2, <2>1
    <3>3. Runs(work[t][m + j - 1], i)'
      BY <1>5, <1>7, <2>3, <3>1 DEF Runs
    <3>4. QED
      BY <1>7, <2>2, <3>1, <3>2, <3>3 DEF Inline
  <2>4. CASE j = 1 /\ work[t][1] = <<"run", Link(i)>> /\ tasks = << <<"finish", Link(i)>> >>
    <3>1. PICK c \in Task : c = <<"finish", Link(i)>>
      BY <1>0, NodeTask DEF NodeOps
    <3>2. 1 \in DOMAIN tasks /\ tasks[1] = c /\ Len(tasks) = 1
      BY <2>4, <3>1
    <3>3. 1 \in DOMAIN work'[t] /\ work'[t][1] = <<"finish", Link(i)>>
      BY <1>0, <3>1, <3>2, PutsWork
    <3>4. 1 < m + k - 1
      BY <2>0, <2>1, <3>2
    <3>5. Runs(work[t][1], i)'
      BY <3>3 DEF Runs
    <3>6. QED
      BY <1>7, <2>2, <3>3, <3>4, <3>5 DEF Inline
  <2>5. CASE j = 1 /\ \/ work[t][1] = <<"finish", Link(i)>>
                      \/ work[t][1] = <<"run", Link(i)>> /\ state[Link(i)] = "Pending" /\ state'[Link(i)] = "Pending"
    <3>1. /\ work[t] # <<>> /\ work[t][1][2] = Link(i) /\ 1 \in DOMAIN work[t]
          /\ work[t][1][1] = "finish" \/ (work[t][1][1] = "run" /\ state[Link(i)] = "Pending" /\ state'[Link(i)] = "Pending")
      BY <1>2, <1>7, <2>5
    <3>2. ~Stays(t, tasks)
      BY <3>1 DEF Stays, Inert
    <3>3. ~(Counts(t, tasks) \/ Registers(t, tasks) \/ MakesCompile(t, tasks) \/ MakesLink(t, tasks))
      <4>1. \A c : HeadIs(t, c) => c[1] \in {"run", "finish"}
        BY <3>1 DEF HeadIs
      <4>2. ~Counts(t, tasks)
        <5>1. SUFFICES ASSUME Counts(t, tasks) PROVE FALSE
          OBVIOUS
        <5>2. PICK l \in 1 .. MaxLinks : HeadIs(t, <<"dep", Link(l)>>)
          BY <5>1 DEF Counts
        <5>3. <<"dep", Link(l)>>[1] = "dep"
          OBVIOUS
        <5>4. QED
          BY <4>1, <5>2, <5>3
      <4>3. ~Registers(t, tasks)
        <5>1. SUFFICES ASSUME Registers(t, tasks) PROVE FALSE
          OBVIOUS
        <5>2. PICK a \in CompileNode, l \in 1 .. MaxLinks : HeadIs(t, EdgeTo(a, l))
          BY <5>1 DEF Registers
        <5>3. EdgeTo(a, l)[1] = "edge"
          BY DEF EdgeTo
        <5>4. QED
          BY <4>1, <5>2, <5>3
      <4>4. ~MakesCompile(t, tasks)
        BY <3>1 DEF MakesCompile
      <4>5. ~MakesLink(t, tasks)
        <5>1. SUFFICES ASSUME MakesLink(t, tasks) PROVE FALSE
          OBVIOUS
        <5>2. PICK Q \in SUBSET Shaders : HeadIs(t, <<"link", Q>>)
          BY <5>1 DEF MakesLink
        <5>3. <<"link", Q>>[1] = "link"
          OBVIOUS
        <5>4. QED
          BY <4>1, <5>2, <5>3
      <4>6. QED
        BY <4>2, <4>3, <4>4, <4>5
    <3>4. ~Starts(t, tasks)
      <4>1. SUFFICES ASSUME Starts(t, tasks) PROVE FALSE
        OBVIOUS
      <4>2. PICK n \in Node : work[t][1] = <<"run", n>> /\ state' = [state EXCEPT ![n] = "Running"]
        BY <4>1 DEF Starts, HeadIs
      <4>3. n = Link(i) /\ state'[n] = "Running"
        BY <1>0, <3>1, <4>2 DEF Types
      <4>4. QED
        BY <3>1, <4>2, <4>3
    <3>5. Settles(t, tasks)
      BY <3>2, <3>3, <3>4 DEF Shape
    <3>6. PICK n \in Node, to \in {"Complete", "Canceled"} :
            /\ HeadIs(t, <<"finish", n>>) \/ HeadIs(t, <<"cancel", n>>) \/ HeadIs(t, <<"run", n>>)
            /\ state' = [state EXCEPT ![n] = to]
      BY <3>5 DEF Settles
    <3>7. n = Link(i)
      BY <3>1, <3>6 DEF HeadIs
    <3>8. QED
      BY <1>0, <1>3, <3>6, <3>7 DEF Types, Terminal
  <2>6. QED
    BY <1>5, <1>7, <2>3, <2>4, <2>5
<1>8. QED
  BY <1>6, <1>7

LEMMA SpirvInvKeeps ==
    ASSUME PoolInv, RunInv, SpirvInv, NEW t \in Threads, NEW tasks, Shape(t, tasks)
    PROVE  SpirvInv'
<1>0. /\ Types /\ work \in [Threads -> Seq(Task)] /\ tasks \in Seq(Task) /\ Puts(t, tasks)
  BY ShapeWork
<1>1. SUFFICES ASSUME NEW i \in 1 .. MaxLinks
               PROVE  state'[Link(i)] = "none" \/ Terminal(Link(i))' \/ conts'[Link(i)] = <<Spirv(i)>> \/ Inline(i)'
  BY DEF SpirvInv, Terminal, Link, Spirv
<1>2. Link(i) \in Node
  BY NodeKinds
<1>3. CASE Terminal(Link(i))
  BY <1>2, <1>3, TerminalStays
<1>4. CASE conts[Link(i)] = <<Spirv(i)>>
  BY <1>4, ChainKept
<1>5. CASE Inline(i)
  BY <1>5, InlineKept
<1>6. CASE state[Link(i)] = "none"
  <2>1. CASE ~MakesLink(t, tasks)
    <3>1. CASE Stays(t, tasks) \/ Counts(t, tasks) \/ Registers(t, tasks)
      BY <1>6, <3>1 DEF Stays, Counts, Registers
    <3>2. CASE Settles(t, tasks)
      <4>1. PICK n \in Node, to \in {"Complete", "Canceled"} : state' = [state EXCEPT ![n] = to]
        BY <3>2 DEF Settles
      <4>2. QED
        BY <1>0, <1>2, <1>6, <4>1 DEF Types, Terminal
    <3>3. CASE Starts(t, tasks)
      <4>1. PICK n \in Node : state[n] = "Pending" /\ state' = [state EXCEPT ![n] = "Running"]
        BY <3>3 DEF Starts
      <4>2. n # Link(i)
        BY <1>6, <4>1
      <4>3. QED
        BY <1>0, <1>2, <1>6, <4>1, <4>2 DEF Types
    <3>4. CASE MakesCompile(t, tasks)
      <4>1. PICK n \in CompileNode : state' = [state EXCEPT ![n] = "Pending"]
        BY <3>4 DEF MakesCompile
      <4>2. n # Link(i)
        <5>1. n[1] = "compile" /\ Link(i)[1] = "link"
          BY NodeKinds
        <5>2. QED
          BY <5>1
      <4>3. QED
        BY <1>0, <1>2, <1>6, <4>1, <4>2 DEF Types
    <3>5. QED
      BY <2>1, <3>1, <3>2, <3>3, <3>4 DEF Shape
  <2>2. CASE MakesLink(t, tasks)
    <3>1. PICK l \in 1 .. MaxLinks :
            /\ state' = [state EXCEPT ![Link(l)] = "Pending", ![Spirv(l)] = "Pending"]
            /\ tasks = InlineList(l) \/ conts' = [conts EXCEPT ![Link(l)] = <<Spirv(l)>>]
      BY <2>2 DEF MakesLink
    <3>2. CASE l # i
      <4>1. Link(l) # Link(i) /\ Spirv(l) # Link(i)
        BY <3>2 DEF Link, Spirv
      <4>2. QED
        BY <1>0, <1>2, <1>6, <3>1, <4>1 DEF Types
    <3>3. CASE l = i /\ conts' = [conts EXCEPT ![Link(l)] = <<Spirv(l)>>]
      BY <1>0, <1>2, <3>3 DEF Types
    <3>4. CASE l = i /\ tasks = InlineList(l)
      <4>1. /\ 1 \in DOMAIN tasks /\ 2 \in DOMAIN tasks
            /\ tasks[1] = <<"run", Link(i)>> /\ tasks[2] = <<"run", Spirv(i)>>
        BY <3>4, InlineInert
      <4>2. /\ 1 \in DOMAIN work'[t] /\ 2 \in DOMAIN work'[t]
            /\ work'[t][1] = <<"run", Link(i)>> /\ work'[t][2] = <<"run", Spirv(i)>>
        BY <1>0, <4>1, PutsWork
      <4>3. state'[Link(i)] = "Pending"
        BY <1>0, <1>2, <3>1, <3>4 DEF Types
      <4>4. Runs(work[t][1], i)'
        BY <4>2, <4>3 DEF Runs
      <4>5. 1 < 2
        OBVIOUS
      <4>6. QED
        BY <4>2, <4>4, <4>5 DEF Inline
    <3>5. QED
      BY <3>1, <3>2, <3>3, <3>4
  <2>3. QED
    BY <2>1, <2>2
<1>7. QED
  BY <1>3, <1>4, <1>5, <1>6 DEF SpirvInv

LEMMA HeldInvKeeps ==
    ASSUME PoolInv, RunInv, HeldInv, NEW t \in Threads, NEW tasks, Shape(t, tasks)
    PROVE  HeldInv'
<1>0. /\ Types /\ work \in [Threads -> Seq(Task)] /\ tasks \in Seq(Task) /\ Puts(t, tasks) /\ HeldOk(t, tasks)
  BY ShapeWork DEF Shape, Outside
<1>1. SUFFICES ASSUME OneContext, suspended', NEW s \in Shaders, compiled'[s] \in CompileNode,
                      state'[compiled'[s]] \notin {"Complete", "Canceled"}
               PROVE  HasAt(s[1], <<"pull", s>>)'
  BY DEF HeldInv, OneContext, Terminal
<1>2. s[1] \in Threads
  BY DEF Shaders, Threads
<1>3. CASE t = s[1] /\ Among(tasks, <<"pull", s>>)
  BY <1>0, <1>3, HasAfter
<1>4. CASE suspended /\ compiled'[s] = compiled[s] /\ ~HeadIs(t, <<"pull", s>>)
  <2>1. compiled[s] \in Node
    BY <1>1, <1>4, NodeKinds
  <2>2. ~Terminal(compiled[s])
    BY <1>1, <1>4, <2>1, TerminalStays DEF Terminal
  <2>3. HasAt(s[1], <<"pull", s>>)
    BY <1>1, <1>4, <2>2 DEF HeldInv
  <2>4. QED
    BY <1>0, <1>2, <1>4, <2>3, HasAfter
<1>5. QED
  BY <1>0, <1>1, <1>3, <1>4 DEF HeldOk

LEMMA LinkAloneKeeps ==
    ASSUME PoolInv, LinkAlone, NEW t \in Threads, NEW tasks, Shape(t, tasks)
    PROVE  LinkAlone'
<1>0. /\ Types /\ work \in [Threads -> Seq(Task)] /\ tasks \in Seq(Task) /\ Puts(t, tasks)
      /\ work[t] # <<>> => \A k \in DOMAIN tasks : tasks[k][1] \notin {"pull", "link"}
      /\ \A j, k \in DOMAIN tasks : ~(tasks[j][1] = "link" /\ tasks[k][1] = "pull")
  BY ShapeWork DEF Shape, Outside
<1>1. SUFFICES ASSUME NEW u \in Threads, NEW j \in DOMAIN work'[u], NEW k \in DOMAIN work'[u],
                      work'[u][j][1] = "link", work'[u][k][1] = "pull"
               PROVE  FALSE
  BY DEF LinkAlone
<1>2. ASSUME NEW a \in DOMAIN work'[u]
      PROVE  \/ \E b \in DOMAIN work[u] : work'[u][a] = work[u][b]
             \/ u = t /\ a \in DOMAIN tasks /\ work'[u][a] = tasks[a]
  BY <1>0, OldTask
<1>3. CASE u = t /\ work[t] = <<>>
  <2>1. DOMAIN work[u] = {}
    BY <1>3
  <2>2. /\ j \in DOMAIN tasks /\ work'[u][j] = tasks[j]
        /\ k \in DOMAIN tasks /\ work'[u][k] = tasks[k]
    BY <1>2, <2>1
  <2>3. QED
    BY <1>0, <1>1, <2>2
<1>4. CASE ~(u = t /\ work[t] = <<>>)
  <2>1. ASSUME NEW a \in DOMAIN work'[u], work'[u][a][1] \in {"pull", "link"}
        PROVE  \E b \in DOMAIN work[u] : work'[u][a] = work[u][b]
    BY <1>0, <1>2, <1>4, <2>1
  <2>2. PICK b \in DOMAIN work[u], c \in DOMAIN work[u] : work'[u][j] = work[u][b] /\ work'[u][k] = work[u][c]
    BY <1>1, <2>1
  <2>3. QED
    BY <1>1, <2>2 DEF LinkAlone
<1>5. QED
  BY <1>3, <1>4

LEMMA VerdictKeeps ==
    ASSUME VerdictType, LockInv, NEW t \in Threads, NEW tasks, Shape(t, tasks)
    PROVE  VerdictType' /\ LockInv'
<1>1. LockInv'
  BY DEF LockInv, Shape, Outside
<1>2. VerdictType'
  BY DEF VerdictType, Shape, Stays, Settles, Starts, Counts, Registers, MakesCompile, MakesLink, NewVerdicts
<1>3. QED
  BY <1>1, <1>2
-----------------------------------------------------------------------------
(* What link i still waits for                                             *)

(* What a finite set covers through a function is no larger.               *)
LEMMA Covered ==
    ASSUME NEW S, IsFiniteSet(S), NEW f, NEW T, \A y \in T : \E x \in S : y = f[x]
    PROVE  IsFiniteSet(T) /\ Cardinality(T) <= Cardinality(S)
<1>1. PICK h, I : h = [x \in S |-> f[x]] /\ I = {f[x] : x \in S}
  OBVIOUS
<1>2. h \in Surjection(S, I)
  BY <1>1 DEF Surjection
<1>3. IsFiniteSet(I) /\ Cardinality(I) <= Cardinality(S)
  BY <1>2, FS_Surjection
<1>4. T \in SUBSET I
  BY <1>1
<1>5. /\ IsFiniteSet(T) /\ Cardinality(T) <= Cardinality(I)
      /\ Cardinality(T) \in Nat /\ Cardinality(I) \in Nat /\ Cardinality(S) \in Nat
  BY <1>3, <1>4, FS_Subset, FS_CardinalityType
<1>6. QED
  BY <1>3, <1>5

LEMMA TwoCover ==
    ASSUME NEW S, IsFiniteSet(S), NEW B, IsFiniteSet(B), NEW f, NEW h, NEW T,
           \A y \in T : (\E x \in S : y = f[x]) \/ (\E x \in B : y = h[x])
    PROVE  IsFiniteSet(T) /\ Cardinality(T) <= Cardinality(S) + Cardinality(B)
<1>1. PICK U, V : U = {y \in T : \E x \in S : y = f[x]} /\ V = {y \in T : \E x \in B : y = h[x]}
  OBVIOUS
<1>2. IsFiniteSet(U) /\ Cardinality(U) <= Cardinality(S)
  BY <1>1, Covered
<1>3. IsFiniteSet(V) /\ Cardinality(V) <= Cardinality(B)
  BY <1>1, Covered
<1>4. T = U \cup V
  BY <1>1
<1>5. IsFiniteSet(T) /\ Cardinality(T) = Cardinality(U) + Cardinality(V) - Cardinality(U \cap V)
  BY <1>2, <1>3, <1>4, FS_Union
<1>6. IsFiniteSet(U \cap V)
  BY <1>2, FS_Intersection
<1>7. /\ Cardinality(T) \in Nat /\ Cardinality(U) \in Nat /\ Cardinality(V) \in Nat
      /\ Cardinality(U \cap V) \in Nat /\ Cardinality(S) \in Nat /\ Cardinality(B) \in Nat
  BY <1>2, <1>3, <1>5, <1>6, FS_CardinalityType
<1>8. QED
  BY <1>2, <1>3, <1>5, <1>7

(* The places where link i is waited for after a step: those there were,   *)
(* but for the task of the step, and those among its new tasks.            *)
LEMMA SpotCount ==
    ASSUME work \in [Threads -> Seq(Task)], NEW t \in Threads, NEW tasks \in Seq(Task), Puts(t, tasks),
           NEW i \in 1 .. MaxLinks, IsFiniteSet(Spots(i)), NEW B, IsFiniteSet(B),
           \A k \in DOMAIN tasks : Waiting(tasks[k], i) => k \in B
    PROVE  IsFiniteSet(Spots(i)') /\ Cardinality(Spots(i)') <= Cardinality(Spots(i) \ {<<t, 1>>}) + Cardinality(B)
<1>1. PICK m \in Nat : m = Len(tasks)
  BY PutsWork
<1>2. PICK f, h : /\ f = [p \in Threads \X Nat |-> IF p[1] = t THEN <<t, m + p[2] - 1>> ELSE p]
                  /\ h = [k \in B |-> <<t, k>>]
  OBVIOUS
<1>3. ASSUME NEW y \in Spots(i)'
      PROVE  (\E x \in Spots(i) \ {<<t, 1>>} : y = f[x]) \/ (\E x \in B : y = h[x])
  <2>1. PICK u \in Threads, k \in Nat : y = <<u, k>> /\ k \in DOMAIN work'[u] /\ Waiting(work'[u][k], i)
    <3>1. PICK p \in Threads \X Nat : y = p /\ p[2] \in DOMAIN work'[p[1]] /\ Waiting(work'[p[1]][p[2]], i)
      BY DEF Spots, Waiting
    <3>2. p = <<p[1], p[2]>> /\ p[1] \in Threads /\ p[2] \in Nat
      OBVIOUS
    <3>3. QED
      BY <3>1, <3>2
  <2>2. CASE u # t
    <3>1. work'[u] = work[u]
      BY <2>2, PutsWork
    <3>2. y \in Spots(i) /\ y # <<t, 1>>
      BY <2>1, <2>2, <3>1 DEF Spots
    <3>3. y = f[y]
      BY <1>2, <2>1, <2>2
    <3>4. QED
      BY <3>2, <3>3
  <2>3. CASE u = t
    <3>1. \/ k \in DOMAIN tasks /\ work'[t][k] = tasks[k]
          \/ /\ k > m /\ k - m + 1 \in DOMAIN work[t]
             /\ work'[t][k] = work[t][k - m + 1]
      BY <1>1, <2>1, <2>3, PutsWork
    <3>2. CASE k \in DOMAIN tasks /\ work'[t][k] = tasks[k]
      <4>1. k \in B
        BY <2>1, <2>3, <3>2
      <4>2. QED
        BY <1>2, <2>1, <2>3, <4>1
    <3>3. CASE /\ k > m /\ k - m + 1 \in DOMAIN work[t]
               /\ work'[t][k] = work[t][k - m + 1]
      <4>0. \A a, b \in Nat : a > b => a - b + 1 \in Nat /\ a - b + 1 # 1 /\ b + (a - b + 1) - 1 = a
        OBVIOUS
      <4>1. PICK j \in Nat : j = k - m + 1 /\ j # 1 /\ m + j - 1 = k
        BY <3>3, <4>0
      <4>2. <<t, j>> \in Spots(i)
        BY <2>1, <2>3, <3>3, <4>1 DEF Spots
      <4>3. f[<<t, j>>] = <<t, k>>
        BY <1>2, <4>1
      <4>4. QED
        BY <2>1, <2>3, <4>1, <4>2, <4>3
    <3>4. QED
      BY <3>1, <3>2, <3>3
  <2>4. QED
    BY <2>2, <2>3
<1>4. IsFiniteSet(Spots(i) \ {<<t, 1>>})
  BY FS_Difference
<1>5. QED
  BY <1>3, <1>4, TwoCover

LEMMA Counted ==
    ASSUME NEW S, IsFiniteSet(S), NEW p
    PROVE  /\ Cardinality(S) \in Nat /\ IsFiniteSet(S \ {p}) /\ Cardinality(S \ {p}) \in Nat
           /\ Cardinality(S \ {p}) <= Cardinality(S)
           /\ p \in S => Cardinality(S \ {p}) = Cardinality(S) - 1
<1>1. Cardinality(S) \in Nat
  BY FS_CardinalityType
<1>2. IsFiniteSet(S \ {p}) /\ Cardinality(S \ {p}) = IF p \in S THEN Cardinality(S) - 1 ELSE Cardinality(S)
  BY FS_RemoveElement
<1>3. Cardinality(S \ {p}) \in Nat
  BY <1>2, FS_CardinalityType
<1>4. QED
  BY <1>1, <1>2, <1>3

(* A step that has nothing to do with link i.                              *)
LEMMA OutElsewhere ==
    ASSUME work \in [Threads -> Seq(Task)], NEW t \in Threads, NEW tasks \in Seq(Task), Puts(t, tasks),
           NEW i \in 1 .. MaxLinks, OutOf(i), \A k \in DOMAIN tasks : ~Waiting(tasks[k], i),
           Listed(i)' = Listed(i), remaining'[i] = remaining[i], remaining[i] \in Int
    PROVE  OutOf(i)'
<1>1. IsFiniteSet(Spots(i)) /\ IsFiniteSet(Listed(i))
  BY DEF OutOf
<1>2. IsFiniteSet({}) /\ Cardinality({}) = 0
  BY FS_EmptySet
<1>3. IsFiniteSet(Spots(i)') /\ Cardinality(Spots(i)') <= Cardinality(Spots(i) \ {<<t, 1>>}) + Cardinality({})
  BY <1>1, <1>2, SpotCount
<1>4. /\ Cardinality(Spots(i)) \in Nat /\ Cardinality(Spots(i) \ {<<t, 1>>}) \in Nat
      /\ Cardinality(Spots(i) \ {<<t, 1>>}) <= Cardinality(Spots(i))
  BY <1>1, Counted
<1>5. Cardinality(Listed(i)) \in Nat /\ Cardinality(Spots(i)') \in Nat
  BY <1>1, <1>3, FS_CardinalityType
<1>6. Cardinality(Spots(i)') + Cardinality(Listed(i)) <= remaining[i] /\ remaining[i] <= MaxCompiles + 1
  BY <1>2, <1>3, <1>4, <1>5 DEF OutOf
<1>7. QED
  BY <1>1, <1>3, <1>6 DEF OutOf

(* A step whose task was waited for by link i, and which counts it down,   *)
(* passes it on, or leaves it in a compile's list.                         *)
LEMMA OutOneLess ==
    ASSUME work \in [Threads -> Seq(Task)], NEW t \in Threads, NEW tasks \in Seq(Task), Puts(t, tasks),
           NEW i \in 1 .. MaxLinks, OutOf(i), <<t, 1>> \in Spots(i),
           \A k \in DOMAIN tasks : ~Waiting(tasks[k], i),
           Listed(i)' = Listed(i), remaining'[i] = remaining[i] - 1, remaining[i] \in Int
    PROVE  OutOf(i)'
<1>1. IsFiniteSet(Spots(i)) /\ IsFiniteSet(Listed(i))
  BY DEF OutOf
<1>2. IsFiniteSet({}) /\ Cardinality({}) = 0
  BY FS_EmptySet
<1>3. IsFiniteSet(Spots(i)') /\ Cardinality(Spots(i)') <= Cardinality(Spots(i) \ {<<t, 1>>}) + Cardinality({})
  BY <1>1, <1>2, SpotCount
<1>4. /\ Cardinality(Spots(i)) \in Nat /\ Cardinality(Spots(i) \ {<<t, 1>>}) \in Nat
      /\ Cardinality(Spots(i) \ {<<t, 1>>}) = Cardinality(Spots(i)) - 1
  BY <1>1, Counted
<1>5. Cardinality(Listed(i)) \in Nat /\ Cardinality(Spots(i)') \in Nat /\ MaxCompiles \in Nat
  BY <1>1, <1>3, FS_CardinalityType, PoolAssumption
<1>6. Cardinality(Spots(i)') + Cardinality(Listed(i)) <= remaining[i] - 1 /\ remaining[i] - 1 <= MaxCompiles + 1
  BY <1>2, <1>3, <1>4, <1>5 DEF OutOf
<1>7. QED
  BY <1>1, <1>3, <1>6 DEF OutOf

LEMMA OutPassedOn ==
    ASSUME work \in [Threads -> Seq(Task)], NEW t \in Threads, NEW tasks \in Seq(Task), Puts(t, tasks),
           NEW i \in 1 .. MaxLinks, OutOf(i), <<t, 1>> \in Spots(i), \A k \in DOMAIN tasks : k = 1,
           Listed(i)' = Listed(i), remaining'[i] = remaining[i], remaining[i] \in Int
    PROVE  OutOf(i)'
<1>1. IsFiniteSet(Spots(i)) /\ IsFiniteSet(Listed(i))
  BY DEF OutOf
<1>2. PICK B : B = {1} /\ IsFiniteSet(B) /\ Cardinality(B) = 1
  BY FS_Singleton
<1>3. IsFiniteSet(Spots(i)') /\ Cardinality(Spots(i)') <= Cardinality(Spots(i) \ {<<t, 1>>}) + Cardinality(B)
  <2>1. \A k \in DOMAIN tasks : Waiting(tasks[k], i) => k \in B
    BY <1>2
  <2>2. QED
    BY <1>1, <1>2, <2>1, SpotCount
<1>4. /\ Cardinality(Spots(i)) \in Nat /\ Cardinality(Spots(i) \ {<<t, 1>>}) \in Nat
      /\ Cardinality(Spots(i) \ {<<t, 1>>}) = Cardinality(Spots(i)) - 1
  BY <1>1, Counted
<1>5. Cardinality(Listed(i)) \in Nat /\ Cardinality(Spots(i)') \in Nat
  BY <1>1, <1>3, FS_CardinalityType
<1>6. Cardinality(Spots(i)') + Cardinality(Listed(i)) <= remaining[i] /\ remaining[i] <= MaxCompiles + 1
  BY <1>2, <1>3, <1>4, <1>5 DEF OutOf
<1>7. QED
  BY <1>1, <1>3, <1>6 DEF OutOf

LEMMA OutListed ==
    ASSUME work \in [Threads -> Seq(Task)], NEW t \in Threads, NEW tasks \in Seq(Task), Puts(t, tasks),
           NEW i \in 1 .. MaxLinks, OutOf(i), <<t, 1>> \in Spots(i), \A k \in DOMAIN tasks : FALSE,
           NEW p, Listed(i)' \subseteq Listed(i) \cup {p},
           remaining'[i] = remaining[i], remaining[i] \in Int
    PROVE  OutOf(i)'
<1>1. IsFiniteSet(Spots(i)) /\ IsFiniteSet(Listed(i))
  BY DEF OutOf
<1>2. IsFiniteSet({}) /\ Cardinality({}) = 0
  BY FS_EmptySet
<1>3. IsFiniteSet(Spots(i)') /\ Cardinality(Spots(i)') <= Cardinality(Spots(i) \ {<<t, 1>>}) + Cardinality({})
  BY <1>1, <1>2, SpotCount
<1>4. /\ Cardinality(Spots(i)) \in Nat /\ Cardinality(Spots(i) \ {<<t, 1>>}) \in Nat
      /\ Cardinality(Spots(i) \ {<<t, 1>>}) = Cardinality(Spots(i)) - 1
  BY <1>1, Counted
<1>5. PICK L : L = Listed(i) \cup {p}
  OBVIOUS
<1>6. IsFiniteSet(L) /\ Cardinality(L) = IF p \in Listed(i) THEN Cardinality(Listed(i)) ELSE Cardinality(Listed(i)) + 1
  BY <1>1, <1>5, FS_AddElement
<1>7. Listed(i)' \in SUBSET L
  BY <1>5
<1>8. IsFiniteSet(Listed(i)') /\ Cardinality(Listed(i)') <= Cardinality(L)
  BY <1>6, <1>7, FS_Subset
<1>9. /\ Cardinality(Listed(i)) \in Nat /\ Cardinality(Spots(i)') \in Nat /\ Cardinality(L) \in Nat
      /\ Cardinality(Listed(i)') \in Nat
  BY <1>1, <1>3, <1>6, <1>8, FS_CardinalityType
<1>10. Cardinality(Listed(i)') <= Cardinality(Listed(i)) + 1
  BY <1>6, <1>8, <1>9
<1>11. Cardinality(Spots(i)') + Cardinality(Listed(i)') <= remaining[i] /\ remaining[i] <= MaxCompiles + 1
  BY <1>2, <1>3, <1>4, <1>9, <1>10 DEF OutOf
<1>12. QED
  BY <1>3, <1>8, <1>11 DEF OutOf

LEMMA InertWaitsNot ==
    ASSUME NEW c, Inert(c), NEW i \in 1 .. MaxLinks
    PROVE  ~Waiting(c, i)
<1>1. Link(i)[1] = "link"
  BY NodeKinds
<1>2. QED
  BY <1>1 DEF Inert, Waiting

LEMMA OutStays ==
    ASSUME PoolInv, OutInv, NEW t \in Threads, NEW tasks, Shape(t, tasks),
           Stays(t, tasks) \/ Starts(t, tasks) \/ MakesCompile(t, tasks)
    PROVE  OutInv'
<1>0. Types /\ work \in [Threads -> Seq(Task)] /\ tasks \in Seq(Task) /\ Puts(t, tasks)
  BY ShapeWork
<1>1. UNCHANGED <<conts, remaining>>
  BY DEF Stays, Starts, MakesCompile
<1>2. ASSUME NEW k \in DOMAIN tasks, NEW i \in 1 .. MaxLinks PROVE ~Waiting(tasks[k], i)
  <2>1. CASE Starts(t, tasks)
    <3>1. PICK n \in Node : tasks = << <<"finish", n>> >>
      BY <2>1 DEF Starts
    <3>2. PICK c \in Task : c = <<"finish", n>>
      BY NodeTask DEF NodeOps
    <3>3. tasks[k] = c
      BY <3>1, <3>2, OneTask
    <3>4. c[1] = "finish"
      BY <3>2
    <3>5. QED
      BY <3>3, <3>4 DEF Waiting
  <2>2. CASE Stays(t, tasks) \/ MakesCompile(t, tasks)
    <3>1. Inert(tasks[k])
      BY <2>2 DEF Stays, MakesCompile, AllInert
    <3>2. QED
      BY <3>1, InertWaitsNot
  <2>3. QED
    BY <2>1, <2>2
<1>3. ASSUME NEW i \in 1 .. MaxLinks PROVE OutOf(i)'
  <2>1. Listed(i)' = Listed(i)
    BY <1>1 DEF Listed
  <2>2. \A k \in DOMAIN tasks : ~Waiting(tasks[k], i)
    BY <1>2
  <2>3. OutOf(i) /\ remaining'[i] = remaining[i] /\ remaining[i] \in Int
    BY <1>0, <1>1 DEF OutInv, Types
  <2>4. QED
    BY <1>0, <2>1, <2>2, <2>3, OutElsewhere
<1>4. QED
  BY <1>3 DEF OutInv, OutOf, Spots, Listed, Waiting

(* What a thread is counting down is one of the places.                    *)
LEMMA OutCounts ==
    ASSUME PoolInv, OutInv, NEW t \in Threads, NEW tasks, Shape(t, tasks), Counts(t, tasks)
    PROVE  OutInv'
<1>0. Types /\ work \in [Threads -> Seq(Task)] /\ tasks \in Seq(Task) /\ Puts(t, tasks)
  BY ShapeWork
<1>1. PICK j \in 1 .. MaxLinks :
        /\ HeadIs(t, <<"dep", Link(j)>>) /\ remaining' = [remaining EXCEPT ![j] = @ - 1]
        /\ AllInert(tasks) /\ conts' = conts
  BY DEF Counts
<1>2. ASSUME NEW i \in 1 .. MaxLinks PROVE OutOf(i)'
  <2>1. Listed(i)' = Listed(i)
    BY <1>1 DEF Listed
  <2>2. \A k \in DOMAIN tasks : ~Waiting(tasks[k], i)
    BY <1>1, InertWaitsNot DEF AllInert
  <2>3. OutOf(i) /\ remaining[i] \in Int
    BY <1>0 DEF OutInv, Types
  <2>4. CASE i # j
    <3>1. remaining'[i] = remaining[i]
      BY <1>0, <1>1, <2>4 DEF Types
    <3>2. QED
      BY <1>0, <2>1, <2>2, <2>3, <3>1, OutElsewhere
  <2>5. CASE i = j
    <3>1. remaining'[i] = remaining[i] - 1
      BY <1>0, <1>1, <2>5 DEF Types
    <3>2. <<t, 1>> \in Spots(i)
      BY <1>1, <2>5 DEF HeadIs, Spots, Waiting
    <3>3. QED
      BY <1>0, <2>1, <2>2, <2>3, <3>1, <3>2, OutOneLess
  <2>6. QED
    BY <2>4, <2>5
<1>3. QED
  BY <1>2 DEF OutInv, OutOf, Spots, Listed, Waiting

LEMMA OutRegisters ==
    ASSUME PoolInv, OutInv, NEW t \in Threads, NEW tasks, Shape(t, tasks), Registers(t, tasks)
    PROVE  OutInv'
<1>0. Types /\ work \in [Threads -> Seq(Task)] /\ tasks \in Seq(Task) /\ Puts(t, tasks)
  BY ShapeWork
<1>1. PICK n \in CompileNode, j \in 1 .. MaxLinks :
        /\ HeadIs(t, EdgeTo(n, j)) /\ remaining' = remaining
        /\ \/ tasks = << <<"dep", Link(j)>> >> /\ conts' = conts
           \/ tasks = <<>> /\ conts' = [conts EXCEPT ![n] = Append(@, Link(j))]
  BY DEF Registers
<1>2. PICK c \in Task : c = <<"dep", Link(j)>>
  BY NodeKinds, NodeTask DEF NodeOps
<1>3. (\A k \in DOMAIN <<c>> : k = 1 /\ <<c>>[k] = c) /\ \A k \in DOMAIN <<>> : FALSE
  BY OneTask
<1>4. \A k \in DOMAIN tasks : k = 1 /\ tasks[k] = c /\ conts' = conts
  BY <1>1, <1>2, <1>3
<1>5. n \in Node /\ conts[n] \in Seq(Node) /\ Link(j) \in Node
  BY <1>0, NodeKinds DEF Types
<1>6. PICK s \in Seq(Node), m \in Nat : s = conts[n] /\ m = Len(s) /\ DOMAIN s = 1 .. m
  BY <1>5, SeqElements
<1>7. /\ \A k \in DOMAIN Append(s, Link(j)) : \/ k = m + 1 /\ Append(s, Link(j))[k] = Link(j)
                                              \/ k \in DOMAIN s /\ Append(s, Link(j))[k] = s[k]
  BY <1>5, <1>6, Appended
<1>8. \/ conts' = conts
      \/ conts' = [conts EXCEPT ![n] = Append(s, Link(j))]
  BY <1>1, <1>6
<1>9. ASSUME NEW i \in 1 .. MaxLinks PROVE OutOf(i)'
  <2>1. OutOf(i) /\ remaining[i] \in Int /\ remaining'[i] = remaining[i]
    BY <1>0, <1>1 DEF OutInv, Types
  <2>2. ASSUME NEW p \in Listed(i)' PROVE p \in Listed(i) \/ (i = j /\ p = <<n, m + 1>> /\ conts' # conts)
    <3>1. PICK a \in CompileNode, k \in Nat : p = <<a, k>> /\ k \in DOMAIN conts'[a] /\ conts'[a][k] = Link(i)
      BY DEF Listed
    <3>2. CASE conts' = conts \/ a # n
      <4>1. conts'[a] = conts[a]
        BY <1>0, <1>8, <3>2, NodeKinds DEF Types
      <4>2. QED
        BY <3>1, <4>1 DEF Listed
    <3>3. CASE conts' # conts /\ a = n
      <4>1. conts'[n] = Append(s, Link(j))
        BY <1>0, <1>5, <1>8, <3>3 DEF Types
      <4>2. \/ k = m + 1 /\ Link(j) = Link(i)
            \/ k \in DOMAIN conts[n] /\ conts[n][k] = Link(i)
        BY <1>6, <1>7, <3>1, <3>3, <4>1
      <4>3. CASE k = m + 1 /\ Link(j) = Link(i)
        BY <3>1, <3>3, <4>3 DEF Link
      <4>4. CASE k \in DOMAIN conts[n] /\ conts[n][k] = Link(i)
        BY <3>1, <3>3, <4>4 DEF Listed
      <4>5. QED
        BY <4>2, <4>3, <4>4
    <3>4. QED
      BY <3>2, <3>3
  <2>3. CASE i # j
    <3>1. Listed(i) \subseteq Listed(i)'
      <4>1. SUFFICES ASSUME NEW p \in Listed(i) PROVE p \in Listed(i)'
        OBVIOUS
      <4>2. PICK a \in CompileNode, k \in Nat : p = <<a, k>> /\ k \in DOMAIN conts[a] /\ conts[a][k] = Link(i)
        BY DEF Listed
      <4>3. k \in DOMAIN conts'[a] /\ conts'[a][k] = Link(i)
        <5>1. CASE conts' = conts \/ a # n
          <6>1. conts'[a] = conts[a]
            BY <1>0, <1>8, <5>1, NodeKinds DEF Types
          <6>2. QED
            BY <4>2, <6>1
        <5>2. CASE conts' # conts /\ a = n
          <6>1. conts'[n] = Append(s, Link(j))
            BY <1>0, <1>5, <1>8, <5>2 DEF Types
          <6>2. QED
            BY <1>5, <1>6, <4>2, <5>2, <6>1
        <5>3. QED
          BY <5>1, <5>2
      <4>4. QED
        BY <4>2, <4>3 DEF Listed
    <3>2. Listed(i)' = Listed(i)
      BY <2>2, <2>3, <3>1
    <3>3. ~Waiting(c, i)
      BY <1>2, <2>3 DEF Waiting, Link
    <3>4. \A k \in DOMAIN tasks : ~Waiting(tasks[k], i)
      BY <1>4, <3>3
    <3>5. QED
      BY <1>0, <2>1, <3>2, <3>4, OutElsewhere
  <2>4. CASE i = j
    <3>1. <<t, 1>> \in Spots(i)
      BY <1>1, <2>4 DEF HeadIs, Spots, Waiting, EdgeTo
    <3>2. CASE conts' = conts
      <4>1. Listed(i)' = Listed(i)
        BY <3>2 DEF Listed
      <4>2. \A k \in DOMAIN tasks : k = 1
        BY <1>4
      <4>3. QED
        BY <1>0, <2>1, <3>1, <4>1, <4>2, OutPassedOn
    <3>3. CASE conts' # conts
      <4>1. Listed(i)' \subseteq Listed(i) \cup {<<n, m + 1>>}
        BY <2>2
      <4>2. \A k \in DOMAIN tasks : FALSE
        BY <1>4, <3>3
      <4>3. QED
        BY <1>0, <2>1, <3>1, <4>1, <4>2, OutListed
    <3>4. QED
      BY <3>2, <3>3
  <2>5. QED
    BY <2>3, <2>4
<1>10. QED
  BY <1>9 DEF OutInv, OutOf, Spots, Listed, Waiting

(* A step that takes the continuations G of link i off their lists and     *)
(* makes at most one task of each.                                         *)
HandsOn(i, tasks, G) ==
    /\ G \in SUBSET Listed(i) /\ Listed(i)' = Listed(i) \ G
    /\ \A k \in DOMAIN tasks : Waiting(tasks[k], i) => \E p \in G : k = p[2]

(* What a settled compile hands its thread is what its list held.          *)
LEMMA OutHandedOn ==
    ASSUME work \in [Threads -> Seq(Task)], NEW t \in Threads, NEW tasks \in Seq(Task), Puts(t, tasks),
           NEW i \in 1 .. MaxLinks, OutOf(i), NEW G, HandsOn(i, tasks, G),
           remaining'[i] = remaining[i], remaining[i] \in Int
    PROVE  OutOf(i)'
<1>0. /\ G \in SUBSET Listed(i) /\ Listed(i)' = Listed(i) \ G
      /\ \A k \in DOMAIN tasks : Waiting(tasks[k], i) => \E p \in G : k = p[2]
  BY DEF HandsOn
<1>1. IsFiniteSet(Spots(i)) /\ IsFiniteSet(Listed(i))
  BY DEF OutOf
<1>2. IsFiniteSet(G)
  BY <1>0, <1>1, FS_Subset
<1>3. PICK f, B : f = [p \in G |-> p[2]] /\ B = {p[2] : p \in G}
  OBVIOUS
<1>4. \A y \in B : \E p \in G : y = f[p]
  BY <1>3
<1>5. IsFiniteSet(B) /\ Cardinality(B) <= Cardinality(G)
  BY <1>2, <1>4, Covered
<1>6. \A k \in DOMAIN tasks : Waiting(tasks[k], i) => k \in B
  BY <1>0, <1>3
<1>7. IsFiniteSet(Spots(i)') /\ Cardinality(Spots(i)') <= Cardinality(Spots(i) \ {<<t, 1>>}) + Cardinality(B)
  BY <1>1, <1>5, <1>6, SpotCount
<1>8. /\ Cardinality(Spots(i)) \in Nat /\ Cardinality(Spots(i) \ {<<t, 1>>}) \in Nat
      /\ Cardinality(Spots(i) \ {<<t, 1>>}) <= Cardinality(Spots(i))
  BY <1>1, Counted
<1>9. IsFiniteSet(Listed(i)') /\ Cardinality(Listed(i)') = Cardinality(Listed(i)) - Cardinality(G)
  <2>1. Listed(i) \cap G = G
    BY <1>0
  <2>2. /\ IsFiniteSet(Listed(i) \ G)
        /\ Cardinality(Listed(i) \ G) = Cardinality(Listed(i)) - Cardinality(Listed(i) \cap G)
    BY <1>1, FS_Difference
  <2>3. QED
    BY <1>0, <2>1, <2>2
<1>10. /\ Cardinality(Listed(i)) \in Nat /\ Cardinality(Spots(i)') \in Nat /\ Cardinality(G) \in Nat
       /\ Cardinality(B) \in Nat /\ Cardinality(Listed(i)') \in Nat
  BY <1>1, <1>2, <1>5, <1>7, <1>9, FS_CardinalityType
<1>11. Cardinality(Spots(i)') + Cardinality(Listed(i)') <= remaining[i] /\ remaining[i] <= MaxCompiles + 1
  BY <1>5, <1>7, <1>8, <1>9, <1>10 DEF OutOf
<1>12. QED
  BY <1>7, <1>9, <1>11 DEF OutOf

LEMMA OutSettles ==
    ASSUME PoolInv, OutInv, NEW t \in Threads, NEW tasks, Shape(t, tasks), Settles(t, tasks)
    PROVE  OutInv'
<1>0. Types /\ SourceInv /\ work \in [Threads -> Seq(Task)] /\ tasks \in Seq(Task) /\ Puts(t, tasks)
  BY ShapeWork DEF PoolInv
<1>1. PICK n \in Node : /\ conts' = [conts EXCEPT ![n] = <<>>] /\ tasks = Continuations(n)
                        /\ remaining' = remaining
  BY DEF Settles
<1>2. \A k \in DOMAIN tasks : k \in DOMAIN conts[n] /\ conts[n][k] \in Node /\ tasks[k] = <<"dep", conts[n][k]>>
  BY <1>0, <1>1, ContinuationTasks
<1>3. \A m \in Node : conts'[m] = IF m = n THEN <<>> ELSE conts[m]
  BY <1>0, <1>1 DEF Types
<1>4. \A k \in DOMAIN tasks : k \in Nat
  BY <1>0, PutsWork
<1>5. ASSUME NEW i \in 1 .. MaxLinks PROVE OutOf(i)'
  <2>1. PICK G : G = {p \in Listed(i) : p[1] = n}
    OBVIOUS
  <2>2. \A p \in Listed(i) : p \in Listed(i)' <=> p \notin G
    <3>1. SUFFICES ASSUME NEW p \in Listed(i) PROVE p \in Listed(i)' <=> p \notin G
      OBVIOUS
    <3>2. PICK a \in CompileNode, k \in Nat : p = <<a, k>> /\ k \in DOMAIN conts[a] /\ conts[a][k] = Link(i)
      BY DEF Listed
    <3>3. CASE a = n
      <4>1. conts'[a] = <<>>
        BY <1>3, <3>3, NodeKinds
      <4>2. k \notin DOMAIN conts'[a]
        BY <4>1
      <4>3. p \notin Listed(i)'
        BY <3>2, <4>2 DEF Listed
      <4>4. QED
        BY <2>1, <3>2, <3>3, <4>3
    <3>4. CASE a # n
      <4>1. conts'[a] = conts[a]
        BY <1>3, <3>4, NodeKinds
      <4>2. p \in Listed(i)'
        BY <3>2, <4>1 DEF Listed
      <4>3. QED
        BY <2>1, <3>2, <3>4, <4>2
    <3>5. QED
      BY <3>3, <3>4
  <2>3. \A p \in Listed(i)' : p \in Listed(i)
    <3>1. SUFFICES ASSUME NEW p \in Listed(i)' PROVE p \in Listed(i)
      OBVIOUS
    <3>2. PICK a \in CompileNode, k \in Nat : p = <<a, k>> /\ k \in DOMAIN conts'[a] /\ conts'[a][k] = Link(i)
      BY DEF Listed
    <3>3. conts'[a] = conts[a] \/ conts'[a] = <<>>
      BY <1>3, NodeKinds
    <3>4. conts'[a] = conts[a]
      BY <3>2, <3>3
    <3>5. QED
      BY <3>2, <3>4 DEF Listed
  <2>4. Listed(i)' = Listed(i) \ G /\ G \in SUBSET Listed(i)
    BY <2>1, <2>2, <2>3
  <2>5. ASSUME NEW k \in DOMAIN tasks, Waiting(tasks[k], i) PROVE \E p \in G : k = p[2]
    <3>1. conts[n][k] = Link(i) /\ k \in DOMAIN conts[n] /\ k \in Nat
      <4>1. PICK x : x = tasks[k] /\ x = <<"dep", conts[n][k]>> /\ Waiting(x, i)
        BY <1>2, <2>5
      <4>2. conts[n][k] = Link(i)
        BY <4>1 DEF Waiting
      <4>3. QED
        BY <1>2, <1>4, <4>2
    <3>2. n \in CompileNode
      <4>1. CASE n[1] = "link"
        <5>1. PICK j \in 1 .. MaxLinks : n = Link(j)
          BY <4>1, NodeKinds
        <5>2. conts[n] \in {<<>>, <<Spirv(j)>>} /\ Spirv(j)[1] = "spirv" /\ Link(i)[1] = "link"
          BY <1>0, <5>1, NodeKinds DEF SourceInv
        <5>3. conts[n][k] = Spirv(j)
          BY <3>1, <5>2
        <5>4. QED
          BY <3>1, <5>2, <5>3
      <4>2. CASE n[1] = "spirv"
        <5>1. PICK j \in 1 .. MaxLinks : n = Spirv(j)
          BY <4>2, NodeKinds
        <5>2. conts[n] = <<>>
          BY <1>0, <5>1 DEF SourceInv
        <5>3. QED
          BY <3>1, <5>2
      <4>3. QED
        BY <4>1, <4>2, NodeKinds
    <3>3. <<n, k>> \in Listed(i)
      BY <3>1, <3>2 DEF Listed
    <3>4. QED
      BY <2>1, <3>3
  <2>6. OutOf(i) /\ remaining'[i] = remaining[i] /\ remaining[i] \in Int
    BY <1>0, <1>1 DEF OutInv, Types
  <2>7. HandsOn(i, tasks, G)
    <3>1. \A k \in DOMAIN tasks : Waiting(tasks[k], i) => \E p \in G : k = p[2]
      BY <2>5
    <3>2. QED
      BY <2>4, <3>1 DEF HandsOn
  <2>8. work \in [Threads -> Seq(Task)] /\ tasks \in Seq(Task) /\ Puts(t, tasks)
    BY <1>0
  <2>9. OutOf(i)
    BY <2>6
  <2>10. remaining'[i] = remaining[i] /\ remaining[i] \in Int
    BY <2>6
  <2>11. QED
    BY <2>7, <2>8, <2>9, <2>10, OutHandedOn
<1>6. QED
  BY <1>5 DEF OutInv, OutOf, Spots, Listed, Waiting

(* A link that is not made is waited for by nobody.                        *)
LEMMA NothingOut ==
    ASSUME PoolInv, OutInv, NEW i \in 1 .. MaxLinks, remaining[i] <= 0
    PROVE  Spots(i) = {} /\ Listed(i) = {} /\ Cardinality(Spots(i)) = 0
<1>1. /\ IsFiniteSet(Spots(i)) /\ IsFiniteSet(Listed(i)) /\ remaining[i] \in Int
      /\ Cardinality(Spots(i)) + Cardinality(Listed(i)) <= remaining[i]
  BY DEF OutInv, OutOf, PoolInv, Types
<1>2. Cardinality(Spots(i)) \in Nat /\ Cardinality(Listed(i)) \in Nat
  BY <1>1, FS_CardinalityType
<1>3. Cardinality(Spots(i)) = 0 /\ Cardinality(Listed(i)) = 0
  BY <1>1, <1>2
<1>4. QED
  BY <1>1, <1>3, FS_EmptySet

(* A thread that enters link j waits for no other link.                    *)
LEMMA EntersOnly ==
    ASSUME NEW j \in 1 .. MaxLinks, NEW i \in 1 .. MaxLinks, i # j, NEW tasks,
           \/ tasks = InlineList(j)
           \/ \E ks \in SUBSET (1 .. MaxCompiles) : \E e \in InOrder(ks) :
                tasks = Edges(j, ks, e) \o << <<"dep", Link(j)>> >>
    PROVE  \A k \in DOMAIN tasks : ~Waiting(tasks[k], i)
<1>1. CASE tasks = InlineList(j)
  <2>1. \A k \in DOMAIN tasks : tasks[k][1] \in {"run", "publish", "publishB"}
    BY <1>1, InlineInert
  <2>2. QED
    BY <2>1 DEF Waiting
<1>2. ASSUME NEW ks \in SUBSET (1 .. MaxCompiles), NEW e \in InOrder(ks),
             tasks = Edges(j, ks, e) \o << <<"dep", Link(j)>> >>
      PROVE  \A k \in DOMAIN tasks : ~Waiting(tasks[k], i)
  <2>0. PICK q : q = Edges(j, ks, e) \o << <<"dep", Link(j)>> >>
    OBVIOUS
  <2>1. /\ Cardinality(ks) \in Nat /\ DOMAIN q = 1 .. Cardinality(ks) + 1
        /\ \A k \in 1 .. Cardinality(ks) :
             q[k] = <<"edge", [dep |-> <<"compile", e[k]>>, link |-> Link(j)]>>
        /\ q[Cardinality(ks) + 1] = <<"dep", Link(j)>>
    <3>1. EdgeList(j, ks, e, q)
      BY <2>0, EdgeTasks
    <3>2. QED
      BY <3>1 DEF EdgeList
  <2>5. tasks = q
    BY <1>2, <2>0
  <2>2. Link(i) # Link(j)
    BY DEF Link
  <2>3. ASSUME NEW k \in DOMAIN q PROVE ~Waiting(q[k], i)
    <3>1. k \in 1 .. Cardinality(ks) \/ k = Cardinality(ks) + 1
      BY <2>1
    <3>2. CASE k \in 1 .. Cardinality(ks)
      <4>1. PICK r : r = [dep |-> <<"compile", e[k]>>, link |-> Link(j)]
        OBVIOUS
      <4>2. q[k] = <<"edge", r>>
        BY <2>1, <3>2, <4>1
      <4>3. r.link = Link(j)
        BY <4>1
      <4>4. QED
        BY <2>2, <4>2, <4>3 DEF Waiting
    <3>3. CASE k = Cardinality(ks) + 1
      <4>1. q[k] = <<"dep", Link(j)>>
        BY <2>1, <3>3
      <4>2. QED
        BY <2>2, <4>1 DEF Waiting
    <3>4. QED
      BY <3>1, <3>2, <3>3
  <2>4. QED
    BY <2>3, <2>5
<1>3. QED
  BY <1>1, <1>2

LEMMA OutMakesLink ==
    ASSUME PoolInv, OutInv, NEW t \in Threads, NEW tasks, Shape(t, tasks), MakesLink(t, tasks)
    PROVE  OutInv'
<1>0. Types /\ SourceInv /\ work \in [Threads -> Seq(Task)] /\ tasks \in Seq(Task) /\ Puts(t, tasks)
  BY ShapeWork DEF PoolInv
<1>1. PICK j \in 1 .. MaxLinks, ks \in SUBSET (1 .. MaxCompiles) :
        /\ state[Link(j)] = "none"
        /\ \/ tasks = InlineList(j) /\ UNCHANGED <<conts, remaining>>
           \/ /\ conts' = [conts EXCEPT ![Link(j)] = <<Spirv(j)>>]
              /\ remaining' = [remaining EXCEPT ![j] = Cardinality(ks) + GuardSlot]
              /\ \E e \in InOrder(ks) : tasks = Edges(j, ks, e) \o << <<"dep", Link(j)>> >>
  <2>1. PICK j \in 1 .. MaxLinks, nodes \in SUBSET Compiled :
        /\ state[Link(j)] = "none"
        /\ \/ tasks = InlineList(j) /\ UNCHANGED <<conts, remaining>>
           \/ /\ conts' = [conts EXCEPT ![Link(j)] = <<Spirv(j)>>]
              /\ remaining' = [remaining EXCEPT ![j] = Cardinality(Unsettled(nodes)) + GuardSlot]
              /\ \E e \in InOrder(Unsettled(nodes)) :
                   tasks = Edges(j, Unsettled(nodes), e) \o << <<"dep", Link(j)>> >>
    BY DEF MakesLink
  <2>2. PICK ks \in SUBSET (1 .. MaxCompiles) : ks = Unsettled(nodes)
    BY DEF Unsettled
  <2>3. QED
    BY <2>1, <2>2
<1>2. \A m \in CompileNode : conts'[m] = conts[m]
  <2>1. ASSUME NEW m \in CompileNode PROVE m # Link(j) /\ m \in Node
    <3>1. m \in Node /\ m[1] = "compile" /\ Link(j)[1] = "link"
      BY NodeKinds
    <3>2. QED
      BY <3>1
  <2>2. QED
    BY <1>0, <1>1, <2>1 DEF Types
<1>3. \A i \in 1 .. MaxLinks : Listed(i)' = Listed(i)
  BY <1>2 DEF Listed
<1>4. ASSUME NEW i \in 1 .. MaxLinks, i # j PROVE OutOf(i)'
  <2>1. OutOf(i) /\ remaining[i] \in Int /\ remaining'[i] = remaining[i]
    BY <1>0, <1>1, <1>4 DEF OutInv, Types
  <2>2. \A k \in DOMAIN tasks : ~Waiting(tasks[k], i)
    BY <1>1, <1>4, EntersOnly
  <2>3. QED
    BY <1>0, <1>3, <2>1, <2>2, OutElsewhere
<1>5. OutOf(j)'
  <2>1. OutOf(j) /\ remaining[j] \in Int
    BY <1>0 DEF OutInv, Types
  <2>2. CASE tasks = InlineList(j) /\ UNCHANGED <<conts, remaining>>
    <3>1. \A k \in DOMAIN tasks : tasks[k][1] \in {"run", "publish", "publishB"}
      BY <2>2, InlineInert
    <3>2. \A k \in DOMAIN tasks : ~Waiting(tasks[k], j)
      BY <3>1 DEF Waiting
    <3>3. remaining'[j] = remaining[j]
      BY <2>2
    <3>4. QED
      BY <1>0, <1>3, <2>1, <3>2, <3>3, OutElsewhere
  <2>3. CASE /\ remaining' = [remaining EXCEPT ![j] = Cardinality(ks) + GuardSlot]
             /\ \E e \in InOrder(ks) : tasks = Edges(j, ks, e) \o << <<"dep", Link(j)>> >>
    <3>1. Spots(j) = {} /\ Listed(j) = {}
      BY <1>0, <1>1, NothingOut DEF SourceInv
    <3>2. PICK c \in Nat : c = Cardinality(ks) /\ DOMAIN tasks = 1 .. c + 1
      <4>1. PICK e \in InOrder(ks) : tasks = Edges(j, ks, e) \o << <<"dep", Link(j)>> >>
        BY <2>3
      <4>2. Cardinality(ks) \in Nat /\ DOMAIN tasks = 1 .. Cardinality(ks) + 1
        <5>1. EdgeList(j, ks, e, tasks)
          BY <4>1, EdgeTasks
        <5>2. QED
          BY <5>1 DEF EdgeList
      <4>3. QED
        BY <4>2
    <3>3. c <= MaxCompiles
      <4>1. MaxCompiles \in Nat
        BY PoolAssumption
      <4>2. IsFiniteSet(1 .. MaxCompiles) /\ Cardinality(1 .. MaxCompiles) = MaxCompiles
        BY <4>1, FS_Interval
      <4>3. Cardinality(ks) <= Cardinality(1 .. MaxCompiles)
        BY <4>2, FS_Subset
      <4>4. QED
        BY <3>2, <4>2, <4>3
    <3>4. PICK B : B = 1 .. c + 1 /\ IsFiniteSet(B) /\ Cardinality(B) = c + 1
      BY FS_Interval
    <3>5. IsFiniteSet(Spots(j)') /\ Cardinality(Spots(j)') <= Cardinality(Spots(j) \ {<<t, 1>>}) + Cardinality(B)
      <4>1. IsFiniteSet(Spots(j))
        BY <2>1 DEF OutOf
      <4>2. \A k \in DOMAIN tasks : Waiting(tasks[k], j) => k \in B
        BY <3>2, <3>4
      <4>3. QED
        BY <1>0, <3>4, <4>1, <4>2, SpotCount
    <3>6. Spots(j) \ {<<t, 1>>} = {} /\ Cardinality({}) = 0 /\ IsFiniteSet({})
      BY <3>1, FS_EmptySet
    <3>7. Listed(j)' = {}
      BY <1>3, <3>1
    <3>8. remaining'[j] = c + 1
      BY <1>0, <2>3, <3>2 DEF Types, GuardSlot
    <3>9. Cardinality(Spots(j)') <= c + 1 /\ Cardinality(Spots(j)') \in Nat
      <4>1. Cardinality(Spots(j)') \in Nat
        BY <3>5, FS_CardinalityType
      <4>2. Cardinality(Spots(j) \ {<<t, 1>>}) = 0
        BY <3>6
      <4>3. QED
        BY <3>4, <3>5, <4>1, <4>2
    <3>10. Cardinality(Spots(j)') + 0 <= c + 1 /\ c + 1 <= MaxCompiles + 1
      BY <3>3, <3>9, PoolAssumption
    <3>11. QED
      BY <3>5, <3>6, <3>7, <3>8, <3>10 DEF OutOf
  <2>4. QED
    BY <1>1, <2>2, <2>3
<1>6. QED
  BY <1>4, <1>5 DEF OutInv, OutOf, Spots, Listed, Waiting

LEMMA OutInvKeeps ==
    ASSUME PoolInv, OutInv, NEW t \in Threads, NEW tasks, Shape(t, tasks)
    PROVE  OutInv'
BY OutStays, OutCounts, OutRegisters, OutSettles, OutMakesLink DEF Shape
-----------------------------------------------------------------------------
(* A link waits for its snapshot                                           *)

LEMMA EdgeParts ==
    ASSUME NEW n, NEW m, NEW i \in 1 .. MaxLinks, NEW j \in 1 .. MaxLinks, EdgeTo(n, i) = EdgeTo(m, j)
    PROVE  n = m /\ i = j
<1>1. PICK r, q : r = [dep |-> n, link |-> Link(i)] /\ q = [dep |-> m, link |-> Link(j)]
  OBVIOUS
<1>2. <<"edge", r>> = <<"edge", q>>
  BY <1>1 DEF EdgeTo
<1>3. r = q
  BY <1>2
<1>4. r.dep = n /\ q.dep = m /\ r.link = Link(i) /\ q.link = Link(j)
  BY <1>1
<1>5. Link(i)[2] = i /\ Link(j)[2] = j
  BY DEF Link
<1>6. QED
  BY <1>3, <1>4, <1>5

(* A thread that is at an edge registers it.                               *)
LEMMA AtAnEdge ==
    ASSUME PoolInv, NEW t \in Threads, NEW tasks, Shape(t, tasks), NEW n, NEW i \in 1 .. MaxLinks,
           HeadIs(t, EdgeTo(n, i))
    PROVE  Registers(t, tasks)
<1>1. /\ 1 \in DOMAIN work[t] /\ work[t] # <<>> /\ work[t][1][1] = "edge"
      /\ \A c : HeadIs(t, c) => c[1] = "edge"
  <2>1. EdgeTo(n, i)[1] = "edge"
    BY DEF EdgeTo
  <2>2. QED
    BY <2>1 DEF HeadIs
<1>2. ~Stays(t, tasks)
  BY <1>1 DEF Stays, Inert
<1>3. ~MakesCompile(t, tasks)
  BY <1>1 DEF MakesCompile
<1>4. ASSUME NEW op, op # "edge", NEW x PROVE ~HeadIs(t, <<op, x>>)
  <2>1. <<op, x>>[1] = op
    OBVIOUS
  <2>2. QED
    BY <1>1, <1>4, <2>1
<1>5. ~Settles(t, tasks)
  BY <1>4 DEF Settles
<1>6. ~Starts(t, tasks)
  BY <1>4 DEF Starts
<1>7. ~Counts(t, tasks)
  BY <1>4 DEF Counts
<1>8. ~MakesLink(t, tasks)
  BY <1>4 DEF MakesLink
<1>9. QED
  BY <1>2, <1>3, <1>5, <1>6, <1>7, <1>8 DEF Shape

(* The list of a compile only grows until it settles.                      *)
LEMMA ListGrows ==
    ASSUME PoolInv, NEW t \in Threads, NEW tasks, Shape(t, tasks), NEW n \in CompileNode, ~Terminal(n)',
           NEW k \in DOMAIN conts[n]
    PROVE  k \in DOMAIN conts'[n] /\ conts'[n][k] = conts[n][k]
<1>0. Types /\ n \in Node
  BY NodeKinds DEF PoolInv
<1>1. CASE Stays(t, tasks) \/ Starts(t, tasks) \/ Counts(t, tasks) \/ MakesCompile(t, tasks)
  BY <1>1 DEF Stays, Starts, Counts, MakesCompile
<1>2. CASE Settles(t, tasks)
  <2>1. PICK m \in Node, to \in {"Complete", "Canceled"} :
          state' = [state EXCEPT ![m] = to] /\ conts' = [conts EXCEPT ![m] = <<>>]
    BY <1>2 DEF Settles
  <2>2. m # n
    BY <1>0, <2>1 DEF Types, Terminal
  <2>3. QED
    BY <1>0, <2>1, <2>2 DEF Types
<1>3. CASE Registers(t, tasks)
  <2>1. PICK m \in CompileNode, j \in 1 .. MaxLinks : conts' = conts \/ conts' = [conts EXCEPT ![m] = Append(@, Link(j))]
    BY <1>3 DEF Registers
  <2>2. PICK s \in Seq(Node), l \in Nat : s = conts[n] /\ l = Len(s) /\ DOMAIN s = 1 .. l
    <3>1. PICK s \in Seq(Node) : s = conts[n]
      BY <1>0 DEF Types
    <3>2. QED
      BY <3>1, SeqElements
  <2>3. Link(j) \in Node
    BY NodeKinds
  <2>4. k \in DOMAIN Append(s, Link(j)) /\ Append(s, Link(j))[k] = s[k]
    BY <2>2, <2>3
  <2>5. conts'[n] = conts[n] \/ conts'[n] = Append(s, Link(j))
    BY <1>0, <2>1, <2>2 DEF Types
  <2>6. QED
    BY <2>2, <2>4, <2>5
<1>4. CASE MakesLink(t, tasks)
  <2>1. PICK j \in 1 .. MaxLinks : conts' = conts \/ conts' = [conts EXCEPT ![Link(j)] = <<Spirv(j)>>]
    BY <1>4 DEF MakesLink
  <2>2. Link(j) # n
    <3>1. n[1] = "compile" /\ Link(j)[1] = "link"
      BY NodeKinds
    <3>2. QED
      BY <3>1
  <2>3. QED
    BY <1>0, <2>1, <2>2 DEF Types
<1>5. QED
  BY <1>1, <1>2, <1>3, <1>4 DEF Shape

LEMMA AwaitedKept ==
    ASSUME PoolInv, RunInv, NEW t \in Threads, NEW tasks, Shape(t, tasks), NEW n \in CompileNode,
           NEW i \in 1 .. MaxLinks, Awaited(n, i)
    PROVE  Terminal(n)' \/ Awaited(n, i)'
<1>0. /\ Types /\ work \in [Threads -> Seq(Task)] /\ tasks \in Seq(Task) /\ Puts(t, tasks) /\ n \in Node
  BY ShapeWork, NodeKinds
<1>1. SUFFICES ASSUME ~Terminal(n)' PROVE Awaited(n, i)'
  OBVIOUS
<1>2. CASE \E k \in DOMAIN conts[n] : conts[n][k] = Link(i)
  <2>1. PICK k \in DOMAIN conts[n] : conts[n][k] = Link(i)
    BY <1>2
  <2>2. k \in DOMAIN conts'[n] /\ conts'[n][k] = Link(i)
    BY <1>1, <2>1, ListGrows
  <2>3. QED
    BY <2>2 DEF Awaited, Link
<1>3. ASSUME NEW u \in Threads, HasAt(u, EdgeTo(n, i)) PROVE Awaited(n, i)'
  <2>1. PICK c : c = EdgeTo(n, i)
    OBVIOUS
  <2>2. HasAt(u, c)' \/ HeadIs(t, c)
    BY <1>0, <1>3, <2>1, HasAfter
  <2>3. CASE HasAt(u, c)'
    <3>1. Has(c)'
      BY <2>3 DEF Has
    <3>2. QED
      BY <2>1, <3>1 DEF Awaited, EdgeTo, Link, Has, HasAt
  <2>4. CASE HeadIs(t, c)
    <3>1. Registers(t, tasks)
      BY <2>1, <2>4, AtAnEdge
    <3>2. PICK m \in CompileNode, j \in 1 .. MaxLinks :
            /\ HeadIs(t, EdgeTo(m, j)) /\ state' = state
            /\ \/ Terminal(m)
               \/ conts' = [conts EXCEPT ![m] = Append(@, Link(j))]
      BY <3>1 DEF Registers
    <3>3. EdgeTo(m, j) = EdgeTo(n, i)
      BY <2>1, <2>4, <3>2 DEF HeadIs
    <3>4. m = n /\ j = i
      BY <3>3, EdgeParts
    <3>5. conts' = [conts EXCEPT ![n] = Append(@, Link(i))]
      BY <1>1, <3>2, <3>4 DEF Terminal
    <3>6. PICK s \in Seq(Node), l \in Nat : s = conts[n] /\ l = Len(s) /\ DOMAIN s = 1 .. l
      <4>1. PICK s \in Seq(Node) : s = conts[n]
        BY <1>0 DEF Types
      <4>2. QED
        BY <4>1, SeqElements
    <3>7. Link(i) \in Node
      BY NodeKinds
    <3>8. conts'[n] = Append(s, Link(i))
      BY <1>0, <3>5, <3>6 DEF Types
    <3>9. l + 1 \in DOMAIN Append(s, Link(i)) /\ Append(s, Link(i))[l + 1] = Link(i)
      BY <3>6, <3>7
    <3>10. l + 1 \in DOMAIN conts'[n] /\ conts'[n][l + 1] = Link(i)
      BY <3>8, <3>9
    <3>11. QED
      BY <3>10 DEF Awaited, Link
  <2>5. QED
    BY <2>2, <2>3, <2>4
<1>4. QED
  BY <1>2, <1>3 DEF Awaited, Has

(* A new link waits for what its snapshot needs: its thread has an edge to *)
(* register for each compile that has not settled, or, the pool being      *)
(* suspended, the only context has waited for all it holds.                *)
LEMMA NewLinkWaits ==
    ASSUME PoolInv, RunInv, HeldInv, LinkAlone, Calm, NEW t \in Threads, NEW tasks, Shape(t, tasks),
           NEW i \in 1 .. MaxLinks, NEW nodes \in SUBSET Compiled, NEW Q \in SUBSET Shaders,
           t \in GL, HeadIs(t, <<"link", Q>>), nodes = {compiled[s] : s \in Q},
           \/ suspended
           \/ \E e \in InOrder(Unsettled(nodes)) :
                tasks = Edges(i, Unsettled(nodes), e) \o << <<"dep", Link(i)>> >>,
           NEW n \in CompileNode, n \in nodes
    PROVE  Terminal(n) \/ Awaited(n, i)'
<1>0. /\ Types /\ work \in [Threads -> Seq(Task)] /\ tasks \in Seq(Task) /\ Puts(t, tasks) /\ n \in Node
  BY ShapeWork, NodeKinds
<1>1. SUFFICES ASSUME ~Terminal(n) PROVE Awaited(n, i)'
  OBVIOUS
<1>2. CASE suspended
  <2>1. OneContext
    BY <1>2 DEF Calm
  <2>2. PICK s \in Shaders : n = compiled[s]
    OBVIOUS
  <2>3. HasAt(s[1], <<"pull", s>>)
    BY <1>1, <1>2, <2>1, <2>2 DEF HeldInv
  <2>4. s[1] = t
    BY <2>1 DEF OneContext, Shaders
  <2>5. PICK k \in DOMAIN work[t] : work[t][k][1] = "pull"
    BY <2>3, <2>4 DEF HasAt
  <2>6. 1 \in DOMAIN work[t] /\ work[t][1][1] = "link"
    BY DEF HeadIs
  <2>7. QED
    BY <2>5, <2>6 DEF LinkAlone
<1>3. ASSUME NEW e \in InOrder(Unsettled(nodes)),
             tasks = Edges(i, Unsettled(nodes), e) \o << <<"dep", Link(i)>> >>
      PROVE  Awaited(n, i)'
  <2>1. PICK ks \in SUBSET (1 .. MaxCompiles) : ks = Unsettled(nodes)
    BY DEF Unsettled
  <2>2. PICK k \in 1 .. MaxCompiles : n = <<"compile", k>>
    BY DEF CompileNode
  <2>3. k \in ks
    BY <1>1, <2>1, <2>2 DEF Unsettled
  <2>4. e \in InOrder(ks)
    BY <2>1
  <2>5. PICK a \in 1 .. Cardinality(ks) : e[a] = k
    <3>1. PICK N \in Nat : N = MaxCompiles
      BY PoolAssumption
    <3>2. ks \in SUBSET (1 .. N)
      BY <3>1
    <3>3. \A x \in ks : \E b \in 1 .. Cardinality(ks) : e[b] = x
      BY <2>4, <3>2, InOrderOnto
    <3>4. QED
      BY <2>3, <3>3
  <2>6. PICK q : q = Edges(i, ks, e) \o << <<"dep", Link(i)>> >>
    OBVIOUS
  <2>0. EdgeList(i, ks, e, q)
    BY <2>4, <2>6, EdgeTasks
  <2>7. Cardinality(ks) \in Nat /\ DOMAIN q = 1 .. Cardinality(ks) + 1
    BY <2>0 DEF EdgeList
  <2>8. \A b \in 1 .. Cardinality(ks) : q[b] = <<"edge", [dep |-> <<"compile", e[b]>>, link |-> Link(i)]>>
    BY <2>0 DEF EdgeList
  <2>9. a \in DOMAIN tasks /\ tasks[a] = EdgeTo(n, i)
    <3>1. tasks = q
      BY <1>3, <2>1, <2>6
    <3>2. a \in DOMAIN q
      BY <2>5, <2>7
    <3>3. q[a] = EdgeTo(n, i)
      BY <2>2, <2>5, <2>8 DEF EdgeTo
    <3>4. QED
      BY <3>1, <3>2, <3>3
  <2>10. PICK c : c = EdgeTo(n, i) /\ Among(tasks, c)
    BY <2>9 DEF Among
  <2>11. HasAt(t, c)'
    BY <1>0, <2>10, HasAfter
  <2>12. Has(c)'
    BY <2>11 DEF Has
  <2>13. QED
    BY <2>10, <2>12 DEF Awaited, EdgeTo, Link, Has, HasAt
<1>4. QED
  BY <1>2, <1>3

LEMMA PendInvKeeps ==
    ASSUME PoolInv, RunInv, PendInv, HeldInv, LinkAlone, Calm,
           NEW t \in Threads, NEW tasks, Shape(t, tasks)
    PROVE  PendInv'
<1>0. Types
  BY DEF PoolInv
<1>1. ASSUME NEW i \in 1 .. MaxLinks, NEW n \in CompileNode, n \in snap'[i]
      PROVE  Terminal(n)' \/ Awaited(n, i)'
  <2>0. n \in Node
    BY NodeKinds
  <2>1. CASE n \in snap[i]
    <3>1. Terminal(n) \/ Awaited(n, i)
      BY <2>1 DEF PendInv
    <3>2. Terminal(n) => Terminal(n)'
      BY <2>0, TerminalStays
    <3>3. QED
      BY <3>1, <3>2, AwaitedKept
  <2>2. CASE n \notin snap[i]
    <3>1. MakesLink(t, tasks)
      <4>1. snap' # snap
        BY <1>1, <2>2
      <4>2. QED
        BY <4>1 DEF Shape, Stays, Settles, Starts, Counts, Registers, MakesCompile
    <3>2. PICK j \in 1 .. MaxLinks, Q \in SUBSET Shaders, nodes \in SUBSET Compiled :
            /\ t \in GL /\ HeadIs(t, <<"link", Q>>) /\ nodes = {compiled[s] : s \in Q}
            /\ snap' = [snap EXCEPT ![j] = nodes]
            /\ \/ suspended
               \/ \E e \in InOrder(Unsettled(nodes)) :
                    tasks = Edges(j, Unsettled(nodes), e) \o << <<"dep", Link(j)>> >>
      BY <3>1 DEF MakesLink
    <3>3. i = j /\ n \in nodes
      BY <1>0, <1>1, <2>2, <3>2 DEF Types
    <3>4. Terminal(n) \/ Awaited(n, j)'
      BY <3>2, <3>3, NewLinkWaits
    <3>5. Terminal(n) => Terminal(n)'
      BY <2>0, TerminalStays
    <3>6. QED
      BY <3>3, <3>4, <3>5
  <2>3. QED
    BY <2>1, <2>2
<1>2. QED
  BY <1>1 DEF PendInv, Terminal, Awaited, EdgeTo, Has, HasAt
-----------------------------------------------------------------------------
(* Ready bodies and true verdicts                                          *)

(* The body of a link is on its way only when every compile of its         *)
(* snapshot has settled.                                                   *)
LEMMA LinkReady ==
    ASSUME PoolInv, OutInv, PendInv, NEW i \in 1 .. MaxLinks, OnItsWay(Link(i))
    PROVE  \A n \in snap[i] \cap CompileNode : Terminal(n)
<1>1. remaining[i] <= 0
  BY DEF PoolInv, SourceInv
<1>2. Spots(i) = {} /\ Listed(i) = {}
  BY <1>1, NothingOut
<1>3. ASSUME NEW n \in CompileNode, Awaited(n, i) PROVE FALSE
  <2>0. Types /\ n \in Node
    BY NodeKinds DEF PoolInv
  <2>1. CASE \E k \in DOMAIN conts[n] : conts[n][k] = Link(i)
    <3>1. PICK k \in DOMAIN conts[n] : conts[n][k] = Link(i)
      BY <2>1
    <3>2. k \in Nat
      <4>1. PICK s \in Seq(Node) : s = conts[n]
        BY <2>0 DEF Types
      <4>2. QED
        BY <3>1, <4>1
    <3>3. <<n, k>> \in Listed(i)
      BY <3>1, <3>2 DEF Listed
    <3>4. QED
      BY <1>2, <3>3
  <2>2. CASE Has(EdgeTo(n, i))
    <3>1. PICK u \in Threads : \E k \in DOMAIN work[u] : work[u][k] = EdgeTo(n, i)
      BY <2>2 DEF Has, HasAt
    <3>2. PICK k \in DOMAIN work[u] : work[u][k] = EdgeTo(n, i)
      BY <3>1
    <3>3. k \in Nat
      <4>1. PICK s \in Seq(Task) : s = work[u]
        BY <2>0 DEF Types
      <4>2. QED
        BY <3>2, <4>1
    <3>4. Waiting(work[u][k], i)
      <4>1. PICK r : r = [dep |-> n, link |-> Link(i)]
        OBVIOUS
      <4>2. work[u][k] = <<"edge", r>> /\ r.link = Link(i)
        BY <3>2, <4>1 DEF EdgeTo
      <4>3. QED
        BY <4>2 DEF Waiting
    <3>5. <<u, k>> \in Spots(i)
      BY <3>2, <3>3, <3>4 DEF Spots
    <3>6. QED
      BY <1>2, <3>5
  <2>3. QED
    BY <1>3, <2>1, <2>2 DEF Awaited
<1>4. QED
  BY <1>3 DEF PendInv

LEMMA HeadOnItsWay ==
    ASSUME NEW t \in Threads, NEW n \in Node, HeadIs(t, <<"run", n>>) \/ HeadIs(t, <<"finish", n>>)
    PROVE  OnItsWay(n)
BY DEF HeadIs, OnItsWay, Holds, Ticket

(* The SPIR-V job's body starts behind its link.                           *)
LEMMA SpirvReady ==
    ASSUME PoolInv, SpirvInv, NEW t \in Threads, NEW i \in 1 .. MaxLinks,
           HeadIs(t, <<"run", Spirv(i)>>), state[Spirv(i)] = "Pending"
    PROVE  Terminal(Link(i))
<1>1. OnItsWay(Spirv(i)) /\ Spirv(i) \in Node
  BY NodeKinds, HeadOnItsWay
<1>2. conts[Link(i)] = <<>>
  BY <1>1 DEF PoolInv, SourceInv
<1>3. state[Link(i)] # "none"
  BY DEF PoolInv, MadeInv
<1>4. ~Inline(i)
  <2>1. SUFFICES ASSUME Inline(i) PROVE FALSE
    OBVIOUS
  <2>2. PICK u \in Threads : \E j, k \in DOMAIN work[u] :
          j < k /\ work[u][k] = <<"run", Spirv(i)>>
    BY <2>1 DEF Inline
  <2>3. PICK j \in DOMAIN work[u], k \in DOMAIN work[u] : j < k /\ work[u][k] = <<"run", Spirv(i)>>
    BY <2>2
  <2>4. /\ 1 \in DOMAIN work[t] /\ Ticket(work[t][1], Spirv(i))
        /\ Ticket(work[u][k], Spirv(i))
    BY <2>3 DEF HeadIs, Ticket
  <2>5. k = 1
    BY <1>1, <2>3, <2>4 DEF PoolInv, OnceInv
  <2>6. j \in Nat /\ j > 0
    <3>1. PICK s \in Seq(Task) : s = work[u]
      BY DEF PoolInv, Types
    <3>2. QED
      BY <2>3, <3>1
  <2>7. QED
    BY <2>3, <2>5, <2>6
<1>5. <<Spirv(i)>> # <<>>
  OBVIOUS
<1>6. QED
  BY <1>2, <1>3, <1>4, <1>5 DEF SpirvInv

(* What a step does to the snapshot of a link that is made: nothing.       *)
LEMMA SnapStays ==
    ASSUME PoolInv, NEW t \in Threads, NEW tasks, Shape(t, tasks), NEW i \in 1 .. MaxLinks,
           state[Link(i)] # "none"
    PROVE  snap'[i] = snap[i]
<1>1. CASE ~MakesLink(t, tasks)
  BY <1>1 DEF Shape, Stays, Settles, Starts, Counts, Registers, MakesCompile
<1>2. CASE MakesLink(t, tasks)
  <2>1. PICK j \in 1 .. MaxLinks, nodes \in SUBSET Compiled : state[Link(j)] = "none" /\ snap' = [snap EXCEPT ![j] = nodes]
    BY <1>2 DEF MakesLink
  <2>2. j # i
    BY <2>1
  <2>3. QED
    BY <2>1, <2>2 DEF PoolInv, Types
<1>3. QED
  BY <1>1, <1>2

LEMMA VerdictStays ==
    ASSUME PoolInv, NEW t \in Threads, NEW tasks, Shape(t, tasks), NEW i \in 1 .. MaxLinks,
           ~HeadIs(t, <<"finish", Link(i)>>)
    PROVE  verdict'[i] = verdict[i]
BY DEF Shape, Stays, Settles, NewVerdicts, Starts, Counts, Registers, MakesCompile, MakesLink

(* A link completes when its body returns, with the verdict it reads then. *)
LEMMA Completes ==
    ASSUME PoolInv, RunInv, NEW t \in Threads, NEW tasks, Shape(t, tasks), NEW n \in Node,
           state[n] # "Complete", state'[n] = "Complete"
    PROVE  /\ HeadIs(t, <<"finish", n>>) /\ Settles(t, tasks)
           /\ \A m \in Node : m # n => state'[m] = state[m]
<1>0. Types
  BY DEF PoolInv
<1>1. Settles(t, tasks)
  <2>1. ~(Stays(t, tasks) \/ Counts(t, tasks) \/ Registers(t, tasks))
    BY DEF Stays, Counts, Registers
  <2>2. ~Starts(t, tasks)
    BY <1>0 DEF Starts, Types
  <2>3. ~MakesCompile(t, tasks)
    BY <1>0 DEF MakesCompile, Types
  <2>4. ~MakesLink(t, tasks)
    BY <1>0 DEF MakesLink, Types
  <2>5. QED
    BY <2>1, <2>2, <2>3, <2>4 DEF Shape
<1>2. PICK m \in Node, to \in {"Complete", "Canceled"} :
        /\ HeadIs(t, <<"finish", m>>) \/ to = "Canceled"
        /\ state' = [state EXCEPT ![m] = to]
  BY <1>1 DEF Settles
<1>3. m = n /\ to = "Complete"
  BY <1>0, <1>2 DEF Types
<1>4. QED
  BY <1>0, <1>1, <1>2, <1>3 DEF Types

LEMMA VerdictsKept ==
    ASSUME PoolInv, RunInv, OutInv, PendInv, LinkVerdictTrue,
           NEW t \in Threads, NEW tasks, Shape(t, tasks)
    PROVE  LinkVerdictTrue'
<1>0. Types
  BY DEF PoolInv
<1>1. SUFFICES ASSUME NEW i \in 1 .. MaxLinks, state'[Link(i)] = "Complete", ~verdict'[i]
               PROVE  \E n \in snap'[i] : n = None \/ state'[n] = "Canceled"
  BY DEF LinkVerdictTrue, Link
<1>2. Link(i) \in Node
  BY NodeKinds
<1>3. snap'[i] = snap[i] /\ snap[i] \in SUBSET Compiled
  <2>1. state[Link(i)] # "none"
    <3>1. state'[Link(i)] = state[Link(i)] \/ Moves(Link(i), state'[Link(i)])
      BY <1>2, StatesMove
    <3>2. QED
      BY <1>1, <3>1 DEF Moves
  <2>2. snap'[i] = snap[i]
    BY <2>1, SnapStays
  <2>3. QED
    BY <1>0, <2>2 DEF Types
<1>4. CASE state[Link(i)] = "Complete"
  <2>1. ~HeadIs(t, <<"finish", Link(i)>>)
    BY <1>0, <1>2, <1>4, FinishRuns
  <2>2. ~verdict[i]
    BY <1>1, <2>1, VerdictStays
  <2>3. PICK n \in snap[i] : n = None \/ state[n] = "Canceled"
    BY <1>4, <2>2 DEF LinkVerdictTrue
  <2>4. CASE n = None
    BY <1>3, <2>3, <2>4
  <2>5. CASE n # None
    <3>1. n \in Node /\ Terminal(n) /\ state[n] = "Canceled"
      BY <1>3, <2>3, <2>5, NodeKinds DEF Compiled, Terminal
    <3>2. state'[n] = "Canceled"
      BY <3>1, TerminalStays
    <3>3. QED
      BY <1>3, <2>3, <3>2
  <2>6. QED
    BY <2>4, <2>5
<1>5. CASE state[Link(i)] # "Complete"
  <2>1. /\ HeadIs(t, <<"finish", Link(i)>>) /\ Settles(t, tasks)
        /\ \A m \in Node : m # Link(i) => state'[m] = state[m]
    BY <1>1, <1>2, <1>5, Completes
  <2>2. verdict'[i] = LinkVerdict(i)
    BY <2>1 DEF Settles, NewVerdicts
  <2>3. PICK n \in snap[i] : n = None \/ state[n] # "Complete"
    BY <1>1, <2>2 DEF LinkVerdict
  <2>4. CASE n = None
    BY <1>3, <2>3, <2>4
  <2>5. CASE n # None
    <3>1. n \in CompileNode /\ n \in Node /\ n # Link(i)
      <4>1. n \in CompileNode
        BY <1>3, <2>3, <2>5 DEF Compiled
      <4>2. n \in Node /\ n[1] = "compile" /\ Link(i)[1] = "link"
        BY <4>1, NodeKinds
      <4>3. QED
        BY <4>1, <4>2
    <3>2. OnItsWay(Link(i))
      BY <1>2, <2>1, HeadOnItsWay
    <3>3. Terminal(n)
      BY <2>3, <3>1, <3>2, LinkReady
    <3>4. state'[n] = "Canceled"
      BY <2>1, <2>3, <2>5, <3>1, <3>3 DEF Terminal
    <3>5. QED
      BY <1>3, <2>3, <3>4
  <2>6. QED
    BY <2>4, <2>5
<1>6. QED
  BY <1>4, <1>5
-----------------------------------------------------------------------------
(* The specification                                                       *)

(* The links' invariant, for any number of contexts.                       *)
LinkInv ==
    /\ PoolInv /\ VerdictType /\ LockInv /\ RunInv /\ OutInv /\ SpirvInv /\ HeldInv /\ LinkAlone

LEMMA LinkInit ==
    ASSUME Init
    PROVE  LinkInv /\ PendInv /\ LinkVerdictTrue
<1>1. PoolInv
  BY InitInv
<1>2. \A t \in Threads : work[t] = <<>>
  BY DEF Init
<1>3. DOMAIN <<>> = {}
  OBVIOUS
<1>4. \A i \in 1 .. MaxLinks : /\ remaining[i] = 0 /\ snap[i] = {} /\ verdict[i] = FALSE
                               /\ Link(i) \in Node /\ state[Link(i)] = "none"
  BY NodeKinds DEF Init
<1>5. VerdictType /\ LockInv /\ RunInv /\ LinkAlone
  BY <1>2, <1>3 DEF Init, VerdictType, LockInv, RunInv, LinkAlone
<1>6. SpirvInv /\ PendInv /\ LinkVerdictTrue
  BY <1>4 DEF SpirvInv, PendInv, LinkVerdictTrue
<1>7. HeldInv
  <2>1. \A s \in Shaders : compiled[s] = None
    BY DEF Init
  <2>2. QED
    BY <2>1, NoneAssumption DEF HeldInv
<1>8. OutInv
  <2>1. ASSUME NEW i \in 1 .. MaxLinks PROVE OutOf(i)
    <3>1. Spots(i) = {}
      BY <1>2, <1>3 DEF Spots
    <3>2. Listed(i) = {}
      <4>1. \A n \in CompileNode : conts[n] = <<>>
        BY NodeKinds DEF Init
      <4>2. QED
        BY <1>3, <4>1 DEF Listed
    <3>3. IsFiniteSet({}) /\ Cardinality({}) = 0
      BY FS_EmptySet
    <3>4. 0 + 0 <= 0 /\ 0 <= MaxCompiles + 1
      BY PoolAssumption
    <3>5. QED
      BY <1>4, <3>1, <3>2, <3>3, <3>4 DEF OutOf
  <2>2. QED
    BY <2>1 DEF OutInv
<1>9. QED
  BY <1>1, <1>5, <1>6, <1>7, <1>8 DEF LinkInv

LEMMA LinkStutter ==
    ASSUME LinkInv, UNCHANGED vars
    PROVE  LinkInv' /\ (PendInv => PendInv') /\ (LinkVerdictTrue => LinkVerdictTrue')
<1>1. /\ PoolInv /\ VerdictType /\ LockInv /\ RunInv /\ OutInv /\ SpirvInv /\ HeldInv /\ LinkAlone
  BY DEF LinkInv
<1>2. UNCHANGED <<state, conts, remaining, snap, verdict, lock, suspended, compiled, work>>
  BY DEF vars, nodeVars, linkVars, poolVars, modeVars, shaderVars, progVars, boundVars
<1>3. PoolInv'
  BY <1>1, StutterKeeps
<1>4. VerdictType' /\ LockInv' /\ RunInv' /\ LinkAlone'
  BY <1>1, <1>2 DEF VerdictType, LockInv, RunInv, LinkAlone
<1>5. OutInv'
  BY <1>1, <1>2 DEF OutInv, OutOf, Spots, Listed, Waiting
<1>6. SpirvInv'
  BY <1>1, <1>2 DEF SpirvInv, Terminal, Inline, Runs
<1>7. HeldInv'
  BY <1>1, <1>2 DEF HeldInv, Terminal, HasAt, OneContext
<1>8. PendInv => PendInv'
  BY <1>2 DEF PendInv, Terminal, Awaited, Has, HasAt, EdgeTo
<1>9. LinkVerdictTrue => LinkVerdictTrue'
  BY <1>2 DEF LinkVerdictTrue
<1>10. QED
  BY <1>3, <1>4, <1>5, <1>6, <1>7, <1>8, <1>9 DEF LinkInv

LEMMA LinkNext ==
    ASSUME LinkInv, [Next]_vars
    PROVE  /\ LinkInv'
           /\ Calm /\ PendInv => PendInv'
           /\ Calm /\ PendInv /\ LinkVerdictTrue => LinkVerdictTrue'
<1>0. /\ PoolInv /\ VerdictType /\ LockInv /\ RunInv /\ OutInv /\ SpirvInv /\ HeldInv /\ LinkAlone
  BY DEF LinkInv
<1>1. CASE UNCHANGED vars
  BY <1>1, LinkStutter
<1>2. CASE Next
  <2>1. PICK t \in Threads : Shaped(t)
    BY <1>0, <1>2, StepShape
  <2>2. PICK tasks : Shape(t, tasks)
    BY <2>1 DEF Shaped
  <2>3. PoolInv'
    BY <1>0, <1>2, StepInv
  <2>4. VerdictType' /\ LockInv'
    BY <1>0, <2>2, VerdictKeeps
  <2>5. RunInv' /\ OutInv'
    BY <1>0, <2>2, RunInvKeeps, OutInvKeeps
  <2>6. SpirvInv' /\ HeldInv' /\ LinkAlone'
    BY <1>0, <2>2, SpirvInvKeeps, HeldInvKeeps, LinkAloneKeeps
  <2>7. Calm /\ PendInv => PendInv'
    BY <1>0, <2>2, PendInvKeeps
  <2>8. PendInv /\ LinkVerdictTrue => LinkVerdictTrue'
    BY <1>0, <2>2, VerdictsKept
  <2>9. QED
    BY <2>3, <2>4, <2>5, <2>6, <2>7, <2>8 DEF LinkInv
<1>3. QED
  BY <1>1, <1>2

(* The inductive invariant of the links, with any number of contexts:      *)
(* what a link's count covers (ProgramLinkTask.cpp:753-790), where its     *)
(* SPIR-V job is (ProgramSpirvTask.cpp:42-79), and what the only context   *)
(* has waited for when it has suspended the pool.                          *)
THEOREM LinksInvariant == Spec => []LinkInv
<1>1. Init => LinkInv
  BY LinkInit
<1>2. LinkInv /\ [Next]_vars => LinkInv'
  BY LinkNext
<1>3. QED
  BY <1>1, <1>2, PTL DEF Spec

LEMMA LinkTypes ==
    ASSUME LinkInv
    PROVE  IInv
<1>0. /\ Types /\ HoldersCounted /\ SlotInv /\ OutInv /\ LockInv
  BY DEF LinkInv, PoolInv, HolderInv
<1>1. /\ MaxCompiles \in Nat /\ IsFiniteSet(Workers) /\ IsFiniteSet(Node) /\ IsFiniteSet(Shaders)
      /\ Cardinality(Workers) \in Nat
  BY PoolAssumption, NodesFinite
<1>2. SlotsHeld /\ NoSlotIdle /\ inFlight <= Cardinality(Workers)
  BY <1>0 DEF SlotInv, NoSlotIdle
<1>3. remaining \in [1 .. MaxLinks -> 0 .. MaxCompiles + 1]
  <2>1. ASSUME NEW i \in 1 .. MaxLinks PROVE remaining[i] \in 0 .. MaxCompiles + 1
    <3>1. /\ IsFiniteSet(Spots(i)) /\ IsFiniteSet(Listed(i)) /\ remaining[i] \in Int
          /\ Cardinality(Spots(i)) + Cardinality(Listed(i)) <= remaining[i]
          /\ remaining[i] <= MaxCompiles + 1
      BY <1>0 DEF OutInv, OutOf, Types
    <3>2. Cardinality(Spots(i)) \in Nat /\ Cardinality(Listed(i)) \in Nat
      BY <3>1, FS_CardinalityType
    <3>3. QED
      BY <1>1, <3>1, <3>2
  <2>2. QED
    BY <1>0, <2>1 DEF Types
<1>4. inFlight \in 0 .. Cardinality(Workers)
  <2>1. Busy \in SUBSET Workers /\ handed \in SUBSET Node
    BY <1>0 DEF Busy, Types
  <2>2. IsFiniteSet(Busy) /\ IsFiniteSet(handed)
    BY <1>1, <2>1, FS_Subset
  <2>3. Cardinality(Busy) \in Nat /\ Cardinality(handed) \in Nat
    BY <2>2, FS_CardinalityType
  <2>4. inFlight = Cardinality(handed) + Cardinality(Busy)
    BY <1>2 DEF SlotsHeld
  <2>5. QED
    BY <1>1, <1>2, <2>3, <2>4
<1>5. adopters \in [CompileNode -> 0 .. Cardinality(Shaders)]
  <2>1. ASSUME NEW n \in CompileNode PROVE adopters[n] \in 0 .. Cardinality(Shaders)
    <3>1. PICK H \in SUBSET Shaders : H = Holders(n)
      BY DEF Holders
    <3>2. adopters[n] = Cardinality(H)
      BY <1>0, <3>1 DEF HoldersCounted
    <3>3. IsFiniteSet(H) /\ Cardinality(H) <= Cardinality(Shaders)
      BY <1>1, FS_Subset
    <3>4. Cardinality(H) \in Nat /\ Cardinality(Shaders) \in Nat
      BY <1>1, <3>3, FS_CardinalityType
    <3>5. QED
      BY <3>2, <3>3, <3>4
  <2>2. QED
    BY <1>0, <2>1 DEF Types
<1>6. TypeOK
  BY <1>0, <1>3, <1>4, <1>5 DEF TypeOK, Types, LockInv, Compiled
<1>7. QED
  BY <1>0, <1>2, <1>6 DEF IInv

(* The types, slots and holders, with any number of contexts; above all    *)
(* no link's count goes below zero: an edge counts down once, on the list  *)
(* of its node or at once when the node has settled                        *)
(* (JobNode.cpp:157-170), and the guard slot once.                         *)
THEOREM TypesAndCounts == Spec => []IInv
<1>1. LinkInv => IInv
  BY LinkTypes
<1>2. QED
  BY <1>1, LinksInvariant, PTL

(* Every compile of a link's snapshot that has not settled will still      *)
(* count the link down (ProgramLinkTask.cpp:761-790), and the link's       *)
(* verdict is true of its shaders.                                         *)
THEOREM CalmLinks == Spec /\ []Calm => [](PendInv /\ LinkVerdictTrue)
<1>1. Init => PendInv /\ LinkVerdictTrue
  BY LinkInit
<1>2. LinkInv /\ Calm /\ (PendInv /\ LinkVerdictTrue) /\ [Next]_vars => (PendInv /\ LinkVerdictTrue)'
  BY LinkNext
<1>3. QED
  BY <1>1, <1>2, LinksInvariant, PTL DEF Spec

(* A link reports failure only when one of its shaders has no compile: it  *)
(* reads a compile only when that has settled                              *)
(* (ProgramLinkTask.cpp:634-642), unless another context suspends the      *)
(* pool (ProgramObject.cpp:691-703).                                       *)
THEOREM VerdictsTrue == Spec /\ []Calm => []LinkVerdictTrue
BY CalmLinks, PTL

(* With one context that holds of every behaviour, with suspensions,       *)
(* cancelled compiles, drains and thrown hand-overs in it.                 *)
THEOREM OneContextVerdicts ==
    ASSUME OneContext
    PROVE  Spec => []LinkVerdictTrue
<1>1. Calm
  BY DEF Calm
<1>2. []Calm
  BY <1>1, PTL
<1>3. QED
  BY <1>2, VerdictsTrue, PTL
-----------------------------------------------------------------------------
(* The job graph                                                           *)

LEMMA NeedsOf ==
    /\ \A n \in CompileNode : Needs(n) = {}
    /\ \A i \in 1 .. MaxLinks : Needs(Link(i)) = snap[i] \ {None} /\ Needs(Spirv(i)) = {Link(i)}
<1>1. ASSUME NEW n \in CompileNode PROVE Needs(n) = {}
  <2>1. n[1] = "compile"
    BY NodeKinds
  <2>2. QED
    BY <2>1 DEF Needs
<1>2. ASSUME NEW i \in 1 .. MaxLinks PROVE Needs(Link(i)) = snap[i] \ {None}
  <2>1. Link(i)[1] = "link" /\ Link(i)[2] = i
    BY NodeKinds
  <2>2. QED
    BY <2>1 DEF Needs
<1>3. ASSUME NEW i \in 1 .. MaxLinks PROVE Needs(Spirv(i)) = {Link(i)}
  <2>1. Spirv(i)[1] = "spirv" /\ Spirv(i)[2] = i
    BY NodeKinds
  <2>2. QED
    BY <2>1 DEF Needs
<1>4. QED
  BY <1>1, <1>2, <1>3

LEMMA DepsStay ==
    ASSUME snap' = snap
    PROVE  [n \in Node |-> Needs(n)]' = [n \in Node |-> Needs(n)]
BY DEF Needs

(* What a body that starts depends on has settled.                         *)
LEMMA NeedsReady ==
    ASSUME LinkInv, PendInv, NEW t \in Threads, NEW n \in Node, HeadIs(t, <<"run", n>>), state[n] = "Pending"
    PROVE  \A d \in Needs(n) : Terminal(d)
<1>0. PoolInv /\ Types /\ OutInv /\ SpirvInv
  BY DEF LinkInv, PoolInv
<1>1. CASE n[1] = "compile"
  BY <1>1, NodeKinds, NeedsOf
<1>2. CASE n[1] = "link"
  <2>1. PICK i \in 1 .. MaxLinks : n = Link(i)
    BY <1>2, NodeKinds
  <2>2. OnItsWay(Link(i))
    BY <2>1, HeadOnItsWay
  <2>3. \A d \in snap[i] \cap CompileNode : Terminal(d)
    BY <1>0, <2>2, LinkReady
  <2>4. Needs(n) \subseteq snap[i] \cap CompileNode
    <3>1. snap[i] \in SUBSET Compiled
      BY <1>0 DEF Types
    <3>2. Needs(n) = snap[i] \ {None}
      BY <2>1, NeedsOf
    <3>3. QED
      BY <3>1, <3>2 DEF Compiled
  <2>5. QED
    BY <2>3, <2>4
<1>3. CASE n[1] = "spirv"
  <2>1. PICK i \in 1 .. MaxLinks : n = Spirv(i)
    BY <1>3, NodeKinds
  <2>2. Terminal(Link(i))
    BY <1>0, <2>1, SpirvReady
  <2>3. Needs(n) = {Link(i)}
    BY <2>1, NeedsOf
  <2>4. QED
    BY <2>2, <2>3
<1>4. QED
  BY <1>1, <1>2, <1>3, NodeKinds

LEMMA ShapeRefines ==
    ASSUME LinkInv, PendInv, NEW t \in Threads, NEW tasks, Shape(t, tasks)
    PROVE  [Jobs!Next]_(Jobs!vars)
<1>0. PoolInv /\ Types /\ RunInv
  BY DEF LinkInv, PoolInv
<1>1. CASE Stays(t, tasks) \/ Counts(t, tasks) \/ Registers(t, tasks)
  <2>1. state' = state /\ snap' = snap
    BY <1>1 DEF Stays, Counts, Registers
  <2>2. QED
    BY <2>1, DepsStay DEF Jobs!vars
<1>2. CASE Settles(t, tasks)
  <2>1. PICK n \in Node, to \in {"Complete", "Canceled"} :
          /\ HeadIs(t, <<"finish", n>>) \/ (state[n] = "Pending" /\ to = "Canceled")
          /\ state' = [state EXCEPT ![n] = to] /\ snap' = snap
    BY <1>2 DEF Settles
  <2>2. [m \in Node |-> Needs(m)]' = [m \in Node |-> Needs(m)]
    BY <2>1, DepsStay
  <2>3. CASE state[n] = "Pending" /\ to = "Canceled"
    <3>1. Jobs!Abandon(n)
      BY <2>1, <2>2, <2>3 DEF Jobs!Abandon
    <3>2. QED
      BY <3>1 DEF Jobs!Next, Jobs!Progress
  <2>4. CASE HeadIs(t, <<"finish", n>>)
    <3>1. state[n] = "Running"
      BY <1>0, <2>4, FinishRuns
    <3>2. Jobs!Settle(n)
      BY <2>1, <2>2, <3>1 DEF Jobs!Settle
    <3>3. QED
      BY <3>2 DEF Jobs!Next, Jobs!Progress
  <2>5. QED
    BY <2>1, <2>3, <2>4
<1>3. CASE Starts(t, tasks)
  <2>1. PICK n \in Node : /\ HeadIs(t, <<"run", n>>) /\ state[n] = "Pending"
                          /\ state' = [state EXCEPT ![n] = "Running"] /\ snap' = snap
    BY <1>3 DEF Starts
  <2>2. [m \in Node |-> Needs(m)]' = [m \in Node |-> Needs(m)]
    BY <2>1, DepsStay
  <2>3. \A d \in Needs(n) : Terminal(d)
    BY <2>1, NeedsReady
  <2>4. \A d \in [m \in Node |-> Needs(m)][n] : Jobs!Terminal(d)
    BY <2>3 DEF Terminal, Jobs!Terminal
  <2>5. Jobs!Start(n)
    BY <2>1, <2>2, <2>4 DEF Jobs!Start
  <2>6. QED
    BY <2>5 DEF Jobs!Next, Jobs!Progress
<1>4. CASE MakesCompile(t, tasks)
  <2>1. PICK n \in Node : state[n] = "none" /\ state' = [state EXCEPT ![n] = "Pending"] /\ snap' = snap
    BY <1>4, NodeKinds DEF MakesCompile
  <2>2. [m \in Node |-> Needs(m)]' = [m \in Node |-> Needs(m)]
    BY <2>1, DepsStay
  <2>3. state' = [m \in Node |-> IF m \in {n} THEN "Pending" ELSE state[m]]
    BY <1>0, <2>1 DEF Types
  <2>4. Jobs!Submit({n})
    BY <2>1, <2>2, <2>3 DEF Jobs!Submit
  <2>5. {n} \in SUBSET Node
    OBVIOUS
  <2>6. QED
    BY <2>4, <2>5 DEF Jobs!Next
<1>5. CASE MakesLink(t, tasks)
  <2>1. PICK i \in 1 .. MaxLinks, nodes \in SUBSET Compiled :
          /\ state[Link(i)] = "none" /\ snap' = [snap EXCEPT ![i] = nodes]
          /\ state' = [state EXCEPT ![Link(i)] = "Pending", ![Spirv(i)] = "Pending"]
    BY <1>5 DEF MakesLink
  <2>2. state[Spirv(i)] = "none" /\ Link(i) \in Node /\ Spirv(i) \in Node
    BY <1>0, <2>1, NodeKinds DEF PoolInv, MadeInv
  <2>3. PICK S \in SUBSET Node : S = {Link(i), Spirv(i)}
    BY <2>2
  <2>4. state' = [m \in Node |-> IF m \in S THEN "Pending" ELSE state[m]]
    BY <1>0, <2>1, <2>2, <2>3 DEF Types
  <2>5. \A m \in S : state[m] = "none"
    BY <2>1, <2>2, <2>3
  <2>6. ASSUME NEW m \in Node \ S PROVE Needs(m)' = Needs(m)
    <3>1. CASE m[1] = "link"
      <4>1. PICK j \in 1 .. MaxLinks : m = Link(j)
        BY <3>1, NodeKinds
      <4>2. j # i
        BY <2>3, <4>1
      <4>3. snap'[j] = snap[j]
        BY <1>0, <2>1, <4>2 DEF Types
      <4>4. m[2] = j
        BY <4>1, NodeKinds
      <4>5. QED
        BY <3>1, <4>3, <4>4 DEF Needs
    <3>2. CASE m[1] # "link"
      BY <3>2 DEF Needs
    <3>3. QED
      BY <3>1, <3>2
  <2>7. \A m \in Node \ S : [k \in Node |-> Needs(k)]'[m] = [k \in Node |-> Needs(k)][m]
    BY <2>6
  <2>8. Jobs!Submit(S)
    BY <2>4, <2>5, <2>7 DEF Jobs!Submit
  <2>9. QED
    BY <2>8 DEF Jobs!Next
<1>6. QED
  BY <1>1, <1>2, <1>3, <1>4, <1>5 DEF Shape

LEMMA StepRefinesJobs ==
    ASSUME LinkInv, PendInv, [Next]_vars
    PROVE  [Jobs!Next]_(Jobs!vars)
<1>1. CASE UNCHANGED vars
  <2>1. state' = state /\ snap' = snap
    BY <1>1 DEF vars, nodeVars, linkVars
  <2>2. QED
    BY <2>1, DepsStay DEF Jobs!vars
<1>2. CASE Next
  <2>1. PICK t \in Threads : Shaped(t)
    BY <1>2, StepShape DEF LinkInv
  <2>2. PICK tasks : Shape(t, tasks)
    BY <2>1 DEF Shaped
  <2>3. QED
    BY <2>2, ShapeRefines
<1>3. QED
  BY <1>1, <1>2

LEMMA InitRefinesJobs ==
    ASSUME Init
    PROVE  Jobs!Init
<1>1. ASSUME NEW n \in Node PROVE Needs(n) \in SUBSET Node
  <2>1. CASE n[1] = "compile"
    BY <2>1, NodeKinds, NeedsOf
  <2>2. CASE n[1] = "link"
    <3>1. PICK i \in 1 .. MaxLinks : n = Link(i)
      BY <2>2, NodeKinds
    <3>2. Needs(n) = snap[i] \ {None} /\ snap[i] = {}
      BY <3>1, NeedsOf DEF Init
    <3>3. QED
      BY <3>2
  <2>3. CASE n[1] = "spirv"
    <3>1. PICK i \in 1 .. MaxLinks : n = Spirv(i)
      BY <2>3, NodeKinds
    <3>2. Needs(n) = {Link(i)} /\ Link(i) \in Node
      BY <3>1, NeedsOf, NodeKinds
    <3>3. QED
      BY <3>2
  <2>4. QED
    BY <2>1, <2>2, <2>3, NodeKinds
<1>2. [n \in Node |-> Needs(n)] \in [Node -> SUBSET Node]
  BY <1>1
<1>3. state = [n \in Node |-> "none"]
  BY DEF Init
<1>4. QED
  BY <1>2, <1>3 DEF Jobs!Init

(* Every step of the pool, of its callers and of its workers is a step of  *)
(* JobGraph or a stutter, under the same condition: a node runs at most    *)
(* once, after all it depends on, and what is settled stays so             *)
(* (JobNode.h:60-72).                                                      *)
THEOREM CalmPoolImplementsJobs == Spec /\ []Calm => ImplementsJobGraph
<1>1. Init => Jobs!Init
  BY InitRefinesJobs
<1>2. LinkInv /\ PendInv /\ [Next]_vars => [Jobs!Next]_(Jobs!vars)
  BY StepRefinesJobs
<1>3. QED
  BY <1>1, <1>2, LinksInvariant, CalmLinks, PTL DEF Spec, Jobs!Spec, ImplementsJobGraph

(* With one context the pool implements JobGraph.                          *)
THEOREM PoolImplementsJobs ==
    ASSUME OneContext
    PROVE  Spec => ImplementsJobGraph
<1>1. Calm
  BY DEF Calm
<1>2. []Calm
  BY <1>1, PTL
<1>3. QED
  BY <1>2, CalmPoolImplementsJobs, PTL
=============================================================================
